----------------------------- MODULE ChatProofs -----------------------------
(***************************************************************************)
(* Proofs about the chat.                                                   *)
(*                                                                         *)
(* ChatReplies, for any agents, handlers and bounds: messages end once,     *)
(* nobody is asked twice, chains are trees, and the handlers implement      *)
(* Replies.                                                                 *)
(*                                                                         *)
(* ChatStream, for any messages, limits and bounds: what the page shows is  *)
(* current, and what it does not show is announced.                         *)
(***************************************************************************)
EXTENDS ChatReplies, ChatStream, Integers, FiniteSetTheorems, SequenceTheorems, TLAPS

USE LimitsAssumption
-----------------------------------------------------------------------------
(* Type correctness.                                                        *)

\* The arbitrary author of messages that are not an agent's is an agent.
LEMMA AnyAgentType == AnyAgent \in Agents
  BY AgentsAssumption DEF AnyAgent

\* The values for "nothing there" have the types of their variables.
LEMMA NothingType == NoMsg \in Messages /\ Idle \in Handlers /\ NoWork \in Works /\ Busy \in Works
  BY AnyAgentType DEF NoMsg, Messages, Idle, Handlers, NoWork, Busy, Works, Open, Terminal, Null

\* The initial state is well typed.
LEMMA InitType == Init => TypeOK
  <1> SUFFICES ASSUME Init PROVE TypeOK
    OBVIOUS
  <1>1. members \in SUBSET Agents /\ group \in BOOLEAN /\ agent \in [Agents -> {"up", "down", "off"}]
    BY DEF Init
  <1>2. /\ msg \in [Ids -> Messages] /\ last \in 0..MaxMsgs
        /\ hand \in [Slots -> Handlers] /\ work \in [Ids -> Works]
    BY NothingType DEF Init, Ids
  <1>3. used \in Bounds
    BY DEF Init, Bounds
  <1> QED
    BY <1>1, <1>2, <1>3 DEF TypeOK

\* Spending keeps each count within its bound.
LEMMA SpendType ==
  ASSUME used \in Bounds,
         \/ Spend("asks", MaxAsks) \/ Spend("thinks", MaxThinks) \/ Upset("edits", MaxEdits)
         \/ Upset("downs", MaxDowns) \/ Upset("restarts", MaxRestarts) \/ CountFault
         \/ UNCHANGED used
  PROVE  used' \in Bounds
  <1>1. CASE Spend("asks", MaxAsks)
    BY <1>1 DEF Spend, Bounds
  <1>2. CASE Spend("thinks", MaxThinks)
    BY <1>2 DEF Spend, Bounds
  <1>3. CASE Upset("edits", MaxEdits)
    BY <1>3 DEF Upset, Spend, Bounds
  <1>4. CASE Upset("downs", MaxDowns)
    BY <1>4 DEF Upset, Spend, Bounds
  <1>5. CASE Upset("restarts", MaxRestarts)
    BY <1>5 DEF Upset, Spend, Bounds
  <1>6. CASE CountFault
    BY <1>6 DEF CountFault, Upset, Spend, Bounds
  <1> QED
    BY <1>1, <1>2, <1>3, <1>4, <1>5, <1>6

\* What the UPDATEs make of a message is a message.
LEMMA MessageType ==
  ASSUME NEW m \in Messages
  PROVE  /\ ErrorIfPending(m) \in Messages
         /\ Thinking(m) \in Messages
         /\ Swept(m) \in Messages
         /\ [m EXCEPT !.batch = TRUE] \in Messages
         /\ [m EXCEPT !.stale = TRUE] \in Messages
         /\ \A res \in Terminal : [m EXCEPT !.st = res, !.stale = FALSE] \in Messages
         /\ \A c \in 0..MaxMsgs : [m EXCEPT !.chain = c] \in Messages
  BY DEF Messages, ErrorIfPending, Thinking, Swept, Open, Terminal

\* The messages that are inserted are messages.
LEMMA InsertedType ==
  ASSUME NEW a \in Agents, NEW r \in 0..MaxMsgs, NEW c \in 0..MaxMsgs, NEW n \in 0..MaxHops
  PROVE  /\ [NoMsg EXCEPT !.st = "complete"] \in Messages
         /\ [NoMsg EXCEPT !.st = "pending", !.author = a, !.reply = r,
                          !.chain = c, !.hop = n] \in Messages
  <1>1. [NoMsg EXCEPT !.st = "complete"] \in Messages
    BY NothingType DEF Messages, Terminal
  <1>2. [NoMsg EXCEPT !.st = "pending", !.author = a, !.reply = r,
                      !.chain = c, !.hop = n] \in Messages
    BY NothingType DEF Messages, Open
  <1> QED
    BY <1>1, <1>2

\* Inserting a message keeps the table and its counter well typed.
LEMMA InsertType ==
  ASSUME msg \in [Ids -> Messages], last \in 0..MaxMsgs, last < MaxMsgs,
         NEW m \in Messages, Insert(m)
  PROVE  msg' \in [Ids -> Messages] /\ last' \in 0..MaxMsgs /\ last + 1 \in Ids
  BY DEF Insert, Ids

PCs == {"idle", "check", "place", "send", "batch", "flag", "chain", "cycle", "leave"}

\* What the steps make of a handler is a handler.
LEMMA SettledType == ASSUME NEW t \in Handlers PROVE Settled(t) \in Handlers
  BY NothingType DEF Settled

Control == UNCHANGED <<members, group, agent>>

\* Steps that leave participants and agents alone need only four types.
LEMMA ControlType ==
  ASSUME TypeOK, Control, msg' \in [Ids -> Messages], last' \in 0..MaxMsgs,
         hand' \in [Slots -> Handlers], work' \in [Ids -> Works], used' \in Bounds
  PROVE  TypeOK'
  BY DEF TypeOK, Control

\* The steps of a dispatch are well typed.
LEMMA DispatchType == ASSUME TypeOK, NEW h \in Slots, Dispatch(h) PROVE TypeOK'
  <1> DEFINE t == hand[h]
  <1>t. t \in Handlers
    BY DEF TypeOK
  <1>f. /\ t.todo \in SUBSET Agents /\ t.ok \in SUBSET Agents /\ t.me \in 0..MaxMsgs
        /\ t.chain \in 0..MaxMsgs /\ t.hop \in 0..MaxHops
        /\ t.unsent \in SUBSET Ids /\ t.failed \in SUBSET Ids /\ t.pc \in PCs
    BY <1>t DEF Handlers, PCs
  <1>u. /\ UNCHANGED used => used' \in Bounds
        /\ CountFault => used' \in Bounds
    BY SpendType DEF TypeOK
  <1>d. Done(h) => hand' \in [Slots -> Handlers]
    BY NothingType DEF Done, TypeOK
  <1>c. CannotInsert(h) => /\ msg' \in [Ids -> Messages] /\ last' \in 0..MaxMsgs
                           /\ hand' \in [Slots -> Handlers] /\ used' \in Bounds
    BY <1>d, <1>u DEF CannotInsert, TypeOK
  <1> HIDE DEF t
  <1>1. ASSUME NEW a \in Agents, CheckAgent(h, a) PROVE TypeOK'
    <2>1. [t EXCEPT !.todo = @ \ {a}, !.ok = @ \cup {a}] \in Handlers
      BY <1>t DEF Handlers
    <2>2. [t EXCEPT !.todo = @ \ {a}, !.ok = @] \in Handlers
      BY <1>t DEF Handlers
    <2>3. hand' \in [Slots -> Handlers]
      BY <1>1, <2>1, <2>2 DEF CheckAgent, TypeOK, t
    <2> QED
      BY <1>1, <1>u, <2>3, ControlType DEF CheckAgent, TypeOK, Control
  <1>2. ASSUME NEW a \in Agents, InsertPlaceholder(h, a) PROVE TypeOK'
    <2>1. CASE CannotInsert(h)
      BY <1>2, <1>c, <2>1, ControlType DEF InsertPlaceholder, TypeOK, Control
    <2>2. CASE ~CannotInsert(h)
      <3> DEFINE m == [NoMsg EXCEPT !.st = "pending", !.author = a, !.reply = t.me,
                                    !.chain = t.chain, !.hop = t.hop]
                 left == t.todo \ {a}
      <3>1. Insert(m) /\ last < MaxMsgs /\ UNCHANGED used
        BY <1>2, <2>2 DEF InsertPlaceholder, t
      <3>2. m \in Messages
        BY <1>f, InsertedType
      <3>3. msg' \in [Ids -> Messages] /\ last' \in 0..MaxMsgs /\ last + 1 \in Ids
        <4> HIDE DEF m
        <4> QED
          BY <3>1, <3>2, InsertType DEF TypeOK
      <3>4. [t EXCEPT !.todo = left, !.unsent = @ \cup {last + 1},
                      !.pc = IF left = {} THEN "send" ELSE @] \in Handlers
        BY <1>t, <3>3 DEF Handlers
      <3>5. hand' = [hand EXCEPT ![h] = [t EXCEPT !.todo = left, !.unsent = @ \cup {last + 1},
                                                 !.pc = IF left = {} THEN "send" ELSE @]]
        BY <1>2, <2>2 DEF InsertPlaceholder, t
      <3>6. hand' \in [Slots -> Handlers]
        BY <3>4, <3>5 DEF TypeOK
      <3> QED
        BY <1>2, <1>u, <3>1, <3>3, <3>6, ControlType DEF InsertPlaceholder, TypeOK, Control
    <2> QED
      BY <2>1, <2>2
  <1>3. CASE InsertUserMessage(h)
    <2>1. CASE CannotInsert(h)
      BY <1>3, <1>c, <2>1, ControlType DEF InsertUserMessage, TypeOK, Control
    <2>2. CASE t.ok = {} /\ Done(h) /\ UNCHANGED <<msg, last, used>>
      BY <1>3, <1>d, <1>u, <2>2, ControlType DEF InsertUserMessage, TypeOK, Control
    <2>3. CASE /\ last < MaxMsgs /\ Insert([NoMsg EXCEPT !.st = "complete"]) /\ UNCHANGED used
               /\ hand' = [hand EXCEPT ![h] = IF ToAsk(t.ok) = {} THEN Idle ELSE
                    [t EXCEPT !.pc = "place", !.me = last + 1, !.todo = ToAsk(t.ok), !.ok = {}]]
      <3>1. [NoMsg EXCEPT !.st = "complete"] \in Messages
        BY NothingType DEF Messages, Terminal
      <3>2. msg' \in [Ids -> Messages] /\ last' \in 0..MaxMsgs /\ last + 1 \in 0..MaxMsgs
        BY <2>3, <3>1, InsertType DEF TypeOK, Ids
      <3>3. ToAsk(t.ok) \in SUBSET Agents
        BY <1>f DEF ToAsk
      <3>4. [t EXCEPT !.pc = "place", !.me = last + 1, !.todo = ToAsk(t.ok), !.ok = {}] \in Handlers
        BY <1>t, <3>2, <3>3 DEF Handlers
      <3>5. hand' \in [Slots -> Handlers]
        BY <2>3, <3>4, NothingType DEF TypeOK
      <3> QED
        BY <1>3, <1>u, <2>3, <3>2, <3>5, ControlType DEF InsertUserMessage, TypeOK, Control
    <2> QED
      BY <1>3, <2>1, <2>2, <2>3 DEF InsertUserMessage, t
  <1>4. ASSUME NEW i \in Ids, PostWork(h, i) PROVE TypeOK'
    <2> DEFINE sent == [t EXCEPT !.unsent = @ \ {i}]
               lost == [sent EXCEPT !.failed = @ \cup {i}]
    <2>1. sent \in Handlers
      BY <1>t DEF Handlers
    <2>2. lost \in Handlers
      <3> HIDE DEF sent
      <3> QED
        BY <2>1 DEF Handlers
    <2>3. Settled(sent) \in Handlers
      BY <2>1, SettledType
    <2>4. /\ hand' = [hand EXCEPT ![h] = Settled(sent)] \/ hand' = [hand EXCEPT ![h] = lost]
          /\ work' = [work EXCEPT ![i] = Busy] \/ work' = work
          /\ CountFault \/ UNCHANGED used
      BY <1>4 DEF PostWork, t
    <2> HIDE DEF sent, lost
    <2>5. hand' \in [Slots -> Handlers] /\ work' \in [Ids -> Works] /\ used' \in Bounds
      BY <1>u, <2>2, <2>3, <2>4, NothingType DEF TypeOK
    <2> QED
      BY <1>4, <2>5, ControlType DEF PostWork, TypeOK, Control
  <1>5. ASSUME NEW i \in Ids, MarkFailed(h, i) PROVE TypeOK'
    <2>1. [t EXCEPT !.failed = @ \ {i}] \in Handlers
      BY <1>t DEF Handlers
    <2>2. hand' \in [Slots -> Handlers]
      BY <1>5, <2>1, SettledType DEF MarkFailed, TypeOK, t
    <2>m. ErrorIfPending(msg[i]) \in Messages
      BY MessageType DEF TypeOK
    <2>3. msg' \in [Ids -> Messages]
      BY <1>5, <2>m DEF MarkFailed, TypeOK
    <2> QED
      BY <1>5, <1>u, <2>2, <2>3, ControlType DEF MarkFailed, TypeOK, Control
  <1> QED
    BY <1>1, <1>2, <1>3, <1>4, <1>5 DEF Dispatch

\* A handler that goes on after a callback has a message.
Serving == \A h \in Slots : hand[h].pc \in {"batch", "flag", "chain"} => hand[h].me # Null

\* The steps of a callback are well typed.
LEMMA CallbackType == ASSUME TypeOK, Serving, NEW h \in Slots, Callback(h) PROVE TypeOK'
  <1> DEFINE t == hand[h]
  <1>t. t \in Handlers
    BY DEF TypeOK
  <1>f. /\ t.todo \in SUBSET Agents /\ t.ok \in SUBSET Agents /\ t.say \in SUBSET Agents
        /\ t.me \in 0..MaxMsgs
    BY <1>t DEF Handlers
  <1>u. /\ UNCHANGED used => used' \in Bounds
        /\ CountFault => used' \in Bounds
    BY SpendType DEF TypeOK
  <1>d. Done(h) => hand' \in [Slots -> Handlers]
    BY NothingType DEF Done, TypeOK
  <1>g. \A pc \in PCs : Goto(h, pc) => hand' \in [Slots -> Handlers]
    <2>1. \A pc \in PCs : [t EXCEPT !.pc = pc] \in Handlers
      <3> HIDE DEF t
      <3> QED
        BY <1>t DEF Handlers, PCs
    <2> QED
      BY <2>1 DEF Goto, TypeOK
  <1> HIDE DEF t
  <1>e. ASSUME NEW i \in Ids, NEW res \in Terminal, NEW say \in SUBSET Agents,
               TerminalCallback(h, i, res, say)
        PROVE  msg' \in [Ids -> Messages] /\ hand' \in [Slots -> Handlers]
    <2>1. msg' \in [Ids -> Messages]
      <3>1. [msg[i] EXCEPT !.st = res, !.stale = FALSE] \in Messages
        BY MessageType DEF TypeOK
      <3> QED
        BY <1>e, <3>1 DEF TerminalCallback, TypeOK
    <2> DEFINE told == IF res = "complete" THEN say ELSE {}
    <2>2. [Idle EXCEPT !.pc = "batch", !.me = i, !.say = told] \in Handlers
      <3>1. told \in SUBSET Agents /\ i \in 0..MaxMsgs
        BY DEF Ids
      <3> HIDE DEF told
      <3> QED
        BY <3>1, NothingType DEF Handlers
    <2>3. hand' \in [Slots -> Handlers]
      BY <1>e, <2>2 DEF TerminalCallback, TypeOK
    <2> QED
      BY <2>1, <2>3
  <1>1. ASSUME NEW i \in Ids, NEW res \in Terminal, NEW say \in SUBSET Agents, Answer(h, i, res, say)
        PROVE  TypeOK'
    <2>1. TerminalCallback(h, i, res, say)
      BY <1>1 DEF Answer
    <2>2. [st |-> "told", res |-> res, say |-> say] \in Works
      BY DEF Works
    <2>3. work' \in [Ids -> Works] /\ used' \in Bounds
      BY <1>1, <1>u, <2>2, NothingType DEF Answer, TypeOK
    <2> QED
      BY <1>e, <2>1, <2>3, ControlType DEF TerminalCallback, TypeOK, Control
  <1>2. ASSUME NEW i \in Ids, AnswerAgain(h, i) PROVE TypeOK'
    <2>1. TerminalCallback(h, i, work[i].res, work[i].say)
      BY <1>2 DEF AnswerAgain
    <2>2. work[i].res \in Terminal /\ work[i].say \in SUBSET Agents
      BY DEF TypeOK, Works
    <2>3. work' \in [Ids -> Works] /\ used' \in Bounds
      BY <1>2, <1>u, NothingType DEF AnswerAgain, TypeOK
    <2> QED
      BY <1>e, <2>1, <2>2, <2>3, ControlType DEF TerminalCallback, TypeOK, Control
  <1>3. CASE CountBatch(h)
    <2>1. hand' \in [Slots -> Handlers]
      BY <1>3, <1>g, <1>d DEF CountBatch, PCs
    <2> QED
      BY <1>3, <1>u, <2>1, ControlType DEF CountBatch, TypeOK, Control
  <1>4. CASE FlagBatch(h)
    <2>1. hand' \in [Slots -> Handlers]
      BY <1>4, <1>g DEF FlagBatch, PCs
    <2>2. msg' \in [Ids -> Messages]
      <3>1. hand[h].me \in Ids => [msg[hand[h].me] EXCEPT !.batch = TRUE] \in Messages
        BY MessageType DEF TypeOK
      <3> QED
        BY <1>4, <3>1 DEF FlagBatch, TypeOK
    <2> QED
      BY <1>4, <1>u, <2>1, <2>2, ControlType DEF FlagBatch, TypeOK, Control
  <1>5. CASE BeginChain(h)
    <2> DEFINE me == t.me
               id == ChainOf(me)
    <2>1. CASE UNCHANGED msg /\ Done(h)
      BY <1>5, <1>u, <1>d, <2>1, ControlType DEF BeginChain, TypeOK, Control
    <2>2. CASE /\ msg' = [msg EXCEPT ![me] = [@ EXCEPT !.chain = id]]
               /\ hand' = [hand EXCEPT ![h] = IF HopAllowed(msg[me].hop + 1)
                    THEN [t EXCEPT !.pc = "cycle", !.todo = ChainTargets(h), !.say = {},
                                   !.chain = id, !.hop = msg[me].hop + 1]
                    ELSE Idle]
               /\ UNCHANGED used
               /\ me # Null
      <3>1. me \in Ids
        BY <1>f, <2>2 DEF Ids, Null
      <3>2. id \in 0..MaxMsgs /\ msg[me].hop \in 0..MaxHops /\ msg[me] \in Messages
        BY <3>1 DEF ChainOf, TypeOK, Messages, Ids
      <3>3. ChainTargets(h) \in SUBSET Agents
        BY <1>f DEF ChainTargets, t
      <3> HIDE DEF id, me
      <3>4. msg' \in [Ids -> Messages]
        <4>1. [msg[me] EXCEPT !.chain = id] \in Messages
          BY <3>2, MessageType
        <4> QED
          BY <2>2, <3>1, <4>1 DEF TypeOK
      <3>5. HopAllowed(msg[me].hop + 1) =>
              [t EXCEPT !.pc = "cycle", !.todo = ChainTargets(h), !.say = {},
                        !.chain = id, !.hop = msg[me].hop + 1] \in Handlers
        <4>1. HopAllowed(msg[me].hop + 1) => msg[me].hop + 1 \in 0..MaxHops
          BY <3>2 DEF HopAllowed
        <4> QED
          BY <1>t, <3>2, <3>3, <4>1 DEF Handlers
      <3>6. hand' \in [Slots -> Handlers]
        BY <2>2, <3>5, NothingType DEF TypeOK
      <3> QED
        BY <1>5, <1>u, <2>2, <3>4, <3>6, ControlType DEF BeginChain, TypeOK, Control
    <2> QED
      BY <1>5, <2>1, <2>2 DEF BeginChain, At, Serving, t
  <1>6. CASE FilterChain(h)
    <2> DEFINE fresh == t.todo \ InChain(t.chain)
    <2>1. [t EXCEPT !.pc = "check", !.todo = fresh] \in Handlers
      BY <1>t DEF Handlers
    <2>2. hand' \in [Slots -> Handlers]
      BY <1>6, <1>d, <2>1, NothingType DEF FilterChain, TypeOK, t
    <2> QED
      BY <1>6, <1>u, <2>2, ControlType DEF FilterChain, TypeOK, Control
  <1>7. CASE DispatchChain(h)
    <2>1. [t EXCEPT !.pc = "place", !.todo = t.ok, !.ok = {}] \in Handlers
      BY <1>t DEF Handlers
    <2>2. hand' \in [Slots -> Handlers]
      BY <1>7, <2>1, NothingType DEF DispatchChain, TypeOK, t
    <2> QED
      BY <1>7, <1>u, <2>2, ControlType DEF DispatchChain, TypeOK, Control
  <1> QED
    BY <1>1, <1>2, <1>3, <1>4, <1>5, <1>6, <1>7 DEF Callback

\* The other steps are well typed.
LEMMA OtherType == ASSUME TypeOK, Edit \/ Around PROVE TypeOK'
  <1>m. \A i \in Ids : msg[i] \in Messages
    BY DEF TypeOK
  <1>u. /\ UNCHANGED used => used' \in Bounds
        /\ CountFault => used' \in Bounds
        /\ Upset("edits", MaxEdits) => used' \in Bounds
        /\ Spend("thinks", MaxThinks) => used' \in Bounds
        /\ Upset("downs", MaxDowns) => used' \in Bounds
        /\ Upset("restarts", MaxRestarts) => used' \in Bounds
    BY SpendType DEF TypeOK
  <1>p. ASSUME NEW a \in Agents, ErrorPendingOf(a) PROVE msg' \in [Ids -> Messages]
    BY <1>m, <1>p, MessageType DEF ErrorPendingOf
  <1>1. CASE Cancel
    <2>1. msg' \in [Ids -> Messages]
      BY <1>1, <1>m, MessageType DEF Cancel
    <2> QED
      BY <1>1, <1>u, <2>1, ControlType DEF Cancel, TypeOK, Control
  <1>2. ASSUME NEW a \in Agents, AddAgent(a) PROVE TypeOK'
    BY <1>2, <1>u DEF AddAgent, TypeOK
  <1>3. ASSUME NEW a \in Agents, NEW h \in Slots, RemoveAgent(h, a) PROVE TypeOK'
    <2>1. [Idle EXCEPT !.pc = "leave", !.todo = {a}] \in Handlers
      BY NothingType DEF Handlers
    <2>2. hand' \in [Slots -> Handlers]
      BY <1>3, <2>1 DEF RemoveAgent, TypeOK
    <2>3. msg' \in [Ids -> Messages]
      BY <1>3, <1>p DEF RemoveAgent
    <2> QED
      BY <1>3, <1>u, <2>2, <2>3, ControlType DEF RemoveAgent, TypeOK, Control
  <1>4. ASSUME NEW h \in Slots, Leave(h) PROVE TypeOK'
    BY <1>4, <1>u, NothingType DEF Leave, Done, TypeOK
  <1>5. ASSUME NEW i \in Ids, Think(i) \/ GrowStale(i) PROVE TypeOK'
    <2>1. msg' \in [Ids -> Messages]
      <3>1. Thinking(msg[i]) \in Messages /\ [msg[i] EXCEPT !.stale = TRUE] \in Messages
        BY <1>m, MessageType
      <3> QED
        BY <1>5, <3>1 DEF Think, GrowStale, TypeOK
    <2> QED
      BY <1>5, <1>u, <2>1, ControlType DEF Think, GrowStale, TypeOK, Control
  <1>6. ASSUME NEW i \in Ids, LoseCallback(i) PROVE TypeOK'
    <2>1. work' \in [Ids -> Works]
      BY <1>6, NothingType DEF LoseCallback, TypeOK
    <2> QED
      BY <1>6, <1>u, <2>1, ControlType DEF LoseCallback, TypeOK, Control
  <1>7. CASE SweepStale \/ LoadThread
    <2>1. msg' \in [Ids -> Messages]
      BY <1>7, <1>m, MessageType DEF SweepStale, LoadThread
    <2> QED
      BY <1>7, <1>u, <2>1, ControlType DEF SweepStale, LoadThread, TypeOK, Control
  <1>8. ASSUME NEW a \in Agents, AgentDown(a) PROVE TypeOK'
    <2>1. work' \in [Ids -> Works]
      BY <1>8, NothingType DEF AgentDown, TypeOK
    <2> QED
      BY <1>8, <1>u, <2>1 DEF AgentDown, TypeOK
  <1>9. ASSUME NEW a \in Agents, StopCleanup(a) PROVE TypeOK'
    BY <1>9, <1>u, <1>p, ControlType DEF StopCleanup, TypeOK, Control
  <1>10. ASSUME NEW a \in Agents, AgentOff(a) \/ AgentUp(a) PROVE TypeOK'
    BY <1>10, <1>u DEF AgentOff, AgentUp, TypeOK
  <1>11. CASE ApiRestart
    <2>1. hand' \in [Slots -> Handlers]
      BY <1>11, NothingType DEF ApiRestart
    <2> QED
      BY <1>11, <1>u, <2>1, ControlType DEF ApiRestart, TypeOK, Control
  <1> QED
    BY <1>1, <1>2, <1>3, <1>4, <1>5, <1>6, <1>7, <1>8, <1>9, <1>10, <1>11 DEF Edit, Around
-----------------------------------------------------------------------------
(* Dispatch.  The inductive invariant follows a dispatch from the handler   *)
(* that owns it to the callbacks: a message has at most one handler that    *)
(* may dispatch it; posts, work and callbacks exist only for placeholders   *)
(* of messages that are dispatched for good.                                *)

\* steps of a handler before its dispatch is complete
Pre == {"batch", "flag", "chain", "cycle", "check", "place"}
\* message r is dispatched for good: no placeholder will be added to it
Dispatched(r) == /\ msg[r].st \in Terminal
                 /\ \A h \in Slots : hand[h].pc \in Pre => hand[h].me # r
InDispatchedBatch(i) == Placeholder(i) /\ Dispatched(msg[i].reply)

Counted == \A i \in Ids : msg[i].st # "none" => i <= last
HandsEnded == \A h \in Slots : hand[h].pc \in Pre /\ hand[h].me # Null
                                 => msg[hand[h].me].st \in Terminal
ParentsEnded == \A j \in Ids : Placeholder(j) => msg[msg[j].reply].st \in Terminal
OneHandler == \A h, g \in Slots : /\ hand[h].pc \in Pre /\ hand[g].pc \in Pre
                                  /\ hand[h].me = hand[g].me /\ hand[h].me # Null
                                  => h = g
NotYetAsked == \A h \in Slots : hand[h].pc \in Pre /\ hand[h].me # Null =>
                  \A j \in Ids : Placeholder(j) /\ msg[j].reply = hand[h].me =>
                      hand[h].pc = "place" /\ msg[j].author \notin hand[h].todo
Placed == \A h \in Slots :
             /\ hand[h].pc \in Pre \ {"place"} => hand[h].unsent = {}
             /\ hand[h].pc = "place" => /\ hand[h].me # Null
                                        /\ \A i \in hand[h].unsent :
                                              Placeholder(i) /\ msg[i].reply = hand[h].me
Sent == \A h \in Slots : hand[h].pc = "send" => \A i \in hand[h].unsent : InDispatchedBatch(i)
Worked == \A i \in Ids : work[i].st # "idle" => InDispatchedBatch(i)
Ending == \A h \in Slots : hand[h].pc \in {"batch", "flag"} => InDispatchedBatch(hand[h].me)
Flagging == \A h \in Slots : hand[h].pc = "flag" =>
               \A j \in Ids : Placeholder(j) /\ msg[j].reply = msg[hand[h].me].reply
                                  => msg[j].st \in Terminal
Flagged == \A i \in Ids : msg[i].batch => InDispatchedBatch(i)

DispatchInv == /\ TypeOK /\ Serving /\ Counted /\ HandsEnded /\ ParentsEnded /\ OneHandler
               /\ NotYetAsked /\ Placed /\ Sent /\ Worked /\ Ending /\ Flagging /\ Flagged
               /\ BatchFlagIsTrue /\ AskedOnce

\* What most steps do to a message: nothing but move an open one forward.
QuietRec(m, n) == /\ n.author = m.author /\ n.reply = m.reply
                  /\ n.st = "none" <=> m.st = "none"
                  /\ m.st \in Terminal => n.st = m.st
QuietMsg == /\ last' = last
            /\ \A i \in Ids : /\ QuietRec(msg[i], msg'[i])
                              /\ msg'[i].batch => \/ msg[i].batch
                                                  \/ \E h \in Slots : hand[h].pc = "flag"
                                                                     /\ hand[h].me = i
\* What most steps do to a handler: it goes on with the same message, or ends.
QuietHandler(t, n) ==
    /\ n.pc \in Pre /\ n.me # Null => t.pc \in Pre /\ n.me = t.me /\ (t.pc = "place" => n.pc = "place")
    /\ n.pc \in {"batch", "flag", "chain"} => t.pc \in {"batch", "flag", "chain"} /\ n.me = t.me
    /\ n.pc = "batch" => t.pc = "batch"
    /\ n.pc = "flag" => t.pc = "flag" \/ (t.pc = "batch" /\ AllTerminal(msg[t.me].reply))
    /\ n.pc = "place" => /\ n.me = t.me /\ n.unsent = t.unsent
                         /\ \/ t.pc = "check" /\ t.me # Null
                            \/ t.pc = "place" /\ n.todo \subseteq t.todo
    /\ n.pc \in Pre \ {"place"} => n.unsent = {} \/ (t.pc \in Pre \ {"place"} /\ n.unsent = t.unsent)
    /\ n.pc = "send" => t.pc = "send" /\ n.unsent \subseteq t.unsent
QuietHand == \A h \in Slots : QuietHandler(hand[h], hand'[h])
QuietWork == \A i \in Ids : work'[i].st # "idle" =>
                \/ work[i].st # "idle"
                \/ \E h \in Slots : hand[h].pc = "send" /\ i \in hand[h].unsent

\* Messages of a well-typed table refer to messages of the table.
LEMMA Refers ==
  ASSUME TypeOK
  PROVE  /\ \A i \in Ids : Placeholder(i) => msg[i].reply \in Ids
         /\ \A h \in Slots : hand[h].me # Null => hand[h].me \in Ids
         /\ \A h \in Slots : hand[h].unsent \subseteq Ids
  BY DEF TypeOK, Messages, Handlers, Placeholder, Ids, Null

\* A message that is dispatched for good stays so over quiet steps.
LEMMA DispatchedQuiet ==
  ASSUME QuietMsg, QuietHand, NEW r \in Ids, Dispatched(r)
  PROVE  Dispatched(r)'
  <1>1. msg'[r].st \in Terminal
    BY DEF QuietMsg, QuietRec, Dispatched
  <1>2. ASSUME NEW h \in Slots, hand'[h].pc \in Pre, hand'[h].me = r PROVE FALSE
    <2>1. r # Null
      BY DEF Ids, Null
    <2> QED
      BY <1>2, <2>1 DEF QuietHand, QuietHandler, Dispatched
  <1> QED
    BY <1>1, <1>2 DEF Dispatched

\* A quiet step keeps the invariant.
LEMMA QuietStep ==
  ASSUME DispatchInv, TypeOK', QuietMsg, QuietHand, QuietWork
  PROVE  DispatchInv'
  <1>r. /\ \A i \in Ids : Placeholder(i) => msg[i].reply \in Ids
        /\ \A h \in Slots : hand[h].me # Null => hand[h].me \in Ids
        /\ \A h \in Slots : hand[h].unsent \subseteq Ids
    BY Refers DEF DispatchInv
  <1>p. \A i \in Ids : /\ Placeholder(i)' <=> Placeholder(i)
                       /\ msg'[i].reply = msg[i].reply /\ msg'[i].author = msg[i].author
                       /\ msg[i].st \in Terminal => msg'[i].st \in Terminal
    BY DEF QuietMsg, QuietRec, Placeholder
  <1>d. \A i \in Ids : InDispatchedBatch(i) => InDispatchedBatch(i)'
    BY <1>r, <1>p, DispatchedQuiet DEF InDispatchedBatch
  <1>1. Serving'
    BY DEF DispatchInv, Serving, QuietHand, QuietHandler
  <1>2. Counted'
    BY DEF DispatchInv, Counted, QuietMsg, QuietRec
  <1>3. HandsEnded'
    BY <1>r, <1>p DEF DispatchInv, HandsEnded, QuietHand, QuietHandler
  <1>4. ParentsEnded'
    BY <1>r, <1>p DEF DispatchInv, ParentsEnded
  <1>5. OneHandler'
    BY DEF DispatchInv, OneHandler, QuietHand, QuietHandler
  <1>6. NotYetAsked'
    <2> SUFFICES ASSUME NEW h \in Slots, hand'[h].pc \in Pre, hand'[h].me # Null,
                        NEW j \in Ids, Placeholder(j)', msg'[j].reply = hand'[h].me
                 PROVE  hand'[h].pc = "place" /\ msg'[j].author \notin hand'[h].todo
      BY DEF NotYetAsked
    <2>1. hand[h].pc = "place" /\ msg[j].author \notin hand[h].todo
      BY <1>p DEF DispatchInv, NotYetAsked, QuietHand, QuietHandler
    <2> QED
      BY <1>p, <2>1 DEF QuietHand, QuietHandler
  <1>7. Placed'
    <2>1. ASSUME NEW h \in Slots, hand'[h].pc \in Pre \ {"place"} PROVE hand'[h].unsent = {}
      BY <2>1 DEF DispatchInv, Placed, QuietHand, QuietHandler
    <2>2. ASSUME NEW h \in Slots, hand'[h].pc = "place"
          PROVE  /\ hand'[h].me # Null
                 /\ \A i \in hand'[h].unsent : Placeholder(i)' /\ msg'[i].reply = hand'[h].me
      <3>1. hand'[h].me = hand[h].me /\ hand'[h].unsent = hand[h].unsent
        BY <2>2 DEF QuietHand, QuietHandler
      <3>2. CASE hand[h].pc = "check" /\ hand[h].me # Null
        BY <3>1, <3>2 DEF DispatchInv, Placed, Pre
      <3>3. CASE hand[h].pc = "place"
        BY <3>1, <3>3, <1>r, <1>p DEF DispatchInv, Placed
      <3> QED
        BY <2>2, <3>2, <3>3 DEF QuietHand, QuietHandler
    <2> QED
      BY <2>1, <2>2 DEF Placed
  <1>8. Sent'
    BY <1>r, <1>d DEF DispatchInv, Sent, QuietHand, QuietHandler
  <1>9. Worked'
    BY <1>d DEF DispatchInv, Worked, Sent, QuietWork
  <1>10. Ending'
    <2> SUFFICES ASSUME NEW h \in Slots, hand'[h].pc \in {"batch", "flag"}
                 PROVE  InDispatchedBatch(hand[h].me)' /\ hand'[h].me = hand[h].me
      BY DEF Ending, InDispatchedBatch, Dispatched, Placeholder
    <2>1. hand[h].pc \in {"batch", "flag"} /\ hand'[h].me = hand[h].me
      BY DEF QuietHand, QuietHandler
    <2>2. hand[h].me \in Ids
      BY <1>r, <2>1 DEF DispatchInv, Serving
    <2> QED
      BY <1>d, <2>1, <2>2 DEF DispatchInv, Ending
  <1>11. Flagging'
    <2> SUFFICES ASSUME NEW h \in Slots, hand'[h].pc = "flag", NEW j \in Ids,
                        Placeholder(j)', msg'[j].reply = msg'[hand'[h].me].reply
                 PROVE  msg'[j].st \in Terminal
      BY DEF Flagging
    <2>1. /\ hand[h].pc = "flag" \/ (hand[h].pc = "batch" /\ AllTerminal(msg[hand[h].me].reply))
          /\ hand'[h].me = hand[h].me
      BY DEF QuietHand, QuietHandler
    <2>2. hand[h].me \in Ids
      BY <1>r, <2>1 DEF DispatchInv, Serving
    <2>3. Placeholder(j) /\ msg[j].reply = msg[hand[h].me].reply
      BY <1>p, <2>1, <2>2
    <2>4. msg[j].st \in Terminal
      BY <2>1, <2>3 DEF DispatchInv, Flagging, AllTerminal, Siblings
    <2> QED
      BY <1>p, <2>4
  <1>12. Flagged'
    BY <1>d DEF DispatchInv, Flagged, Ending, QuietMsg
  <1>13. BatchFlagIsTrue'
    <2> SUFFICES ASSUME NEW i \in Ids, NEW j \in Ids, msg'[i].batch,
                        Placeholder(j)', msg'[j].reply = msg'[i].reply
                 PROVE  msg'[j].st \in Terminal
      BY DEF BatchFlagIsTrue
    <2>1. Placeholder(j) /\ msg[j].reply = msg[i].reply
      BY <1>p
    <2>2. CASE msg[i].batch
      BY <1>p, <2>1, <2>2 DEF DispatchInv, BatchFlagIsTrue
    <2>3. CASE \E h \in Slots : hand[h].pc = "flag" /\ hand[h].me = i
      BY <1>p, <2>1, <2>3 DEF DispatchInv, Flagging
    <2> QED
      BY <2>2, <2>3 DEF QuietMsg
  <1>14. AskedOnce'
    BY <1>p DEF DispatchInv, AskedOnce
  <1> QED
    BY <1>1, <1>2, <1>3, <1>4, <1>5, <1>6, <1>7, <1>8, <1>9, <1>10, <1>11, <1>12, <1>13, <1>14
    DEF DispatchInv

\* Leaving alone is quiet, and so is ending a handler.
LEMMA QuietSame ==
  ASSUME TypeOK
  PROVE  /\ UNCHANGED <<msg, last>> => QuietMsg
         /\ UNCHANGED hand => QuietHand
         /\ UNCHANGED work => QuietWork
         /\ \A h \in Slots : Done(h) => QuietHand
         /\ (\A g \in Slots : hand'[g] = Idle) => QuietHand
  <1>1. UNCHANGED <<msg, last>> => QuietMsg
    BY DEF QuietMsg, QuietRec
  <1>2. \A t : QuietHandler(t, t)
    BY DEF QuietHandler
  <1>3. \A t : QuietHandler(t, Idle)
    BY DEF QuietHandler, Idle, Pre
  <1>4. UNCHANGED hand => QuietHand
    BY <1>2 DEF QuietHand
  <1>5. UNCHANGED work => QuietWork
    BY DEF QuietWork
  <1>6. \A h \in Slots : Done(h) => QuietHand
    BY <1>2, <1>3 DEF QuietHand, Done, TypeOK
  <1> QED
    BY <1>1, <1>3, <1>4, <1>5, <1>6 DEF QuietHand

\* A step of one handler is quiet when it is quiet for that handler.
LEMMA QuietOne ==
  ASSUME TypeOK, NEW h \in Slots, NEW n, hand' = [hand EXCEPT ![h] = n], QuietHandler(hand[h], n)
  PROVE  QuietHand
  <1>1. \A t : QuietHandler(t, t)
    BY DEF QuietHandler
  <1> QED
    BY <1>1 DEF QuietHand, TypeOK

\* The guarded UPDATEs are quiet.
LEMMA QuietUpdate ==
  ASSUME NEW m \in Messages, NEW c
  PROVE  /\ QuietRec(m, ErrorIfPending(m)) /\ ErrorIfPending(m).batch = m.batch
         /\ QuietRec(m, Thinking(m)) /\ Thinking(m).batch = m.batch
         /\ QuietRec(m, Swept(m)) /\ Swept(m).batch = m.batch
         /\ QuietRec(m, [m EXCEPT !.stale = TRUE]) /\ [m EXCEPT !.stale = TRUE].batch = m.batch
         /\ QuietRec(m, [m EXCEPT !.chain = c]) /\ [m EXCEPT !.chain = c].batch = m.batch
         /\ QuietRec(m, [m EXCEPT !.batch = TRUE])
         /\ QuietRec(m, m)
  BY DEF Messages, QuietRec, ErrorIfPending, Thinking, Swept, Sweepable, Open, Terminal

\* Steps around the handlers are quiet.
LEMMA QuietOther == ASSUME TypeOK, Edit \/ Around PROVE QuietMsg /\ QuietHand /\ QuietWork
  <1>m. \A i \in Ids : msg[i] \in Messages
    BY DEF TypeOK
  <1>e. ASSUME NEW a \in Agents, ErrorPendingOf(a), UNCHANGED last PROVE QuietMsg
    BY <1>e, <1>m, QuietUpdate DEF ErrorPendingOf, QuietMsg
  <1>1. CASE Cancel
    <2>1. QuietMsg
      BY <1>1, <1>m, QuietUpdate DEF Cancel, QuietMsg
    <2> QED
      BY <1>1, <2>1, QuietSame DEF Cancel
  <1>2. ASSUME NEW a \in Agents, AddAgent(a) PROVE QuietMsg /\ QuietHand /\ QuietWork
    BY <1>2, QuietSame DEF AddAgent
  <1>3. ASSUME NEW a \in Agents, NEW h \in Slots, RemoveAgent(h, a)
        PROVE  QuietMsg /\ QuietHand /\ QuietWork
    <2> DEFINE n == [Idle EXCEPT !.pc = "leave", !.todo = {a}]
    <2>1. QuietHandler(hand[h], n)
      BY DEF QuietHandler, Idle, Pre
    <2>2. hand' = [hand EXCEPT ![h] = n]
      BY <1>3 DEF RemoveAgent
    <2> HIDE DEF n
    <2>3. QuietHand
      BY <2>1, <2>2, QuietOne
    <2> QED
      BY <1>3, <1>e, <2>3, QuietSame DEF RemoveAgent
  <1>4. ASSUME NEW h \in Slots, Leave(h) PROVE QuietMsg /\ QuietHand /\ QuietWork
    BY <1>4, QuietSame DEF Leave
  <1>5. ASSUME NEW i \in Ids, Think(i) \/ GrowStale(i) PROVE QuietMsg /\ QuietHand /\ QuietWork
    <2> DEFINE stale == [msg[i] EXCEPT !.stale = TRUE]
    <2>1. /\ QuietRec(msg[i], Thinking(msg[i])) /\ Thinking(msg[i]).batch = msg[i].batch
          /\ QuietRec(msg[i], stale) /\ stale.batch = msg[i].batch
          /\ \A j \in Ids : QuietRec(msg[j], msg[j])
      BY <1>m, QuietUpdate
    <2>2. QuietMsg
      <3>1. msg' = [msg EXCEPT ![i] = Thinking(msg[i])] \/ msg' = [msg EXCEPT ![i] = stale]
        BY <1>5 DEF Think, GrowStale
      <3> HIDE DEF stale
      <3> QED
        BY <1>5, <2>1, <3>1 DEF Think, GrowStale, QuietMsg, TypeOK
    <2> QED
      BY <1>5, <2>2, QuietSame DEF Think, GrowStale
  <1>6. ASSUME NEW i \in Ids, LoseCallback(i) PROVE QuietMsg /\ QuietHand /\ QuietWork
    <2>1. QuietWork
      BY <1>6 DEF LoseCallback, QuietWork, NoWork, TypeOK
    <2> QED
      BY <1>6, <2>1, QuietSame DEF LoseCallback
  <1>7. CASE SweepStale \/ LoadThread
    <2>1. QuietMsg
      BY <1>7, <1>m, QuietUpdate DEF SweepStale, LoadThread, QuietMsg
    <2> QED
      BY <1>7, <2>1, QuietSame DEF SweepStale, LoadThread
  <1>8. ASSUME NEW a \in Agents, AgentDown(a) PROVE QuietMsg /\ QuietHand /\ QuietWork
    <2>1. QuietWork
      BY <1>8 DEF AgentDown, QuietWork, NoWork
    <2> QED
      BY <1>8, <2>1, QuietSame DEF AgentDown
  <1>9. ASSUME NEW a \in Agents, StopCleanup(a) PROVE QuietMsg /\ QuietHand /\ QuietWork
    BY <1>9, <1>e, QuietSame DEF StopCleanup
  <1>10. ASSUME NEW a \in Agents, AgentOff(a) \/ AgentUp(a) PROVE QuietMsg /\ QuietHand /\ QuietWork
    BY <1>10, QuietSame DEF AgentOff, AgentUp
  <1>11. CASE ApiRestart
    <2>1. \A g \in Slots : hand'[g] = Idle
      BY <1>11 DEF ApiRestart
    <2> QED
      BY <1>11, <2>1, QuietSame DEF ApiRestart
  <1> QED
    BY <1>1, <1>2, <1>3, <1>4, <1>5, <1>6, <1>7, <1>8, <1>9, <1>10, <1>11 DEF Edit, Around

\* Steps of a handler that neither insert nor claim a message are quiet.
LEMMA QuietHandlerSteps ==
  ASSUME TypeOK, Serving, NEW h \in Slots,
         \/ \E S \in SUBSET Agents : PostMessage(h, S)
         \/ \E a \in Agents : CheckAgent(h, a)
         \/ \E i \in Ids : PostWork(h, i) \/ MarkFailed(h, i)
         \/ CountBatch(h) \/ FlagBatch(h) \/ BeginChain(h) \/ FilterChain(h) \/ DispatchChain(h)
  PROVE  QuietMsg /\ QuietHand /\ QuietWork
  <1> DEFINE t == hand[h]
  <1>t. t \in Handlers
    BY DEF TypeOK
  <1>m. \A i \in Ids : msg[i] \in Messages /\ QuietRec(msg[i], msg[i])
    BY QuietUpdate DEF TypeOK
  <1>1. ASSUME NEW S \in SUBSET Agents, PostMessage(h, S) PROVE QuietMsg /\ QuietHand /\ QuietWork
    <2> DEFINE n == [Idle EXCEPT !.pc = "check", !.todo = S]
    <2>1. QuietHandler(t, n)
      BY DEF QuietHandler, Idle, Pre, Null
    <2>2. hand' = [hand EXCEPT ![h] = n]
      BY <1>1 DEF PostMessage
    <2> HIDE DEF n
    <2> QED
      BY <1>1, <2>1, <2>2, QuietOne, QuietSame DEF PostMessage
  <1>2. ASSUME NEW a \in Agents, CheckAgent(h, a) PROVE QuietMsg /\ QuietHand /\ QuietWork
    <2> DEFINE n == [t EXCEPT !.todo = @ \ {a}, !.ok = IF Fit(h, a) THEN @ \cup {a} ELSE @]
    <2>1. n.pc = "check" /\ t.pc = "check" /\ n.me = t.me /\ n.unsent = t.unsent
      BY <1>2, <1>t DEF CheckAgent, At, Handlers
    <2>2. hand' = [hand EXCEPT ![h] = n]
      BY <1>2 DEF CheckAgent
    <2> HIDE DEF n
    <2>3. QuietHandler(t, n)
      BY <2>1 DEF QuietHandler, Pre
    <2> QED
      BY <1>2, <2>2, <2>3, QuietOne, QuietSame DEF CheckAgent
  <1>3. ASSUME NEW i \in Ids, PostWork(h, i) PROVE QuietMsg /\ QuietHand /\ QuietWork
    <2> DEFINE sent == [t EXCEPT !.unsent = @ \ {i}]
               lost == [sent EXCEPT !.failed = @ \cup {i}]
    <2>1. /\ sent.pc = "send" /\ lost.pc = "send" /\ t.pc = "send"
          /\ sent.unsent \subseteq t.unsent /\ lost.unsent \subseteq t.unsent
      BY <1>3, <1>t DEF PostWork, At, Handlers
    <2>2. /\ hand' = [hand EXCEPT ![h] = Settled(sent)] \/ hand' = [hand EXCEPT ![h] = lost]
          /\ work' = [work EXCEPT ![i] = Busy] \/ work' = work
          /\ i \in t.unsent
      BY <1>3 DEF PostWork
    <2> HIDE DEF sent, lost
    <2>3. QuietHandler(t, Settled(sent)) /\ QuietHandler(t, lost)
      BY <2>1 DEF QuietHandler, Pre, Settled, Idle
    <2>4. QuietWork
      BY <2>1, <2>2 DEF QuietWork, TypeOK
    <2> QED
      BY <1>3, <2>2, <2>3, <2>4, QuietOne, QuietSame DEF PostWork
  <1>4. ASSUME NEW i \in Ids, MarkFailed(h, i) PROVE QuietMsg /\ QuietHand /\ QuietWork
    <2> DEFINE n == [t EXCEPT !.failed = @ \ {i}]
    <2>1. n.pc = "send" /\ t.pc = "send" /\ n.unsent = t.unsent
      BY <1>4, <1>t DEF MarkFailed, At, Handlers
    <2>2. hand' = [hand EXCEPT ![h] = Settled(n)]
      BY <1>4 DEF MarkFailed
    <2> HIDE DEF n
    <2>3. QuietHandler(t, Settled(n))
      BY <2>1 DEF QuietHandler, Pre, Settled, Idle
    <2>4. QuietRec(msg[i], ErrorIfPending(msg[i])) /\ ErrorIfPending(msg[i]).batch = msg[i].batch
      BY <1>m, QuietUpdate
    <2>5. QuietMsg
      BY <1>4, <1>m, <2>4 DEF MarkFailed, QuietMsg, TypeOK
    <2> QED
      BY <1>4, <2>2, <2>3, <2>5, QuietOne, QuietSame DEF MarkFailed
  <1>5. CASE CountBatch(h)
    <2>1. CASE Done(h)
      BY <1>5, <2>1, QuietSame DEF CountBatch
    <2>2. ASSUME NEW pc \in {"flag", "chain"}, Goto(h, pc),
                 pc = "flag" => AllTerminal(msg[t.me].reply)
          PROVE  QuietHand
      <3> DEFINE n == [t EXCEPT !.pc = pc]
      <3>1. n.pc = pc /\ t.pc = "batch" /\ n.me = t.me /\ n.unsent = t.unsent
        BY <1>5, <1>t DEF CountBatch, At, Handlers
      <3>2. hand' = [hand EXCEPT ![h] = n]
        BY <2>2 DEF Goto
      <3> HIDE DEF n
      <3>3. QuietHandler(t, n)
        BY <2>2, <3>1 DEF QuietHandler, Pre
      <3> QED
        BY <3>2, <3>3, QuietOne
    <2> QED
      BY <1>5, <2>1, <2>2, QuietSame DEF CountBatch
  <1>6. CASE FlagBatch(h)
    <2> DEFINE n == [t EXCEPT !.pc = "chain"]
    <2>1. n.pc = "chain" /\ t.pc = "flag" /\ n.me = t.me /\ n.unsent = t.unsent
      BY <1>6, <1>t DEF FlagBatch, At, Handlers
    <2>2. hand' = [hand EXCEPT ![h] = n]
      BY <1>6 DEF FlagBatch, Goto
    <2> HIDE DEF n
    <2>3. QuietHandler(t, n)
      BY <2>1 DEF QuietHandler, Pre
    <2>4. t.me \in Ids
      BY <2>1, Refers DEF Serving
    <2>5. QuietRec(msg[t.me], [msg[t.me] EXCEPT !.batch = TRUE])
      BY <1>m, <2>4, QuietUpdate
    <2>6. QuietMsg
      BY <1>6, <1>m, <2>1, <2>4, <2>5 DEF FlagBatch, QuietMsg, TypeOK
    <2> QED
      BY <1>6, <2>2, <2>3, <2>6, QuietOne, QuietSame DEF FlagBatch
  <1>7. CASE BeginChain(h)
    <2>1. CASE Done(h) /\ UNCHANGED msg
      BY <1>7, <2>1, QuietSame DEF BeginChain
    <2>2. CASE ~(Done(h) /\ UNCHANGED msg)
      <3> DEFINE m == [msg[t.me] EXCEPT !.chain = ChainOf(t.me)]
                 n == [t EXCEPT !.pc = "cycle", !.todo = ChainTargets(h), !.say = {},
                                !.chain = ChainOf(t.me), !.hop = msg[t.me].hop + 1]
      <3>1. n.pc = "cycle" /\ t.pc = "chain" /\ n.me = t.me /\ n.unsent = t.unsent
        BY <1>7, <1>t DEF BeginChain, At, Handlers
      <3>2. t.me \in Ids
        BY <3>1, Refers DEF Serving
      <3>3. QuietRec(msg[t.me], m) /\ m.batch = msg[t.me].batch
        BY <1>m, <3>2, QuietUpdate
      <3>4. /\ msg' = [msg EXCEPT ![t.me] = m]
            /\ hand' = [hand EXCEPT ![h] = n] \/ Done(h)
        BY <1>7, <2>2 DEF BeginChain, Done
      <3> HIDE DEF m, n
      <3>5. QuietHandler(t, n)
        BY <3>1 DEF QuietHandler, Pre
      <3>6. QuietMsg
        BY <1>7, <1>m, <3>2, <3>3, <3>4 DEF BeginChain, QuietMsg, TypeOK
      <3>7. QuietHand
        BY <3>4, <3>5, QuietOne, QuietSame
      <3> QED
        BY <1>7, <3>6, <3>7, QuietSame DEF BeginChain
    <2> QED
      BY <2>1, <2>2
  <1>8. CASE FilterChain(h)
    <2> DEFINE n == [t EXCEPT !.pc = "check", !.todo = t.todo \ InChain(t.chain)]
    <2>1. n.pc = "check" /\ t.pc = "cycle" /\ n.me = t.me /\ n.unsent = t.unsent
      BY <1>8, <1>t DEF FilterChain, At, Handlers
    <2>2. hand' = [hand EXCEPT ![h] = n] \/ Done(h)
      BY <1>8 DEF FilterChain, Done
    <2> HIDE DEF n
    <2>3. QuietHandler(t, n)
      BY <2>1 DEF QuietHandler, Pre
    <2>4. QuietHand
      BY <2>2, <2>3, QuietOne, QuietSame
    <2> QED
      BY <1>8, <2>4, QuietSame DEF FilterChain
  <1>9. CASE DispatchChain(h)
    <2> DEFINE n == [t EXCEPT !.pc = "place", !.todo = t.ok, !.ok = {}]
    <2>1. n.pc = "place" /\ t.pc = "check" /\ t.me # Null /\ n.me = t.me /\ n.unsent = t.unsent
      BY <1>9, <1>t DEF DispatchChain, Checked, At, Handlers
    <2>2. hand' = [hand EXCEPT ![h] = n] \/ Done(h)
      BY <1>9 DEF DispatchChain, Done
    <2> HIDE DEF n
    <2>3. QuietHandler(t, n)
      BY <2>1 DEF QuietHandler, Pre
    <2>4. QuietHand
      BY <2>2, <2>3, QuietOne, QuietSame
    <2> QED
      BY <1>9, <2>4, QuietSame DEF DispatchChain
  <1> QED
    BY <1>1, <1>2, <1>3, <1>4, <1>5, <1>6, <1>7, <1>8, <1>9

\* A terminal callback keeps the invariant: the guard on the status makes its
\* handler the only one of its message.
LEMMA ClaimStep ==
  ASSUME DispatchInv, TypeOK', NEW h \in Slots, NEW i \in Ids, NEW res \in Terminal, NEW say,
         work[i].st # "idle", TerminalCallback(h, i, res, say), QuietWork
  PROVE  DispatchInv'
  <1>1. CASE ~EndsMessage(i)
    BY <1>1, QuietStep, QuietSame DEF TerminalCallback, DispatchInv
  <1>2. CASE EndsMessage(i)
    <2> DEFINE n == [Idle EXCEPT !.pc = "batch", !.me = i,
                                 !.say = IF res = "complete" THEN say ELSE {}]
               m == [msg[i] EXCEPT !.st = res, !.stale = FALSE]
    <2>r. /\ \A j \in Ids : Placeholder(j) => msg[j].reply \in Ids
          /\ \A g \in Slots : hand[g].me # Null => hand[g].me \in Ids
          /\ \A g \in Slots : hand[g].unsent \subseteq Ids
      BY Refers DEF DispatchInv
    <2>o. msg[i].st \in Open /\ i # Null
      BY <1>2 DEF EndsMessage, Ids, Null
    <2>m. /\ m.st = res /\ m.author = msg[i].author /\ m.reply = msg[i].reply
          /\ m.batch = msg[i].batch
      BY DEF DispatchInv, TypeOK, Messages
    <2>n. n.pc = "batch" /\ n.me = i /\ n.unsent = {}
      BY DEF Idle
    <2>e. /\ msg' = [msg EXCEPT ![i] = m] /\ hand' = [hand EXCEPT ![h] = n] /\ last' = last
      BY <1>2 DEF TerminalCallback
    <2> HIDE DEF n, m
    <2>h. hand'[h] = n /\ \A g \in Slots \ {h} : hand'[g] = hand[g]
      BY <2>e DEF DispatchInv, TypeOK
    <2>p. \A j \in Ids : /\ Placeholder(j)' <=> Placeholder(j)
                         /\ msg'[j].reply = msg[j].reply /\ msg'[j].author = msg[j].author
                         /\ msg'[j].batch = msg[j].batch
                         /\ msg'[j].st = "none" <=> msg[j].st = "none"
                         /\ msg[j].st \in Terminal => msg'[j].st \in Terminal
      BY <2>e, <2>m, <2>o DEF DispatchInv, TypeOK, Placeholder, Open, Terminal
    <2>i. msg'[i].st \in Terminal
      BY <2>e, <2>m DEF DispatchInv, TypeOK
    <2>a. \A g \in Slots : hand[g].pc \in Pre => hand[g].me # i
      BY <2>o DEF DispatchInv, HandsEnded, Open, Terminal
    <2>d. \A r \in Ids : Dispatched(r) => Dispatched(r)'
      BY <2>h, <2>n, <2>o, <2>p DEF Dispatched, Open, Terminal
    <2>b. \A j \in Ids : InDispatchedBatch(j) => InDispatchedBatch(j)'
      BY <2>d, <2>p, <2>r DEF InDispatchedBatch
    <2>1. Serving'
      BY <2>h, <2>n, <2>o DEF DispatchInv, Serving
    <2>2. Counted'
      BY <2>e, <2>p DEF DispatchInv, Counted
    <2>3. HandsEnded'
      BY <2>h, <2>n, <2>i, <2>p, <2>r DEF DispatchInv, HandsEnded
    <2>4. ParentsEnded'
      BY <2>p, <2>r DEF DispatchInv, ParentsEnded
    <2>5. OneHandler'
      BY <2>h, <2>n, <2>a DEF DispatchInv, OneHandler
    <2>6. NotYetAsked'
      <3>1. \A j \in Ids : Placeholder(j) => msg[j].reply # i
        BY <2>o DEF DispatchInv, ParentsEnded, Open, Terminal
      <3> QED
        BY <2>h, <2>n, <2>p, <3>1 DEF DispatchInv, NotYetAsked
    <2>7. Placed'
      BY <2>h, <2>n, <2>p, <2>r DEF DispatchInv, Placed
    <2>8. Sent'
      BY <2>h, <2>n, <2>b, <2>r DEF DispatchInv, Sent
    <2>9. Worked'
      BY <2>b DEF DispatchInv, Worked, Sent, QuietWork
    <2>10. Ending'
      <3>1. InDispatchedBatch(i)'
        BY <2>b DEF DispatchInv, Worked
      <3>2. ASSUME NEW g \in Slots \ {h}, hand'[g].pc \in {"batch", "flag"}
            PROVE  InDispatchedBatch(hand[g].me)' /\ hand'[g].me = hand[g].me
        BY <2>h, <2>b, <2>r, <3>2 DEF DispatchInv, Ending, Serving
      <3> QED
        BY <2>h, <2>n, <3>1, <3>2 DEF Ending, InDispatchedBatch, Dispatched, Placeholder
    <2>11. Flagging'
      BY <2>h, <2>n, <2>p, <2>r DEF DispatchInv, Flagging, Serving
    <2>12. Flagged'
      BY <2>b, <2>p DEF DispatchInv, Flagged
    <2>13. BatchFlagIsTrue'
      BY <2>p DEF DispatchInv, BatchFlagIsTrue
    <2>14. AskedOnce'
      BY <2>p DEF DispatchInv, AskedOnce
    <2> QED
      BY <2>1, <2>2, <2>3, <2>4, <2>5, <2>6, <2>7, <2>8, <2>9, <2>10, <2>11, <2>12, <2>13, <2>14
      DEF DispatchInv
  <1> QED
    BY <1>1, <1>2

\* Inserting the user's message keeps the invariant: its number is new.
LEMMA InsertUserStep ==
  ASSUME DispatchInv, TypeOK', NEW h \in Slots, InsertUserMessage(h)
  PROVE  DispatchInv'
  <1>w. UNCHANGED work /\ hand[h].pc = "check"
    BY DEF InsertUserMessage, Checked, At
  <1>1. CASE Done(h) /\ UNCHANGED <<msg, last>>
    BY <1>w, <1>1, QuietStep, QuietSame DEF DispatchInv
  <1>2. CASE ~(Done(h) /\ UNCHANGED <<msg, last>>)
    <2> DEFINE k == last + 1
               m == [NoMsg EXCEPT !.st = "complete"]
               n == [hand[h] EXCEPT !.pc = "place", !.me = k, !.todo = ToAsk(hand[h].ok), !.ok = {}]
    <2>r. /\ \A j \in Ids : Placeholder(j) => msg[j].reply \in Ids
          /\ \A g \in Slots : hand[g].me # Null => hand[g].me \in Ids
          /\ \A g \in Slots : hand[g].unsent \subseteq Ids
      BY Refers DEF DispatchInv
    <2>e. /\ last < MaxMsgs /\ last' = k /\ msg' = [msg EXCEPT ![k] = m]
          /\ hand' = [hand EXCEPT ![h] = Idle] \/ hand' = [hand EXCEPT ![h] = n]
      BY <1>2 DEF InsertUserMessage, CannotInsert, Insert, Done
    <2>k. k \in Ids /\ k # Null /\ msg[k].st = "none" /\ last \in Nat
      BY <2>e DEF DispatchInv, TypeOK, Counted, Ids, Null
    <2>m. m.st = "complete" /\ m.reply = Null /\ m.batch = FALSE
      BY DEF NoMsg
    <2>n. n.pc = "place" /\ n.me = k /\ n.unsent = {}
      BY <1>w DEF DispatchInv, TypeOK, Handlers, Placed, Pre
    <2>c. last' = last + 1
      BY <2>e
    <2> HIDE DEF n, m, k
    <2>h. /\ hand'[h] = Idle \/ hand'[h] = n
          /\ \A g \in Slots \ {h} : hand'[g] = hand[g]
      BY <2>e DEF DispatchInv, TypeOK
    <2>i. hand'[h].pc \in {"idle", "place"} /\ hand'[h].unsent = {}
          /\ (hand'[h].pc = "place" => hand'[h].me = k)
      BY <2>h, <2>n DEF Idle
    <2>p. \A j \in Ids : /\ Placeholder(j)' <=> Placeholder(j)
                         /\ Placeholder(j) => msg'[j] = msg[j]
                         /\ msg[j].st \in Terminal => msg'[j].st \in Terminal
                         /\ msg'[j].batch => msg[j].batch /\ j # k
      BY <2>e, <2>m, <2>k DEF DispatchInv, TypeOK, Placeholder, Terminal, Null
    <2>t. msg'[k].st \in Terminal
      BY <2>e, <2>m, <2>k DEF DispatchInv, TypeOK, Terminal
    <2>d. \A r \in Ids : Dispatched(r) => Dispatched(r)' /\ r # k
      BY <2>h, <2>i, <2>k, <2>p DEF Dispatched, Terminal, Pre
    <2>b. \A j \in Ids : InDispatchedBatch(j) => InDispatchedBatch(j)'
      BY <2>d, <2>p, <2>r DEF InDispatchedBatch
    <2>a. \A g \in Slots : hand[g].pc \in Pre => hand[g].me # k
      BY <2>k DEF DispatchInv, HandsEnded, Terminal
    <2>1. Serving'
      BY <2>h, <2>i DEF DispatchInv, Serving
    <2>2. Counted'
      BY <2>c, <2>e, <2>k DEF DispatchInv, Counted, TypeOK, Ids, k
    <2>3. HandsEnded'
      BY <2>h, <2>i, <2>t, <2>p, <2>r DEF DispatchInv, HandsEnded, Pre
    <2>4. ParentsEnded'
      BY <2>p, <2>r DEF DispatchInv, ParentsEnded
    <2>5. OneHandler'
      BY <2>h, <2>i, <2>a DEF DispatchInv, OneHandler, Pre
    <2>6. NotYetAsked'
      <3>1. \A j \in Ids : Placeholder(j) => msg[j].reply # k
        BY <2>k DEF DispatchInv, ParentsEnded, Terminal
      <3> QED
        BY <2>h, <2>i, <2>p, <3>1 DEF DispatchInv, NotYetAsked, Pre
    <2>7. Placed'
      BY <2>h, <2>i, <2>k, <2>p, <2>r DEF DispatchInv, Placed
    <2>8. Sent'
      BY <2>h, <2>i, <2>b, <2>r DEF DispatchInv, Sent
    <2>9. Worked'
      BY <1>w, <2>b DEF DispatchInv, Worked
    <2>10. Ending'
      <3>1. ASSUME NEW g \in Slots \ {h}, hand'[g].pc \in {"batch", "flag"}
            PROVE  InDispatchedBatch(hand[g].me)' /\ hand'[g].me = hand[g].me
        BY <2>h, <2>b, <2>r, <3>1 DEF DispatchInv, Ending, Serving
      <3> QED
        BY <2>h, <2>i, <3>1 DEF Ending, InDispatchedBatch, Dispatched, Placeholder
    <2>11. Flagging'
      <3> SUFFICES ASSUME NEW g \in Slots, hand'[g].pc = "flag", NEW j \in Ids,
                          Placeholder(j)', msg'[j].reply = msg'[hand'[g].me].reply
                   PROVE  msg'[j].st \in Terminal
        BY DEF Flagging
      <3>1. hand'[g] = hand[g] /\ hand[g].me \in Ids /\ Placeholder(hand[g].me)
        BY <2>h, <2>i, <2>r DEF DispatchInv, Ending, Serving, InDispatchedBatch
      <3> QED
        BY <2>p, <3>1 DEF DispatchInv, Flagging
    <2>12. Flagged'
      BY <2>b, <2>p DEF DispatchInv, Flagged
    <2>13. BatchFlagIsTrue'
      <3> SUFFICES ASSUME NEW i \in Ids, NEW j \in Ids, msg'[i].batch,
                          Placeholder(j)', msg'[j].reply = msg'[i].reply
                   PROVE  msg'[j].st \in Terminal
        BY DEF BatchFlagIsTrue
      <3>1. Placeholder(i)
        BY <2>p DEF DispatchInv, Flagged, InDispatchedBatch
      <3> QED
        BY <2>p, <3>1 DEF DispatchInv, BatchFlagIsTrue
    <2>14. AskedOnce'
      BY <2>p DEF DispatchInv, AskedOnce
    <2> QED
      BY <2>1, <2>2, <2>3, <2>4, <2>5, <2>6, <2>7, <2>8, <2>9, <2>10, <2>11, <2>12, <2>13, <2>14
      DEF DispatchInv
  <1> QED
    BY <1>1, <1>2

\* Inserting a placeholder keeps the invariant: the handler is the only one
\* of its message, and nobody counts a batch while it is being asked.
LEMMA PlaceholderStep ==
  ASSUME DispatchInv, TypeOK', NEW h \in Slots, NEW a \in Agents, InsertPlaceholder(h, a)
  PROVE  DispatchInv'
  <1>w. UNCHANGED work /\ hand[h].pc = "place" /\ a \in hand[h].todo
    BY DEF InsertPlaceholder, At
  <1>1. CASE Done(h) /\ UNCHANGED <<msg, last>>
    BY <1>w, <1>1, QuietStep, QuietSame DEF DispatchInv
  <1>2. CASE ~(Done(h) /\ UNCHANGED <<msg, last>>)
    <2> DEFINE k == last + 1
               me == hand[h].me
               left == hand[h].todo \ {a}
               m == [NoMsg EXCEPT !.st = "pending", !.author = a, !.reply = me,
                                  !.chain = hand[h].chain, !.hop = hand[h].hop]
               n == [hand[h] EXCEPT !.todo = left, !.unsent = @ \cup {k},
                                    !.pc = IF left = {} THEN "send" ELSE @]
    <2>r. /\ \A j \in Ids : Placeholder(j) => msg[j].reply \in Ids
          /\ \A g \in Slots : hand[g].me # Null => hand[g].me \in Ids
          /\ \A g \in Slots : hand[g].unsent \subseteq Ids
      BY Refers DEF DispatchInv
    <2>e. /\ last < MaxMsgs /\ last' = k /\ msg' = [msg EXCEPT ![k] = m]
          /\ hand' = [hand EXCEPT ![h] = n]
      BY <1>2 DEF InsertPlaceholder, CannotInsert, Insert
    <2>k. k \in Ids /\ k # Null /\ msg[k].st = "none" /\ last \in Nat
      BY <2>e DEF DispatchInv, TypeOK, Counted, Ids, Null
    <2>m. m.st = "pending" /\ m.reply = me /\ m.author = a /\ m.batch = FALSE
      BY DEF NoMsg
    <2>n. n.pc \in {"place", "send"} /\ n.me = me /\ n.unsent = hand[h].unsent \cup {k} /\ n.todo = left
      BY <1>w DEF DispatchInv, TypeOK, Handlers
    <2>x. me # Null /\ me \in Ids /\ msg[me].st \in Terminal /\ me # k
      BY <1>w, <2>k, <2>r DEF DispatchInv, Placed, HandsEnded, Pre, Terminal
    <2>q. \A j \in Ids : Placeholder(j) /\ msg[j].reply = me => msg[j].author \notin hand[h].todo
      BY <1>w, <2>x DEF DispatchInv, NotYetAsked, Pre
    <2>g. \A g \in Slots \ {h} : hand[g].pc \in Pre => hand[g].me # me
      BY <1>w, <2>x DEF DispatchInv, OneHandler, Pre
    <2>v. \A r \in Ids : Dispatched(r) => r # me
      BY <1>w DEF Dispatched, Pre
    <2>c. \A i \in hand[h].unsent : Placeholder(i) /\ msg[i].reply = me
      BY <1>w DEF DispatchInv, Placed
    <2> HIDE DEF n, m, k, me
    <2>h. hand'[h] = n /\ \A g \in Slots \ {h} : hand'[g] = hand[g]
      BY <2>e DEF DispatchInv, TypeOK
    <2>o. /\ msg'[k] = m /\ \A j \in Ids \ {k} : msg'[j] = msg[j]
          /\ msg'[k].st # "none" /\ msg'[k].reply # Null /\ ~Placeholder(k)
      <3>1. msg'[k] = m /\ \A j \in Ids \ {k} : msg'[j] = msg[j]
        BY <2>e, <2>k DEF DispatchInv, TypeOK
      <3>2. msg'[k].st # "none" /\ msg'[k].reply # Null
        BY <3>1, <2>m, <2>x
      <3> QED
        BY <2>k, <3>1, <3>2 DEF Placeholder
    <2>p. \A j \in Ids \ {k} : Placeholder(j)' <=> Placeholder(j)
      BY <2>o DEF Placeholder
    <2>u. \A i \in hand[h].unsent \cup {k} : Placeholder(i)' /\ msg'[i].reply = me
      <3> TAKE i \in hand[h].unsent \cup {k}
      <3>1. CASE i = k
        BY <2>o, <2>m, <3>1 DEF Placeholder
      <3>2. CASE i # k
        <4>1. i \in Ids \ {k} /\ Placeholder(i) /\ msg[i].reply = me
          BY <2>c, <2>r, <3>2
        <4> QED
          BY <4>1, <2>o, <2>p
      <3> QED
        BY <3>1, <3>2
    <2>s. \A j \in Ids : msg[j].st \in Terminal => msg'[j].st \in Terminal /\ j # k
      BY <2>o, <2>k DEF Terminal
    <2>d. \A r \in Ids : Dispatched(r) => Dispatched(r)'
      BY <1>w, <2>h, <2>n, <2>s, <2>v DEF Dispatched, me
    <2>b. \A j \in Ids : InDispatchedBatch(j) => InDispatchedBatch(j)' /\ j # k /\ msg[j].reply # me
      BY <2>d, <2>o, <2>p, <2>r, <2>v DEF InDispatchedBatch
    <2>1. Serving'
      BY <2>h, <2>n DEF DispatchInv, Serving
    <2>2. Counted'
      BY <2>e, <2>k DEF DispatchInv, Counted, TypeOK, Ids, k
    <2>3. HandsEnded'
      BY <2>h, <2>n, <2>s, <2>r, <2>x DEF DispatchInv, HandsEnded
    <2>4. ParentsEnded'
      <3>1. msg'[me].st \in Terminal
        BY <2>s, <2>x
      <3> QED
        BY <2>m, <2>o, <2>p, <2>r, <2>s, <3>1 DEF DispatchInv, ParentsEnded
    <2>5. OneHandler'
      BY <1>w, <2>h, <2>n, <2>g DEF DispatchInv, OneHandler
    <2>6. NotYetAsked'
      <3> SUFFICES ASSUME NEW g \in Slots, hand'[g].pc \in Pre, hand'[g].me # Null,
                          NEW j \in Ids, Placeholder(j)', msg'[j].reply = hand'[g].me
                   PROVE  hand'[g].pc = "place" /\ msg'[j].author \notin hand'[g].todo
        BY DEF NotYetAsked
      <3>1. CASE g = h
        <4>1. hand'[g].pc = "place" /\ hand'[g].me = me /\ hand'[g].todo = left
          BY <2>h, <2>n, <3>1 DEF Pre
        <4>2. CASE j = k
          BY <2>o, <2>m, <4>1, <4>2
        <4>3. CASE j # k
          BY <2>o, <2>p, <2>q, <4>1, <4>3
        <4> QED
          BY <4>2, <4>3
      <3>2. CASE g # h
        <4>1. j # k
          BY <2>g, <2>h, <2>m, <2>o, <3>2
        <4> QED
          BY <2>h, <2>o, <2>p, <3>2, <4>1 DEF DispatchInv, NotYetAsked
      <3> QED
        BY <3>1, <3>2
    <2>7. Placed'
      <3>1. ASSUME NEW g \in Slots, hand'[g].pc \in Pre \ {"place"} PROVE hand'[g].unsent = {}
        BY <2>h, <2>n, <3>1 DEF DispatchInv, Placed, Pre
      <3>2. ASSUME NEW g \in Slots, hand'[g].pc = "place", g # h
            PROVE  hand'[g].me # Null /\ \A i \in hand'[g].unsent : Placeholder(i)' /\ msg'[i].reply = hand'[g].me
        BY <2>h, <2>o, <2>p, <2>r, <3>2 DEF DispatchInv, Placed
      <3>3. hand'[h].me # Null /\ \A i \in hand'[h].unsent : Placeholder(i)' /\ msg'[i].reply = hand'[h].me
        BY <2>u, <2>h, <2>n, <2>x
      <3> QED
        BY <3>1, <3>2, <3>3 DEF Placed
    <2>8. Sent'
      <3>1. ASSUME NEW g \in Slots \ {h}, hand'[g].pc = "send", NEW i \in hand'[g].unsent
            PROVE  InDispatchedBatch(i)'
        BY <2>h, <2>b, <2>r, <3>1 DEF DispatchInv, Sent
      <3>2. ASSUME hand'[h].pc = "send", NEW i \in hand'[h].unsent PROVE InDispatchedBatch(i)'
        <4>1. Placeholder(i)' /\ msg'[i].reply = me
          BY <2>u, <2>h, <2>n, <3>2
        <4>2. \A g \in Slots : hand'[g].pc \in Pre => hand'[g].me # me
          BY <2>g, <2>h, <3>2 DEF Pre
        <4>3. msg'[me].st \in Terminal
          BY <2>s, <2>x
        <4> QED
          BY <4>1, <4>2, <4>3 DEF InDispatchedBatch, Dispatched
      <3> QED
        BY <3>1, <3>2 DEF Sent
    <2>9. Worked'
      BY <1>w, <2>b DEF DispatchInv, Worked
    <2>10. Ending'
      <3>1. ASSUME NEW g \in Slots \ {h}, hand'[g].pc \in {"batch", "flag"}
            PROVE  InDispatchedBatch(hand[g].me)' /\ hand'[g].me = hand[g].me
        BY <2>h, <2>b, <2>r, <3>1 DEF DispatchInv, Ending, Serving
      <3> QED
        BY <2>h, <2>n, <3>1 DEF Ending, InDispatchedBatch, Dispatched, Placeholder
    <2>11. Flagging'
      <3> SUFFICES ASSUME NEW g \in Slots, hand'[g].pc = "flag", NEW j \in Ids,
                          Placeholder(j)', msg'[j].reply = msg'[hand'[g].me].reply
                   PROVE  msg'[j].st \in Terminal
        BY DEF Flagging
      <3>1. hand'[g] = hand[g] /\ hand[g].me \in Ids /\ hand[g].me # k /\ msg[hand[g].me].reply # me
        BY <2>h, <2>n, <2>r, <2>b DEF DispatchInv, Ending, Serving
      <3>2. j # k
        BY <2>m, <2>o, <3>1
      <3> QED
        BY <2>o, <2>p, <3>1, <3>2 DEF DispatchInv, Flagging
    <2>12. Flagged'
      BY <2>b, <2>m, <2>o DEF DispatchInv, Flagged
    <2>13. BatchFlagIsTrue'
      <3> SUFFICES ASSUME NEW i \in Ids, NEW j \in Ids, msg'[i].batch,
                          Placeholder(j)', msg'[j].reply = msg'[i].reply
                   PROVE  msg'[j].st \in Terminal
        BY DEF BatchFlagIsTrue
      <3>1. i # k /\ msg[i].batch /\ msg[i].reply # me
        BY <2>b, <2>m, <2>o DEF DispatchInv, Flagged
      <3>2. j # k
        BY <2>m, <2>o, <3>1
      <3> QED
        BY <2>o, <2>p, <3>1, <3>2 DEF DispatchInv, BatchFlagIsTrue
    <2>14. AskedOnce'
      <3> SUFFICES ASSUME NEW i \in Ids, NEW j \in Ids, Placeholder(i)', Placeholder(j)',
                          msg'[i].reply = msg'[j].reply, msg'[i].author = msg'[j].author, i # j
                   PROVE  FALSE
        BY DEF AskedOnce
      <3>1. CASE i # k /\ j # k
        BY <2>o, <2>p, <3>1 DEF DispatchInv, AskedOnce
      <3>2. CASE i = k \/ j = k
        BY <1>w, <2>m, <2>o, <2>p, <2>q, <3>2
      <3> QED
        BY <3>1, <3>2
    <2> QED
      BY <2>1, <2>2, <2>3, <2>4, <2>5, <2>6, <2>7, <2>8, <2>9, <2>10, <2>11, <2>12, <2>13, <2>14
      DEF DispatchInv
  <1> QED
    BY <1>1, <1>2
-----------------------------------------------------------------------------
(* The steps put together, and the theorems.                                *)

\* A message posted by the user is served by a well-typed handler.
LEMMA PostMessageType ==
  ASSUME TypeOK, NEW h \in Slots, NEW S \in SUBSET Agents, PostMessage(h, S)
  PROVE  TypeOK'
  <1> DEFINE n == [Idle EXCEPT !.pc = "check", !.todo = S]
  <1>1. n \in Handlers
    BY NothingType DEF Handlers
  <1>2. hand' = [hand EXCEPT ![h] = n]
    BY DEF PostMessage
  <1> HIDE DEF n
  <1>3. hand' \in [Slots -> Handlers]
    BY <1>1, <1>2 DEF TypeOK
  <1>4. used' \in Bounds
    BY SpendType DEF PostMessage, TypeOK
  <1> QED
    BY <1>3, <1>4 DEF PostMessage, TypeOK

\* The invariant holds in the initial state: there are no messages.
LEMMA InitDispatch == Init => DispatchInv
  <1> SUFFICES ASSUME Init PROVE DispatchInv
    OBVIOUS
  <1>1. /\ \A i \in Ids : msg[i].st = "none" /\ msg[i].batch = FALSE /\ work[i].st = "idle"
        /\ \A h \in Slots : hand[h].pc = "idle"
    BY DEF Init, NoMsg, NoWork, Idle
  <1>2. \A i \in Ids : ~Placeholder(i)
    BY <1>1 DEF Placeholder
  <1>3. Serving /\ Counted /\ HandsEnded /\ ParentsEnded /\ OneHandler /\ NotYetAsked
    BY <1>1, <1>2 DEF Serving, Counted, HandsEnded, ParentsEnded, OneHandler, NotYetAsked, Pre
  <1>4. Placed /\ Sent /\ Worked /\ Ending /\ Flagging /\ Flagged
    BY <1>1, <1>2 DEF Placed, Sent, Worked, Ending, Flagging, Flagged, Pre
  <1>5. BatchFlagIsTrue /\ AskedOnce
    BY <1>1, <1>2 DEF BatchFlagIsTrue, AskedOnce
  <1> QED
    BY <1>3, <1>4, <1>5, InitType DEF DispatchInv

\* No step changes the status of a message that is complete or an error.
EndedStays == \A i \in Ids : msg[i].st \in Terminal => msg'[i].st = msg[i].st

\* A quiet step does not.
LEMMA QuietEnds == QuietMsg => EndedStays
  BY DEF QuietMsg, QuietRec, EndedStays

\* A step that inserts a message does not: the number of the message is new.
LEMMA InsertEnds ==
  ASSUME DispatchInv, NEW m, Insert(m), last < MaxMsgs
  PROVE  EndedStays
  <1>1. last + 1 \in Ids /\ msg[last + 1].st = "none"
    BY DEF DispatchInv, TypeOK, Counted, Ids
  <1> QED
    BY <1>1 DEF DispatchInv, TypeOK, Insert, EndedStays, Terminal

\* A terminal callback does not: its UPDATE is guarded.
LEMMA ClaimEnds ==
  ASSUME TypeOK, NEW h \in Slots, NEW i \in Ids, NEW res, NEW say,
         TerminalCallback(h, i, res, say)
  PROVE  EndedStays
  <1>1. CASE EndsMessage(i)
    <2> DEFINE m == [msg[i] EXCEPT !.st = res, !.stale = FALSE]
    <2>1. msg' = [msg EXCEPT ![i] = m]
      BY <1>1 DEF TerminalCallback
    <2> HIDE DEF m
    <2>2. msg[i].st \notin Terminal
      BY <1>1 DEF EndsMessage, Open, Terminal
    <2> QED
      BY <2>1, <2>2 DEF TypeOK, EndedStays
  <1>2. CASE ~EndsMessage(i)
    BY <1>2 DEF TerminalCallback, EndedStays
  <1> QED
    BY <1>1, <1>2

\* Every step keeps the invariant and the messages that have ended.
LEMMA NextDispatch ==
  ASSUME DispatchInv, [Next]_vars
  PROVE  DispatchInv' /\ EndedStays
  <1>t. TypeOK /\ Serving
    BY DEF DispatchInv
  <1>q. ASSUME TypeOK', QuietMsg, QuietHand, QuietWork PROVE DispatchInv' /\ EndedStays
    BY <1>q, QuietStep, QuietEnds
  <1>1. ASSUME NEW h \in Slots, NEW S \in SUBSET Agents, PostMessage(h, S)
        PROVE  DispatchInv' /\ EndedStays
    <2>1. TypeOK'
      BY <1>t, <1>1, PostMessageType
    <2>2. QuietMsg /\ QuietHand /\ QuietWork
      BY <1>t, <1>1, QuietHandlerSteps
    <2> QED
      BY <1>q, <2>1, <2>2
  <1>2. ASSUME NEW h \in Slots, Dispatch(h) PROVE DispatchInv' /\ EndedStays
    <2>t. TypeOK'
      BY <1>t, <1>2, DispatchType
    <2>1. CASE \/ \E a \in Agents : CheckAgent(h, a)
               \/ \E i \in Ids : PostWork(h, i) \/ MarkFailed(h, i)
      <3>1. QuietMsg /\ QuietHand /\ QuietWork
        BY <1>t, <2>1, QuietHandlerSteps
      <3> QED
        BY <1>q, <2>t, <3>1
    <2>2. ASSUME NEW a \in Agents, InsertPlaceholder(h, a) PROVE DispatchInv' /\ EndedStays
      <3>1. DispatchInv'
        BY <2>t, <2>2, PlaceholderStep
      <3>2. EndedStays
        <4> DEFINE m == [NoMsg EXCEPT !.st = "pending", !.author = a, !.reply = hand[h].me,
                                      !.chain = hand[h].chain, !.hop = hand[h].hop]
        <4>1. (last < MaxMsgs /\ Insert(m)) \/ UNCHANGED msg
          BY <2>2 DEF InsertPlaceholder, CannotInsert
        <4> HIDE DEF m
        <4>2. CASE UNCHANGED msg
          BY <4>2 DEF EndedStays
        <4> QED
          BY <4>1, <4>2, InsertEnds
      <3> QED
        BY <3>1, <3>2
    <2>3. CASE InsertUserMessage(h)
      <3>1. DispatchInv'
        BY <2>t, <2>3, InsertUserStep
      <3>2. EndedStays
        <4> DEFINE m == [NoMsg EXCEPT !.st = "complete"]
        <4>1. (last < MaxMsgs /\ Insert(m)) \/ UNCHANGED msg
          BY <2>3 DEF InsertUserMessage, CannotInsert
        <4> HIDE DEF m
        <4>2. CASE UNCHANGED msg
          BY <4>2 DEF EndedStays
        <4> QED
          BY <4>1, <4>2, InsertEnds
      <3> QED
        BY <3>1, <3>2
    <2> QED
      BY <1>2, <2>1, <2>2, <2>3 DEF Dispatch
  <1>3. ASSUME NEW h \in Slots, Callback(h) PROVE DispatchInv' /\ EndedStays
    <2>t. TypeOK'
      BY <1>t, <1>3, CallbackType
    <2>1. CASE CountBatch(h) \/ FlagBatch(h) \/ BeginChain(h) \/ FilterChain(h) \/ DispatchChain(h)
      <3>1. QuietMsg /\ QuietHand /\ QuietWork
        BY <1>t, <2>1, QuietHandlerSteps
      <3> QED
        BY <1>q, <2>t, <3>1
    <2>2. ASSUME NEW i \in Ids, NEW res \in Terminal, NEW say \in SUBSET Agents,
                 Answer(h, i, res, say)
          PROVE  DispatchInv' /\ EndedStays
      <3>1. TerminalCallback(h, i, res, say) /\ work[i].st # "idle"
        BY <2>2 DEF Answer
      <3>2. QuietWork
        BY <1>t, <2>2 DEF Answer, QuietWork, TypeOK
      <3> QED
        BY <1>t, <2>t, <3>1, <3>2, ClaimStep, ClaimEnds
    <2>3. ASSUME NEW i \in Ids, AnswerAgain(h, i) PROVE DispatchInv' /\ EndedStays
      <3> DEFINE res == work[i].res
                 say == work[i].say
      <3>1. TerminalCallback(h, i, res, say) /\ work[i].st # "idle"
        BY <2>3 DEF AnswerAgain
      <3>2. QuietWork
        BY <1>t, <2>3 DEF AnswerAgain, QuietWork, TypeOK
      <3>3. res \in Terminal
        BY <1>t DEF TypeOK, Works
      <3> HIDE DEF res, say
      <3> QED
        BY <1>t, <2>t, <3>1, <3>2, <3>3, ClaimStep, ClaimEnds
    <2> QED
      BY <1>3, <2>1, <2>2, <2>3 DEF Callback
  <1>4. CASE Edit \/ Around
    BY <1>t, <1>q, <1>4, OtherType, QuietOther
  <1>5. CASE UNCHANGED vars
    <2>1. TypeOK'
      BY <1>t, <1>5 DEF TypeOK, vars
    <2>2. QuietMsg /\ QuietHand /\ QuietWork
      BY <1>t, <1>5, QuietSame DEF vars
    <2> QED
      BY <1>q, <2>1, <2>2
  <1> QED
    BY <1>1, <1>2, <1>3, <1>4, <1>5 DEF Next

\* The messages, handlers and work of a thread keep their types whatever the
\* number of agents, handlers and messages; in particular a chain never has
\* more hops than MAX_CHAIN_HOPS (routes/chat.ts).
THEOREM ChatTypeCorrect == Spec => []TypeOK
  <1>1. DispatchInv => TypeOK
    BY DEF DispatchInv
  <1> QED
    BY <1>1, InitDispatch, NextDispatch, PTL DEF Spec

\* batch_complete is never set while an agent of the batch has still to
\* answer, although the count and the UPDATE of the callback handler are two
\* queries and other handlers run between them.
THEOREM BatchFlagIsNeverEarly == Spec => []BatchFlagIsTrue
  <1>1. DispatchInv => BatchFlagIsTrue
    BY DEF DispatchInv
  <1> QED
    BY <1>1, InitDispatch, NextDispatch, PTL DEF Spec

\* No message is dispatched to the same agent twice, although the callback
\* that dispatches it is delivered twice when its answer is lost.
THEOREM NobodyIsAskedTwice == Spec => []AskedOnce
  <1>1. DispatchInv => AskedOnce
    BY DEF DispatchInv
  <1> QED
    BY <1>1, InitDispatch, NextDispatch, PTL DEF Spec

\* A message that is complete or an error stays so: of all the handlers that
\* end placeholders, the first one decides.
THEOREM FirstEndingDecides == Spec => TerminalIsFinal
  <1>1. DispatchInv /\ [Next]_vars =>
          [\A i \in Ids : msg[i].st \in Terminal => msg'[i].st = msg[i].st]_vars
    BY NextDispatch DEF EndedStays
  <1> QED
    BY <1>1, InitDispatch, NextDispatch, PTL DEF Spec, TerminalIsFinal
-----------------------------------------------------------------------------
(* Chains.  A handler that dispatches a hop knows the message it answers:   *)
(* complete, of its chain and one hop above; and no step takes that away,   *)
(* since a message that has a chain keeps it.                               *)

\* the message at the head of a hop, as the handler of the hop knows it
Parent(t, p) == /\ p.hop + 1 = t.hop /\ p.chain = t.chain /\ p.chain # Null
                /\ p.author \notin t.todo \cup t.ok
\* what a handler knows of the message it is about to dispatch
Knows(t, table) ==
    /\ t.pc \in {"cycle", "check", "place"} =>
          /\ t.me = Null => t.hop = 0
          /\ t.me # Null => /\ table[t.me].st = "complete"
                            /\ t.hop = 0 => table[t.me].reply = Null
                            /\ t.hop > 0 => Parent(t, table[t.me])
    /\ t.pc \in {"batch", "flag", "chain"} =>
          t.ok = {} /\ (t.say # {} => table[t.me].st = "complete")

Blank == \A i \in Ids : msg[i].st = "none" => msg[i].reply = Null /\ msg[i].hop = 0
Dense == \A i \in Ids : i <= last => msg[i].st # "none"
HandsKnow == \A h \in Slots : Knows(hand[h], msg)
Rooted == \A i \in Ids : msg[i].hop > 0 => msg[i].reply # Null

ChainInv == DispatchInv /\ Blank /\ Dense /\ HandsKnow /\ Rooted /\ ChainIsTree

\* What a step may change of a message that is there, and of one that is not.
Carried(m, n) == /\ n.author = m.author /\ n.reply = m.reply /\ n.hop = m.hop
                 /\ n.st = "none" <=> m.st = "none"
                 /\ m.st \in Terminal => n.st = m.st
                 /\ m.chain # Null => n.chain = m.chain
TableCarried == last' = last /\ \A i \in Ids : Carried(msg[i], msg'[i])

\* What it does unless it is an agent's answer: an open message stays open, or
\* is given up.
Moved(m, n) == Carried(m, n) /\ (m.st \in Open => n.st \in Open \cup {"error"})
TableMoved == last' = last /\ \A i \in Ids : Moved(msg[i], msg'[i])

\* The UPDATEs carry a message on.
LEMMA UpdateCarries ==
  ASSUME NEW m \in Messages
  PROVE  /\ Moved(m, ErrorIfPending(m)) /\ Moved(m, Thinking(m)) /\ Moved(m, Swept(m))
         /\ Moved(m, [m EXCEPT !.stale = TRUE]) /\ Moved(m, [m EXCEPT !.batch = TRUE])
         /\ \A c : (m.chain # Null => c = m.chain) => Moved(m, [m EXCEPT !.chain = c])
         /\ \A res \in Terminal :
               m.st \in Open => Carried(m, [m EXCEPT !.st = res, !.stale = FALSE])
         /\ Moved(m, m)
  BY DEF Messages, Moved, Carried, ErrorIfPending, Thinking, Swept, Sweepable, Open, Terminal

\* An UPDATE of one message by its number.
LEMMA MoveOne ==
  ASSUME TypeOK, NEW i \in Ids, NEW m, Moved(msg[i], m), msg' = [msg EXCEPT ![i] = m], last' = last
  PROVE  TableMoved
  <1>1. \A j \in Ids : Moved(msg[j], msg[j])
    BY UpdateCarries DEF TypeOK
  <1> QED
    BY <1>1 DEF TypeOK, TableMoved

\* A step that leaves the table alone.
LEMMA MoveNone ==
  ASSUME TypeOK, UNCHANGED <<msg, last>>
  PROVE  TableMoved
  BY UpdateCarries DEF TypeOK, TableMoved

\* Moving the table is carrying it on.
LEMMA MovedIsCarried == TableMoved => TableCarried
  BY DEF TableMoved, TableCarried, Moved

\* What a handler knows stays true when the table is carried on.
LEMMA CarriedKnows ==
  ASSUME TypeOK, TableCarried, NEW t \in Handlers, Knows(t, msg),
         t.pc \in {"batch", "flag", "chain"} => t.me # Null
  PROVE  Knows(t, msg')
  <1>1. t.me # Null => t.me \in Ids
    BY DEF Handlers, Ids, Null
  <1>2. ASSUME t.me # Null PROVE Carried(msg[t.me], msg'[t.me])
    BY <1>1, <1>2 DEF TableCarried
  <1>3. ASSUME t.me # Null, msg[t.me].st = "complete" PROVE msg'[t.me].st = "complete"
    BY <1>2, <1>3 DEF Carried, Terminal
  <1>4. ASSUME t.me # Null PROVE msg'[t.me].reply = msg[t.me].reply
    BY <1>2, <1>4 DEF Carried
  <1>5. ASSUME t.me # Null, Parent(t, msg[t.me]) PROVE Parent(t, msg'[t.me])
    BY <1>2, <1>5 DEF Carried, Parent
  <1> QED
    BY <1>3, <1>4, <1>5 DEF Knows

\* The facts about the table stay true when it is carried on.
LEMMA CarriedTable ==
  ASSUME ChainInv, TableCarried
  PROVE  Blank' /\ Dense' /\ Rooted' /\ ChainIsTree'
  <1>c. \A i \in Ids : Carried(msg[i], msg'[i])
    BY DEF TableCarried
  <1>1. Blank' /\ Dense' /\ Rooted'
    BY DEF ChainInv, Blank, Dense, Rooted, TableCarried, Carried
  <1>2. ChainIsTree'
    <2> SUFFICES ASSUME NEW i \in Ids, msg'[i].hop > 0
                 PROVE  LET p == msg'[msg'[i].reply] IN
                        /\ msg'[i].hop <= MaxHops /\ p.hop + 1 = msg'[i].hop
                        /\ p.st = "complete" /\ p.chain = msg'[i].chain /\ p.chain # Null
                        /\ p.author # msg'[i].author
      BY DEF ChainIsTree
    <2> DEFINE r == msg[i].reply
    <2>1. msg[i].hop > 0 /\ msg'[i].reply = r /\ msg'[i].hop = msg[i].hop /\ msg'[i].author = msg[i].author
      BY <1>c DEF Carried
    <2>2. r \in Ids
      BY <2>1 DEF ChainInv, Rooted, DispatchInv, TypeOK, Messages, Ids, Null
    <2>3. /\ msg[i].hop <= MaxHops /\ msg[r].hop + 1 = msg[i].hop
          /\ msg[r].st = "complete" /\ msg[r].chain = msg[i].chain /\ msg[r].chain # Null
          /\ msg[r].author # msg[i].author
      BY <2>1 DEF ChainInv, ChainIsTree
    <2> HIDE DEF r
    <2>4. /\ msg'[r].hop = msg[r].hop /\ msg'[r].st = msg[r].st /\ msg'[r].author = msg[r].author
          /\ msg'[r].chain = msg[r].chain /\ msg'[i].chain = msg[i].chain
      BY <1>c, <2>2, <2>3 DEF Carried, Terminal
    <2> QED
      BY <2>1, <2>3, <2>4
  <1> QED
    BY <1>1, <1>2

\* An insertion that keeps the tree keeps the facts about the table, and what
\* the handlers know.
LEMMA InsertTable ==
  ASSUME ChainInv, last < MaxMsgs, NEW m \in Messages, Insert(m), m.st # "none",
         m.hop > 0 => /\ m.reply # Null /\ m.reply \in Ids
                      /\ LET p == msg[m.reply] IN
                         /\ p.hop + 1 = m.hop /\ p.st = "complete" /\ p.chain = m.chain
                         /\ p.chain # Null /\ p.author # m.author
  PROVE  /\ Blank' /\ Dense' /\ Rooted' /\ ChainIsTree'
         /\ \A t \in Handlers : /\ Knows(t, msg)
                                /\ t.pc \in {"batch", "flag", "chain"} => t.me # Null
                                => Knows(t, msg')
  <1> DEFINE k == last + 1
  <1>k. k \in Ids /\ msg[k].st = "none" /\ last \in Nat
    BY DEF ChainInv, DispatchInv, TypeOK, Counted, Ids
  <1>1. last' = k /\ msg' = [msg EXCEPT ![k] = m]
    BY DEF Insert
  <1>o. \A i \in Ids : i <= k <=> (i <= last \/ i = k)
    BY <1>k DEF Ids
  <1> HIDE DEF k
  <1>2. msg'[k] = m /\ \A i \in Ids \ {k} : msg'[i] = msg[i]
    BY <1>1, <1>k DEF ChainInv, DispatchInv, TypeOK
  <1>3. Blank' /\ Rooted'
    BY <1>2 DEF ChainInv, Blank, Rooted
  <1>4. Dense'
    BY <1>1, <1>2, <1>o DEF ChainInv, Dense
  <1>5. ChainIsTree'
    <2> SUFFICES ASSUME NEW i \in Ids, msg'[i].hop > 0
                 PROVE  LET p == msg'[msg'[i].reply] IN
                        /\ msg'[i].hop <= MaxHops /\ p.hop + 1 = msg'[i].hop
                        /\ p.st = "complete" /\ p.chain = msg'[i].chain /\ p.chain # Null
                        /\ p.author # msg'[i].author
      BY DEF ChainIsTree
    <2>1. CASE i = k
      <3>1. m.hop <= MaxHops
        BY DEF Messages
      <3>2. m.hop > 0 /\ msg'[i] = m /\ m.reply # k
        BY <1>2, <1>k, <2>1
      <3> QED
        BY <1>2, <3>1, <3>2
    <2>2. CASE i # k
      <3>1. msg'[i] = msg[i] /\ msg[i].hop > 0
        BY <1>2, <2>2
      <3>2. msg[i].reply \in Ids
        BY <3>1 DEF ChainInv, Rooted, DispatchInv, TypeOK, Messages, Ids, Null
      <3>3. msg[i].reply # k
        BY <3>1, <1>k DEF ChainInv, ChainIsTree
      <3> QED
        BY <1>2, <3>1, <3>2, <3>3 DEF ChainInv, ChainIsTree
    <2> QED
      BY <2>1, <2>2
  <1>6. ASSUME NEW t \in Handlers, Knows(t, msg),
               t.pc \in {"batch", "flag", "chain"} => t.me # Null
        PROVE  Knows(t, msg')
    <2>1. t.me # Null => t.me \in Ids
      BY DEF Handlers, Ids, Null
    <2>2. ASSUME t.me # Null, msg[t.me].st = "complete" PROVE msg'[t.me] = msg[t.me]
      BY <1>2, <1>k, <2>1, <2>2
    <2> QED
      BY <1>6, <2>2 DEF Knows
  <1> QED
    BY <1>3, <1>4, <1>5, <1>6

\* Steps around the handlers only move the table.
LEMMA OtherMoves == ASSUME TypeOK, Edit \/ Around PROVE TableMoved
  <1>m. \A i \in Ids : msg[i] \in Messages
    BY DEF TypeOK
  <1>u. \A i \in Ids : /\ Moved(msg[i], ErrorIfPending(msg[i])) /\ Moved(msg[i], Swept(msg[i]))
                       /\ Moved(msg[i], msg[i])
    BY <1>m, UpdateCarries
  <1>e. ASSUME NEW a \in Agents, ErrorPendingOf(a), UNCHANGED last PROVE TableMoved
    BY <1>e, <1>u DEF ErrorPendingOf, TableMoved
  <1>1. CASE Cancel \/ SweepStale \/ LoadThread
    BY <1>1, <1>u DEF Cancel, SweepStale, LoadThread, TableMoved
  <1>2. CASE \E a \in Agents : StopCleanup(a) \/ \E h \in Slots : RemoveAgent(h, a)
    BY <1>2, <1>e DEF StopCleanup, RemoveAgent
  <1>3. ASSUME NEW i \in Ids, Think(i) PROVE TableMoved
    BY <1>3, <1>m, UpdateCarries, MoveOne DEF Think
  <1>4. ASSUME NEW i \in Ids, GrowStale(i) PROVE TableMoved
    <2>1. Moved(msg[i], [msg[i] EXCEPT !.stale = TRUE])
      BY <1>m, UpdateCarries
    <2> QED
      BY <1>4, <2>1, MoveOne DEF GrowStale
  <1>5. CASE \/ \E a \in Agents : AddAgent(a) \/ AgentDown(a) \/ AgentOff(a) \/ AgentUp(a)
             \/ \E h \in Slots : Leave(h)
             \/ \E i \in Ids : LoseCallback(i)
             \/ ApiRestart
    BY <1>5, MoveNone DEF AddAgent, AgentDown, AgentOff, AgentUp, Leave, LoseCallback, ApiRestart
  <1> QED
    BY <1>1, <1>2, <1>3, <1>4, <1>5 DEF Edit, Around

\* Steps of a handler that neither insert nor claim a message only move the
\* table: the chain of a message is named once.
LEMMA HandlerMoves ==
  ASSUME TypeOK, Serving, NEW h \in Slots,
         \/ \E S \in SUBSET Agents : PostMessage(h, S)
         \/ \E a \in Agents : CheckAgent(h, a)
         \/ \E i \in Ids : PostWork(h, i) \/ MarkFailed(h, i)
         \/ CountBatch(h) \/ FlagBatch(h) \/ BeginChain(h) \/ FilterChain(h) \/ DispatchChain(h)
  PROVE  TableMoved
  <1>m. \A i \in Ids : msg[i] \in Messages
    BY DEF TypeOK
  <1> DEFINE me == hand[h].me
  <1>1. CASE UNCHANGED <<msg, last>>
    BY <1>1, MoveNone
  <1>2. ASSUME NEW i \in Ids, MarkFailed(h, i) PROVE TableMoved
    <2>1. Moved(msg[i], ErrorIfPending(msg[i]))
      BY <1>m, UpdateCarries
    <2> QED
      BY <1>1, <1>2, <2>1, MoveOne DEF MarkFailed
  <1>3. CASE FlagBatch(h)
    <2>1. me \in Ids
      BY <1>3, Refers DEF FlagBatch, At, Serving
    <2>2. Moved(msg[me], [msg[me] EXCEPT !.batch = TRUE])
      BY <1>m, <2>1, UpdateCarries
    <2> QED
      BY <1>1, <1>3, <2>1, <2>2, MoveOne DEF FlagBatch
  <1>4. CASE BeginChain(h)
    <2>1. me \in Ids
      BY <1>4, Refers DEF BeginChain, At, Serving
    <2>2. msg[me].chain # Null => ChainOf(me) = msg[me].chain
      BY DEF ChainOf
    <2>3. Moved(msg[me], [msg[me] EXCEPT !.chain = ChainOf(me)])
      BY <1>m, <2>1, <2>2, UpdateCarries
    <2> QED
      BY <1>1, <1>4, <2>1, <2>3, MoveOne DEF BeginChain
  <1> QED
    BY <1>1, <1>2, <1>3, <1>4
    DEF PostMessage, CheckAgent, PostWork, CountBatch, FilterChain, DispatchChain

\* A handler that has ended knows nothing.
LEMMA IdleKnows == \A table : Knows(Idle, table)
  BY DEF Knows, Idle

\* What every handler knows stays known when one of them takes a step.
LEMMA KnowOne ==
  ASSUME ChainInv, NEW h \in Slots, NEW n, hand' = [hand EXCEPT ![h] = n], Knows(n, msg'),
         \A t \in Handlers : /\ Knows(t, msg)
                             /\ t.pc \in {"batch", "flag", "chain"} => t.me # Null
                             => Knows(t, msg')
  PROVE  HandsKnow'
  <1>1. \A g \in Slots : /\ hand[g] \in Handlers /\ Knows(hand[g], msg)
                         /\ hand[g].pc \in {"batch", "flag", "chain"} => hand[g].me # Null
    BY DEF ChainInv, HandsKnow, DispatchInv, TypeOK, Serving
  <1>2. \A g \in Slots : hand'[g] = n \/ hand'[g] = hand[g]
    BY DEF ChainInv, DispatchInv, TypeOK
  <1> QED
    BY <1>1, <1>2 DEF HandsKnow

\* The same for steps that carry the table on.
LEMMA CarriedStep ==
  ASSUME ChainInv, DispatchInv', TableCarried, NEW h \in Slots, NEW n,
         hand' = [hand EXCEPT ![h] = n], Knows(n, msg')
  PROVE  ChainInv'
  <1>1. \A t \in Handlers : /\ Knows(t, msg)
                            /\ t.pc \in {"batch", "flag", "chain"} => t.me # Null
                            => Knows(t, msg')
    BY CarriedKnows DEF ChainInv, DispatchInv
  <1>2. HandsKnow'
    BY <1>1, KnowOne
  <1> QED
    BY <1>2, CarriedTable DEF ChainInv

\* Steps around the handlers keep the invariant.
LEMMA OtherChain == ASSUME ChainInv, DispatchInv', Edit \/ Around PROVE ChainInv'
  <1>1. TableCarried
    BY OtherMoves, MovedIsCarried DEF ChainInv, DispatchInv
  <1>2. ASSUME NEW h \in Slots, NEW n, hand' = [hand EXCEPT ![h] = n], Knows(n, msg') PROVE ChainInv'
    BY <1>1, <1>2, CarriedStep
  <1>3. ASSUME \A g \in Slots : hand'[g] = hand[g] \/ hand'[g] = Idle PROVE ChainInv'
    <2>1. \A g \in Slots : Knows(hand[g], msg')
      BY <1>1, CarriedKnows DEF ChainInv, DispatchInv, TypeOK, Serving, HandsKnow
    <2> QED
      BY <1>1, <1>3, <2>1, IdleKnows, CarriedTable DEF ChainInv, HandsKnow
  <1>4. ASSUME NEW a \in Agents, NEW h \in Slots, RemoveAgent(h, a) PROVE ChainInv'
    <2> DEFINE n == [Idle EXCEPT !.pc = "leave", !.todo = {a}]
    <2>1. Knows(n, msg')
      BY DEF Knows, Idle
    <2>2. hand' = [hand EXCEPT ![h] = n]
      BY <1>4 DEF RemoveAgent
    <2> HIDE DEF n
    <2> QED
      BY <1>2, <2>1, <2>2
  <1>5. ASSUME NEW h \in Slots, Leave(h) PROVE ChainInv'
    BY <1>5, <1>2, IdleKnows DEF Leave, Done
  <1>6. CASE ApiRestart
    BY <1>6, <1>3 DEF ApiRestart
  <1>7. CASE UNCHANGED hand
    BY <1>7, <1>3
  <1> QED
    BY <1>4, <1>5, <1>6, <1>7
    DEF Edit, Around, Cancel, AddAgent, Think, LoseCallback, GrowStale, AgentDown, StopCleanup,
        AgentOff, AgentUp, SweepStale, LoadThread

\* Steps of a handler that neither insert nor claim a message keep the
\* invariant; the step that begins a hop is the one that learns the parent.
LEMMA HandlerChain ==
  ASSUME ChainInv, DispatchInv', NEW h \in Slots,
         \/ \E S \in SUBSET Agents : PostMessage(h, S)
         \/ \E a \in Agents : CheckAgent(h, a)
         \/ \E i \in Ids : PostWork(h, i) \/ MarkFailed(h, i)
         \/ CountBatch(h) \/ FlagBatch(h) \/ BeginChain(h) \/ FilterChain(h) \/ DispatchChain(h)
  PROVE  ChainInv'
  <1> DEFINE t == hand[h]
  <1>t. /\ t \in Handlers /\ Knows(t, msg) /\ TypeOK /\ Serving
        /\ t.pc \in {"batch", "flag", "chain"} => t.me # Null
        /\ t.me # Null => t.me \in Ids
    BY Refers DEF ChainInv, DispatchInv, TypeOK, Serving, HandsKnow
  <1>c. TableCarried
    BY <1>t, HandlerMoves, MovedIsCarried
  <1>k. Knows(t, msg')
    BY <1>t, <1>c, CarriedKnows
  <1>n. ASSUME NEW n, hand' = [hand EXCEPT ![h] = n], Knows(n, msg') PROVE ChainInv'
    BY <1>c, <1>n, CarriedStep
  <1>d. Done(h) => ChainInv'
    BY <1>n, IdleKnows DEF Done
  <1>1. ASSUME NEW S \in SUBSET Agents, PostMessage(h, S) PROVE ChainInv'
    <2> DEFINE n == [Idle EXCEPT !.pc = "check", !.todo = S]
    <2>1. Knows(n, msg')
      BY DEF Knows, Idle, Null
    <2>2. hand' = [hand EXCEPT ![h] = n]
      BY <1>1 DEF PostMessage
    <2> HIDE DEF n
    <2> QED
      BY <1>n, <2>1, <2>2
  <1>2. ASSUME NEW a \in Agents, CheckAgent(h, a) PROVE ChainInv'
    <2> DEFINE n == [t EXCEPT !.todo = @ \ {a}, !.ok = IF Fit(h, a) THEN @ \cup {a} ELSE @]
    <2>1. /\ t.pc = "check" /\ n.pc = "check" /\ n.me = t.me /\ n.hop = t.hop /\ n.chain = t.chain
          /\ n.todo \cup n.ok \subseteq t.todo \cup t.ok
      BY <1>2, <1>t DEF CheckAgent, At, Handlers
    <2>2. hand' = [hand EXCEPT ![h] = n]
      BY <1>2 DEF CheckAgent
    <2> HIDE DEF n
    <2>3. Knows(n, msg')
      BY <1>k, <2>1 DEF Knows, Parent
    <2> QED
      BY <1>n, <2>2, <2>3
  <1>3. ASSUME NEW i \in Ids, PostWork(h, i) \/ MarkFailed(h, i) PROVE ChainInv'
    <2> DEFINE sent == [t EXCEPT !.unsent = @ \ {i}]
               lost == [sent EXCEPT !.failed = @ \cup {i}]
               marked == [t EXCEPT !.failed = @ \ {i}]
    <2>1. sent.pc = "send" /\ lost.pc = "send" /\ marked.pc = "send"
      BY <1>3, <1>t DEF PostWork, MarkFailed, At, Handlers
    <2>2. \/ hand' = [hand EXCEPT ![h] = Settled(sent)] \/ hand' = [hand EXCEPT ![h] = lost]
          \/ hand' = [hand EXCEPT ![h] = Settled(marked)]
      BY <1>3 DEF PostWork, MarkFailed
    <2> HIDE DEF sent, lost, marked
    <2>3. Knows(Settled(sent), msg') /\ Knows(lost, msg') /\ Knows(Settled(marked), msg')
      BY <2>1, IdleKnows DEF Knows, Settled
    <2> QED
      BY <1>n, <2>2, <2>3
  <1>4. CASE CountBatch(h) \/ FlagBatch(h)
    <2>1. ASSUME NEW pc \in {"flag", "chain"}, Goto(h, pc) PROVE ChainInv'
      <3> DEFINE n == [t EXCEPT !.pc = pc]
      <3>1. n.pc = pc /\ n.me = t.me /\ n.say = t.say /\ n.ok = t.ok /\ t.pc \in {"batch", "flag"}
        BY <1>4, <1>t DEF CountBatch, FlagBatch, At, Handlers
      <3>2. hand' = [hand EXCEPT ![h] = n]
        BY <2>1 DEF Goto
      <3> HIDE DEF n
      <3>3. Knows(n, msg')
        BY <1>k, <3>1 DEF Knows
      <3> QED
        BY <1>n, <3>2, <3>3
    <2> QED
      BY <1>4, <1>d, <2>1 DEF CountBatch, FlagBatch
  <1>5. CASE BeginChain(h)
    <2>1. t.pc = "chain" /\ t.me \in Ids /\ t.me # Null
      BY <1>5, <1>t DEF BeginChain, At
    <2> DEFINE c == ChainOf(t.me)
               m == [msg[t.me] EXCEPT !.chain = c]
               n == [t EXCEPT !.pc = "cycle", !.todo = ChainTargets(h), !.say = {},
                              !.chain = c, !.hop = msg[t.me].hop + 1]
    <2>2. CASE /\ ChainTargets(h) # {}
               /\ msg' = [msg EXCEPT ![t.me] = m]
               /\ hand' = [hand EXCEPT ![h] = n]
      <3>1. c # Null
        BY <2>1 DEF ChainOf, Ids, Null
      <3>2. /\ n.pc = "cycle" /\ n.me = t.me /\ n.todo = ChainTargets(h) /\ n.ok = t.ok
            /\ n.chain = c /\ n.hop = msg[t.me].hop + 1
        <4> HIDE DEF c
        <4> QED
          BY <1>t DEF Handlers
      <3>3. msg[t.me] \in Messages
        BY <1>t, <2>1 DEF TypeOK
      <3>4. m.chain = c /\ m.hop = msg[t.me].hop /\ m.author = msg[t.me].author /\ msg[t.me].hop \in Nat
        <4> HIDE DEF c
        <4> QED
          BY <3>3 DEF Messages
      <3>5. msg'[t.me] = m
        BY <1>t, <2>1, <2>2 DEF TypeOK
      <3>6. t.say # {} /\ msg[t.me].author \notin ChainTargets(h)
        BY <2>2 DEF ChainTargets
      <3>7. msg'[t.me].st = "complete"
        BY <1>k, <2>1, <3>6 DEF Knows
      <3>8. t.ok = {}
        BY <1>k, <2>1 DEF Knows
      <3> HIDE DEF c, m, n
      <3>9. Knows(n, msg')
        BY <2>1, <3>1, <3>2, <3>4, <3>5, <3>6, <3>7, <3>8 DEF Knows, Parent
      <3> QED
        BY <1>n, <2>2, <3>9
    <2>3. CASE Done(h)
      BY <1>d, <2>3
    <2> QED
      BY <1>5, <2>2, <2>3 DEF BeginChain, Done
  <1>6. CASE FilterChain(h)
    <2> DEFINE fresh == t.todo \ InChain(t.chain)
               n == [t EXCEPT !.pc = "check", !.todo = fresh]
    <2>1. /\ t.pc = "cycle" /\ n.pc = "check" /\ n.me = t.me /\ n.hop = t.hop /\ n.chain = t.chain
          /\ n.todo \subseteq t.todo /\ n.ok = t.ok
      BY <1>6, <1>t DEF FilterChain, At, Handlers
    <2>2. hand' = [hand EXCEPT ![h] = n] \/ Done(h)
      BY <1>6 DEF FilterChain, Done
    <2> HIDE DEF n
    <2>3. Knows(n, msg')
      BY <1>k, <2>1 DEF Knows, Parent
    <2> QED
      BY <1>n, <1>d, <2>2, <2>3
  <1>7. CASE DispatchChain(h)
    <2> DEFINE n == [t EXCEPT !.pc = "place", !.todo = t.ok, !.ok = {}]
    <2>1. /\ t.pc = "check" /\ n.pc = "place" /\ n.me = t.me /\ n.hop = t.hop /\ n.chain = t.chain
          /\ n.todo = t.ok /\ n.ok = {}
      BY <1>7, <1>t DEF DispatchChain, Checked, At, Handlers
    <2>2. hand' = [hand EXCEPT ![h] = n] \/ Done(h)
      BY <1>7 DEF DispatchChain, Done
    <2> HIDE DEF n
    <2>3. Knows(n, msg')
      BY <1>k, <2>1 DEF Knows, Parent
    <2> QED
      BY <1>n, <1>d, <2>2, <2>3
  <1> QED
    BY <1>1, <1>2, <1>3, <1>4, <1>5, <1>6, <1>7

\* A terminal callback carries the table on, and its handler knows whether the
\* message it goes on with is complete.
LEMMA ClaimChain ==
  ASSUME ChainInv, DispatchInv', NEW h \in Slots, NEW i \in Ids, NEW res \in Terminal, NEW say,
         TerminalCallback(h, i, res, say)
  PROVE  ChainInv'
  <1>t. TypeOK /\ msg[i] \in Messages
    BY DEF ChainInv, DispatchInv, TypeOK
  <1> DEFINE m == [msg[i] EXCEPT !.st = res, !.stale = FALSE]
             n == [Idle EXCEPT !.pc = "batch", !.me = i, !.say = IF res = "complete" THEN say ELSE {}]
  <1>1. CASE EndsMessage(i)
    <2>1. Carried(msg[i], m) /\ m.st = res
      BY <1>1, <1>t, UpdateCarries DEF EndsMessage, Messages
    <2>2. msg' = [msg EXCEPT ![i] = m] /\ hand' = [hand EXCEPT ![h] = n] /\ last' = last
      BY <1>1 DEF TerminalCallback
    <2>3. n.pc = "batch" /\ n.me = i /\ n.ok = {} /\ (n.say # {} => res = "complete")
      BY DEF Idle
    <2> HIDE DEF m, n
    <2>4. \A j \in Ids : Carried(msg[j], msg[j])
      BY <1>t, UpdateCarries DEF TypeOK, Moved
    <2>5. TableCarried /\ msg'[i] = m
      BY <1>t, <2>1, <2>2, <2>4 DEF TypeOK, TableCarried
    <2>6. Knows(n, msg')
      BY <2>1, <2>3, <2>5 DEF Knows
    <2> QED
      BY <2>2, <2>5, <2>6, CarriedStep
  <1>2. CASE ~EndsMessage(i)
    <2>1. UNCHANGED <<msg, last, hand>>
      BY <1>2 DEF TerminalCallback
    <2> QED
      BY <2>1 DEF ChainInv, Blank, Dense, HandsKnow, Rooted, ChainIsTree
  <1> QED
    BY <1>1, <1>2

\* A handler that fails to insert ends, and nothing else happens to the table.
LEMMA CannotInsertChain ==
  ASSUME ChainInv, DispatchInv', NEW h \in Slots, Done(h), UNCHANGED <<msg, last>>
  PROVE  ChainInv'
  <1>1. TableCarried
    BY MoveNone, MovedIsCarried DEF ChainInv, DispatchInv
  <1> QED
    BY <1>1, IdleKnows, CarriedStep DEF Done

\* The user's message is the root of what its handler dispatches.
LEMMA UserChain ==
  ASSUME ChainInv, DispatchInv', NEW h \in Slots, InsertUserMessage(h)
  PROVE  ChainInv'
  <1> DEFINE t == hand[h]
             m == [NoMsg EXCEPT !.st = "complete"]
             n == [t EXCEPT !.pc = "place", !.me = last + 1, !.todo = ToAsk(t.ok), !.ok = {}]
  <1>t. /\ t \in Handlers /\ TypeOK /\ t.pc = "check" /\ t.me = Null
        /\ Knows(t, msg)
    BY DEF ChainInv, DispatchInv, TypeOK, HandsKnow, InsertUserMessage, Checked, At
  <1>1. CASE Done(h) /\ UNCHANGED <<msg, last>>
    BY <1>1, CannotInsertChain
  <1>2. CASE /\ last < MaxMsgs /\ Insert(m)
             /\ hand' = [hand EXCEPT ![h] = n] \/ hand' = [hand EXCEPT ![h] = Idle]
    <2>1. m \in Messages
      BY NothingType DEF Messages, Terminal
    <2>2. m.st = "complete" /\ m.reply = Null /\ m.hop = 0
      BY DEF NoMsg
    <2>3. n.pc = "place" /\ n.me = last + 1 /\ n.hop = t.hop
      BY <1>t DEF Handlers
    <2>4. t.hop = 0
      BY <1>t DEF Knows
    <2>5. last + 1 \in Ids /\ last + 1 # Null
      BY <1>t, <1>2 DEF TypeOK, Ids, Null
    <2> HIDE DEF m, n
    <2>6. msg'[last + 1] = m
      BY <1>t, <1>2, <2>5 DEF Insert, TypeOK
    <2>7. Knows(n, msg')
      BY <2>2, <2>3, <2>4, <2>5, <2>6 DEF Knows
    <2>8. /\ Blank' /\ Dense' /\ Rooted' /\ ChainIsTree'
          /\ \A g \in Handlers : /\ Knows(g, msg)
                                 /\ g.pc \in {"batch", "flag", "chain"} => g.me # Null
                                 => Knows(g, msg')
      BY <1>2, <2>1, <2>2, InsertTable
    <2>9. HandsKnow'
      BY <1>2, <2>7, <2>8, IdleKnows, KnowOne
    <2> QED
      BY <2>8, <2>9 DEF ChainInv
  <1> QED
    BY <1>1, <1>2 DEF InsertUserMessage, CannotInsert

\* A placeholder hangs below the message that its handler dispatches.
LEMMA PlaceholderChain ==
  ASSUME ChainInv, DispatchInv', NEW h \in Slots, NEW a \in Agents, InsertPlaceholder(h, a)
  PROVE  ChainInv'
  <1> DEFINE t == hand[h]
             left == t.todo \ {a}
             m == [NoMsg EXCEPT !.st = "pending", !.author = a, !.reply = t.me,
                                !.chain = t.chain, !.hop = t.hop]
             n == [t EXCEPT !.todo = left, !.unsent = @ \cup {last + 1},
                            !.pc = IF left = {} THEN "send" ELSE @]
  <1>t. /\ t \in Handlers /\ TypeOK /\ t.pc = "place" /\ t.me # Null /\ a \in t.todo
        /\ Knows(t, msg)
    BY DEF ChainInv, DispatchInv, TypeOK, HandsKnow, InsertPlaceholder, At, Placed
  <1>f. t.me \in Ids /\ t.chain \in 0..MaxMsgs /\ t.hop \in 0..MaxHops /\ t.me \in 0..MaxMsgs
    BY <1>t DEF Handlers, Ids, Null
  <1>1. CASE Done(h) /\ UNCHANGED <<msg, last>>
    BY <1>1, CannotInsertChain
  <1>2. CASE last < MaxMsgs /\ Insert(m) /\ hand' = [hand EXCEPT ![h] = n]
    <2>1. m \in Messages
      BY <1>f, InsertedType
    <2>2. m.st = "pending" /\ m.author = a /\ m.reply = t.me /\ m.chain = t.chain /\ m.hop = t.hop
      BY DEF NoMsg
    <2>3. /\ n.pc \in {"place", "send"} /\ n.me = t.me /\ n.hop = t.hop /\ n.chain = t.chain
          /\ n.todo = left /\ n.ok = t.ok
      BY <1>t DEF Handlers
    <2> HIDE DEF m, n
    <2>4. m.hop > 0 => Parent(t, msg[t.me]) /\ msg[t.me].st = "complete"
      BY <1>t, <2>2 DEF Knows
    <2>5. m.hop > 0 => /\ m.reply # Null /\ m.reply \in Ids
                       /\ LET p == msg[m.reply] IN
                          /\ p.hop + 1 = m.hop /\ p.st = "complete" /\ p.chain = m.chain
                          /\ p.chain # Null /\ p.author # m.author
      BY <1>t, <1>f, <2>2, <2>4 DEF Parent
    <2>6. m.st # "none"
      BY <2>2
    <2>8. /\ Blank' /\ Dense' /\ Rooted' /\ ChainIsTree'
          /\ \A g \in Handlers : /\ Knows(g, msg)
                                 /\ g.pc \in {"batch", "flag", "chain"} => g.me # Null
                                 => Knows(g, msg')
      BY <1>2, <2>1, <2>5, <2>6, InsertTable
    <2>7. Knows(t, msg')
      BY <1>t, <2>8
    <2>9. Knows(n, msg')
      BY <1>t, <2>3, <2>7 DEF Knows, Parent
    <2>10. HandsKnow'
      BY <1>2, <2>8, <2>9, KnowOne
    <2> QED
      BY <2>8, <2>10 DEF ChainInv
  <1> QED
    BY <1>1, <1>2 DEF InsertPlaceholder, CannotInsert

\* Every step keeps the invariant.
LEMMA NextChain == ASSUME ChainInv, [Next]_vars PROVE ChainInv'
  <1>d. DispatchInv' /\ TypeOK
    BY NextDispatch DEF ChainInv, DispatchInv
  <1>1. ASSUME NEW h \in Slots, NEW S \in SUBSET Agents, PostMessage(h, S) PROVE ChainInv'
    BY <1>d, <1>1, HandlerChain
  <1>2. ASSUME NEW h \in Slots, Dispatch(h) PROVE ChainInv'
    BY <1>d, <1>2, HandlerChain, UserChain, PlaceholderChain DEF Dispatch
  <1>3. ASSUME NEW h \in Slots, Callback(h) PROVE ChainInv'
    <2>1. CASE CountBatch(h) \/ FlagBatch(h) \/ BeginChain(h) \/ FilterChain(h) \/ DispatchChain(h)
      BY <1>d, <2>1, HandlerChain
    <2>2. ASSUME NEW i \in Ids, NEW res \in Terminal, NEW say, Answer(h, i, res, say) PROVE ChainInv'
      BY <1>d, <2>2, ClaimChain DEF Answer
    <2>3. ASSUME NEW i \in Ids, AnswerAgain(h, i) PROVE ChainInv'
      <3>1. work[i].res \in Terminal
        BY <1>d DEF TypeOK, Works
      <3> QED
        BY <1>d, <2>3, <3>1, ClaimChain DEF AnswerAgain
    <2> QED
      BY <1>3, <2>1, <2>2, <2>3 DEF Callback
  <1>4. CASE Edit \/ Around
    BY <1>d, <1>4, OtherChain
  <1>5. CASE UNCHANGED vars
    BY <1>d, <1>5 DEF vars, ChainInv, Blank, Dense, HandsKnow, Rooted, ChainIsTree
  <1> QED
    BY <1>1, <1>2, <1>3, <1>4, <1>5 DEF Next

\* The invariant holds at first.
LEMMA InitChain == Init => ChainInv
  <1> SUFFICES ASSUME Init PROVE ChainInv
    OBVIOUS
  <1>1. /\ \A i \in Ids : msg[i].st = "none" /\ msg[i].reply = Null /\ msg[i].hop = 0
        /\ \A h \in Slots : hand[h] = Idle
    BY DEF Init, NoMsg
  <1>2. Blank /\ HandsKnow /\ Rooted /\ ChainIsTree
    BY <1>1, IdleKnows DEF Blank, HandsKnow, Rooted, ChainIsTree
  <1>3. Dense
    BY DEF Init, Dense, Ids
  <1> QED
    BY <1>2, <1>3, InitDispatch DEF ChainInv

\* A chain is a tree of at most MAX_CHAIN_HOPS levels below its root: a
\* placeholder of a hop answers a complete message of the hop before, of the
\* same chain and by another agent, whatever is inserted, ended or restarted
\* between the queries of the callback handler (routes/chat.ts).
THEOREM ChainsAreTrees == Spec => []ChainIsTree
  <1>1. ChainInv => ChainIsTree
    BY DEF ChainInv
  <1> QED
    BY <1>1, InitChain, NextChain, PTL DEF Spec
-----------------------------------------------------------------------------
(* The refinement.  Every step of the thread's handlers is, for who looks   *)
(* at the messages, a step of Replies or none.                              *)

\* what module Replies calls st, by and to
Shown(m) == IF m.st \in Open THEN "open" ELSE m.st
By(m) == IF m.reply = Null THEN NoLead ELSE m.author

\* Messages that show the same show the same thread.
LEMMA SameThread ==
  ASSUME \A i \in Ids : /\ Shown(msg'[i]) = Shown(msg[i]) /\ By(msg'[i]) = By(msg[i])
                        /\ msg'[i].reply = msg[i].reply
  PROVE  UNCHANGED Thread!thread
  BY DEF Thread!thread, Shown, By

\* Moving the table gives up some open messages, or shows nothing.
LEMMA MovedIsSeen ==
  ASSUME TypeOK, TableMoved
  PROVE  [Thread!Next]_(Thread!thread)
  <1>1. PICK S \in SUBSET Thread!Opened :
          \A i \in Ids : /\ By(msg'[i]) = By(msg[i]) /\ msg'[i].reply = msg[i].reply
                         /\ Shown(msg'[i]) = IF i \in S THEN "error" ELSE Shown(msg[i])
    <2> DEFINE T == {i \in Ids : msg[i].st \in Open /\ msg'[i].st = "error"}
    <2>1. \A i \in Ids : /\ By(msg'[i]) = By(msg[i]) /\ msg'[i].reply = msg[i].reply
                         /\ Shown(msg'[i]) = IF i \in T THEN "error" ELSE Shown(msg[i])
      <3> TAKE i \in Ids
      <3>1. msg[i].st \in Open \cup Terminal \cup {"none"} /\ Moved(msg[i], msg'[i])
        BY DEF TypeOK, Messages, TableMoved
      <3> QED
        BY <3>1 DEF Moved, Carried, Shown, By, Open, Terminal
    <2>2. T \in SUBSET Thread!Opened
      BY DEF Thread!Opened, Thread!Places, Ids
    <2> HIDE DEF T
    <2> QED
      BY <2>1, <2>2
  <1>3. CASE S = {}
    BY <1>1, <1>3, SameThread
  <1>4. CASE S # {}
    <2>1. Thread!GiveUp(S)
      BY <1>1, <1>4 DEF Thread!GiveUp, Thread!Places, Ids, Shown, By
    <2> QED
      BY <2>1 DEF Thread!Next, Thread!End
  <1> QED
    BY <1>3, <1>4

\* An agent's answer ends the message it is about.
LEMMA ClaimIsSeen ==
  ASSUME TypeOK, NEW h \in Slots, NEW i \in Ids, NEW res \in Terminal, NEW say,
         TerminalCallback(h, i, res, say)
  PROVE  [Thread!Next]_(Thread!thread)
  <1>1. CASE ~EndsMessage(i)
    BY <1>1, SameThread DEF TerminalCallback
  <1>2. CASE EndsMessage(i)
    <2> DEFINE m == [msg[i] EXCEPT !.st = res, !.stale = FALSE]
    <2>1. m.st = res /\ m.reply = msg[i].reply /\ m.author = msg[i].author
      BY DEF TypeOK, Messages
    <2>2. msg' = [msg EXCEPT ![i] = m]
      BY <1>2 DEF TerminalCallback
    <2> HIDE DEF m
    <2>3. /\ \A j \in Ids : /\ By(msg'[j]) = By(msg[j]) /\ msg'[j].reply = msg[j].reply
                            /\ Shown(msg'[j]) = IF j = i THEN res ELSE Shown(msg[j])
          /\ Shown(msg[i]) = "open"
      BY <1>2, <2>1, <2>2 DEF TypeOK, Shown, By, EndsMessage, Open, Terminal
    <2>4. i \in Thread!Opened
      BY <2>3 DEF Thread!Opened, Thread!Places, Ids, Shown
    <2>5. CASE res = "complete"
      <3>1. Thread!Answer(i)
        BY <2>3, <2>4, <2>5 DEF Thread!Answer, Thread!Places, Ids, Shown, By
      <3> QED
        BY <3>1 DEF Thread!Next, Thread!End, Thread!Places, Ids
    <2>6. CASE res = "error"
      <3>1. Thread!GiveUp({i})
        BY <2>3, <2>6 DEF Thread!GiveUp, Thread!Places, Ids, Shown, By
      <3> QED
        BY <2>4, <3>1 DEF Thread!Next, Thread!End
    <2> QED
      BY <2>5, <2>6 DEF Terminal
  <1> QED
    BY <1>1, <1>2

\* A message is inserted at the first free place.
LEMMA InsertIsSeen ==
  ASSUME ChainInv, last < MaxMsgs, NEW m \in Messages, Insert(m)
  PROVE  /\ last + 1 \in Thread!Places /\ Thread!Free(last + 1)
         /\ \A j \in Ids : msg'[j] = IF j = last + 1 THEN m ELSE msg[j]
  <1>1. last + 1 \in Ids /\ msg[last + 1].st = "none" /\ last \in Nat
    BY DEF ChainInv, DispatchInv, TypeOK, Counted, Ids
  <1>2. \A j \in Ids : j < last + 1 => msg[j].st # "none"
    BY <1>1 DEF ChainInv, Dense, Ids
  <1>3. Thread!Free(last + 1)
    BY <1>1, <1>2 DEF Thread!Free, Thread!Places, Ids, Open
  <1> QED
    BY <1>1, <1>3 DEF ChainInv, DispatchInv, TypeOK, Insert, Thread!Places, Ids

\* The user's message is said.
LEMMA UserIsSeen ==
  ASSUME ChainInv, NEW h \in Slots, InsertUserMessage(h)
  PROVE  [Thread!Next]_(Thread!thread)
  <1> DEFINE m == [NoMsg EXCEPT !.st = "complete"]
  <1>1. CASE UNCHANGED msg
    BY <1>1, SameThread
  <1>2. CASE last < MaxMsgs /\ Insert(m)
    <2>1. m \in Messages
      BY NothingType DEF Messages, Terminal
    <2>2. m.st = "complete" /\ m.reply = Null
      BY DEF NoMsg
    <2> HIDE DEF m
    <2>3. /\ last + 1 \in Thread!Places /\ Thread!Free(last + 1)
          /\ \A j \in Ids : msg'[j] = IF j = last + 1 THEN m ELSE msg[j]
      BY <1>2, <2>1, InsertIsSeen
    <2>4. PICK i \in Thread!Places :
            Thread!Free(i) /\ \A j \in Ids : msg'[j] = IF j = i THEN m ELSE msg[j]
      BY <2>3
    <2>5. msg[i].reply = Null
      BY <2>4 DEF ChainInv, Blank, Thread!Free, Thread!Places, Ids
    <2>6. Thread!Say(i)
      BY <2>2, <2>4, <2>5 DEF Thread!Say, Thread!Places, Ids, Open
    <2> QED
      BY <2>4, <2>6 DEF Thread!Next
  <1> QED
    BY <1>1, <1>2 DEF InsertUserMessage, CannotInsert

\* A placeholder asks an agent about a complete message of somebody else, and
\* for the first time.
LEMMA PlaceholderIsSeen ==
  ASSUME ChainInv, NEW h \in Slots, NEW a \in Agents, InsertPlaceholder(h, a)
  PROVE  [Thread!Next]_(Thread!thread)
  <1> DEFINE t == hand[h]
             m == [NoMsg EXCEPT !.st = "pending", !.author = a, !.reply = t.me,
                                !.chain = t.chain, !.hop = t.hop]
             r == t.me
             k == last + 1
  <1>t. /\ t \in Handlers /\ TypeOK /\ t.pc = "place" /\ r # Null /\ a \in t.todo
        /\ Knows(t, msg)
    BY DEF ChainInv, DispatchInv, TypeOK, HandsKnow, InsertPlaceholder, At, Placed
  <1>f. r \in Ids /\ t.chain \in 0..MaxMsgs /\ t.hop \in 0..MaxHops /\ r \in 0..MaxMsgs
    BY <1>t DEF Handlers, Ids, Null
  <1>p. msg[r].st = "complete" /\ By(msg[r]) # a
    <2>1. CASE t.hop = 0
      BY <1>t, <2>1, AgentsAssumption DEF Knows, By
    <2>2. CASE t.hop > 0
      BY <1>t, <2>2, AgentsAssumption DEF Knows, Parent, By
    <2> QED
      BY <1>f, <2>1, <2>2
  <1>q. \A j \in Ids : msg[j].reply = r => By(msg[j]) # a
    <2> SUFFICES ASSUME NEW j \in Ids, msg[j].reply = r PROVE msg[j].author # a
      BY <1>t DEF By
    <2>1. Placeholder(j)
      BY <1>t DEF ChainInv, Blank, Placeholder
    <2> QED
      BY <1>t, <2>1 DEF ChainInv, DispatchInv, NotYetAsked, Pre
  <1>1. CASE UNCHANGED msg
    BY <1>1, SameThread
  <1>2. CASE last < MaxMsgs /\ Insert(m)
    <2>1. m \in Messages
      BY <1>f, InsertedType
    <2>2. m.st = "pending" /\ m.reply = r /\ m.author = a
      BY DEF NoMsg
    <2> HIDE DEF m
    <2>3. /\ k \in Thread!Places /\ Thread!Free(k)
          /\ \A j \in Ids : msg'[j] = IF j = k THEN m ELSE msg[j]
      BY <1>2, <2>1, InsertIsSeen
    <2> HIDE DEF r, k
    <2>4. Thread!Ask(k, r, a)
      BY <1>t, <1>f, <1>p, <1>q, <2>2, <2>3 DEF Thread!Ask, Thread!Places, Ids, Open, By
    <2> QED
      BY <1>f, <2>3, <2>4 DEF Thread!Next, Thread!Places, Ids
  <1> QED
    BY <1>1, <1>2 DEF InsertPlaceholder, CannotInsert

\* Every step is a step of the abstract thread or none.
LEMMA NextIsSeen == ASSUME ChainInv, [Next]_vars PROVE [Thread!Next]_(Thread!thread)
  <1>t. TypeOK /\ Serving
    BY DEF ChainInv, DispatchInv
  <1>m. TableMoved => [Thread!Next]_(Thread!thread)
    BY <1>t, MovedIsSeen
  <1>1. ASSUME NEW h \in Slots, NEW S \in SUBSET Agents, PostMessage(h, S)
        PROVE  [Thread!Next]_(Thread!thread)
    BY <1>t, <1>m, <1>1, HandlerMoves
  <1>2. ASSUME NEW h \in Slots, Dispatch(h) PROVE [Thread!Next]_(Thread!thread)
    BY <1>t, <1>m, <1>2, HandlerMoves, UserIsSeen, PlaceholderIsSeen DEF Dispatch
  <1>3. ASSUME NEW h \in Slots, Callback(h) PROVE [Thread!Next]_(Thread!thread)
    <2>1. CASE CountBatch(h) \/ FlagBatch(h) \/ BeginChain(h) \/ FilterChain(h) \/ DispatchChain(h)
      BY <1>t, <1>m, <2>1, HandlerMoves
    <2>2. ASSUME NEW i \in Ids, NEW res \in Terminal, NEW say, Answer(h, i, res, say)
          PROVE  [Thread!Next]_(Thread!thread)
      BY <1>t, <2>2, ClaimIsSeen DEF Answer
    <2>3. ASSUME NEW i \in Ids, AnswerAgain(h, i) PROVE [Thread!Next]_(Thread!thread)
      <3>1. work[i].res \in Terminal
        BY <1>t DEF TypeOK, Works
      <3> QED
        BY <1>t, <2>3, <3>1, ClaimIsSeen DEF AnswerAgain
    <2> QED
      BY <1>3, <2>1, <2>2, <2>3 DEF Callback
  <1>4. CASE Edit \/ Around
    BY <1>t, <1>m, <1>4, OtherMoves
  <1>5. CASE UNCHANGED vars
    BY <1>t, <1>m, <1>5, MoveNone DEF vars
  <1> QED
    BY <1>1, <1>2, <1>3, <1>4, <1>5 DEF Next

\* An empty thread is an empty thread.
LEMMA InitIsSeen == Init => Thread!Init
  BY DEF Init, Thread!Init, Thread!Places, Ids, NoMsg, Open, Null

\* The handlers of chat.ts implement the abstract thread, its safety part: an
\* agent is asked once about a complete message that it did not write, and an
\* open question is answered or given up exactly once.  (That none is open for
\* ever, the rest of Thread!Spec, is liveness and left to the run.)
THEOREM HandlersImplementThread == Spec => Thread!Init /\ [][Thread!Next]_(Thread!thread)
  BY InitIsSeen, NextIsSeen, InitChain, NextChain, PTL DEF Spec

HIDE LimitsAssumption
-----------------------------------------------------------------------------
(* The event stream.                                                        *)
-----------------------------------------------------------------------------
(* Numbers.                                                                 *)

\* A set of natural numbers has a least one.
LEMMA Least ==
    ASSUME NEW T \in SUBSET Nat, T # {}
    PROVE  \E x \in T : \A y \in T : x <= y
  <1> DEFINE R == OpToRel(<, Nat)
  <1>1. IsWellFoundedOn(R, Nat)
    BY NatLessThanWellFounded
  <1>2. \A a, b \in Nat : a < b => <<a, b>> \in R
    BY DEF OpToRel
  <1> HIDE DEF R
  <1>3. T \subseteq Nat
    OBVIOUS
  <1>4. PICK x \in T : \A y \in T : ~ (<<y, x>> \in R)
    BY <1>1, <1>3, WFMin, Zenon
  <1>5. \A y \in T : ~(y < x)
    BY <1>2, <1>3, <1>4
  <1> QED BY <1>3, <1>5

\* A bounded set of natural numbers has a greatest one.
LEMMA Greatest ==
    ASSUME NEW b \in Nat, NEW T \in SUBSET (0..b), T # {}
    PROVE  \E x \in T : \A y \in T : y <= x
  <1> DEFINE U == {n \in Nat : \A y \in T : y <= n}
  <1>1. U # {} /\ U \in SUBSET Nat
    <2>1. \A y \in T : y <= b
      OBVIOUS
    <2>2. b \in U
      BY <2>1 DEF U
    <2> QED BY <2>2 DEF U
  <1>2. PICK n \in U : \A o \in U : n <= o
    BY <1>1, Least
  <1>3. n \in Nat /\ \A y \in T : y <= n
    BY <1>2
  <1>4. ASSUME n \notin T PROVE FALSE
    <2>1. PICK y \in T : TRUE
      OBVIOUS
    <2>2. y \in Nat /\ y < n
      BY <1>3, <1>4, <2>1
    <2>3. n - 1 \in Nat /\ \A z \in T : z <= n - 1
      BY <1>3, <1>4, <2>2
    <2>4. n - 1 \in U
      BY <2>3
    <2> QED BY <1>2, <1>3, <2>4
  <1> QED BY <1>3, <1>4

\* A set with 0 and with the successor of every natural number in it has all.
LEMMA SetInduction ==
    ASSUME NEW S, 0 \in S, \A n \in Nat : n \in S => n + 1 \in S
    PROVE  Nat \subseteq S
  <1> SUFFICES ASSUME Nat \ S # {} PROVE FALSE
    OBVIOUS
  <1>1. PICK x \in Nat \ S : \A y \in Nat \ S : x <= y
    BY Least
  <1>2. x # 0 /\ x - 1 \in Nat
    BY <1>1
  <1>3. x - 1 \in S
    BY <1>1, <1>2
  <1>4. x - 1 + 1 = x
    BY <1>1
  <1> QED BY <1>1, <1>2, <1>3, <1>4
-----------------------------------------------------------------------------
(* Rows, ordered by their seq.                                              *)

\* Finitely many rows, each with a seq of its own.
Ranked(R) ==
    /\ IsFiniteSet(R)
    /\ \A r \in R : r.s \in Seqs
    /\ \A r, q \in R : r.s = q.s => r = q
Above(R, t) == {x \in R : x.s > t}

\* Of ranked rows, one is the newest.
LEMMA OneIsTop ==
    ASSUME NEW R, Ranked(R), R # {}
    PROVE  \E r \in R : (\A x \in R : x.s <= r.s) /\ Above(R, r.s) = {}
  <1> DEFINE T == {r.s : r \in R}
  <1>1. T \in SUBSET (0..MaxSeq) /\ T # {} /\ MaxSeq \in Nat
    BY StreamAssumption DEF Ranked, Seqs
  <1>2. PICK t \in T : \A y \in T : y <= t
    BY <1>1, Greatest
  <1>3. PICK r \in R : r.s = t
    OBVIOUS
  <1>4. \A x \in R : x.s <= r.s /\ x.s \in Nat /\ r.s \in Nat
    BY <1>1, <1>2, <1>3
  <1> QED BY <1>4 DEF Above

\* Parts of ranked rows are ranked, and no more.
LEMMA PartIsRanked ==
    ASSUME NEW R, Ranked(R), NEW Q \in SUBSET R
    PROVE  /\ Ranked(Q) /\ Cardinality(Q) \in Nat /\ Cardinality(R) \in Nat
           /\ Cardinality(Q) <= Cardinality(R)
  BY FS_Subset, FS_CardinalityType DEF Ranked

\* The newest rows: with a row, every newer one; what they leave out is older than
\* all of them, and then there were more.
LEMMA NewestIsTop ==
    ASSUME NEW R, Ranked(R), NEW n \in Nat \ {0}
    PROVE  /\ Newest(R, n) \in SUBSET R
           /\ \A r \in Newest(R, n), x \in R : x.s >= r.s => x \in Newest(R, n)
           /\ \A x \in R \ Newest(R, n) : Cardinality(R) > n /\ \A r \in Newest(R, n) : x.s < r.s
           /\ R # {} => Newest(R, n) # {}
  <1> DEFINE W == Newest(R, n)
  <1>1. \A r \in R : r \in W <=> Cardinality(Above(R, r.s)) < n
    BY DEF Newest, Above
  <1>2. W \in SUBSET R
    BY DEF Newest
  <1> HIDE DEF W
  <1>3. \A r \in R : r.s \in Nat
    BY StreamAssumption DEF Ranked, Seqs
  <1>4. ASSUME NEW r \in W, NEW x \in R, x.s >= r.s PROVE x \in W
    <2>1. Above(R, x.s) \in SUBSET Above(R, r.s) /\ Above(R, r.s) \in SUBSET R
      BY <1>2, <1>3, <1>4 DEF Above
    <2>2. /\ Cardinality(Above(R, x.s)) <= Cardinality(Above(R, r.s))
          /\ Cardinality(Above(R, x.s)) \in Nat /\ Cardinality(Above(R, r.s)) \in Nat
      BY <2>1, PartIsRanked
    <2> QED BY <1>1, <1>2, <2>2
  <1>5. ASSUME NEW x \in R \ W PROVE Cardinality(R) > n /\ \A r \in W : x.s < r.s
    <2>1. \A r \in W : x.s < r.s
      BY <1>2, <1>3, <1>4, <1>5
    <2>2. Above(R, x.s) \in SUBSET (R \ {x}) /\ R \ {x} \in SUBSET R /\ Ranked(R \ {x})
      <3>1. x \notin Above(R, x.s)
        BY <1>3 DEF Above
      <3> QED BY <3>1, PartIsRanked DEF Above
    <2>3. /\ Cardinality(Above(R, x.s)) <= Cardinality(R \ {x})
          /\ Cardinality(Above(R, x.s)) \in Nat /\ Cardinality(R \ {x}) \in Nat
      BY <2>2, PartIsRanked
    <2>4. Cardinality(R \ {x}) = Cardinality(R) - 1 /\ Cardinality(R) \in Nat
      BY FS_RemoveElement, FS_CardinalityType DEF Ranked
    <2>5. ~(Cardinality(Above(R, x.s)) < n)
      BY <1>1
    <2> QED BY <2>1, <2>3, <2>4, <2>5
  <1>6. ASSUME R # {} PROVE W # {}
    <2>1. PICK r \in R : Above(R, r.s) = {}
      BY <1>6, OneIsTop
    <2>2. Cardinality(Above(R, r.s)) < n
      BY <2>1, FS_EmptySet
    <2> QED BY <1>1, <2>2
  <1> QED BY <1>2, <1>4, <1>5, <1>6 DEF W

\* There are n newest rows, or all of them.
LEMMA NewestCount ==
    ASSUME NEW R, Ranked(R), NEW n \in Nat \ {0}
    PROVE  /\ Cardinality(Newest(R, n)) \in Nat /\ Cardinality(Newest(R, n)) <= n
           /\ Cardinality(R) >= n => Cardinality(Newest(R, n)) >= n
  <1> DEFINE W == Newest(R, n)
  <1>1. \A r \in R : r \in W <=> Cardinality(Above(R, r.s)) < n
    BY DEF Newest, Above
  <1>2. W \in SUBSET R
    BY DEF Newest
  <1>3. \A r \in W, x \in R : x.s >= r.s => x \in W
    BY NewestIsTop
  <1> HIDE DEF W
  <1>4. Ranked(W) /\ Cardinality(W) \in Nat /\ Cardinality(R) \in Nat
    BY <1>2, PartIsRanked
  <1>5. \A r \in R : r.s \in Nat
    BY StreamAssumption DEF Ranked, Seqs
  <1>6. Cardinality(W) <= n
    <2>1. CASE W = {}
      BY <2>1, FS_EmptySet
    <2>2. CASE W # {}
      <3> DEFINE T == {r.s : r \in W}
      <3>1. T \in SUBSET Nat /\ T # {}
        BY <1>2, <1>5, <2>2
      <3>2. PICK t \in T : \A y \in T : t <= y
        BY <3>1, Least
      <3>3. PICK r \in W : r.s = t
        OBVIOUS
      <3>4. W \ {r} \in SUBSET Above(R, r.s)
        <4>1. \A x \in W \ {r} : x.s > r.s
          BY <1>2, <1>5, <3>2, <3>3 DEF Ranked
        <4> QED BY <1>2, <4>1 DEF Above
      <3>5. Above(R, r.s) \in SUBSET R /\ Cardinality(Above(R, r.s)) < n
        BY <1>1, <1>2 DEF Above
      <3>6. Ranked(Above(R, r.s)) /\ Cardinality(Above(R, r.s)) \in Nat
        BY <3>5, PartIsRanked
      <3>7. Cardinality(W \ {r}) <= Cardinality(Above(R, r.s)) /\ Cardinality(W \ {r}) \in Nat
        BY <3>4, <3>6, PartIsRanked
      <3>8. Cardinality(W \ {r}) = Cardinality(W) - 1
        BY <1>4, FS_RemoveElement DEF Ranked
      <3> QED BY <1>4, <3>5, <3>6, <3>7, <3>8
    <2> QED BY <2>1, <2>2
  <1>7. ASSUME Cardinality(R) >= n PROVE Cardinality(W) >= n
    <2>1. CASE W = R
      BY <1>7, <2>1
    <2>2. CASE W # R
      <3>1. R \ W # {} /\ Ranked(R \ W)
        BY <1>2, <2>2, PartIsRanked
      <3>2. PICK r \in R \ W : \A x \in R \ W : x.s <= r.s
        BY <3>1, OneIsTop
      <3>3. Above(R, r.s) \in SUBSET W
        BY <1>5, <3>2 DEF Above
      <3>4. Cardinality(Above(R, r.s)) <= Cardinality(W) /\ Cardinality(Above(R, r.s)) \in Nat
        BY <1>4, <3>3, PartIsRanked
      <3>5. ~(Cardinality(Above(R, r.s)) < n)
        BY <1>1, <3>2
      <3> QED BY <1>4, <3>4, <3>5
    <2> QED BY <2>1, <2>2
  <1> QED BY <1>4, <1>6, <1>7 DEF W
\* Rows in order: an array of all of R, the oldest first.
Sorted(q, R) == /\ q \in [1..Cardinality(R) -> R]
                /\ \A i, j \in 1..Cardinality(R) : i < j => q[i].s < q[j].s
                /\ \A r \in R : \E k \in 1..Cardinality(R) : q[k] = r

\* Ranked rows can be put in order, the newest last.
LEMMA OrderExists ==
    ASSUME NEW R0, Ranked(R0)
    PROVE  \E q : Sorted(q, R0)
  <1> DEFINE S == {n \in Nat : \A R \in SUBSET R0 : Cardinality(R) = n => \E q : Sorted(q, R)}
  <1>1. 0 \in S
    <2> SUFFICES ASSUME NEW R \in SUBSET R0, Cardinality(R) = 0 PROVE \E q : Sorted(q, R)
      OBVIOUS
    <2>1. R = {}
      <3>1. IsFiniteSet(R)
        BY PartIsRanked DEF Ranked
      <3> QED BY <3>1, FS_EmptySet
    <2>2. 1..Cardinality(R) = {} /\ Cardinality(R) = 0
      OBVIOUS
    <2>3. [i \in {} |-> i] \in [1..Cardinality(R) -> R]
      BY <2>2
    <2>4. Sorted([i \in {} |-> i], R)
      BY <2>1, <2>2, <2>3 DEF Sorted
    <2> QED BY <2>4
  <1>2. ASSUME NEW n \in Nat, n \in S PROVE n + 1 \in S
    <2> SUFFICES ASSUME NEW R \in SUBSET R0, Cardinality(R) = n + 1 PROVE \E q : Sorted(q, R)
      OBVIOUS
    <2>1. Ranked(R) /\ IsFiniteSet(R)
      BY PartIsRanked DEF Ranked
    <2>2. R # {}
      BY FS_EmptySet
    <2>3. PICK r \in R : \A x \in R : x.s <= r.s
      BY <2>1, <2>2, OneIsTop
    <2>4. Cardinality(R \ {r}) = n
      <3>1. Cardinality(R \ {r}) = Cardinality(R) - 1
        BY <2>1, <2>3, FS_RemoveElement
      <3> QED BY <3>1
    <2>5. PICK q : Sorted(q, R \ {r})
      BY <1>2, <2>4
    <2>6. /\ q \in [1..n -> R \ {r}]
          /\ \A i, j \in 1..n : i < j => q[i].s < q[j].s
          /\ \A x \in R \ {r} : \E k \in 1..n : q[k] = x
      BY <2>4, <2>5 DEF Sorted
    <2>7. \A x \in R \ {r} : x.s < r.s
      <3>1. \A x \in R : x.s \in Nat
        BY <2>1, StreamAssumption DEF Ranked, Seqs
      <3> QED BY <2>1, <2>3, <3>1 DEF Ranked
    <2> DEFINE p == [i \in 1..n+1 |-> IF i = n + 1 THEN r ELSE q[i]]
    <2>8. \A i \in 1..n+1 : i = n + 1 \/ i \in 1..n
      OBVIOUS
    <2>9. p \in [1..n+1 -> R]
      BY <2>6, <2>8
    <2>10. ASSUME NEW i \in 1..n+1, NEW j \in 1..n+1, i < j PROVE p[i].s < p[j].s
      <3>1. i \in 1..n /\ p[i] = q[i]
        BY <2>10
      <3>2. CASE j = n + 1
        BY <2>6, <2>7, <3>1, <3>2
      <3>3. CASE j \in 1..n
        BY <2>6, <2>10, <3>1, <3>3
      <3> QED BY <2>8, <3>2, <3>3
    <2>11. ASSUME NEW x \in R PROVE \E k \in 1..n+1 : p[k] = x
      <3>1. CASE x = r
        <4>1. n + 1 \in 1..n+1 /\ p[n+1] = x
          BY <3>1
        <4> QED BY <4>1
      <3>2. CASE x # r
        <4>1. PICK k \in 1..n : q[k] = x
          BY <2>6, <3>2
        <4>2. k \in 1..n+1 /\ p[k] = x
          BY <4>1
        <4> QED BY <4>2
      <3> QED BY <3>1, <3>2
    <2> HIDE DEF p
    <2>12. Sorted(p, R)
      BY <2>9, <2>10, <2>11 DEF Sorted
    <2> QED BY <2>12
  <1> HIDE DEF S
  <1>3. Nat \subseteq S
    BY <1>1, <1>2, SetInduction
  <1>4. Cardinality(R0) \in S
    BY <1>3, FS_CardinalityType DEF Ranked
  <1> QED BY <1>4 DEF S

\* ORDER BY seq ASC: every row once, the oldest first.
LEMMA RowsAreSorted ==
    ASSUME NEW R, Ranked(R)
    PROVE  Sorted(SortedRows(R), R)
  <1> DEFINE n == Cardinality(R)
             OK(q) == q \in [1..n -> R] /\ \A i, j \in 1..n : i < j => q[i].s < q[j].s
             q == SortedRows(R)
  <1>1. \E p : OK(p)
    BY OrderExists DEF Sorted
  <1>2. q = CHOOSE p \in [1..n -> R] : \A i, j \in 1..n : i < j => p[i].s < p[j].s
    BY DEF SortedRows
  <1>3. OK(q)
    <2> HIDE DEF q, n
    <2> QED BY <1>1, <1>2
  <1> HIDE DEF q
  <1>4. n \in Nat /\ IsFiniteSet(R)
    BY FS_CardinalityType DEF Ranked
  <1>5. \A r \in R : r.s \in Nat
    BY StreamAssumption DEF Ranked, Seqs
  <1>6. \A i, j \in 1..n : q[i] = q[j] => i = j
    BY <1>3, <1>4, <1>5
  <1>7. q \in Injection(1..n, R)
    BY <1>3, <1>6 DEF Injection, IsInjective
  <1>8. Cardinality(1..n) = n
    BY <1>4, FS_Interval
  <1>9. q \in Surjection(1..n, R)
    BY <1>4, <1>7, <1>8, FS_Injection
  <1>10. \A r \in R : \E k \in 1..n : q[k] = r
    BY <1>9 DEF Surjection
  <1> QED BY <1>3, <1>10 DEF Sorted, q
-----------------------------------------------------------------------------
(* Counting messages.                                                       *)

\* f gives each message a seq, and no two the same one.
Numbered(f) == /\ f \in [Msgs -> Seqs]
               /\ \A m, n \in Msgs : f[m] = f[n] /\ f[m] # 0 => m = n
\* With the seqs f: above s there is a page of messages, and more of them below.
FullIn(f, s) == /\ Cardinality({m \in Msgs : s <= f[m]}) >= Limit
                /\ Cardinality({m \in Msgs : f[m] # 0}) > Limit

\* Finitely many messages have been numbered.
LEMMA FewFrom ==
    ASSUME NEW f, Numbered(f), NEW s \in Nat \ {0}
    PROVE  /\ IsFiniteSet({m \in Msgs : s <= f[m]})
           /\ Cardinality({m \in Msgs : s <= f[m]}) \in Nat
  <1> DEFINE M == {m \in Msgs : s <= f[m]}
             g == [m \in M |-> f[m]]
  <1>1. \A m \in M : f[m] \in 0..MaxSeq /\ f[m] # 0 /\ m \in Msgs
    BY StreamAssumption DEF Numbered, Seqs
  <1>2. g \in [M -> 0..MaxSeq]
    BY <1>1
  <1>3. \A m, n \in M : g[m] = g[n] => m = n
    BY <1>1 DEF Numbered
  <1>4. g \in Injection(M, 0..MaxSeq)
    <2> HIDE DEF g, M
    <2> QED BY <1>2, <1>3 DEF Injection, IsInjective
  <1>5. IsFiniteSet(0..MaxSeq)
    BY StreamAssumption, FS_Interval
  <1>6. IsFiniteSet(M)
    <2> HIDE DEF g, M
    <2> QED BY <1>4, <1>5, FS_Injection
  <1> QED BY <1>6, FS_CardinalityType

\* What is full stays full while messages move up.
LEMMA FullGrows ==
    ASSUME NEW f, NEW g, Numbered(f), Numbered(g), \A m \in Msgs : f[m] <= g[m],
           NEW s \in Nat \ {0}, FullIn(f, s)
    PROVE  FullIn(g, s)
  <1> DEFINE Of(h, t) == {m \in Msgs : t <= h[m]}
  <1>1. \A m \in Msgs : f[m] \in Nat /\ g[m] \in Nat
    BY StreamAssumption DEF Numbered, Seqs
  <1>2. ASSUME NEW t \in Nat \ {0} PROVE
          /\ Cardinality(Of(f, t)) <= Cardinality(Of(g, t))
          /\ Cardinality(Of(f, t)) \in Nat /\ Cardinality(Of(g, t)) \in Nat
    <2>1. Of(f, t) \in SUBSET Of(g, t)
      BY <1>1
    <2>2. IsFiniteSet(Of(g, t))
      BY FewFrom
    <2> HIDE DEF Of
    <2> QED BY <2>1, <2>2, FS_Subset, FS_CardinalityType
  <1>3. {m \in Msgs : f[m] # 0} = Of(f, 1) /\ {m \in Msgs : g[m] # 0} = Of(g, 1)
    BY <1>1
  <1>4. Limit \in Nat
    BY StreamAssumption
  <1>5. /\ Cardinality(Of(f, s)) >= Limit /\ Cardinality(Of(f, 1)) > Limit
    BY <1>3 DEF FullIn
  <1> HIDE DEF Of
  <1>6. Cardinality(Of(g, s)) >= Limit /\ Cardinality(Of(g, 1)) > Limit
    BY <1>2, <1>4, <1>5
  <1> QED BY <1>3, <1>6 DEF FullIn, Of

\* The rows of some messages are as many as these messages.
LEMMA PartCount ==
    ASSUME Numbered(seq), NEW c \in Nat, NEW Q \in SUBSET RowsAbove(c)
    PROVE  /\ Ranked(Q)
           /\ LET M == {m \in Msgs : [m |-> m, s |-> seq[m]] \in Q} IN
              IsFiniteSet(M) /\ Cardinality(M) = Cardinality(Q) /\ Cardinality(Q) \in Nat
  <1> DEFINE M == {m \in Msgs : [m |-> m, s |-> seq[m]] \in Q}
             g == [m \in M |-> [m |-> m, s |-> seq[m]]]
  <1>1. \A r \in Q : r.m \in Msgs /\ r = [m |-> r.m, s |-> seq[r.m]] /\ r.s = seq[r.m] /\ seq[r.m] > c
    BY DEF RowsAbove
  <1>2. \A m \in Msgs : seq[m] \in Nat /\ seq[m] \in Seqs
    BY StreamAssumption DEF Numbered, Seqs
  <1>3. M \in SUBSET {m \in Msgs : c + 1 <= seq[m]}
    <2>1. \A m \in M : seq[m] > c
      <3> TAKE m \in M
      <3>1. [m |-> m, s |-> seq[m]] \in Q /\ [m |-> m, s |-> seq[m]].m = m
        OBVIOUS
      <3> QED BY <1>1, <3>1
    <2> QED BY <1>2, <2>1
  <1>4. IsFiniteSet(M)
    <2>1. c + 1 \in Nat \ {0}
      OBVIOUS
    <2>2. IsFiniteSet({m \in Msgs : c + 1 <= seq[m]})
      BY <2>1, FewFrom
    <2> QED BY <1>3, <2>2, FS_Subset
  <1>5. g \in [M -> Q] /\ \A m, n \in M : g[m] = g[n] => m = n
    OBVIOUS
  <1>6. \A r \in Q : \E m \in M : g[m] = r
    <2> TAKE r \in Q
    <2>1. r.m \in M /\ g[r.m] = r
      BY <1>1
    <2> QED BY <2>1
  <1>7. g \in Bijection(M, Q)
    <2> HIDE DEF g, M
    <2> QED BY <1>5, <1>6 DEF Bijection, Injection, Surjection, IsInjective
  <1>8. IsFiniteSet(Q) /\ Cardinality(M) = Cardinality(Q) /\ Cardinality(Q) \in Nat
    <2> HIDE DEF g, M
    <2>1. ExistsBijection(M, Q)
      BY <1>7 DEF ExistsBijection
    <2> QED BY <1>4, <2>1, FS_Bijection, FS_CardinalityType
  <1>9. \A r, q \in Q : r.s = q.s => r = q
    <2> TAKE r \in Q, q \in Q
    <2> HAVE r.s = q.s
    <2>1. seq[r.m] = seq[q.m] /\ seq[r.m] # 0
      BY <1>1, <1>2
    <2>2. r.m = q.m
      BY <1>1, <2>1 DEF Numbered
    <2> QED BY <1>1, <2>2
  <1>10. \A r \in Q : r.s \in Seqs
    BY <1>1, <1>2
  <1>11. Ranked(Q)
    BY <1>8, <1>9, <1>10 DEF Ranked
  <1> QED BY <1>4, <1>8, <1>11
-----------------------------------------------------------------------------
(* The two queries of a poll.                                               *)

Asked(c, back) == IF back THEN Newest(RowsAbove(c), Limit) ELSE RowsAbove(c)
More(c) == Cardinality(RowsAbove(c)) > Limit

\* Rows of messages in order, as an array.
LEMMA RowsOf ==
    ASSUME Numbered(seq), NEW c \in Seqs, NEW Q \in SUBSET RowsAbove(c)
    PROVE  LET q == SortedRows(Q) IN
           /\ q \in Seq(Rows) /\ Len(q) = Cardinality(Q) /\ Len(q) \in Nat /\ DOMAIN q = 1..Len(q)
           /\ \A i, j \in DOMAIN q : i < j => q[i].s < q[j].s
           /\ \A i \in DOMAIN q : q[i] \in Q /\ q[i].m \in Msgs /\ q[i].s \in Nat
                                  /\ c < q[i].s /\ q[i].s = seq[q[i].m]
           /\ \A r \in Q : \E k \in DOMAIN q : q[k] = r
           /\ q = <<>> <=> Q = {}
  <1> DEFINE q == SortedRows(Q)
  <1>1. c \in Nat /\ \A m \in Msgs : seq[m] \in Seqs /\ seq[m] \in Nat
    BY StreamAssumption DEF Seqs, Numbered
  <1>2. Ranked(Q) /\ Cardinality(Q) \in Nat
    BY <1>1, PartCount
  <1>3. Sorted(q, Q)
    BY <1>2, RowsAreSorted
  <1>4. \A r \in Q : r \in Rows /\ r.m \in Msgs /\ r.s = seq[r.m] /\ seq[r.m] > c
    BY <1>1 DEF RowsAbove, Rows
  <1> HIDE DEF q
  <1>5. q \in Seq(Rows) /\ Len(q) = Cardinality(Q) /\ DOMAIN q = 1..Cardinality(Q)
    <2>1. q \in [1..Cardinality(Q) -> Rows] /\ q \in [1..Cardinality(Q) -> Q]
      BY <1>3, <1>4 DEF Sorted
    <2>2. q \in Seq(Rows)
      BY <1>2, <2>1
    <2>3. DOMAIN q = 1..Len(q) /\ Len(q) \in Nat
      BY <2>2, LenProperties
    <2> QED BY <1>2, <2>1, <2>2, <2>3
  <1>6. \A i \in DOMAIN q : q[i] \in Q
    BY <1>3, <1>5 DEF Sorted
  <1>7. q = <<>> <=> Q = {}
    <2>1. Q = {} <=> Cardinality(Q) = 0
      BY <1>2, FS_EmptySet DEF Ranked
    <2>2. q = <<>> <=> Len(q) = 0
      BY <1>5
    <2> QED BY <1>5, <2>1, <2>2
  <1>8. \A i \in DOMAIN q : q[i].m \in Msgs /\ q[i].s \in Nat /\ c < q[i].s /\ q[i].s = seq[q[i].m]
    BY <1>1, <1>4, <1>6
  <1> QED BY <1>2, <1>3, <1>5, <1>6, <1>7, <1>8 DEF Sorted, q

\* An answer is in order and current; up to any row of it nothing above the cursor
\* is missing, but what a cut answer leaves out at its beginning.  It is cut when a
\* page and more are there.
LEMMA AnswerIsTrue ==
    ASSUME Numbered(seq), NEW c \in Seqs, NEW back \in BOOLEAN
    PROVE  LET q == SortedRows(Asked(c, back)) IN
           /\ q \in Seq(Rows)
           /\ \A i, j \in DOMAIN q : i < j => q[i].s < q[j].s
           /\ \A i \in DOMAIN q : c < q[i].s /\ q[i].s = seq[q[i].m]
           /\ \A i \in DOMAIN q, m \in Msgs : c < seq[m] /\ seq[m] <= q[i].s =>
                 \/ \E k \in DOMAIN q : q[k] = [m |-> m, s |-> seq[m]]
                 \/ back /\ More(c) /\ seq[m] < q[1].s
           /\ back /\ More(c) => q # <<>> /\ FullIn(seq, q[1].s)
           /\ back => Len(q) <= Limit
           /\ back /\ q # <<>> => \A s \in Seqs \ {0} : FullIn(seq, s) => s <= q[1].s
  <1> DEFINE R == RowsAbove(c)
             W == Asked(c, back)
             q == SortedRows(W)
             Row(m) == [m |-> m, s |-> seq[m]]
  <1>1. c \in Nat /\ Limit \in Nat \ {0} /\ Seqs \subseteq Nat /\ \A m \in Msgs : seq[m] \in Nat
    BY StreamAssumption DEF Seqs, Numbered
  <1>2. Ranked(R) /\ Cardinality(R) \in Nat
    BY <1>1, PartCount
  <1>3. /\ W \in SUBSET R
        /\ \A r \in W, x \in R : x.s >= r.s => x \in W
        /\ \A x \in R \ W : back /\ More(c) /\ \A r \in W : x.s < r.s
        /\ R # {} => W # {}
        /\ back => Cardinality(W) <= Limit
        /\ back /\ More(c) => Cardinality(W) >= Limit
    <2>1. CASE back
      <3>1. W = Newest(R, Limit)
        BY <2>1 DEF Asked
      <3> HIDE DEF W, R
      <3>2. /\ W \in SUBSET R
            /\ \A r \in W, x \in R : x.s >= r.s => x \in W
            /\ \A x \in R \ W : Cardinality(R) > Limit /\ \A r \in W : x.s < r.s
            /\ R # {} => W # {}
        BY <1>1, <1>2, <3>1, NewestIsTop
      <3>3. Cardinality(W) <= Limit /\ (Cardinality(R) >= Limit => Cardinality(W) >= Limit)
        BY <1>1, <1>2, <3>1, NewestCount
      <3>4. More(c) <=> Cardinality(R) > Limit
        BY DEF More, R
      <3>5. Cardinality(R) > Limit => Cardinality(R) >= Limit
        BY <1>1, <1>2
      <3> QED BY <2>1, <3>2, <3>3, <3>4, <3>5
    <2>2. CASE ~back
      <3>1. W = R
        BY <2>2 DEF Asked
      <3> QED BY <2>2, <3>1
    <2> QED BY <2>1, <2>2
  <1>4. \A m \in Msgs : c < seq[m] => Row(m) \in R /\ Row(m).s = seq[m] /\ Row(m).m = m
    BY DEF RowsAbove
  <1>5. \A r \in R : r.m \in Msgs /\ r = Row(r.m) /\ r.s = seq[r.m] /\ seq[r.m] > c
    BY DEF RowsAbove
  <1>6. /\ q \in Seq(Rows) /\ Len(q) = Cardinality(W) /\ Len(q) \in Nat /\ DOMAIN q = 1..Len(q)
        /\ \A i, j \in DOMAIN q : i < j => q[i].s < q[j].s
        /\ \A i \in DOMAIN q : q[i] \in W /\ q[i].m \in Msgs /\ q[i].s \in Nat
                               /\ c < q[i].s /\ q[i].s = seq[q[i].m]
        /\ \A r \in W : \E k \in DOMAIN q : q[k] = r
        /\ q = <<>> <=> W = {}
    BY <1>3, RowsOf
  <1>7. W # {} => 1 \in DOMAIN q /\ q[1] \in W /\ q[1].s \in Nat /\ \A r \in W : q[1].s <= r.s
    <2> HAVE W # {}
    <2>1. 1 \in DOMAIN q
      <3> HIDE DEF q
      <3> QED BY <1>6
    <2>2. ASSUME NEW r \in W PROVE q[1].s <= r.s
      <3>1. PICK k \in DOMAIN q : q[k] = r
        BY <1>6
      <3>2. k = 1 \/ 1 < k
        BY <1>6, <3>1
      <3>3. q[1].s \in Nat /\ q[k].s \in Nat
        BY <1>6, <2>1
      <3> HIDE DEF q, W
      <3> QED BY <1>6, <2>1, <3>1, <3>2, <3>3
    <2> QED BY <1>6, <2>1, <2>2
  <1> HIDE DEF R, W, q
  <1>8. ASSUME NEW i \in DOMAIN q, NEW m \in Msgs, c < seq[m]
        PROVE  \/ \E k \in DOMAIN q : q[k] = Row(m)
               \/ back /\ More(c) /\ seq[m] < q[1].s
    <2>1. Row(m) \in R /\ Row(m).s = seq[m]
      BY <1>4, <1>8
    <2>2. CASE Row(m) \in W
      BY <1>6, <2>2
    <2>3. CASE Row(m) \notin W
      <3>1. W # {} /\ q[1] \in W
        BY <1>6, <1>7
      <3> QED BY <1>3, <2>1, <2>3, <3>1
    <2> QED BY <2>2, <2>3
  <1>9. ASSUME back, More(c) PROVE q # <<>> /\ FullIn(seq, q[1].s)
    <2>1. Cardinality(R) > Limit
      BY <1>9 DEF More, R
    <2>2. W # {}
      <3>1. Cardinality(W) >= Limit
        BY <1>3, <1>9
      <3> QED BY <1>1, <3>1, FS_EmptySet
    <2>3. q # <<>> /\ q[1] \in W /\ q[1].s \in Nat /\ q[1].s # 0 /\ c < q[1].s
      BY <1>1, <1>6, <1>7, <2>2
    <2> DEFINE M == {m \in Msgs : Row(m) \in W}
               N == {m \in Msgs : Row(m) \in R}
               F == {m \in Msgs : q[1].s <= seq[m]}
               A == {m \in Msgs : seq[m] # 0}
    <2>4. Cardinality(M) = Cardinality(W) /\ Cardinality(N) = Cardinality(R)
      BY <1>1, <1>3, PartCount DEF R
    <2>5. M \in SUBSET F
      <3>1. \A m \in M : q[1].s <= Row(m).s /\ Row(m).s = seq[m]
        BY <1>7, <2>2
      <3> QED BY <3>1
    <2>6. N \in SUBSET A
      <3>1. \A m \in N : Row(m).s = seq[m] /\ Row(m).m = m
        OBVIOUS
      <3>2. \A m \in N : seq[m] > c
        BY <1>5, <3>1
      <3> QED BY <1>1, <3>2
    <2>7. IsFiniteSet(F) /\ Cardinality(F) \in Nat
      BY <2>3, FewFrom
    <2>8. IsFiniteSet(A) /\ Cardinality(A) \in Nat
      <3>1. A = {m \in Msgs : 1 <= seq[m]}
        BY <1>1
      <3> QED BY <3>1, FewFrom
    <2>9. Cardinality(M) <= Cardinality(F) /\ Cardinality(N) <= Cardinality(A)
      <3> HIDE DEF M, N, F, A
      <3> QED BY <2>5, <2>6, <2>7, <2>8, FS_Subset
    <2>10. Cardinality(W) \in Nat /\ Cardinality(W) >= Limit
      BY <1>3, <1>6, <1>9
    <2>11. Cardinality(F) >= Limit /\ Cardinality(A) > Limit
      <3> HIDE DEF M, N, F, A
      <3> QED BY <1>1, <1>2, <2>1, <2>4, <2>7, <2>8, <2>9, <2>10
    <2> QED BY <2>3, <2>11 DEF FullIn
  <1>10. ASSUME back, q # <<>>, NEW s \in Seqs \ {0}, FullIn(seq, s), ~(s <= q[1].s) PROVE FALSE
    <2>1. W # {} /\ q[1] \in W /\ q[1] \in R /\ q[1].s \in Nat /\ s \in Nat
          /\ c < q[1].s /\ q[1].s < s
      BY <1>1, <1>3, <1>6, <1>7, <1>10
    <2> DEFINE B == Above(R, q[1].s)
               M == {m \in Msgs : Row(m) \in B}
               F == {m \in Msgs : s <= seq[m]}
    <2>2. Cardinality(B) < Limit
      <3>1. W = Newest(R, Limit)
        BY <1>10 DEF W, R, Asked
      <3> QED BY <2>1, <3>1 DEF Newest, Above
    <2>3. B \in SUBSET R
      BY DEF Above
    <2>4. IsFiniteSet(M) /\ Cardinality(M) = Cardinality(B) /\ Cardinality(B) \in Nat
      BY <1>1, <2>3, PartCount DEF R
    <2>5. F \in SUBSET M
      <3> SUFFICES ASSUME NEW m \in F PROVE m \in M
        OBVIOUS
      <3>1. m \in Msgs /\ seq[m] \in Nat /\ s <= seq[m]
        BY <1>1
      <3>2. c < seq[m] /\ seq[m] > q[1].s
        BY <1>1, <2>1, <3>1
      <3>3. Row(m) \in R /\ Row(m).s = seq[m]
        BY <1>4, <3>1, <3>2
      <3>4. Row(m) \in B
        BY <3>2, <3>3 DEF Above
      <3> QED BY <3>1, <3>4
    <2>6. Cardinality(F) >= Limit
      BY <1>10 DEF FullIn
    <2>7. Cardinality(F) <= Cardinality(M) /\ Cardinality(F) \in Nat
      <3> HIDE DEF M, F
      <3> QED BY <2>4, <2>5, FS_Subset, FS_CardinalityType
    <2> HIDE DEF M, F, B
    <2> QED BY <1>1, <2>2, <2>4, <2>6, <2>7
  <1>11. back => Len(q) <= Limit
    BY <1>3, <1>6
  <1>12. back /\ q # <<>> => \A s \in Seqs \ {0} : FullIn(seq, s) => s <= q[1].s
    BY <1>10
  <1>13. /\ q \in Seq(Rows)
         /\ \A i, j \in DOMAIN q : i < j => q[i].s < q[j].s
         /\ \A i \in DOMAIN q : c < q[i].s /\ q[i].s = seq[q[i].m]
    BY <1>6
  <1>14. \A i \in DOMAIN q, m \in Msgs : c < seq[m] /\ seq[m] <= q[i].s =>
                 \/ \E k \in DOMAIN q : q[k] = [m |-> m, s |-> seq[m]]
                 \/ back /\ More(c) /\ seq[m] < q[1].s
    BY <1>8
  <1> QED BY <1>9, <1>11, <1>12, <1>13, <1>14 DEF q, W
-----------------------------------------------------------------------------
(* The writer.                                                              *)

Writers == [c: Conns, w: Seq(Frames)]
Error == [kind |-> "error"]
MessageOf(r) == [kind |-> "message", m |-> r.m, s |-> r.s]

\* Writing keeps all of the connection but its state, its pause and its cursor; a
\* full writer has stopped, and a stopped one does not go on.
GoesOn(a, b) ==
    /\ b \in Writers
    /\ b.c.back = a.c.back
    /\ b.c.st = "shut" <=> a.c.st = "shut"
    /\ Writable(b.c) => Writable(a.c)
    /\ b.c.full => ~Writable(b.c)

\* The fields of a connection.
LEMMA ConnFields ==
    ASSUME NEW c \in Conns
    PROVE  /\ c.st \in {"shut", "setup", "open", "ended"} /\ c.cursor \in Seqs /\ c.back \in BOOLEAN
           /\ c.paused \in BOOLEAN /\ c.full \in BOOLEAN /\ c.timers \in BOOLEAN /\ c.closed \in BOOLEAN
           /\ c.fails \in 0..Threshold /\ c.asking \in BOOLEAN
  BY DEF Conns

\* Connections after an assignment to some of their fields.
LEMMA ConnSet ==
    ASSUME NEW c \in Conns
    PROVE  /\ \A x \in {"shut", "setup", "open", "ended"} : [c EXCEPT !.st = x] \in Conns
           /\ \A x \in Seqs : [c EXCEPT !.cursor = x] \in Conns
           /\ \A x \in BOOLEAN : [c EXCEPT !.paused = x] \in Conns
           /\ \A x \in BOOLEAN : [c EXCEPT !.full = x] \in Conns
           /\ \A x \in BOOLEAN : [c EXCEPT !.back = x] \in Conns
           /\ \A x \in BOOLEAN : [c EXCEPT !.asking = x] \in Conns
           /\ \A x \in 0..Threshold : [c EXCEPT !.fails = x] \in Conns
           /\ [c EXCEPT !.closed = TRUE, !.timers = FALSE] \in Conns
           /\ [c EXCEPT !.st = "open", !.timers = TRUE] \in Conns
           /\ [c EXCEPT !.full = TRUE, !.st = "ended"] \in Conns
  BY DEF Conns

\* One write: refused after the end, the last one of a full writer, or done.
LEMMA WriteOne ==
    ASSUME NEW a \in Writers, a.c.full => ~Writable(a.c), NEW f \in Frames
    PROVE  LET b == SseWrite(a, f) IN
           /\ GoesOn(a, b) /\ b.c.cursor = a.c.cursor
           /\ \/ ~Writable(a.c) /\ b = a
              \/ Writable(a.c) /\ ~Writable(b.c) /\ b.w = Append(a.w, Error)
              \/ Writable(a.c) /\ Writable(b.c) /\ b.w = Append(a.w, f)
  <1> DEFINE b == SseWrite(a, f)
  <1>1. a.c \in Conns /\ a.w \in Seq(Frames) /\ a = [c |-> a.c, w |-> a.w]
    BY DEF Writers
  <1>2. CASE ~Writable(a.c)
    <2>1. b = a
      BY <1>2 DEF SseWrite
    <2> QED BY <1>2, <2>1 DEF GoesOn
  <1>3. CASE Writable(a.c) /\ Overflows(a.w)
    <2> DEFINE d == [Closing(a.c) EXCEPT !.full = TRUE, !.st = "ended"]
    <2>1. b = [c |-> d, w |-> Append(a.w, Error)]
      BY <1>3 DEF SseWrite, Error
    <2>2. d \in Conns
      <3>1. Closing(a.c) \in Conns
        BY <1>1, ConnSet DEF Closing
      <3> QED BY <3>1, ConnSet
    <2>3. d.st = "ended" /\ d.back = a.c.back /\ d.cursor = a.c.cursor
      BY <1>1 DEF Closing, Conns
    <2> HIDE DEF d
    <2>4. Error \in Frames
      BY DEF Error, Frames
    <2>5. Append(a.w, Error) \in Seq(Frames)
      BY <1>1, <2>4, AppendProperties
    <2>6. b \in Writers /\ b.c = d /\ b.w = Append(a.w, Error)
      BY <2>1, <2>2, <2>5 DEF Writers
    <2>7. ~Writable(d) /\ d.st # "shut" /\ a.c.st # "shut"
      BY <1>3, <2>3 DEF Writable
    <2> HIDE DEF b
    <2>8. GoesOn(a, b)
      BY <1>3, <2>3, <2>6, <2>7 DEF GoesOn
    <2> QED BY <1>3, <2>3, <2>6, <2>7, <2>8 DEF b
  <1>4. CASE Writable(a.c) /\ ~Overflows(a.w)
    <2> DEFINE d == [a.c EXCEPT !.paused = @ \/ Len(a.w) + 1 >= HighWater]
    <2>1. b = [c |-> d, w |-> Append(a.w, f)]
      BY <1>4 DEF SseWrite
    <2>2. d \in Conns
      <3>1. (a.c.paused \/ Len(a.w) + 1 >= HighWater) \in BOOLEAN
        OBVIOUS
      <3> QED BY <1>1, <3>1, ConnSet
    <2>3. d.st = a.c.st /\ d.back = a.c.back /\ d.cursor = a.c.cursor /\ d.full = a.c.full
      BY <1>1 DEF Conns
    <2> HIDE DEF d
    <2>4. Append(a.w, f) \in Seq(Frames)
      BY <1>1, AppendProperties
    <2>5. b \in Writers /\ b.c = d /\ b.w = Append(a.w, f)
      BY <2>1, <2>2, <2>4 DEF Writers
    <2>6. Writable(d) /\ ~d.full
      BY <1>4, <2>3 DEF Writable
    <2> HIDE DEF b
    <2>7. GoesOn(a, b)
      BY <1>4, <2>3, <2>5, <2>6 DEF GoesOn
    <2> QED BY <1>4, <2>3, <2>5, <2>6, <2>7 DEF b
  <1> QED BY <1>2, <1>3, <1>4

\* Arithmetic of one more frame.
LEMMA OneMore ==
    ASSUME NEW x \in Nat, NEW y \in Nat, NEW n \in Nat, y = x + n
    PROVE  x + (n + 1) = y + 1
  OBVIOUS

\* From a to b the messages of the first k of n rows have been written, and at most
\* the error that ends the stream; all of them if the stream goes on.
WroteUpTo(a, b, rows, n, k) ==
    /\ Len(b.w) >= Len(a.w) + k
    /\ \A i \in 1..Len(a.w) : b.w[i] = a.w[i]
    /\ \A i \in 1..k : b.w[Len(a.w) + i] = MessageOf(rows[i])
    /\ \A i \in 1..Len(b.w) : i > Len(a.w) + k => b.w[i] = Error
    /\ Writable(b.c) => /\ k = n /\ Len(b.w) = Len(a.w) + n
                        /\ b.c.cursor = IF n = 0 THEN a.c.cursor ELSE rows[n].s
Wrote(a, b, rows, n) == \E k \in 0..n : WroteUpTo(a, b, rows, n, k)

\* One more row.
LEMMA WriteOneRow ==
    ASSUME NEW a \in Writers, NEW b, GoesOn(a, b), NEW rows \in Seq(Rows),
           NEW n \in Nat, n + 1 \in 1..Len(rows), Wrote(a, b, rows, n)
    PROVE  LET d == WriteRow(b, rows[n+1]) IN GoesOn(a, d) /\ Wrote(a, d, rows, n+1)
  <1> DEFINE r == rows[n+1]
             f == MessageOf(r)
             d == WriteRow(b, r)
             o == SseWrite(b, f)
  <1>1. r \in Rows /\ f \in Frames /\ r.s \in Seqs
    <2>1. r \in Rows
      BY ElementOfSeq
    <2>2. r.m \in Msgs /\ r.s \in Seqs
      BY <2>1 DEF Rows
    <2> QED BY <2>1, <2>2 DEF MessageOf, Frames
  <1>2. b \in Writers /\ (b.c.full => ~Writable(b.c)) /\ b.w \in Seq(Frames) /\ Len(b.w) \in Nat
        /\ a.w \in Seq(Frames) /\ Len(a.w) \in Nat
    <2>1. b \in Writers /\ (b.c.full => ~Writable(b.c)) /\ b.w \in Seq(Frames) /\ a.w \in Seq(Frames)
      BY DEF GoesOn, Writers
    <2> QED BY <2>1, LenProperties
  <1>3. PICK k \in 0..n : WroteUpTo(a, b, rows, n, k)
    BY DEF Wrote
  <1>4. k \in 0..n+1 /\ k \in Nat
    OBVIOUS
  <1>5. CASE ~Writable(b.c)
    <2>1. d = b
      BY <1>5 DEF WriteRow
    <2>2. WroteUpTo(a, b, rows, n+1, k)
      BY <1>3, <1>5 DEF WroteUpTo
    <2> QED BY <1>4, <2>1, <2>2 DEF Wrote
  <1>6. CASE Writable(b.c)
    <2>1. d = [o EXCEPT !.c.cursor = r.s]
      BY <1>6 DEF WriteRow, MessageOf
    <2>2. /\ GoesOn(b, o) /\ o.c.cursor = b.c.cursor
          /\ \/ ~Writable(o.c) /\ o.w = Append(b.w, Error)
             \/ Writable(o.c) /\ o.w = Append(b.w, f)
      BY <1>1, <1>2, <1>6, WriteOne
    <2> HIDE DEF o, f, r, d
    <2>3. o \in Writers /\ o.c \in Conns /\ o.w \in Seq(Frames)
      BY <2>2 DEF GoesOn, Writers
    <2>4. /\ d.c = [o.c EXCEPT !.cursor = r.s] /\ d.w = o.w
          /\ d = [c |-> [o.c EXCEPT !.cursor = r.s], w |-> o.w]
      BY <2>1, <2>3 DEF Writers
    <2>5. d.c \in Conns /\ d.c.st = o.c.st /\ d.c.back = o.c.back /\ d.c.full = o.c.full /\ d.c.cursor = r.s
      <3>1. [o.c EXCEPT !.cursor = r.s] \in Conns
        BY <1>1, <2>3, ConnSet
      <3> QED BY <2>3, <2>4, <3>1 DEF Conns
    <2>6. d \in Writers
      BY <2>3, <2>4, <2>5 DEF Writers
    <2>7. GoesOn(a, d)
      BY <2>2, <2>5, <2>6 DEF GoesOn, Writable
    <2>8. Writable(d.c) <=> Writable(o.c)
      BY <2>5 DEF Writable
    <2>9. k = n /\ Len(b.w) = Len(a.w) + n
      BY <1>3, <1>6 DEF WroteUpTo
    <2>12. Len(a.w) + (n + 1) = Len(b.w) + 1 /\ Len(b.w) \in Nat /\ Len(a.w) \in Nat
      <3>1. Len(b.w) \in Nat /\ Len(a.w) \in Nat /\ Len(b.w) = Len(a.w) + n
        BY <1>2, <2>9
      <3> QED BY <3>1, OneMore
    <2>10. CASE ~Writable(o.c) /\ o.w = Append(b.w, Error)
      <3>1. Error \in Frames
        BY DEF Error, Frames
      <3>2. Len(d.w) = Len(b.w) + 1 /\ d.w[Len(b.w)+1] = Error /\ \A i \in 1..Len(b.w) : d.w[i] = b.w[i]
        BY <1>2, <2>4, <2>10, <3>1, AppendProperties
      <3>3. \A i \in 1..Len(a.w) : d.w[i] = a.w[i]
        BY <1>2, <1>3, <2>9, <3>2 DEF WroteUpTo
      <3>4. \A i \in 1..n : d.w[Len(a.w) + i] = MessageOf(rows[i])
        <4> TAKE i \in 1..n
        <4>1. Len(a.w) + i \in 1..Len(b.w)
          BY <1>2, <2>9
        <4> QED BY <1>3, <2>9, <3>2, <4>1 DEF WroteUpTo
      <3>5. \A i \in 1..Len(d.w) : i > Len(a.w) + n => d.w[i] = Error
        <4> TAKE i \in 1..Len(d.w)
        <4> HAVE i > Len(a.w) + n
        <4>1. i = Len(b.w) + 1
          BY <1>2, <2>9, <3>2
        <4> QED BY <3>2, <4>1
      <3>6. Len(d.w) >= Len(a.w) + n
        BY <1>2, <2>9, <3>2
      <3>7. WroteUpTo(a, d, rows, n+1, n)
        BY <2>8, <2>10, <3>3, <3>4, <3>5, <3>6 DEF WroteUpTo
      <3> QED BY <1>4, <2>7, <2>9, <3>7 DEF Wrote, d, r
    <2>11. CASE Writable(o.c) /\ o.w = Append(b.w, f)
      <3>1. Len(d.w) = Len(b.w) + 1 /\ d.w[Len(b.w)+1] = f /\ \A i \in 1..Len(b.w) : d.w[i] = b.w[i]
        BY <1>1, <1>2, <2>4, <2>11, AppendProperties
      <3>2. ASSUME NEW i \in 1..n+1 PROVE d.w[Len(a.w) + i] = MessageOf(rows[i])
        <4>1. CASE i = n + 1
          <5>1. Len(a.w) + i = Len(b.w) + 1
            BY <2>12, <4>1
          <5> QED BY <3>1, <4>1, <5>1 DEF f, r
        <4>2. CASE i \in 1..n
          <5>1. Len(a.w) + i \in 1..Len(b.w)
            BY <1>2, <2>9, <4>2
          <5> QED BY <1>3, <2>9, <3>1, <4>2, <5>1 DEF WroteUpTo
        <4> QED BY <4>1, <4>2
      <3>3. \A i \in 1..Len(a.w) : d.w[i] = a.w[i]
        BY <1>2, <1>3, <2>9, <3>1 DEF WroteUpTo
      <3>4. Len(d.w) = Len(a.w) + (n + 1)
        BY <2>12, <3>1
      <3>5. d.c.cursor = rows[n+1].s /\ n + 1 # 0
        BY <2>5 DEF r
      <3>6. Len(d.w) >= Len(a.w) + (n + 1) /\ \A i \in 1..Len(d.w) : ~(i > Len(a.w) + (n + 1))
        <4>1. Len(d.w) \in Nat
          BY <2>12, <3>1
        <4>2. PICK x \in Nat : x = Len(d.w)
          BY <4>1
        <4>3. x >= x /\ \A i \in 1..x : ~(i > x)
          OBVIOUS
        <4> QED BY <3>4, <4>2, <4>3
      <3>7. WroteUpTo(a, d, rows, n+1, n+1)
        BY <3>2, <3>3, <3>4, <3>5, <3>6 DEF WroteUpTo
      <3>8. n + 1 \in 0..n+1
        OBVIOUS
      <3> QED BY <2>7, <3>7, <3>8 DEF Wrote, d, r
    <2> QED BY <2>2, <2>7, <2>10, <2>11
  <1> QED BY <1>5, <1>6
\* The loop over the rows, up to row n, as a function of the number of rows.
Loop(a, rows, n, g) == g = [i \in 0..n |-> IF i = 0 THEN a ELSE WriteRow(g[i-1], rows[i])]

\* The loop has such a function, and each of its states has written so many rows.
LEMMA LoopExists ==
    ASSUME NEW a \in Writers, a.c.full => ~Writable(a.c), NEW rows \in Seq(Rows),
           NEW n \in Nat, n <= Len(rows)
    PROVE  \E g : Loop(a, rows, n, g) /\ \A i \in 0..n : GoesOn(a, g[i]) /\ Wrote(a, g[i], rows, i)
  <1> DEFINE Runs(j, g) == Loop(a, rows, j, g) /\ \A i \in 0..j : GoesOn(a, g[i]) /\ Wrote(a, g[i], rows, i)
             S == {j \in Nat : j <= Len(rows) => \E g : Runs(j, g)}
  <1>1. Len(rows) \in Nat
    BY LenProperties
  <1>2. 0 \in S
    <2> DEFINE g == [i \in 0..0 |-> a]
    <2>1. \A i \in 0..0 : i = 0 /\ g[i] = a
      OBVIOUS
    <2>2. Loop(a, rows, 0, g)
      BY <2>1 DEF Loop
    <2>3. GoesOn(a, a)
      BY DEF GoesOn
    <2>4. Wrote(a, a, rows, 0)
      <3>1. a.w \in Seq(Frames)
        BY DEF Writers
      <3>2. PICK x \in Nat : x = Len(a.w)
        BY <3>1, LenProperties
      <3>3. x >= x + 0 /\ (\A i \in 1..x : ~(i > x + 0)) /\ x = x + 0 /\ 1..0 = {}
        OBVIOUS
      <3>4. WroteUpTo(a, a, rows, 0, 0)
        BY <3>2, <3>3 DEF WroteUpTo
      <3> QED BY <3>4 DEF Wrote
    <2>5. Runs(0, g)
      BY <2>1, <2>2, <2>3, <2>4
    <2> QED BY <2>5
  <1>3. ASSUME NEW j \in Nat, j \in S PROVE j + 1 \in S
    <2> SUFFICES ASSUME j + 1 <= Len(rows) PROVE \E g : Runs(j+1, g)
      OBVIOUS
    <2>1. j <= Len(rows) /\ j + 1 \in 1..Len(rows)
      BY <1>1
    <2>2. PICK g : Runs(j, g)
      BY <1>3, <2>1
    <2> DEFINE d == WriteRow(g[j], rows[j+1])
               h == [i \in 0..j+1 |-> IF i = j + 1 THEN d ELSE g[i]]
    <2>3. GoesOn(a, d) /\ Wrote(a, d, rows, j+1)
      <3>1. GoesOn(a, g[j]) /\ Wrote(a, g[j], rows, j)
        BY <2>2
      <3> QED BY <2>1, <3>1, WriteOneRow
    <2>4. \A i \in 0..j+1 : i = j + 1 \/ (i \in 0..j /\ i # j + 1)
      OBVIOUS
    <2>5. h[j+1] = d /\ \A i \in 0..j : h[i] = g[i]
      BY <2>4
    <2>6. \A i \in 0..j+1 : h[i] = IF i = 0 THEN a ELSE WriteRow(h[i-1], rows[i])
      <3> TAKE i \in 0..j+1
      <3>1. CASE i = j + 1
        <4>1. i # 0 /\ i - 1 = j /\ j \in 0..j
          BY <3>1
        <4> HIDE DEF h
        <4> QED BY <2>5, <3>1, <4>1
      <3>2. CASE i \in 0..j
        <4>1. g[i] = IF i = 0 THEN a ELSE WriteRow(g[i-1], rows[i])
          BY <2>2, <3>2 DEF Loop
        <4>2. i # 0 => i - 1 \in 0..j
          BY <3>2
        <4> HIDE DEF h, d
        <4> QED BY <2>5, <3>2, <4>1, <4>2
      <3> QED BY <2>4, <3>1, <3>2
    <2>7. Loop(a, rows, j+1, h)
      <3>1. h = [i \in 0..j+1 |-> h[i]]
        OBVIOUS
      <3> HIDE DEF h
      <3> QED BY <2>6, <3>1 DEF Loop
    <2>8. Runs(j+1, h)
      <3> HIDE DEF h, d
      <3>1. \A i \in 0..j+1 : GoesOn(a, h[i]) /\ Wrote(a, h[i], rows, i)
        BY <2>2, <2>3, <2>4, <2>5
      <3> QED BY <2>7, <3>1
    <2> QED BY <2>8
  <1> HIDE DEF S
  <1>4. n \in S
    BY <1>2, <1>3, SetInduction
  <1> QED BY <1>4 DEF S

\* The loop over the rows writes them in order, and all of them if the stream goes on.
LEMMA WriteAll ==
    ASSUME NEW a \in Writers, a.c.full => ~Writable(a.c), NEW rows \in Seq(Rows)
    PROVE  /\ GoesOn(a, WriteRows(a, rows))
           /\ Wrote(a, WriteRows(a, rows), rows, Len(rows))
           /\ ~Writable(a.c) => WriteRows(a, rows).w = a.w
  <1> DEFINE n == Len(rows)
             f == CHOOSE g : Loop(a, rows, n, g)
  <1>1. n \in Nat
    BY LenProperties
  <1>2. WriteRows(a, rows) = f[n]
    BY DEF WriteRows, Loop
  <1>3. PICK g : Loop(a, rows, n, g) /\ \A i \in 0..n : GoesOn(a, g[i]) /\ Wrote(a, g[i], rows, i)
    BY <1>1, LoopExists
  <1>4. Loop(a, rows, n, f)
    BY <1>3, Zenon
  <1> HIDE DEF f
  <1> DEFINE S == {i \in Nat : i <= n => f[i] = g[i]}
  <1>5. 0 \in S
    <2>1. 0 \in 0..n
      BY <1>1
    <2> QED BY <1>3, <1>4, <2>1 DEF Loop
  <1>6. ASSUME NEW i \in Nat, i \in S PROVE i + 1 \in S
    <2> SUFFICES ASSUME i + 1 <= n PROVE f[i+1] = g[i+1]
      OBVIOUS
    <2>1. i + 1 \in 0..n /\ i + 1 # 0 /\ i + 1 - 1 = i /\ i <= n
      BY <1>1
    <2>2. f[i] = g[i]
      BY <1>6, <2>1
    <2>3. f[i+1] = WriteRow(f[i], rows[i+1])
      BY <1>4, <2>1 DEF Loop
    <2>4. g[i+1] = WriteRow(g[i], rows[i+1])
      BY <1>3, <2>1 DEF Loop
    <2> QED BY <2>2, <2>3, <2>4
  <1> HIDE DEF S
  <1>7. n \in S
    BY <1>1, <1>5, <1>6, SetInduction
  <1>8. f[n] = g[n] /\ n \in 0..n
    BY <1>1, <1>7 DEF S
  <1>9. GoesOn(a, f[n]) /\ Wrote(a, f[n], rows, n)
    BY <1>3, <1>8
  <1>10. ASSUME ~Writable(a.c) PROVE f[n] = a
    <2> DEFINE T == {i \in Nat : i <= n => f[i] = a}
    <2>1. 0 \in T
      <3>1. 0 \in 0..n
        BY <1>1
      <3> QED BY <1>4, <3>1 DEF Loop
    <2>2. ASSUME NEW i \in Nat, i \in T PROVE i + 1 \in T
      <3> SUFFICES ASSUME i + 1 <= n PROVE f[i+1] = a
        OBVIOUS
      <3>1. i + 1 \in 0..n /\ i + 1 # 0 /\ i + 1 - 1 = i /\ i <= n
        BY <1>1
      <3>2. f[i+1] = WriteRow(f[i], rows[i+1])
        BY <1>4, <3>1 DEF Loop
      <3> QED BY <1>10, <2>2, <3>1, <3>2 DEF WriteRow
    <2> HIDE DEF T
    <2>3. n \in T
      BY <1>1, <2>1, <2>2, SetInduction
    <2> QED BY <1>1, <2>3 DEF T
  <1> QED BY <1>2, <1>9, <1>10
-----------------------------------------------------------------------------
(* The inductive invariant.                                                 *)

\* Changes under way have seqs of their own, larger than those of their messages;
\* a seq is committed for one message.
ThreadInv ==
    /\ \A r \in open : 0 < r.s /\ r.s <= nextseq /\ seq[r.m] < r.s
    /\ \A r, q \in open : r.s = q.s \/ r.m = q.m => r = q
    /\ \A m \in Msgs : seq[m] <= nextseq
    /\ \A m, n \in Msgs : seq[m] = seq[n] /\ seq[m] # 0 => m = n
    /\ \A r \in open, m \in Msgs : seq[m] # r.s

\* A seq that has been read was committed, for a message that may have moved on.
Seen(s) == s = 0 \/ \E m \in Msgs : s <= seq[m]
Full(s) == FullIn(seq, s)

IsMessage(f) == f.kind = "message"
IsNotice(f) == f.kind = "backfill"

\* The writer has stopped for good once it is full.
FullIsOver == con.full => ~Writable(con)
\* A cut answer has rows.
CutHasRows == \A i \in DOMAIN polls : polls[i].cut => polls[i].rows # <<>>

\* The frames under way: a notice comes before every message, messages come in
\* order, up to the cursor.
InOrder ==
    /\ con.st = "shut" => wire = <<>>
    /\ \A i, j \in DOMAIN wire : i < j =>
          /\ IsMessage(wire[i]) /\ IsMessage(wire[j]) => wire[i].s < wire[j].s
          /\ IsNotice(wire[j]) => ~IsMessage(wire[i]) /\ ~IsNotice(wire[i])
    /\ \A i \in DOMAIN wire : IsMessage(wire[i]) =>
          /\ 0 < wire[i].s /\ wire[i].s <= seq[wire[i].m]
          /\ Writable(con) => wire[i].s <= con.cursor
    /\ con.back \/ (\E i \in DOMAIN polls : polls[i].pc = "count") =>
          \A i \in DOMAIN wire : ~IsMessage(wire[i]) /\ ~IsNotice(wire[i])

\* A notice says truly where its replay began and what is left out.
NoticeIsTrue(f) ==
    /\ f.cut # 0 => f.n.oldest = f.cut /\ Full(f.cut) /\ Seen(f.cut)
    /\ f.n.oldest = 0 \/ page.floor <= f.n.oldest
    /\ f.n.older \/ (page.floor = 0 /\ f.cut = 0)
NoticesAreTrue == \A i \in DOMAIN wire : IsNotice(wire[i]) => NoticeIsTrue(wire[i])

\* Up to s, the current version of a message is on its way, or on the screen, or
\* before the start of the replay.
OnItsWay(m) == \E i \in DOMAIN wire : IsMessage(wire[i]) /\ wire[i].m = m /\ wire[i].s = seq[m]
NoneOnItsWay(m) == \A i \in DOMAIN wire : IsMessage(wire[i]) => wire[i].m # m
LeftOut(m) == \/ seq[m] < page.floor
              \/ \E i \in DOMAIN wire : IsNotice(wire[i]) /\ seq[m] < wire[i].cut
UpTo(s) == \A m \in Msgs \ page.late : 0 < seq[m] /\ seq[m] <= s =>
               OnItsWay(m) \/ (page.shown[m] = seq[m] /\ NoneOnItsWay(m)) \/ LeftOut(m)
Passed ==
    /\ \A i \in DOMAIN wire : IsMessage(wire[i]) => UpTo(wire[i].s)
    /\ Writable(con) => UpTo(con.cursor) /\ Seen(con.cursor)

\* A poll has what was above its cursor; the first one the newest of it.
RowsAreTrue(p) ==
    /\ \A i, j \in DOMAIN p.rows : i < j => p.rows[i].s < p.rows[j].s
    /\ \A i \in DOMAIN p.rows : p.cursor < p.rows[i].s /\ p.rows[i].s <= seq[p.rows[i].m]
    /\ \A i \in DOMAIN p.rows, m \in Msgs \ page.late :
          p.cursor < seq[m] /\ seq[m] <= p.rows[i].s =>
             (\E k \in DOMAIN p.rows : p.rows[k] = [m |-> m, s |-> seq[m]])
             \/ (p.cut /\ seq[m] < p.rows[1].s)
    /\ p.cut => p.back /\ Full(p.rows[1].s)
    /\ p.back => Len(p.rows) <= Limit /\ (p.rows = <<>> \/ page.floor <= p.rows[1].s)
PollIsTrue(p) ==
    /\ Writable(con) => p.cursor = con.cursor
    /\ p.pc # "count" => p.back = con.back
    /\ p.pc = "count" => p.back /\ ~con.back
    /\ RowsAreTrue(p)
OnePoll == Len(polls) <= 1 /\ \A i \in DOMAIN polls : PollIsTrue(polls[i])

\* The messages below the floor that the page lacks are below its notice, and
\* those that an answer about older ones leaves out are below the answer.
Hidden(m) == 0 < seq[m] /\ seq[m] < page.floor /\ page.shown[m] = 0 /\ m \notin page.late
HiddenBelow ==
    ~page.crossed => \A m \in Msgs : Hidden(m) =>
        /\ page.notice.older /\ (page.notice.oldest = 0 \/ seq[m] < page.notice.oldest)
        /\ page.load = "got" => \/ [m |-> m, s |-> seq[m]] \in page.older
                                \/ page.more /\ \A r \in page.older : seq[m] < r.s
Loading ==
    /\ page.load # "no" /\ ~page.crossed => page.before = page.notice.oldest
    /\ page.load # "no" => page.before # 0
    /\ page.more => page.older # {}
    /\ \A r \in page.older : 0 < r.s
PageInv ==
    /\ PageIsCurrent /\ HiddenBelow /\ Loading
    /\ Seen(page.last) /\ Seen(page.floor)
    /\ page.floor # 0 => Full(page.floor)

\* What holds in any case, and what does while no two polls were in flight together.
Base == StreamTypeOK /\ ThreadInv /\ FullIsOver /\ CutHasRows
Good == InOrder /\ NoticesAreTrue /\ Passed /\ OnePoll /\ PageInv
StreamInv == Base /\ (~page.overlap => Good)
-----------------------------------------------------------------------------
(* Fields.                                                                  *)

\* The fields of the page.
LEMMA PageFields ==
    ASSUME NEW g \in Pages
    PROVE  /\ g.shown \in [Msgs -> Seqs] /\ g.notice \in Notices /\ g.last \in Seqs
           /\ g.load \in {"no", "ask", "got"} /\ g.before \in Seqs /\ g.older \in SUBSET Rows
           /\ g.more \in BOOLEAN /\ g.floor \in Seqs /\ g.late \in SUBSET Msgs
           /\ g.overlap \in BOOLEAN /\ g.crossed \in BOOLEAN
  BY DEF Pages

\* The fields of a poll.
LEMMA PollFields ==
    ASSUME NEW p \in Polls
    PROVE  /\ p.pc \in {"query", "rows", "count"} /\ p.cursor \in Seqs /\ p.back \in BOOLEAN
           /\ p.rows \in Seq(Rows) /\ p.cut \in BOOLEAN
  BY DEF Polls

\* The fields of a frame.
LEMMA FrameFields ==
    ASSUME NEW f \in Frames
    PROVE  /\ IsMessage(f) => f.m \in Msgs /\ f.s \in Seqs /\ ~IsNotice(f) /\ f = MessageOf(f)
           /\ IsNotice(f) => f.n \in Notices /\ f.cut \in Seqs /\ ~IsMessage(f)
           /\ IsNotice(f) => f.n.older \in BOOLEAN /\ f.n.oldest \in Seqs
  BY DEF Frames, Notices, IsMessage, IsNotice, MessageOf

\* Seqs are natural numbers, 0 among them.
LEMMA SeqsAreNat == Seqs \subseteq Nat /\ 0 \in Seqs
  BY StreamAssumption DEF Seqs

\* The types of what a step finds.
LEMMA Types ==
    ASSUME StreamTypeOK
    PROVE  /\ nextseq \in Seqs /\ seq \in [Msgs -> Seqs] /\ open \in SUBSET Rows /\ member \in BOOLEAN
           /\ con \in Conns /\ page \in Pages /\ polls \in Seq(Polls)
           /\ Len(polls) \in Nat /\ Len(polls) <= MaxPolls /\ DOMAIN polls = 1..Len(polls)
           /\ \A i \in DOMAIN polls : polls[i] \in Polls
           /\ wire \in Seq(Frames) /\ Len(wire) \in Nat /\ DOMAIN wire = 1..Len(wire)
           /\ \A i \in DOMAIN wire : wire[i] \in Frames
           /\ spent \in [conns: 0..MaxConns, faults: 0..MaxStreamFaults]
           /\ Here \in Writers /\ Here.c = con /\ Here.w = wire
           /\ \A m \in Msgs : seq[m] \in Nat
  <1>1. polls \in Seq(Polls) /\ wire \in Seq(Frames) /\ con \in Conns /\ seq \in [Msgs -> Seqs]
    BY DEF StreamTypeOK
  <1>2. /\ Len(polls) \in Nat /\ DOMAIN polls = 1..Len(polls) /\ \A i \in DOMAIN polls : polls[i] \in Polls
        /\ Len(wire) \in Nat /\ DOMAIN wire = 1..Len(wire) /\ \A i \in DOMAIN wire : wire[i] \in Frames
    BY <1>1, LenProperties, ElementOfSeq
  <1>3. Here \in Writers /\ Here.c = con /\ Here.w = wire
    BY <1>1 DEF Here, Writers
  <1>4. \A m \in Msgs : seq[m] \in Nat
    BY <1>1, SeqsAreNat
  <1> QED BY <1>1, <1>2, <1>3, <1>4 DEF StreamTypeOK

\* Messages are numbered.
LEMMA SeqIsNumbered ==
    ASSUME StreamTypeOK, ThreadInv
    PROVE  Numbered(seq)
  BY DEF StreamTypeOK, ThreadInv, Numbered
-----------------------------------------------------------------------------
(* What the actions do to the connection.                                   *)

\* The page is told nothing but errors and beats, and the cursor stays.
Noise(f) == f \in Frames /\ ~IsMessage(f) /\ ~IsNotice(f)
Quiet == /\ GoesOn(Here, Here')
         /\ Writable(con') => con'.cursor = con.cursor
         /\ wire' = wire \/ \E f \in Frames : Noise(f) /\ wire' = Append(wire, f)
         /\ ~Writable(con) => wire' = wire

\* Errors and beats are noise.
LEMMA NoiseIs == Noise(Error) /\ Noise([kind |-> "beat"]) /\ Error \in Frames /\ [kind |-> "beat"] \in Frames
  BY DEF Noise, Error, Frames, IsMessage, IsNotice

\* The connection after a poll, written to or not, is the one before but for its
\* timers and the count of failures.
LEMMA ArmedIs ==
    ASSUME NEW c \in Conns
    PROVE  LET d == FirstPollDone(c) IN
           /\ d \in Conns /\ d.back = c.back /\ d.cursor = c.cursor /\ d.full = c.full
           /\ d.st = "shut" <=> c.st = "shut"
           /\ Writable(d) <=> Writable(c)
  <1>1. CASE c.st = "setup" /\ ~c.closed
    <2>1. FirstPollDone(c) = [c EXCEPT !.st = "open", !.timers = TRUE]
      BY <1>1 DEF FirstPollDone, Armed
    <2>2. [c EXCEPT !.st = "open", !.timers = TRUE] \in Conns
      BY ConnSet
    <2>3. LET d == [c EXCEPT !.st = "open", !.timers = TRUE] IN
          d.st = "open" /\ d.back = c.back /\ d.cursor = c.cursor /\ d.full = c.full
      BY DEF Conns
    <2> QED BY <1>1, <2>1, <2>2, <2>3 DEF Writable
  <1>2. CASE ~(c.st = "setup" /\ ~c.closed)
    <2>1. FirstPollDone(c) = c
      BY <1>2 DEF FirstPollDone, Armed
    <2> QED BY <2>1
  <1> QED BY <1>1, <1>2

\* A continuation, after an assignment to fields that no frame depends on.
LEMMA StillGoesOn ==
    ASSUME NEW a \in Writers, NEW b, GoesOn(a, b), NEW d \in Conns, d.back = b.c.back,
           d.full = b.c.full, d.st = "shut" <=> b.c.st = "shut", Writable(d) <=> Writable(b.c)
    PROVE  GoesOn(a, [c |-> d, w |-> b.w])
  <1>1. [c |-> d, w |-> b.w] \in Writers
    BY DEF GoesOn, Writers
  <1> QED BY <1>1 DEF GoesOn

\* A continuation from a state that differs in such fields.
LEMMA GoesOnFrom ==
    ASSUME NEW a \in Writers, NEW b \in Writers, NEW d, GoesOn(b, d), b.c.back = a.c.back,
           b.c.st = "shut" <=> a.c.st = "shut", Writable(b.c) => Writable(a.c)
    PROVE  GoesOn(a, d)
  BY DEF GoesOn
\* The writer's state is its two fields; an assignment to the first leaves the second.
LEMMA PutFields ==
    ASSUME NEW a \in Writers, NEW d
    PROVE  [a EXCEPT !.c = d].c = d /\ [a EXCEPT !.c = d].w = a.w
           /\ (d \in Conns => [a EXCEPT !.c = d] \in Writers)
           /\ a.c \in Conns /\ a.w \in Seq(Frames)
  BY DEF Writers

\* A continuation of the connection is one when it is written back.
LEMMA PutGoesOn ==
    ASSUME NEW a \in Writers, NEW d, NEW w, GoesOn(a, [c |-> d, w |-> w])
    PROVE  d \in Conns /\ w \in Seq(Frames) /\ (d.full => ~Writable(d))
           /\ d.back = a.c.back /\ (d.st = "shut" <=> a.c.st = "shut")
           /\ (Writable(d) => Writable(a.c))
  BY DEF GoesOn, Writers

\* A failed poll at most says that polls fail.
LEMMA PollFailsIsQuiet ==
    ASSUME StreamTypeOK, FullIsOver, NEW i, PollFails(i)
    PROVE  Quiet
  <1> DEFINE failed == [con EXCEPT !.fails = IF @ < Threshold THEN @ + 1 ELSE @]
             a == [Here EXCEPT !.c = failed]
             st == IF con.fails + 1 = Threshold THEN SseWrite(a, [kind |-> "error"]) ELSE a
  <1>1. con \in Conns /\ wire \in Seq(Frames) /\ Here \in Writers /\ Here.c = con /\ Here.w = wire
    BY Types
  <1>2. failed \in Conns
    <2>1. con.fails \in 0..Threshold /\ Threshold \in Nat
      BY <1>1, StreamAssumption DEF Conns
    <2>2. (IF con.fails < Threshold THEN con.fails + 1 ELSE con.fails) \in 0..Threshold
      BY <2>1
    <2> QED BY <1>1, <2>2, ConnSet
  <1>3. /\ failed.st = con.st /\ failed.back = con.back /\ failed.cursor = con.cursor
        /\ failed.full = con.full
    BY <1>1 DEF Conns
  <1>4. /\ Put([st EXCEPT !.c = FirstPollDone(@)])
    BY DEF PollFails, Error
  <1> HIDE DEF failed
  <1>5. a \in Writers /\ a.c = failed /\ a.w = wire
    BY <1>1, <1>2, PutFields
  <1>6. (a.c.full => ~Writable(a.c)) /\ (Writable(failed) <=> Writable(con))
    BY <1>3, <1>5 DEF FullIsOver, Writable
  <1> HIDE DEF a
  <1>7. GoesOn(a, st) /\ st.c.cursor = a.c.cursor /\ (st.w = wire \/ st.w = Append(wire, Error))
        /\ (~Writable(con) => st.w = wire)
    <2>1. CASE con.fails + 1 = Threshold
      BY <1>5, <1>6, <2>1, WriteOne, NoiseIs DEF Error
    <2>2. CASE con.fails + 1 # Threshold
      BY <1>5, <1>6, <2>2 DEF GoesOn
    <2> QED BY <2>1, <2>2
  <1>8. GoesOn(Here, st)
    BY <1>1, <1>3, <1>5, <1>6, <1>7, GoesOnFrom
  <1> HIDE DEF st
  <1>9. st \in Writers /\ st.c \in Conns
    BY <1>7 DEF GoesOn, Writers
  <1> DEFINE d == FirstPollDone(st.c)
  <1>10. /\ d \in Conns /\ d.back = st.c.back /\ d.cursor = st.c.cursor /\ d.full = st.c.full
         /\ d.st = "shut" <=> st.c.st = "shut"
         /\ Writable(d) <=> Writable(st.c)
    BY <1>9, ArmedIs
  <1>11. con' = d /\ wire' = st.w
    BY <1>4, <1>9, PutFields DEF Put
  <1> HIDE DEF d
  <1>12. GoesOn(Here, [c |-> d, w |-> st.w])
    BY <1>1, <1>8, <1>10, StillGoesOn
  <1>13. Here' = [c |-> d, w |-> st.w]
    BY <1>11 DEF Here
  <1> QED BY <1>3, <1>5, <1>7, <1>10, <1>11, <1>12, <1>13, NoiseIs DEF Quiet

\* A heartbeat is a beat.
LEMMA HeartbeatIsQuiet ==
    ASSUME StreamTypeOK, FullIsOver, Heartbeat
    PROVE  Quiet
  <1> DEFINE st == SseWrite(Here, [kind |-> "beat"])
  <1>1. con \in Conns /\ wire \in Seq(Frames) /\ Here \in Writers /\ Here.c = con /\ Here.w = wire
    BY Types
  <1>2. /\ GoesOn(Here, st) /\ st.c.cursor = con.cursor
        /\ ~Writable(con) => st.w = wire
        /\ \/ st.w = wire
           \/ st.w = Append(wire, Error)
           \/ st.w = Append(wire, [kind |-> "beat"])
    BY <1>1, WriteOne, NoiseIs DEF FullIsOver
  <1>3. Put([st EXCEPT !.c.asking = TRUE])
    BY DEF Heartbeat
  <1> HIDE DEF st
  <1>4. st \in Writers /\ st.c \in Conns
    BY <1>2 DEF GoesOn, Writers
  <1> DEFINE d == [st.c EXCEPT !.asking = TRUE]
  <1>5. con' = d /\ wire' = st.w
    BY <1>3, <1>4 DEF Put, Writers
  <1>6. /\ d \in Conns /\ d.back = st.c.back /\ d.cursor = st.c.cursor /\ d.full = st.c.full
        /\ d.st = st.c.st
    <2>1. d \in Conns
      BY <1>4, ConnSet
    <2> QED BY <1>4, <2>1 DEF Conns
  <1> HIDE DEF d
  <1>7. GoesOn(Here, [c |-> d, w |-> st.w])
    BY <1>1, <1>2, <1>6, StillGoesOn DEF Writable
  <1>8. Here' = [c |-> d, w |-> st.w]
    BY <1>5 DEF Here
  <1> QED BY <1>1, <1>2, <1>5, <1>6, <1>7, <1>8, NoiseIs DEF Quiet

\* The end of a stream is an error.
LEMMA EndIsQuiet ==
    ASSUME StreamTypeOK, FullIsOver, NEW d \in Conns, d.back = con.back, d.st = "ended", Writable(con),
           con' = d, wire' = Append(wire, Error)
    PROVE  Quiet
  <1>1. con \in Conns /\ wire \in Seq(Frames) /\ Here \in Writers /\ Here.c = con /\ Here.w = wire
    BY Types
  <1>2. Append(wire, Error) \in Seq(Frames)
    BY <1>1, NoiseIs, AppendProperties
  <1>3. [c |-> d, w |-> Append(wire, Error)] \in Writers
    BY <1>2 DEF Writers
  <1>4. ~Writable(d) /\ d.st # "shut" /\ con.st # "shut"
    BY DEF Writable
  <1>5. GoesOn(Here, [c |-> d, w |-> Append(wire, Error)])
    BY <1>1, <1>3, <1>4 DEF GoesOn
  <1>6. Here' = [c |-> d, w |-> Append(wire, Error)]
    BY DEF Here
  <1> QED BY <1>4, <1>5, <1>6, NoiseIs DEF Quiet

\* The deadline of the credential.
LEMMA DeadlineIsQuiet ==
    ASSUME StreamTypeOK, FullIsOver, Deadline
    PROVE  Quiet
  <1> DEFINE d == [con EXCEPT !.st = "ended"]
  <1>1. con \in Conns
    BY Types
  <1>2. d \in Conns /\ d.st = "ended" /\ d.back = con.back
    <2>1. d \in Conns
      BY <1>1, ConnSet
    <2> QED BY <1>1, <2>1 DEF Conns
  <1>3. con' = d /\ wire' = Append(wire, Error) /\ Writable(con)
    BY DEF Deadline, EndWith, Put, Error
  <1> HIDE DEF d
  <1> QED BY <1>2, <1>3, EndIsQuiet

\* The answer about the participation.
LEMMA AnswerIsQuiet ==
    ASSUME StreamTypeOK, FullIsOver, HeartbeatAnswer
    PROVE  Quiet
  <1> DEFINE e == [con EXCEPT !.asking = FALSE]
             d == Closing([e EXCEPT !.st = "ended"])
  <1>1. con \in Conns /\ wire \in Seq(Frames) /\ Here \in Writers /\ Here.c = con /\ Here.w = wire
    BY Types
  <1>2. /\ e \in Conns /\ e.back = con.back /\ e.cursor = con.cursor /\ e.full = con.full
        /\ e.st = con.st
    <2>1. e \in Conns
      BY <1>1, ConnSet
    <2> QED BY <1>1, <2>1 DEF Conns
  <1>3. CASE con' = e /\ UNCHANGED wire
    <2>1. GoesOn(Here, Here)
      BY <1>1 DEF GoesOn, FullIsOver
    <2> HIDE DEF e
    <2>2. GoesOn(Here, [c |-> e, w |-> wire])
      BY <1>1, <1>2, <2>1, StillGoesOn DEF Writable
    <2>3. Here' = [c |-> e, w |-> wire]
      BY <1>3 DEF Here
    <2> QED BY <1>2, <1>3, <2>2, <2>3 DEF Quiet
  <1>4. CASE Writable(con) /\ LET st == EndWith(e) IN Put([st EXCEPT !.c = Closing(@)])
    <2> HIDE DEF e
    <2>1. con' = d /\ wire' = Append(wire, Error)
      BY <1>4 DEF EndWith, Put, Error
    <2>2. [e EXCEPT !.st = "ended"] \in Conns
      BY <1>2, ConnSet
    <2>3. d \in Conns
      BY <2>2, ConnSet DEF Closing
    <2>4. d.st = "ended" /\ d.back = con.back
      BY <1>2, <2>2 DEF Closing, Conns
    <2> HIDE DEF d
    <2> QED BY <1>4, <2>1, <2>3, <2>4, EndIsQuiet
  <1> QED BY <1>3, <1>4 DEF HeartbeatAnswer
-----------------------------------------------------------------------------
(* Steps the page sees nothing of.                                          *)

\* What is said of the page alone stays while it and the messages stay.
LEMMA PageStays ==
    ASSUME PageInv, UNCHANGED <<seq, page>>
    PROVE  PageInv'
  <1>1. PageIsCurrent' /\ HiddenBelow' /\ Loading'
    BY DEF PageInv, PageIsCurrent, Covered, HiddenBelow, Hidden, Loading
  <1>2. Seen(page.last)' /\ Seen(page.floor)' /\ (page'.floor # 0 => Full(page.floor)')
    BY DEF PageInv, Seen, Full
  <1> QED BY <1>1, <1>2 DEF PageInv

\* A poll that is still under way stays true while the thread, the page and what it
\* takes of the connection do.
LEMMA PollStays ==
    ASSUME NEW p, PollIsTrue(p), UNCHANGED <<seq, page>>, con'.back = con.back,
           Writable(con') => Writable(con) /\ con'.cursor = con.cursor
    PROVE  PollIsTrue(p)'
  <1>1. RowsAreTrue(p)'
    BY DEF PollIsTrue, RowsAreTrue, Full
  <1> QED BY <1>1 DEF PollIsTrue

\* Errors and beats change nothing that the page or the polls rely on.
LEMMA QuietKeeps ==
    ASSUME StreamTypeOK, StreamTypeOK', Good, Quiet, UNCHANGED <<seq, page>>, polls' = polls \/ polls' = <<>>
    PROVE  Good'
  <1>1. /\ wire \in Seq(Frames) /\ Len(wire) \in Nat /\ DOMAIN wire = 1..Len(wire)
        /\ Here.c = con /\ Here.w = wire /\ Here'.c = con' /\ Here'.w = wire'
    BY Types DEF Here
  <1>2. /\ con'.back = con.back /\ (Writable(con') => Writable(con) /\ con'.cursor = con.cursor)
        /\ con'.st = "shut" <=> con.st = "shut"
    BY <1>1 DEF Quiet, GoesOn
  <1>3. /\ \A i \in DOMAIN wire : i \in DOMAIN wire' /\ wire'[i] = wire[i]
        /\ \A i \in DOMAIN wire' : IsMessage(wire'[i]) \/ IsNotice(wire'[i]) =>
              i \in DOMAIN wire /\ wire'[i] = wire[i]
    <2>1. CASE wire' = wire
      BY <2>1
    <2>2. CASE \E f \in Frames : Noise(f) /\ wire' = Append(wire, f)
      <3>1. PICK f \in Frames : Noise(f) /\ wire' = Append(wire, f)
        BY <2>2
      <3>2. /\ wire' \in Seq(Frames) /\ Len(wire') = Len(wire) + 1 /\ wire'[Len(wire)+1] = f
            /\ \A i \in 1..Len(wire) : wire'[i] = wire[i]
        BY <1>1, <3>1, AppendProperties
      <3>3. DOMAIN wire' = 1..(Len(wire) + 1)
        BY <3>2, LenProperties
      <3>4. \A i \in 1..(Len(wire) + 1) : i = Len(wire) + 1 \/ i \in 1..Len(wire)
        BY <1>1
      <3>5. \A i \in 1..Len(wire) : i \in 1..(Len(wire) + 1)
        BY <1>1
      <3> QED BY <1>1, <3>1, <3>2, <3>3, <3>4, <3>5 DEF Noise
    <2> QED BY <2>1, <2>2 DEF Quiet
  <1>4. con.st = "shut" => wire' = wire
    BY DEF Quiet, Writable
  <1>5. InOrder'
    <2>1. con'.st = "shut" => wire' = <<>>
      BY <1>2, <1>4 DEF Good, InOrder
    <2>2. \A i, j \in DOMAIN wire' : i < j =>
             /\ IsMessage(wire'[i]) /\ IsMessage(wire'[j]) => wire'[i].s < wire'[j].s
             /\ IsNotice(wire'[j]) => ~IsMessage(wire'[i]) /\ ~IsNotice(wire'[i])
      BY <1>3 DEF Good, InOrder
    <2>3. \A i \in DOMAIN wire' : IsMessage(wire'[i]) =>
             /\ 0 < wire'[i].s /\ wire'[i].s <= seq'[wire'[i].m]
             /\ Writable(con') => wire'[i].s <= con'.cursor
      BY <1>2, <1>3 DEF Good, InOrder
    <2>4. con'.back \/ (\E i \in DOMAIN polls' : polls'[i].pc = "count") =>
             \A i \in DOMAIN wire' : ~IsMessage(wire'[i]) /\ ~IsNotice(wire'[i])
      <3>1. con'.back \/ (\E i \in DOMAIN polls' : polls'[i].pc = "count") =>
               con.back \/ (\E i \in DOMAIN polls : polls[i].pc = "count")
        BY <1>2
      <3> QED BY <1>3, <3>1 DEF Good, InOrder
    <2> QED BY <2>1, <2>2, <2>3, <2>4 DEF InOrder
  <1>6. NoticesAreTrue'
    BY <1>3 DEF Good, NoticesAreTrue, NoticeIsTrue, Full, Seen
  <1>7. ASSUME NEW s, UpTo(s) PROVE UpTo(s)'
    <2> SUFFICES ASSUME NEW m \in Msgs \ page.late, 0 < seq[m], seq[m] <= s
                 PROVE  OnItsWay(m)' \/ (page.shown[m] = seq[m] /\ NoneOnItsWay(m)') \/ LeftOut(m)'
      BY DEF UpTo
    <2>1. CASE OnItsWay(m)
      BY <1>3, <2>1 DEF OnItsWay
    <2>2. CASE page.shown[m] = seq[m] /\ NoneOnItsWay(m)
      BY <1>3, <2>2 DEF NoneOnItsWay
    <2>3. CASE LeftOut(m)
      BY <1>3, <2>3 DEF LeftOut
    <2> QED BY <1>7, <2>1, <2>2, <2>3 DEF UpTo
  <1>8. Passed'
    <2>1. ASSUME NEW i \in DOMAIN wire', IsMessage(wire'[i]) PROVE UpTo(wire[i].s)'
      <3>1. UpTo(wire[i].s)
        BY <1>3, <2>1 DEF Good, Passed
      <3>2. wire'[i].s = wire[i].s
        BY <1>3, <2>1
      <3>3. PICK s : s = wire[i].s
        OBVIOUS
      <3> QED BY <1>7, <3>1, <3>2, <3>3
    <2>2. Writable(con') => UpTo(con.cursor)' /\ Seen(con.cursor)'
      <3> HAVE Writable(con')
      <3>1. UpTo(con.cursor) /\ Seen(con.cursor) /\ con'.cursor = con.cursor
        BY <1>2 DEF Good, Passed
      <3>2. PICK s : s = con.cursor
        OBVIOUS
      <3>3. UpTo(s)' /\ s = con'.cursor
        BY <1>7, <3>1, <3>2
      <3> QED BY <3>1, <3>3 DEF Seen
    <2> QED BY <2>1, <2>2 DEF Passed
  <1>9. OnePoll'
    <2>1. CASE polls' = polls
      <3>1. \A i \in DOMAIN polls : PollIsTrue(polls[i])
        BY DEF Good, OnePoll
      <3>2. ASSUME NEW i \in DOMAIN polls' PROVE PollIsTrue(polls[i])'
        <4>1. PICK p : p = polls[i]
          OBVIOUS
        <4>2. PollIsTrue(p)'
          BY <1>2, <2>1, <3>1, <4>1, PollStays
        <4> QED BY <2>1, <4>1, <4>2
      <3>3. Len(polls') <= 1
        BY <2>1 DEF Good, OnePoll
      <3> QED BY <3>2, <3>3 DEF OnePoll
    <2>2. CASE polls' = <<>>
      BY <2>2 DEF OnePoll
    <2> QED BY <2>1, <2>2
  <1>10. PageInv'
    BY PageStays DEF Good
  <1> QED BY <1>5, <1>6, <1>8, <1>9, <1>10 DEF Good
-----------------------------------------------------------------------------
(* The connection opens and closes; polls start and ask.                    *)

\* There is but one poll, and none is left when it has ended.
LEMMA OnlyPoll ==
    ASSUME StreamTypeOK, OnePoll, NEW i \in DOMAIN polls
    PROVE  i = 1 /\ Len(polls) = 1 /\ DOMAIN polls = {1} /\ Without(i) = <<>>
           /\ polls[1] \in Polls /\ PollIsTrue(polls[1])
  <1>1. Len(polls) \in Nat /\ DOMAIN polls = 1..Len(polls) /\ \A j \in DOMAIN polls : polls[j] \in Polls
    BY Types
  <1>2. i = 1 /\ Len(polls) = 1 /\ DOMAIN polls = {1}
    BY <1>1 DEF OnePoll
  <1>3. Without(i) = <<>>
    <2>1. SubSeq(polls, 1, 0) = <<>> /\ SubSeq(polls, 2, 1) = <<>>
      BY SubSeqEmpty
    <2>2. <<>> \o <<>> = <<>>
      BY EmptySeq, ConcatEmptySeq
    <2>3. Without(1) = SubSeq(polls, 1, 0) \o SubSeq(polls, 2, 1)
      BY <1>2 DEF Without
    <2> QED BY <1>2, <2>1, <2>2, <2>3
  <1> QED BY <1>1, <1>2, <1>3 DEF OnePoll

\* A new poll asks from the cursor on.
LEMMA NewPoll ==
    ASSUME NEW c \in Conns
    PROVE  LET p == StartPoll(c) IN
           /\ p \in Polls /\ p.pc = "query" /\ p.cursor = c.cursor /\ p.back = c.back
           /\ p.rows = <<>> /\ p.cut = FALSE
  <1>1. c.cursor \in Seqs /\ c.back \in BOOLEAN
    BY ConnFields
  <1>2. <<>> \in Seq(Rows)
    BY EmptySeq
  <1> QED BY <1>1, <1>2 DEF StartPoll, Polls

\* A poll without an answer says nothing.
LEMMA NewPollIsTrue ==
    ASSUME NEW c \in Conns, Writable(con') => c.cursor = con'.cursor, c.back = con'.back
    PROVE  PollIsTrue(StartPoll(c))'
  <1> DEFINE p == StartPoll(c)
  <1>1. p.pc = "query" /\ p.cursor = c.cursor /\ p.back = c.back /\ p.rows = <<>> /\ p.cut = FALSE
    BY NewPoll
  <1> HIDE DEF p
  <1>2. DOMAIN p.rows = {} /\ Len(p.rows) = 0 /\ 0 <= Limit
    BY <1>1, StreamAssumption
  <1>3. PICK q : q = p
    OBVIOUS
  <1>4. RowsAreTrue(q)'
    BY <1>1, <1>2, <1>3 DEF RowsAreTrue
  <1>5. PollIsTrue(q)'
    BY <1>1, <1>3, <1>4 DEF PollIsTrue
  <1> QED BY <1>3, <1>5 DEF p, StartPoll

\* 'close': what was under way is lost.
LEMMA ClosedKeeps ==
    ASSUME StreamTypeOK, Good, Closed
    PROVE  Good'
  <1>1. con' = [Closing(con) EXCEPT !.st = "shut"] /\ wire' = <<>>
        /\ UNCHANGED <<nextseq, seq, open, member, polls, page>>
    BY DEF Closed
  <1>2. con \in Conns
    BY Types
  <1>3. con'.st = "shut" /\ con'.back = con.back
    BY <1>1, <1>2 DEF Closing, Conns
  <1>4. ~Writable(con')
    BY <1>3 DEF Writable
  <1>5. DOMAIN wire' = {}
    BY <1>1
  <1>6. InOrder' /\ NoticesAreTrue' /\ Passed'
    BY <1>1, <1>4, <1>5 DEF InOrder, NoticesAreTrue, Passed
  <1>7. OnePoll'
    <2>1. \A i \in DOMAIN polls : PollIsTrue(polls[i])
      BY DEF Good, OnePoll
    <2>2. ASSUME NEW i \in DOMAIN polls' PROVE PollIsTrue(polls[i])'
      <3>1. PICK p : p = polls[i]
        OBVIOUS
      <3>2. PollIsTrue(p)'
        BY <1>1, <1>3, <1>4, <2>1, <3>1, PollStays
      <3> QED BY <1>1, <3>1, <3>2
    <2>3. Len(polls') <= 1
      BY <1>1 DEF Good, OnePoll
    <2> QED BY <2>2, <2>3 DEF OnePoll
  <1>8. PageInv'
    BY <1>1, PageStays DEF Good
  <1> QED BY <1>6, <1>7, <1>8 DEF Good

\* A new connection starts where the page has arrived, or from the beginning.
LEMMA ConnectKeeps ==
    ASSUME StreamTypeOK, ~page.overlap, Good, NEW from, Connect(from)
    PROVE  Good'
  <1>1. /\ con.st = "shut" /\ from \in {0, page.last}
        /\ con' = [NoStream EXCEPT !.st = "setup", !.cursor = from, !.closed = FALSE]
        /\ polls' = <<StartPoll(con')>>
        /\ UNCHANGED <<nextseq, seq, open, member, wire, page>>
    BY DEF Connect
  <1>2. from \in Seqs
    BY <1>1, Types, PageFields, SeqsAreNat
  <1>3. con' \in Conns /\ con'.st = "setup" /\ con'.cursor = from /\ con'.back = TRUE
    <2>1. Threshold \in Nat /\ 0 \in 0..Threshold
      BY StreamAssumption
    <2> QED BY <1>1, <1>2, <2>1 DEF NoStream, Conns
  <1>4. wire = <<>> /\ wire' = <<>> /\ DOMAIN wire = {}
    BY <1>1 DEF Good, InOrder
  <1>5. UpTo(from)' /\ Seen(from)'
    <2>1. CASE from = 0
      <3>1. \A m \in Msgs : ~(0 < seq[m] /\ seq[m] <= 0)
        <4>1. \A m \in Msgs : seq[m] \in Nat
          BY Types
        <4> QED BY <4>1
      <3> QED BY <1>1, <2>1, <3>1 DEF UpTo, Seen
    <2>2. CASE from = page.last
      <3>2. Seen(from)'
        BY <1>1, <2>2 DEF Good, PageInv, Seen
      <3>3. ASSUME NEW m \in Msgs \ page.late, 0 < seq[m], seq[m] <= page.last
            PROVE  page.shown[m] = seq[m] \/ seq[m] < page.floor
        <4>1. seq[m] \in Nat /\ page.floor \in Nat
          BY Types, PageFields, SeqsAreNat
        <4>2. page.floor <= seq[m] => Covered(m)
          BY <3>3, <4>1 DEF Covered
        <4> QED BY <3>3, <4>1, <4>2 DEF Good, PageInv, PageIsCurrent
      <3> QED BY <1>1, <1>4, <2>2, <3>2, <3>3 DEF UpTo, NoneOnItsWay, LeftOut
    <2> QED BY <1>1, <2>1, <2>2
  <1>6. InOrder' /\ NoticesAreTrue' /\ Passed'
    BY <1>1, <1>3, <1>4, <1>5 DEF InOrder, NoticesAreTrue, Passed
  <1>7. OnePoll'
    <2>1. PICK c : c = con'
      OBVIOUS
    <2>2. PollIsTrue(StartPoll(c))'
      BY <1>3, <2>1, NewPollIsTrue
    <2>3. Len(polls') = 1 /\ DOMAIN polls' = {1} /\ polls'[1] = StartPoll(c)
      BY <1>1, <2>1
    <2> QED BY <2>2, <2>3 DEF OnePoll
  <1>8. PageInv'
    BY <1>1, PageStays DEF Good
  <1> QED BY <1>6, <1>7, <1>8 DEF Good
\* The timer starts a poll from the cursor; alone, or it is an overlap.
LEMMA PollTimerKeeps ==
    ASSUME StreamTypeOK, Good, PollTimer, ~page'.overlap
    PROVE  Good'
  <1>1. /\ polls' = Append(polls, StartPoll(con))
        /\ page' = [page EXCEPT !.overlap = @ \/ polls # <<>>]
        /\ UNCHANGED <<nextseq, seq, open, member, con, wire>>
    BY DEF PollTimer
  <1>2. con \in Conns /\ page \in Pages
    BY Types
  <1>3. page'.overlap = (page.overlap \/ polls # <<>>)
    BY <1>1, <1>2 DEF Pages
  <1>4. polls = <<>> /\ page.overlap = FALSE
    BY <1>2, <1>3, PageFields
  <1>5. page' = page
    <2>1. page' = [page EXCEPT !.overlap = FALSE]
      BY <1>1, <1>4
    <2> QED BY <1>2, <1>4, <2>1 DEF Pages
  <1>6. DOMAIN polls' = {1} /\ Len(polls') = 1 /\ polls'[1] = StartPoll(con) /\ DOMAIN polls = {}
    BY <1>1, <1>4
  <1>7. StartPoll(con).pc = "query"
    BY <1>2, NewPoll
  <1>8. ~(\E i \in DOMAIN polls' : polls'[i].pc = "count")
    BY <1>6, <1>7
  <1>9. InOrder'
    BY <1>1, <1>8 DEF Good, InOrder
  <1>10. NoticesAreTrue'
    BY <1>1, <1>5 DEF Good, NoticesAreTrue, NoticeIsTrue, Full, Seen
  <1>11. Passed'
    BY <1>1, <1>5 DEF Good, Passed, UpTo, OnItsWay, NoneOnItsWay, LeftOut, Seen
  <1>12. OnePoll'
    <2>1. PICK c : c = con
      OBVIOUS
    <2>2. PollIsTrue(StartPoll(c))'
      BY <1>1, <1>2, <2>1, NewPollIsTrue
    <2>3. polls'[1] = StartPoll(c)
      BY <1>6, <2>1
    <2> QED BY <1>6, <2>2, <2>3 DEF OnePoll
  <1>13. PageInv'
    BY <1>1, <1>5, PageStays DEF Good
  <1> QED BY <1>9, <1>10, <1>11, <1>12, <1>13 DEF Good

\* The query takes its snapshot.
LEMMA PollQueryKeeps ==
    ASSUME StreamTypeOK, ThreadInv, Good, NEW i \in Nat, PollQuery(i)
    PROVE  Good'
  <1> DEFINE p == polls[i]
             q == SortedRows(Asked(p.cursor, p.back))
             cut == p.back /\ More(p.cursor)
             n == [polls EXCEPT ![i].pc = "rows", ![i].rows = q, ![i].cut = cut]
  <1>1. /\ i \in DOMAIN polls /\ p.pc = "query" /\ polls' = n
        /\ UNCHANGED <<nextseq, seq, open, member, con, wire, page, spent>>
    BY DEF PollQuery, Asked, More
  <1>2. i = 1 /\ DOMAIN polls = {1} /\ Len(polls) = 1 /\ p \in Polls /\ PollIsTrue(p)
    BY <1>1, OnlyPoll DEF Good
  <1>3. p.cursor \in Seqs /\ p.back \in BOOLEAN
    BY <1>2, PollFields
  <1>4. Numbered(seq)
    BY SeqIsNumbered
  <1> HIDE DEF q, cut
  <1>5. /\ \A j, k \in DOMAIN q : j < k => q[j].s < q[k].s
        /\ \A j \in DOMAIN q : p.cursor < q[j].s /\ q[j].s = seq[q[j].m]
        /\ \A j \in DOMAIN q, m \in Msgs : p.cursor < seq[m] /\ seq[m] <= q[j].s =>
              \/ \E k \in DOMAIN q : q[k] = [m |-> m, s |-> seq[m]]
              \/ cut /\ seq[m] < q[1].s
        /\ cut => p.back /\ q # <<>> /\ FullIn(seq, q[1].s)
        /\ p.back => Len(q) <= Limit
        /\ p.back /\ q # <<>> => \A s \in Seqs \ {0} : FullIn(seq, s) => s <= q[1].s
        /\ q \in Seq(Rows)
    BY <1>3, <1>4, AnswerIsTrue DEF q, cut
  <1> DEFINE r == [p EXCEPT !.pc = "rows", !.rows = q, !.cut = cut]
  <1>6. polls' = <<r>>
    <2>1. polls = <<p>>
      <3>1. polls \in Seq(Polls)
        BY Types
      <3> QED BY <1>2, <3>1
    <2> HIDE DEF p
    <2> QED BY <1>1, <1>2, <2>1 DEF p
  <1>7. /\ r.pc = "rows" /\ r.rows = q /\ r.cut = cut /\ r.cursor = p.cursor /\ r.back = p.back
    BY <1>2 DEF Polls
  <1> HIDE DEF n, r
  <1>8. polls'[1] = r /\ DOMAIN polls' = {1} /\ Len(polls') = 1
    BY <1>6
  <1>9. ~(\E j \in DOMAIN polls' : polls'[j].pc = "count")
    BY <1>7, <1>8
  <1>10. InOrder'
    BY <1>1, <1>9 DEF Good, InOrder
  <1>11. NoticesAreTrue'
    BY <1>1 DEF Good, NoticesAreTrue, NoticeIsTrue, Full, Seen
  <1>12. Passed'
    BY <1>1 DEF Good, Passed, UpTo, OnItsWay, NoneOnItsWay, LeftOut, Seen
  <1>13. PageInv'
    BY <1>1, PageStays DEF Good
  <1>14. q = <<>> \/ page.floor <= q[1].s \/ ~p.back
    <2> SUFFICES ASSUME q # <<>>, p.back PROVE page.floor <= q[1].s
      OBVIOUS
    <2>1. page.floor \in Seqs /\ page.floor \in Nat
      BY Types, PageFields, SeqsAreNat
    <2>2. CASE page.floor = 0
      <3>1. 1 \in DOMAIN q
        BY <1>5
      <3>2. q[1].s \in Nat
        <4>1. q[1] \in Rows
          BY <1>5, <3>1, ElementOfSeq, LenProperties
        <4> QED BY <4>1, SeqsAreNat DEF Rows
      <3> QED BY <2>2, <3>2
    <2>3. CASE page.floor # 0
      BY <1>5, <2>1, <2>3 DEF Good, PageInv, Full
    <2> QED BY <2>2, <2>3
  <1>15. \A j \in DOMAIN q : q[j].s <= seq[q[j].m]
    <2> TAKE j \in DOMAIN q
    <2>1. q[j] \in Rows
      BY <1>5, ElementOfSeq, LenProperties
    <2>2. q[j].s \in Nat
      BY <2>1, SeqsAreNat DEF Rows
    <2> QED BY <1>5, <2>2
  <1>16. PICK x : x = r
    OBVIOUS
  <1>17. RowsAreTrue(x)'
    <2> HIDE DEF p
    <2>1. /\ x.pc = "rows" /\ x.rows = q /\ x.cut = cut /\ x.cursor = p.cursor /\ x.back = p.back
      BY <1>7, <1>16
    <2> QED BY <1>1, <1>5, <1>14, <1>15, <2>1 DEF RowsAreTrue, Full
  <1>18. PollIsTrue(x)'
    <2> HIDE DEF p
    <2>1. (Writable(con) => p.cursor = con.cursor) /\ p.back = con.back
      BY <1>1, <1>2 DEF PollIsTrue
    <2> QED BY <1>1, <1>7, <1>16, <1>17, <2>1 DEF PollIsTrue
  <1>19. OnePoll'
    BY <1>8, <1>16, <1>18 DEF OnePoll
  <1> QED BY <1>10, <1>11, <1>12, <1>13, <1>19 DEF Good
-----------------------------------------------------------------------------
(* Polls write.                                                             *)

\* Facts about a row of an answer.
LEMMA RowFields ==
    ASSUME NEW p \in Polls, NEW i \in DOMAIN p.rows
    PROVE  /\ p.rows[i] \in Rows /\ p.rows[i].m \in Msgs /\ p.rows[i].s \in Seqs /\ p.rows[i].s \in Nat
           /\ Len(p.rows) \in Nat /\ DOMAIN p.rows = 1..Len(p.rows) /\ i \in 1..Len(p.rows)
           /\ IsMessage(MessageOf(p.rows[i])) /\ ~IsNotice(MessageOf(p.rows[i]))
           /\ MessageOf(p.rows[i]).m = p.rows[i].m /\ MessageOf(p.rows[i]).s = p.rows[i].s
  <1>1. p.rows \in Seq(Rows)
    BY PollFields
  <1>2. Len(p.rows) \in Nat /\ DOMAIN p.rows = 1..Len(p.rows)
    BY <1>1, LenProperties
  <1>3. p.rows[i] \in Rows
    BY <1>1, <1>2, ElementOfSeq
  <1>4. p.rows[i].m \in Msgs /\ p.rows[i].s \in Seqs
    BY <1>3 DEF Rows
  <1> QED BY <1>2, <1>3, <1>4, SeqsAreNat DEF MessageOf, IsMessage, IsNotice

\* A poll writes its rows after a, where the wire has perhaps got the notice of its
\* replay.
Prepared(a, p) ==
    /\ \A j \in DOMAIN wire : j \in DOMAIN a.w /\ a.w[j] = wire[j]
    /\ \A j \in DOMAIN a.w : IsMessage(a.w[j]) => j \in DOMAIN wire /\ a.w[j] = wire[j]
    /\ \A j \in DOMAIN a.w : IsNotice(a.w[j]) => NoticeIsTrue(a.w[j])
    /\ \A i, j \in DOMAIN a.w : i < j =>
          (IsNotice(a.w[j]) => ~IsMessage(a.w[i]) /\ ~IsNotice(a.w[i]))
    /\ p.cut => \E j \in DOMAIN a.w : IsNotice(a.w[j]) /\ a.w[j].cut = p.rows[1].s

\* What is on the wire w after k rows: what was there, the rows, at most an error.
WiredAfter(a, p, k, w) ==
    /\ \A i \in DOMAIN wire : i \in DOMAIN w /\ w[i] = wire[i]
    /\ \A i \in DOMAIN a.w : i \in DOMAIN w /\ w[i] = a.w[i]
    /\ \A j \in 1..k : Len(a.w) + j \in DOMAIN w /\ w[Len(a.w) + j] = MessageOf(p.rows[j])
    /\ \A i \in DOMAIN w : IsNotice(w[i]) => i \in DOMAIN a.w
    /\ \A i \in DOMAIN w : IsMessage(w[i]) =>
          \/ i \in DOMAIN a.w /\ i \in DOMAIN wire
          \/ \E j \in 1..k : i = Len(a.w) + j

\* That is what the loop leaves.
LEMMA AfterWriting ==
    ASSUME StreamTypeOK, NEW a \in Writers, NEW b \in Writers, NEW p \in Polls, Prepared(a, p),
           NEW k \in 0..Len(p.rows), WroteUpTo(a, b, p.rows, Len(p.rows), k)
    PROVE  WiredAfter(a, p, k, b.w)
  <1>1. /\ a.w \in Seq(Frames) /\ b.w \in Seq(Frames) /\ Len(a.w) \in Nat /\ Len(b.w) \in Nat
        /\ DOMAIN a.w = 1..Len(a.w) /\ DOMAIN b.w = 1..Len(b.w)
        /\ p.rows \in Seq(Rows) /\ Len(p.rows) \in Nat /\ DOMAIN p.rows = 1..Len(p.rows)
    BY LenProperties, PollFields DEF Writers
  <1>2. PICK x \in Nat, y \in Nat, n \in Nat : x = Len(a.w) /\ y = Len(b.w) /\ n = Len(p.rows)
    BY <1>1
  <1>3. /\ y >= x + k /\ \A i \in 1..x : b.w[i] = a.w[i]
        /\ \A i \in 1..k : b.w[x + i] = MessageOf(p.rows[i])
        /\ \A i \in 1..y : i > x + k => b.w[i] = Error
    BY <1>2 DEF WroteUpTo
  <1>4. k \in Nat /\ k <= n
    BY <1>2
  <1>5. \A i \in 1..x : i \in 1..y
    BY <1>3, <1>4
  <1>6. \A j \in 1..k : x + j \in 1..y /\ j \in 1..n
    BY <1>2, <1>3, <1>4
  <1>7. \A i \in 1..y : i \in 1..x \/ i > x + k \/ \E j \in 1..k : i = x + j
    <2> TAKE i \in 1..y
    <2> SUFFICES ASSUME ~(i \in 1..x), ~(i > x + k) PROVE \E j \in 1..k : i = x + j
      OBVIOUS
    <2>1. i \in Nat /\ i > x /\ i <= x + k
      BY <1>4
    <2>2. PICK j \in Int : j = i - x
      BY <2>1
    <2>3. j \in 1..k /\ i = x + j
      BY <1>4, <2>1, <2>2
    <2> QED BY <2>3
  <1>8. \A i \in DOMAIN a.w : i \in DOMAIN b.w /\ b.w[i] = a.w[i]
    BY <1>1, <1>2, <1>3, <1>5
  <1>9. \A i \in DOMAIN wire : i \in DOMAIN b.w /\ b.w[i] = wire[i]
    BY <1>8 DEF Prepared
  <1>10. \A j \in 1..k : Len(a.w) + j \in DOMAIN b.w /\ b.w[Len(a.w) + j] = MessageOf(p.rows[j])
    BY <1>1, <1>2, <1>3, <1>6
  <1>11. ~IsNotice(Error) /\ ~IsMessage(Error) /\ \A j \in 1..k : ~IsNotice(MessageOf(p.rows[j]))
    BY DEF IsNotice, IsMessage, Error, MessageOf
  <1>12. ASSUME NEW i \in DOMAIN b.w, IsNotice(b.w[i]) PROVE i \in DOMAIN a.w
    <2>1. i \in 1..y
      BY <1>1, <1>2
    <2>2. CASE i > x + k
      BY <1>3, <1>11, <1>12, <2>1, <2>2
    <2>3. CASE \E j \in 1..k : i = x + j
      BY <1>3, <1>11, <1>12, <2>3
    <2>4. CASE i \in 1..x
      BY <1>1, <1>2, <2>4
    <2> QED BY <1>7, <2>1, <2>2, <2>3, <2>4
  <1>13. ASSUME NEW i \in DOMAIN b.w, IsMessage(b.w[i])
         PROVE  (i \in DOMAIN a.w /\ i \in DOMAIN wire) \/ \E j \in 1..k : i = Len(a.w) + j
    <2>1. i \in DOMAIN a.w \/ \E j \in 1..k : i = Len(a.w) + j
      <3>1. i \in 1..y
        BY <1>1, <1>2
      <3>2. CASE i > x + k
        BY <1>3, <1>11, <1>13, <3>1, <3>2
      <3>3. CASE \E j \in 1..k : i = x + j
        BY <1>2, <3>3
      <3>4. CASE i \in 1..x
        BY <1>1, <1>2, <3>4
      <3> QED BY <1>7, <3>1, <3>2, <3>3, <3>4
    <2> QED BY <1>8, <1>13, <2>1 DEF Prepared
  <1> QED BY <1>8, <1>9, <1>10, <1>12, <1>13 DEF WiredAfter

\* Rows that go on from the cursor, in order, keep all that is promised.
LEMMA WritingKeeps ==
    ASSUME StreamTypeOK, StreamTypeOK', Good, UNCHANGED <<seq, page>>, polls' = <<>>, con.back = FALSE,
           NEW p \in Polls, PollIsTrue(p),
           NEW a \in Writers, NEW b, GoesOn(Here, a), GoesOn(a, b), Prepared(a, p),
           Writable(a.c), a.c.cursor = con.cursor, Wrote(a, b, p.rows, Len(p.rows)),
           wire' = b.w, con'.back = b.c.back, con'.cursor = b.c.cursor,
           Writable(con') <=> Writable(b.c), con'.st = "shut" <=> b.c.st = "shut"
    PROVE  Good'
  <1> DEFINE n == Len(p.rows)
             K == Len(a.w)
             c0 == con.cursor
  <1>1. /\ b \in Writers /\ Here.c = con /\ Writable(con) /\ con'.back = FALSE
        /\ con'.st # "shut"
    BY Types DEF GoesOn, Writable
  <1>2. /\ p.cursor = c0 /\ c0 \in Nat /\ UpTo(c0) /\ Seen(c0) /\ RowsAreTrue(p)
    BY <1>1, Types, ConnFields, SeqsAreNat DEF Good, Passed, PollIsTrue
  <1>3. PICK k \in 0..n : WroteUpTo(a, b, p.rows, n, k)
    BY DEF Wrote
  <1>4. n \in Nat /\ DOMAIN p.rows = 1..n /\ k \in Nat /\ 1..k \subseteq 1..n /\ K \in Nat
    <2>1. n \in Nat /\ DOMAIN p.rows = 1..n
      BY PollFields, LenProperties
    <2>2. K \in Nat
      BY LenProperties DEF Writers
    <2> QED BY <2>1, <2>2
  <1>5. /\ \A i \in DOMAIN wire : i \in DOMAIN wire' /\ wire'[i] = wire[i]
        /\ \A i \in DOMAIN a.w : i \in DOMAIN wire' /\ wire'[i] = a.w[i]
        /\ \A j \in 1..k : K + j \in DOMAIN wire' /\ wire'[K + j] = MessageOf(p.rows[j])
        /\ \A i \in DOMAIN wire' : IsNotice(wire'[i]) => i \in DOMAIN a.w
        /\ \A i \in DOMAIN wire' : IsMessage(wire'[i]) =>
              \/ i \in DOMAIN a.w /\ i \in DOMAIN wire
              \/ \E j \in 1..k : i = K + j
    <2>1. WiredAfter(a, p, k, b.w)
      <3>1. k \in 0..Len(p.rows) /\ WroteUpTo(a, b, p.rows, Len(p.rows), k)
        BY <1>3
      <3> QED BY <1>1, <3>1, AfterWriting, Zenon
    <2>2. WiredAfter(a, p, k, wire')
      <3>1. wire' = b.w
        OBVIOUS
      <3> QED BY <2>1, <3>1, Zenon
    <2> QED BY <2>2, Zenon DEF WiredAfter
  <1>6. \A j \in 1..n : /\ p.rows[j].m \in Msgs /\ p.rows[j].s \in Nat
                        /\ p.rows[j] \in Rows
                        /\ IsMessage(MessageOf(p.rows[j])) /\ ~IsNotice(MessageOf(p.rows[j]))
                        /\ MessageOf(p.rows[j]).m = p.rows[j].m /\ MessageOf(p.rows[j]).s = p.rows[j].s
                        /\ c0 < p.rows[j].s /\ p.rows[j].s <= seq[p.rows[j].m]
    BY <1>2, <1>4, RowFields DEF RowsAreTrue
  <1>7. \A i, j \in 1..n : i < j => p.rows[i].s < p.rows[j].s
    BY <1>2, <1>4 DEF RowsAreTrue
  <1>8. \A i \in DOMAIN wire : i \in Nat /\ (IsMessage(wire[i]) =>
           wire[i].s \in Nat /\ wire[i].m \in Msgs /\ 0 < wire[i].s /\ wire[i].s <= seq[wire[i].m] /\ wire[i].s <= c0)
    <2>1. \A i \in DOMAIN wire : i \in Nat /\ (IsMessage(wire[i]) => wire[i].s \in Nat /\ wire[i].m \in Msgs)
      <3>1. \A i \in DOMAIN wire : wire[i] \in Frames
        BY Types
      <3>2. DOMAIN wire = 1..Len(wire)
        BY Types
      <3>3. \A i \in DOMAIN wire : IsMessage(wire[i]) => wire[i].s \in Seqs /\ wire[i].m \in Msgs
        BY <3>1, FrameFields
      <3>4. \A i \in 1..Len(wire) : i \in Nat
        OBVIOUS
      <3>5. \A i \in DOMAIN wire : i \in Nat
        BY <3>2, <3>4
      <3> QED BY <3>3, <3>5, SeqsAreNat
    <2> QED BY <1>1, <2>1 DEF Good, InOrder
  <1>9. \A m \in Msgs : seq[m] \in Nat
    BY Types
  <1>10. Writable(con') => k = n /\ con'.cursor = IF n = 0 THEN c0 ELSE p.rows[n].s
    BY <1>3 DEF WroteUpTo
  <1>11. \A i \in DOMAIN a.w : i \in 1..K
    BY LenProperties DEF Writers
  <1> HIDE DEF n, K, c0
  <1>12. InOrder'
    <2>1. ASSUME NEW i \in DOMAIN wire', NEW j \in DOMAIN wire', i < j,
                 IsMessage(wire'[i]), IsMessage(wire'[j])
          PROVE  wire'[i].s < wire'[j].s
      <3>1. CASE i \in DOMAIN wire /\ j \in DOMAIN wire
        BY <1>5, <2>1, <3>1 DEF Good, InOrder
      <3>2. CASE i \in DOMAIN wire /\ \E x \in 1..k : j = K + x
        <4>1. PICK x \in 1..k : j = K + x
          BY <3>2
        <4>2. wire'[i] = wire[i] /\ wire'[j].s = p.rows[x].s /\ x \in 1..n
          BY <1>4, <1>5, <1>6, <3>2, <4>1
        <4>3. wire[i].s \in Nat /\ wire[i].s <= c0
          BY <1>8, <2>1, <3>2, <4>2
        <4> QED BY <1>2, <1>6, <4>2, <4>3
      <3>3. CASE (\E x \in 1..k : i = K + x) /\ j \in DOMAIN a.w
        BY <1>4, <1>11, <2>1, <3>3
      <3>4. CASE (\E x \in 1..k : i = K + x) /\ (\E x \in 1..k : j = K + x)
        <4>1. PICK x \in 1..k, y \in 1..k : i = K + x /\ j = K + y
          BY <3>4
        <4>2. x < y /\ x \in 1..n /\ y \in 1..n
          BY <1>4, <2>1, <4>1
        <4>3. wire'[i].s = p.rows[x].s /\ wire'[j].s = p.rows[y].s
          BY <1>4, <1>5, <1>6, <4>1
        <4> QED BY <1>7, <4>2, <4>3
      <3> QED BY <1>5, <2>1, <3>1, <3>2, <3>3, <3>4
    <2>2. ASSUME NEW i \in DOMAIN wire', NEW j \in DOMAIN wire', i < j, IsNotice(wire'[j])
          PROVE  ~IsMessage(wire'[i]) /\ ~IsNotice(wire'[i])
      <3>1. j \in DOMAIN a.w
        BY <1>5, <2>2
      <3>2. i \in DOMAIN a.w
        <4>1. i \in Nat /\ 1 <= i
          <5>1. DOMAIN wire' = 1..Len(wire') /\ Len(wire') \in Nat
            BY <1>1, LenProperties DEF Writers
          <5> QED BY <5>1
        <4>2. DOMAIN a.w = 1..K
          BY LenProperties DEF Writers, K
        <4> QED BY <1>4, <1>11, <2>2, <3>1, <4>1, <4>2
      <3> QED BY <1>5, <2>2, <3>1, <3>2 DEF Prepared
    <2>3. ASSUME NEW i \in DOMAIN wire', IsMessage(wire'[i])
          PROVE  /\ 0 < wire'[i].s /\ wire'[i].s <= seq'[wire'[i].m]
                 /\ Writable(con') => wire'[i].s <= con'.cursor
      <3>1. CASE i \in DOMAIN wire
        <4>1. wire'[i] = wire[i]
          BY <1>5, <3>1
        <4>2. Writable(con') => wire[i].s <= con'.cursor
          <5>1. CASE n = 0
            BY <1>8, <1>10, <2>3, <3>1, <4>1, <5>1
          <5>2. CASE n # 0
            <6>1. n \in 1..n
              BY <1>4, <5>2
            <6>2. wire[i].s \in Nat /\ wire[i].s <= c0 /\ c0 < p.rows[n].s /\ p.rows[n].s \in Nat
              BY <1>6, <1>8, <2>3, <3>1, <4>1, <6>1
            <6> QED BY <1>2, <1>10, <5>2, <6>2
          <5> QED BY <5>1, <5>2
        <4> QED BY <1>8, <2>3, <3>1, <4>1, <4>2
      <3>2. CASE \E x \in 1..k : i = K + x
        <4>1. PICK x \in 1..k : i = K + x
          BY <3>2
        <4>2. x \in 1..n /\ wire'[i].s = p.rows[x].s /\ wire'[i].m = p.rows[x].m
          BY <1>4, <1>5, <1>6, <4>1
        <4>3. p.rows[x].s \in Nat /\ c0 < p.rows[x].s /\ p.rows[x].s <= seq[p.rows[x].m]
          BY <1>6, <4>2
        <4>4. Writable(con') => p.rows[x].s <= con'.cursor
          <5>1. n # 0 /\ n \in 1..n /\ (x = n \/ x < n)
            BY <1>4, <4>2
          <5>2. p.rows[x].s <= p.rows[n].s
            BY <1>6, <1>7, <4>2, <4>3, <5>1
          <5> QED BY <1>10, <5>1, <5>2
        <4> QED BY <1>2, <4>2, <4>3, <4>4
      <3> QED BY <1>5, <2>3, <3>1, <3>2
    <2>4. ~con'.back /\ ~(\E i \in DOMAIN polls' : polls'[i].pc = "count")
      BY <1>1
    <2> QED BY <1>1, <2>1, <2>2, <2>3, <2>4 DEF InOrder
  <1>13. NoticesAreTrue'
    <2> SUFFICES ASSUME NEW i \in DOMAIN wire', IsNotice(wire'[i]) PROVE NoticeIsTrue(wire[i])'
      BY DEF NoticesAreTrue
    <2>1. i \in DOMAIN a.w /\ wire'[i] = a.w[i]
      BY <1>5
    <2>2. NoticeIsTrue(a.w[i])
      BY <2>1 DEF Prepared
    <2> QED BY <2>1, <2>2 DEF NoticeIsTrue, Full, Seen
  <1>14. ASSUME NEW m \in Msgs \ page.late, 0 < seq[m], seq[m] <= c0,
                OnItsWay(m) \/ (page.shown[m] = seq[m] /\ NoneOnItsWay(m)) \/ LeftOut(m)
         PROVE  OnItsWay(m)' \/ (page.shown[m] = seq[m] /\ NoneOnItsWay(m)') \/ LeftOut(m)'
    <2>1. CASE OnItsWay(m)
      BY <1>5, <2>1 DEF OnItsWay
    <2>2. CASE page.shown[m] = seq[m] /\ NoneOnItsWay(m)
      <3>1. ASSUME NEW i \in DOMAIN wire', IsMessage(wire'[i]), wire'[i].m = m PROVE FALSE
        <4>1. CASE i \in DOMAIN wire
          BY <1>5, <2>2, <3>1, <4>1 DEF NoneOnItsWay
        <4>2. CASE \E x \in 1..k : i = K + x
          <5>1. PICK x \in 1..k : i = K + x
            BY <4>2
          <5>2. x \in 1..n /\ p.rows[x].m = m
            BY <1>4, <1>5, <1>6, <3>1, <5>1
          <5>3. p.rows[x].s \in Nat /\ c0 < p.rows[x].s /\ p.rows[x].s <= seq[m]
            BY <1>6, <5>2
          <5> QED BY <1>2, <1>9, <1>14, <5>3
        <4> QED BY <1>5, <3>1, <4>1, <4>2
      <3> QED BY <2>2, <3>1 DEF NoneOnItsWay
    <2>3. CASE LeftOut(m)
      BY <1>5, <2>3 DEF LeftOut
    <2> QED BY <1>14, <2>1, <2>2, <2>3
  <1>15. ASSUME NEW s \in Nat, s <= c0, UpTo(s) PROVE UpTo(s)'
    <2> SUFFICES ASSUME NEW m \in Msgs \ page.late, 0 < seq[m], seq[m] <= s
                 PROVE  OnItsWay(m)' \/ (page.shown[m] = seq[m] /\ NoneOnItsWay(m)') \/ LeftOut(m)'
      BY DEF UpTo
    <2>1. seq[m] <= c0
      BY <1>2, <1>9, <1>15
    <2> QED BY <1>14, <1>15, <2>1 DEF UpTo
  <1>16. ASSUME NEW j \in 1..k PROVE UpTo(p.rows[j].s)'
    <2> SUFFICES ASSUME NEW m \in Msgs \ page.late, 0 < seq[m], seq[m] <= p.rows[j].s
                 PROVE  OnItsWay(m)' \/ (page.shown[m] = seq[m] /\ NoneOnItsWay(m)') \/ LeftOut(m)'
      BY DEF UpTo
    <2>1. CASE seq[m] <= c0
      BY <1>2, <1>14, <2>1 DEF UpTo
    <2>2. CASE c0 < seq[m]
      <3>1. \/ \E x \in 1..n : p.rows[x] = [m |-> m, s |-> seq[m]]
            \/ p.cut /\ seq[m] < p.rows[1].s
        BY <1>2, <1>4, <2>2 DEF RowsAreTrue
      <3>2. CASE \E x \in 1..n : p.rows[x] = [m |-> m, s |-> seq[m]]
        <4>1. PICK x \in 1..n : p.rows[x] = [m |-> m, s |-> seq[m]]
          BY <3>2
        <4>2. p.rows[x].m = m /\ p.rows[x].s = seq[m]
          BY <4>1
        <4>3. x \in 1..k
          <5>1. j \in 1..n
            BY <1>4
          <5>2. ~(j < x)
            <6>1. p.rows[j].s \in Nat
              BY <1>6, <5>1
            <6> QED BY <1>7, <1>9, <4>2, <5>1, <6>1
          <5> QED BY <1>4, <5>1, <5>2
        <4>4. K + x \in DOMAIN wire' /\ wire'[K+x] = MessageOf(p.rows[x])
          BY <1>5, <4>3
        <4>5. IsMessage(wire'[K+x]) /\ wire'[K+x].m = m /\ wire'[K+x].s = seq[m]
          BY <1>6, <4>2, <4>4
        <4> QED BY <4>4, <4>5 DEF OnItsWay
      <3>3. CASE p.cut /\ seq[m] < p.rows[1].s
        <4>1. PICK i \in DOMAIN a.w : IsNotice(a.w[i]) /\ a.w[i].cut = p.rows[1].s
          BY <3>3 DEF Prepared
        <4>2. i \in DOMAIN wire' /\ IsNotice(wire'[i]) /\ seq[m] < wire'[i].cut
          BY <1>5, <3>3, <4>1
        <4> QED BY <4>2 DEF LeftOut
      <3> QED BY <3>1, <3>2, <3>3
    <2> QED BY <1>2, <1>9, <2>1, <2>2
  <1>17. Passed'
    <2>1. ASSUME NEW i \in DOMAIN wire', IsMessage(wire'[i]) PROVE UpTo(wire[i].s)'
      <3>1. CASE i \in DOMAIN wire
        <4>1. wire'[i] = wire[i] /\ wire[i].s \in Nat /\ wire[i].s <= c0 /\ UpTo(wire[i].s)
          BY <1>5, <1>8, <2>1, <3>1 DEF Good, Passed
        <4>2. PICK s : s = wire[i].s
          OBVIOUS
        <4>3. UpTo(s)'
          BY <1>15, <4>1, <4>2
        <4> QED BY <4>1, <4>2, <4>3
      <3>2. CASE \E x \in 1..k : i = K + x
        <4>1. PICK x \in 1..k : i = K + x
          BY <3>2
        <4>2. wire'[i].s = p.rows[x].s
          BY <1>4, <1>5, <1>6, <4>1
        <4> QED BY <1>16, <4>2
      <3> QED BY <1>5, <2>1, <3>1, <3>2
    <2>2. ASSUME Writable(con') PROVE UpTo(con.cursor)' /\ Seen(con.cursor)'
      <3>1. CASE n = 0
        <4>1. con'.cursor = c0
          BY <1>10, <2>2, <3>1
        <4>2. PICK s : s = c0
          OBVIOUS
        <4>3. UpTo(s)' /\ s = con'.cursor
          <5>1. s \in Nat /\ s <= c0 /\ UpTo(s)
            BY <1>2, <4>2
          <5>2. UpTo(s)'
            BY <1>15, <5>1
          <5> QED BY <4>1, <4>2, <5>2
        <4>4. Seen(s)'
          BY <1>2, <4>2 DEF Seen
        <4> QED BY <4>3, <4>4
      <3>2. CASE n # 0
        <4>1. con'.cursor = p.rows[n].s /\ n \in 1..k
          BY <1>4, <1>10, <2>2, <3>2
        <4>2. UpTo(p.rows[n].s)'
          BY <1>16, <4>1
        <4>3. Seen(p.rows[n].s)'
          <5>1. n \in 1..n
            BY <1>4, <4>1
          <5> QED BY <1>6, <5>1 DEF Seen
        <4> QED BY <4>1, <4>2, <4>3
      <3> QED BY <3>1, <3>2
    <2> QED BY <2>1, <2>2 DEF Passed
  <1>18. OnePoll'
    <2>1. DOMAIN polls' = {} /\ Len(polls') = 0
      OBVIOUS
    <2> QED BY <2>1 DEF OnePoll
  <1>19. PageInv'
    BY PageStays DEF Good
  <1> QED BY <1>12, <1>13, <1>17, <1>18, <1>19 DEF Good
\* The first rows are here: count before they are written.
LEMMA ToCountKeeps ==
    ASSUME StreamTypeOK, Good, NEW i \in Nat, PollRows(i), con.back
    PROVE  Good'
  <1> DEFINE p == polls[i]
             r == [p EXCEPT !.pc = "count"]
  <1>1. /\ i \in DOMAIN polls /\ p.pc = "rows"
        /\ con' = [con EXCEPT !.back = FALSE] /\ polls' = [polls EXCEPT ![i].pc = "count"]
        /\ UNCHANGED <<nextseq, seq, open, member, wire, page, spent>>
    BY DEF PollRows
  <1>2. i = 1 /\ DOMAIN polls = {1} /\ Len(polls) = 1 /\ p \in Polls /\ PollIsTrue(p)
    BY <1>1, OnlyPoll DEF Good
  <1>3. con \in Conns
    BY Types
  <1>4. con'.back = FALSE /\ con'.st = con.st /\ con'.cursor = con.cursor
    BY <1>1, <1>3 DEF Conns
  <1>5. polls' = <<r>>
    <2>1. polls = <<p>>
      <3>1. polls \in Seq(Polls)
        BY Types
      <3> QED BY <1>2, <3>1
    <2> HIDE DEF p
    <2> QED BY <1>1, <1>2, <2>1 DEF p
  <1>6. r.pc = "count" /\ r.cursor = p.cursor /\ r.back = p.back /\ r.rows = p.rows /\ r.cut = p.cut
    BY <1>2 DEF Polls
  <1>7. PICK x : x = r
    OBVIOUS
  <1>8. PICK y : y = p
    OBVIOUS
  <1> HIDE DEF r, p
  <1>9. polls'[1] = x /\ DOMAIN polls' = {1} /\ Len(polls') = 1
    BY <1>5, <1>7
  <1>10. \A j \in DOMAIN wire : ~IsMessage(wire[j]) /\ ~IsNotice(wire[j])
    BY DEF Good, InOrder
  <1>11. Writable(con') <=> Writable(con)
    BY <1>4 DEF Writable
  <1>12. InOrder'
    BY <1>1, <1>4, <1>10 DEF Good, InOrder
  <1>13. NoticesAreTrue'
    BY <1>1, <1>10 DEF NoticesAreTrue
  <1>14. Passed'
    BY <1>1, <1>4, <1>11 DEF Good, Passed, UpTo, OnItsWay, NoneOnItsWay, LeftOut, Seen
  <1>15. PageInv'
    BY <1>1, PageStays DEF Good
  <1>16. /\ x.pc = "count" /\ x.cursor = y.cursor /\ x.back = y.back /\ x.rows = y.rows /\ x.cut = y.cut
         /\ y.pc = "rows" /\ PollIsTrue(y)
    BY <1>1, <1>2, <1>6, <1>7, <1>8
  <1>17. RowsAreTrue(x)'
    BY <1>1, <1>16 DEF PollIsTrue, RowsAreTrue, Full
  <1>18. PollIsTrue(x)'
    BY <1>4, <1>11, <1>16, <1>17 DEF PollIsTrue
  <1>19. OnePoll'
    BY <1>9, <1>18 DEF OnePoll
  <1> QED BY <1>12, <1>13, <1>14, <1>15, <1>19 DEF Good

\* Where a poll that writes ends: the writer's state after the rows, and the timers.
LEMMA FinishDoes ==
    ASSUME NEW b \in Writers, NEW i, Finish(i, b)
    PROVE  /\ con' \in Conns /\ wire' = b.w /\ polls' = Without(i)
           /\ con'.back = b.c.back /\ con'.cursor = b.c.cursor /\ con'.full = b.c.full
           /\ con'.st = "shut" <=> b.c.st = "shut"
           /\ Writable(con') <=> Writable(b.c)
           /\ Here' = [c |-> con', w |-> b.w]
  <1> DEFINE e == [b.c EXCEPT !.fails = 0]
             d == FirstPollDone(e)
  <1>1. b.c \in Conns
    BY DEF Writers
  <1>2. e \in Conns /\ e.back = b.c.back /\ e.cursor = b.c.cursor /\ e.full = b.c.full /\ e.st = b.c.st
    <2>1. 0 \in 0..Threshold
      BY StreamAssumption
    <2>2. e \in Conns
      BY <1>1, <2>1, ConnSet
    <2> QED BY <1>1, <2>2 DEF Conns
  <1>3. con' = d /\ wire' = b.w /\ polls' = Without(i)
    <2>1. Put([b EXCEPT !.c = d]) /\ polls' = Without(i)
      BY DEF Finish
    <2> HIDE DEF d
    <2> QED BY <2>1, PutFields DEF Put
  <1> HIDE DEF e
  <1>4. /\ d \in Conns /\ d.back = e.back /\ d.cursor = e.cursor /\ d.full = e.full
        /\ d.st = "shut" <=> e.st = "shut"
        /\ Writable(d) <=> Writable(e)
    BY <1>2, ArmedIs
  <1> HIDE DEF d
  <1>5. Here' = [c |-> con', w |-> b.w]
    BY <1>3 DEF Here
  <1> QED BY <1>2, <1>3, <1>4, <1>5 DEF Writable

\* A later poll writes its rows.
LEMMA PollRowsKeeps ==
    ASSUME StreamTypeOK, StreamTypeOK', FullIsOver, Good, NEW i \in Nat, PollRows(i), ~con.back
    PROVE  Good'
  <1>1. PICK p : p = polls[i]
    OBVIOUS
  <1>2. PICK b : b = WriteRows(Here, p.rows)
    OBVIOUS
  <1>3. /\ i \in DOMAIN polls /\ p.pc = "rows" /\ Finish(i, b)
        /\ UNCHANGED <<nextseq, seq, open, member, page, spent>>
    BY <1>1, <1>2 DEF PollRows
  <1>4. p \in Polls /\ PollIsTrue(p) /\ Without(i) = <<>>
    BY <1>1, <1>3, OnlyPoll DEF Good
  <1>5. /\ Here \in Writers /\ Here.c = con /\ Here.w = wire /\ (Here.c.full => ~Writable(Here.c))
        /\ p.rows \in Seq(Rows) /\ p.back \in BOOLEAN /\ con.back \in BOOLEAN
    BY <1>4, Types, ConnFields, PollFields DEF FullIsOver
  <1>6. /\ GoesOn(Here, b) /\ Wrote(Here, b, p.rows, Len(p.rows))
        /\ ~Writable(con) => b.w = wire
    BY <1>2, <1>5, WriteAll
  <1>7. b \in Writers
    BY <1>6 DEF GoesOn
  <1>8. /\ con' \in Conns /\ wire' = b.w /\ polls' = <<>>
        /\ con'.back = b.c.back /\ con'.cursor = b.c.cursor /\ con'.full = b.c.full
        /\ con'.st = "shut" <=> b.c.st = "shut"
        /\ Writable(con') <=> Writable(b.c)
        /\ Here' = [c |-> con', w |-> b.w]
    BY <1>3, <1>4, <1>7, FinishDoes
  <1>9. CASE Writable(con)
    <2>1. GoesOn(Here, Here)
      BY <1>5 DEF GoesOn
    <2>2. ~p.cut
      BY <1>3, <1>4, <1>5 DEF PollIsTrue, RowsAreTrue
    <2>3. Prepared(Here, p)
      BY <1>5, <2>2 DEF Prepared, Good, NoticesAreTrue, InOrder
    <2> QED BY <1>3, <1>4, <1>5, <1>6, <1>8, <1>9, <2>1, <2>3, WritingKeeps
  <1>10. CASE ~Writable(con)
    <2>1. GoesOn(Here, Here')
      BY <1>5, <1>6, <1>7, <1>8, StillGoesOn
    <2>2. Quiet
      BY <1>5, <1>6, <1>8, <1>10, <2>1 DEF Quiet, GoesOn
    <2> QED BY <1>3, <1>8, <2>2, QuietKeeps
  <1> QED BY <1>9, <1>10
\* The notice of a replay: what it says of older messages is true.
LEMMA NoticeOfReplay ==
    ASSUME StreamTypeOK, ThreadInv, Good, NEW p \in Polls, RowsAreTrue(p), p.back, p.cut => p.rows # <<>>,
           NEW f, f = [kind |-> "backfill", n |-> BackfillNotice(p.rows),
                       cut |-> IF p.cut THEN p.rows[1].s ELSE 0]
    PROVE  /\ f \in Frames /\ IsNotice(f) /\ ~IsMessage(f) /\ NoticeIsTrue(f)
           /\ p.cut => f.cut = p.rows[1].s
  <1>1. p.rows \in Seq(Rows) /\ p.cut \in BOOLEAN /\ Len(p.rows) \in Nat /\ DOMAIN p.rows = 1..Len(p.rows)
    BY PollFields, LenProperties
  <1>2. ASSUME p.rows # <<>>
        PROVE  /\ p.rows[1].s \in Seqs /\ p.rows[1].s \in Nat /\ p.rows[1].s # 0
               /\ p.rows[1].m \in Msgs /\ p.rows[1].s <= seq[p.rows[1].m]
    <2>1. 1 \in DOMAIN p.rows
      BY <1>1, <1>2
    <2>2. p.rows[1].s \in Seqs /\ p.rows[1].s \in Nat /\ p.rows[1].m \in Msgs
      BY <2>1, RowFields
    <2>3. p.cursor \in Nat
      BY PollFields, SeqsAreNat
    <2> QED BY <2>1, <2>2, <2>3 DEF RowsAreTrue
  <1>3. Total \in Nat
    <2>1. \A m \in Msgs : seq[m] \in Nat
      BY Types
    <2>2. {m \in Msgs : seq[m] # 0} = {m \in Msgs : 1 <= seq[m]}
      BY <2>1
    <2>3. Numbered(seq) /\ 1 \in Nat \ {0}
      BY SeqIsNumbered
    <2>4. Cardinality({m \in Msgs : 1 <= seq[m]}) \in Nat
      BY <2>3, FewFrom
    <2> QED BY <2>2, <2>4 DEF Total
  <1>4. /\ f.kind = "backfill" /\ f.n.older = (Total > Len(p.rows))
        /\ f.n.oldest = IF p.rows = <<>> THEN 0 ELSE p.rows[1].s
        /\ f.cut = IF p.cut THEN p.rows[1].s ELSE 0
        /\ f.n = BackfillNotice(p.rows)
    BY DEF BackfillNotice
  <1>5. f.n \in Notices /\ f.cut \in Seqs
    <2>1. (IF p.rows = <<>> THEN 0 ELSE p.rows[1].s) \in Seqs
      BY <1>2, SeqsAreNat
    <2>2. (Total > Len(p.rows)) \in BOOLEAN
      OBVIOUS
    <2> QED BY <1>2, <1>4, <2>1, <2>2, SeqsAreNat DEF BackfillNotice, Notices
  <1>6. f \in Frames /\ IsNotice(f) /\ ~IsMessage(f)
    BY <1>4, <1>5 DEF Frames, IsNotice, IsMessage
  <1>7. Limit \in Nat /\ Len(p.rows) <= Limit /\ (p.rows = <<>> \/ page.floor <= p.rows[1].s)
    BY StreamAssumption DEF RowsAreTrue
  <1>8. \A s : FullIn(seq, s) => Total > Limit
    BY DEF FullIn, Total
  <1>9. Total > Limit => f.n.older
    <2>1. Total > Limit => Total > Len(p.rows)
      BY <1>1, <1>3, <1>7
    <2> QED BY <1>4, <2>1, Zenon
  <1>10. f.cut # 0 => f.n.oldest = f.cut /\ Full(f.cut) /\ Seen(f.cut)
    <2> HAVE f.cut # 0
    <2>1. p.cut /\ p.rows # <<>> /\ f.cut = p.rows[1].s /\ f.n.oldest = f.cut
      BY <1>4
    <2> QED BY <1>2, <2>1 DEF RowsAreTrue, Seen
  <1>11. f.n.oldest = 0 \/ page.floor <= f.n.oldest
    BY <1>4, <1>7
  <1>12. f.n.older \/ (page.floor = 0 /\ f.cut = 0)
    BY <1>8, <1>9, <1>10 DEF Good, PageInv, Full
  <1>13. NoticeIsTrue(f)
    BY <1>10, <1>11, <1>12 DEF NoticeIsTrue
  <1> QED BY <1>4, <1>6, <1>13

\* The first poll tells what it leaves out, and writes its rows.
LEMMA PollCountKeeps ==
    ASSUME StreamTypeOK, StreamTypeOK', ThreadInv, FullIsOver, CutHasRows, Good, NEW i \in Nat, PollCount(i)
    PROVE  Good'
  <1>1. PICK p : p = polls[i]
    OBVIOUS
  <1>2. PICK f : f = [kind |-> "backfill", n |-> BackfillNotice(p.rows),
                      cut |-> IF p.cut THEN p.rows[1].s ELSE 0]
    OBVIOUS
  <1>3. PICK a : a = SseWrite(Here, f)
    OBVIOUS
  <1>4. PICK b : b = WriteRows(a, p.rows)
    OBVIOUS
  <1>5. /\ i \in DOMAIN polls /\ p.pc = "count" /\ Finish(i, b)
        /\ UNCHANGED <<nextseq, seq, open, member, page, spent>>
    BY <1>1, <1>2, <1>3, <1>4 DEF PollCount
  <1>6. p \in Polls /\ PollIsTrue(p) /\ Without(i) = <<>> /\ (p.cut => p.rows # <<>>)
    BY <1>1, <1>5, OnlyPoll DEF Good, CutHasRows
  <1>7. p.back /\ con.back = FALSE /\ RowsAreTrue(p) /\ p.rows \in Seq(Rows)
    <2>1. con.back \in BOOLEAN
      BY Types, ConnFields
    <2> QED BY <1>5, <1>6, <2>1, PollFields DEF PollIsTrue
  <1>8. /\ f \in Frames /\ IsNotice(f) /\ ~IsMessage(f) /\ NoticeIsTrue(f)
        /\ p.cut => f.cut = p.rows[1].s
    BY <1>2, <1>6, <1>7, NoticeOfReplay
  <1>9. /\ Here \in Writers /\ Here.c = con /\ Here.w = wire /\ (Here.c.full => ~Writable(Here.c))
        /\ wire \in Seq(Frames) /\ Len(wire) \in Nat /\ DOMAIN wire = 1..Len(wire)
    BY Types DEF FullIsOver
  <1>10. /\ GoesOn(Here, a) /\ a.c.cursor = con.cursor
         /\ \/ ~Writable(con) /\ a = Here
            \/ Writable(con) /\ ~Writable(a.c) /\ a.w = Append(wire, Error)
            \/ Writable(con) /\ Writable(a.c) /\ a.w = Append(wire, f)
    BY <1>3, <1>8, <1>9, WriteOne
  <1>11. a \in Writers /\ (a.c.full => ~Writable(a.c))
    BY <1>10 DEF GoesOn
  <1>12. /\ GoesOn(a, b) /\ Wrote(a, b, p.rows, Len(p.rows))
         /\ ~Writable(a.c) => b.w = a.w
    BY <1>4, <1>7, <1>11, WriteAll
  <1>13. b \in Writers /\ GoesOn(Here, b)
    BY <1>10, <1>12 DEF GoesOn
  <1>14. /\ con' \in Conns /\ wire' = b.w /\ polls' = <<>>
         /\ con'.back = b.c.back /\ con'.cursor = b.c.cursor /\ con'.full = b.c.full
         /\ con'.st = "shut" <=> b.c.st = "shut"
         /\ Writable(con') <=> Writable(b.c)
         /\ Here' = [c |-> con', w |-> b.w]
    BY <1>5, <1>6, <1>13, FinishDoes
  <1>15. GoesOn(Here, Here')
    BY <1>9, <1>13, <1>14, StillGoesOn
  <1>16. CASE ~Writable(a.c)
    <2>1. wire' = wire \/ wire' = Append(wire, Error)
      BY <1>9, <1>10, <1>12, <1>14, <1>16
    <2>2. ~Writable(con')
      BY <1>12, <1>14, <1>16 DEF GoesOn
    <2>3. ~Writable(con) => wire' = wire
      BY <1>9, <1>10, <1>12, <1>14, <1>16
    <2>4. Quiet
      BY <1>15, <2>1, <2>2, <2>3, NoiseIs DEF Quiet
    <2> QED BY <1>5, <1>14, <2>4, QuietKeeps
  <1>17. CASE Writable(a.c)
    <2>1. a.w = Append(wire, f)
      BY <1>9, <1>10, <1>17
    <2>2. \A j \in DOMAIN wire : ~IsMessage(wire[j]) /\ ~IsNotice(wire[j])
      BY <1>1, <1>5 DEF Good, InOrder
    <2>3. /\ Len(a.w) = Len(wire) + 1 /\ a.w[Len(wire)+1] = f
          /\ \A j \in 1..Len(wire) : a.w[j] = wire[j]
          /\ a.w \in Seq(Frames)
      BY <1>8, <1>9, <2>1, AppendProperties
    <2>4. DOMAIN a.w = 1..(Len(wire) + 1)
      BY <2>3, LenProperties
    <2>5. \A j \in 1..(Len(wire) + 1) : j = Len(wire) + 1 \/ j \in 1..Len(wire)
      BY <1>9
    <2>6. (\A j \in 1..Len(wire) : j \in 1..(Len(wire) + 1)) /\ Len(wire) + 1 \in 1..(Len(wire) + 1)
      BY <1>9
    <2>7. \A j \in DOMAIN wire : j \in DOMAIN a.w /\ a.w[j] = wire[j]
      BY <1>9, <2>3, <2>4, <2>6
    <2>8. \A j \in DOMAIN a.w : j = Len(wire) + 1 \/ (j \in DOMAIN wire /\ a.w[j] = wire[j])
      BY <1>9, <2>3, <2>4, <2>5
    <2>9. \A j, k \in DOMAIN a.w : j < k => j \in DOMAIN wire /\ a.w[j] = wire[j]
      <3>1. \A j, k \in 1..(Len(wire) + 1) : j < k => j \in 1..Len(wire)
        BY <1>9
      <3> QED BY <1>9, <2>3, <2>4, <3>1
    <2>10. Prepared(a, p)
      <3>1. \A j \in DOMAIN a.w : IsMessage(a.w[j]) => j \in DOMAIN wire /\ a.w[j] = wire[j]
        BY <1>8, <2>3, <2>8
      <3>2. \A j \in DOMAIN a.w : IsNotice(a.w[j]) => a.w[j] = f
        BY <2>2, <2>3, <2>8
      <3>3. \A j \in DOMAIN a.w : IsNotice(a.w[j]) => NoticeIsTrue(a.w[j])
        BY <1>8, <3>2
      <3>4. \A j, k \in DOMAIN a.w : j < k => (IsNotice(a.w[k]) => ~IsMessage(a.w[j]) /\ ~IsNotice(a.w[j]))
        BY <2>2, <2>9
      <3>5. p.cut => \E j \in DOMAIN a.w : IsNotice(a.w[j]) /\ a.w[j].cut = p.rows[1].s
        BY <1>8, <2>3, <2>4, <2>6
      <3> QED BY <2>7, <3>1, <3>3, <3>4, <3>5 DEF Prepared
    <2> QED BY <1>5, <1>6, <1>7, <1>9, <1>10, <1>11, <1>12, <1>14, <1>17, <2>10, WritingKeeps
  <1> QED BY <1>16, <1>17
-----------------------------------------------------------------------------
(* The page reads.                                                          *)

\* The head of a sequence is its first element.
LEMMA HeadIs ==
    ASSUME NEW S, NEW s \in Seq(S), s # <<>>
    PROVE  Head(s) = s[1]
  OBVIOUS

\* A frame leaves the wire; of the connection only the pause may end.
LEMMA ReadFacts ==
    ASSUME StreamTypeOK, ClientReads
    PROVE  /\ con'.back = con.back /\ con'.cursor = con.cursor /\ con'.st = con.st /\ con'.full = con.full
           /\ con' \in Conns
           /\ wire \in Seq(Frames) /\ wire # <<>> /\ Head(wire) = wire[1] /\ 1 \in DOMAIN wire
           /\ wire' = Tail(wire) /\ wire' \in Seq(Frames)
           /\ \A i \in DOMAIN wire' : i + 1 \in DOMAIN wire /\ wire'[i] = wire[i+1] /\ i + 1 # 1
           /\ \A i \in DOMAIN wire : i # 1 => \E j \in DOMAIN wire' : wire'[j] = wire[i] /\ i = j + 1
           /\ \A i, j \in DOMAIN wire' : i < j => i + 1 < j + 1
           /\ \A i \in DOMAIN wire : i # 1 => 1 < i
           /\ UNCHANGED <<nextseq, seq, open, member, polls, spent>>
  <1>1. /\ wire # <<>> /\ wire' = Tail(wire) /\ con' = (IF wire' = <<>> THEN Drained(con) ELSE con)
        /\ UNCHANGED <<nextseq, seq, open, member, polls, spent>>
    BY DEF ClientReads
  <1>2. con \in Conns /\ wire \in Seq(Frames) /\ Len(wire) \in Nat /\ DOMAIN wire = 1..Len(wire)
    BY Types
  <1>3. /\ con'.back = con.back /\ con'.cursor = con.cursor /\ con'.st = con.st /\ con'.full = con.full
        /\ con' \in Conns
    <2>1. [con EXCEPT !.paused = FALSE] \in Conns
      BY <1>2, ConnSet
    <2>2. con' = con \/ con' = [con EXCEPT !.paused = FALSE]
      BY <1>1 DEF Drained
    <2> QED BY <1>2, <2>1, <2>2 DEF Conns
  <1>4. /\ wire' \in Seq(Frames) /\ Len(wire') = Len(wire) - 1
        /\ \A i \in 1..Len(wire') : wire'[i] = wire[i+1]
    BY <1>1, <1>2, HeadTailProperties
  <1>5. Head(wire) = wire[1]
    BY <1>1, <1>2, HeadIs, Zenon
  <1>6. PICK n \in Nat : n = Len(wire) /\ n # 0
    BY <1>1, <1>2, EmptySeq
  <1>7. DOMAIN wire' = 1..(n-1) /\ DOMAIN wire = 1..n
    BY <1>2, <1>4, <1>6, LenProperties
  <1>8. /\ 1 \in 1..n
        /\ \A i \in 1..(n-1) : i + 1 \in 1..n /\ i + 1 # 1
        /\ \A i \in 1..n : i # 1 => i - 1 \in 1..(n-1) /\ i = i - 1 + 1 /\ 1 < i
        /\ \A i, j \in 1..(n-1) : i < j => i + 1 < j + 1
    BY <1>6
  <1>9. \A i \in DOMAIN wire : i # 1 => \E j \in DOMAIN wire' : wire'[j] = wire[i] /\ i = j + 1
    <2> TAKE i \in DOMAIN wire
    <2> HAVE i # 1
    <2>1. i - 1 \in DOMAIN wire' /\ i = i - 1 + 1
      BY <1>7, <1>8
    <2>2. wire'[i-1] = wire[i-1+1]
      BY <1>4, <1>6, <1>7, <2>1
    <2> QED BY <2>1, <2>2
  <1>10. \A i \in DOMAIN wire' : i + 1 \in DOMAIN wire /\ wire'[i] = wire[i+1] /\ i + 1 # 1
    BY <1>4, <1>6, <1>7, <1>8
  <1> QED BY <1>1, <1>2, <1>3, <1>4, <1>5, <1>7, <1>8, <1>9, <1>10

\* What is left on the wire is still in order.
LEMMA ReadInOrder ==
    ASSUME StreamTypeOK, Good, ClientReads
    PROVE  InOrder'
  <1>1. /\ con'.back = con.back /\ con'.cursor = con.cursor /\ con'.st = con.st
        /\ wire # <<>>
        /\ \A i \in DOMAIN wire' : i + 1 \in DOMAIN wire /\ wire'[i] = wire[i+1]
        /\ \A i, j \in DOMAIN wire' : i < j => i + 1 < j + 1
        /\ UNCHANGED <<seq, polls>>
    BY ReadFacts
  <1>2. con'.st # "shut"
    BY <1>1 DEF Good, InOrder
  <1>3. Writable(con') <=> Writable(con)
    BY <1>1 DEF Writable
  <1>4. \A i, j \in DOMAIN wire' : i < j =>
           /\ IsMessage(wire'[i]) /\ IsMessage(wire'[j]) => wire'[i].s < wire'[j].s
           /\ IsNotice(wire'[j]) => ~IsMessage(wire'[i]) /\ ~IsNotice(wire'[i])
    <2> TAKE i, j \in DOMAIN wire'
    <2> HAVE i < j
    <2>1. i + 1 \in DOMAIN wire /\ j + 1 \in DOMAIN wire /\ i + 1 < j + 1
          /\ wire'[i] = wire[i+1] /\ wire'[j] = wire[j+1]
      BY <1>1
    <2> QED BY <2>1 DEF Good, InOrder
  <1>5. \A i \in DOMAIN wire' : IsMessage(wire'[i]) =>
           /\ 0 < wire'[i].s /\ wire'[i].s <= seq'[wire'[i].m]
           /\ Writable(con') => wire'[i].s <= con'.cursor
    BY <1>1, <1>3 DEF Good, InOrder
  <1>6. con'.back \/ (\E i \in DOMAIN polls' : polls'[i].pc = "count") =>
           \A i \in DOMAIN wire' : ~IsMessage(wire'[i]) /\ ~IsNotice(wire'[i])
    BY <1>1 DEF Good, InOrder
  <1> QED BY <1>2, <1>4, <1>5, <1>6 DEF InOrder

\* Passed goes on if it goes on for each message.
LEMMA ReadPassed ==
    ASSUME StreamTypeOK, Good, ClientReads, page'.late = page.late,
           ASSUME NEW m \in Msgs \ page.late, 0 < seq[m],
                  OnItsWay(m) \/ (page.shown[m] = seq[m] /\ NoneOnItsWay(m)) \/ LeftOut(m)
           PROVE  OnItsWay(m)' \/ (page'.shown[m] = seq[m] /\ NoneOnItsWay(m)') \/ LeftOut(m)'
    PROVE  Passed'
  <1>1. /\ con'.cursor = con.cursor /\ con'.st = con.st
        /\ \A i \in DOMAIN wire' : i + 1 \in DOMAIN wire /\ wire'[i] = wire[i+1]
        /\ UNCHANGED <<seq, polls>>
    BY ReadFacts
  <1>2. ASSUME NEW s, UpTo(s) PROVE UpTo(s)'
    <2> SUFFICES ASSUME NEW m \in Msgs \ page.late, 0 < seq[m], seq[m] <= s
                 PROVE  OnItsWay(m)' \/ (page'.shown[m] = seq[m] /\ NoneOnItsWay(m)') \/ LeftOut(m)'
      BY <1>1 DEF UpTo
    <2> QED BY <1>2 DEF UpTo
  <1>3. ASSUME NEW i \in DOMAIN wire', IsMessage(wire'[i]) PROVE UpTo(wire[i].s)'
    <2>1. PICK s : s = wire'[i].s
      OBVIOUS
    <2>2. UpTo(s)
      BY <1>1, <1>3, <2>1 DEF Good, Passed
    <2>3. UpTo(s)'
      BY <1>2, <2>2
    <2> QED BY <2>1, <2>3
  <1>4. ASSUME Writable(con') PROVE UpTo(con.cursor)' /\ Seen(con.cursor)'
    <2>1. PICK s : s = con.cursor
      OBVIOUS
    <2>2. UpTo(s) /\ Seen(s)
      BY <1>1, <1>4, <2>1 DEF Good, Passed, Writable
    <2>3. UpTo(s)' /\ Seen(s)'
      BY <1>1, <1>2, <2>2 DEF Seen
    <2> QED BY <1>1, <2>1, <2>3
  <1> QED BY <1>3, <1>4 DEF Passed
\* A poll under way stays true when the page reads, if the floor stays or the replay
\* is over.
LEMMA ReadPolls ==
    ASSUME StreamTypeOK, Good, ClientReads, page'.late = page.late,
           page'.floor = page.floor \/ (~con.back /\ ~(\E i \in DOMAIN polls : polls[i].pc = "count"))
    PROVE  OnePoll'
  <1>1. /\ con'.back = con.back /\ con'.cursor = con.cursor /\ con'.st = con.st
        /\ UNCHANGED <<seq, polls>>
    BY ReadFacts
  <1>2. Writable(con') <=> Writable(con)
    BY <1>1 DEF Writable
  <1>3. ASSUME NEW i \in DOMAIN polls PROVE PollIsTrue(polls[i])'
    <2>1. PICK p : p = polls[i]
      OBVIOUS
    <2>2. PollIsTrue(p)
      BY <2>1 DEF Good, OnePoll
    <2>3. page'.floor = page.floor \/ ~p.back
      BY <2>1, <2>2 DEF PollIsTrue
    <2>4. RowsAreTrue(p)'
      BY <1>1, <2>2, <2>3 DEF PollIsTrue, RowsAreTrue, Full
    <2>5. PollIsTrue(p)'
      BY <1>1, <1>2, <2>2, <2>4 DEF PollIsTrue
    <2> QED BY <1>1, <2>1, <2>5
  <1>4. Len(polls') <= 1
    BY <1>1 DEF Good, OnePoll
  <1> QED BY <1>1, <1>3, <1>4 DEF OnePoll

\* A message: it is shown.
LEMMA ReadMessage ==
    ASSUME StreamTypeOK, ThreadInv, ~page.overlap, Good, ClientReads, IsMessage(Head(wire))
    PROVE  Good'
  <1>1. PICK f : f = Head(wire)
    OBVIOUS
  <1>2. page' = [page EXCEPT !.shown[f.m] = f.s, !.last = f.s]
    BY <1>1 DEF ClientReads, IsMessage, Shows
  <1>3. /\ f = wire[1] /\ 1 \in DOMAIN wire
        /\ \A i \in DOMAIN wire' : i + 1 \in DOMAIN wire /\ wire'[i] = wire[i+1] /\ i + 1 # 1
        /\ \A i \in DOMAIN wire : i # 1 => 1 < i /\ \E j \in DOMAIN wire' : wire'[j] = wire[i]
        /\ UNCHANGED <<seq, polls>>
    BY <1>1, ReadFacts
  <1>4. f \in Frames /\ IsMessage(f)
    BY <1>1, <1>3, Types
  <1>5. f.m \in Msgs /\ f.s \in Seqs /\ f.s \in Nat /\ 0 < f.s /\ f.s <= seq[f.m]
    BY <1>3, <1>4, FrameFields, SeqsAreNat DEF Good, InOrder
  <1>6. /\ page \in Pages /\ page.shown \in [Msgs -> Seqs] /\ page.floor \in Nat
        /\ \A m \in Msgs : seq[m] \in Nat
    BY Types, PageFields, SeqsAreNat
  <1>7. /\ page'.notice = page.notice /\ page'.load = page.load /\ page'.before = page.before
        /\ page'.older = page.older /\ page'.more = page.more /\ page'.floor = page.floor
        /\ page'.late = page.late /\ page'.overlap = page.overlap /\ page'.crossed = page.crossed
        /\ page'.last = f.s /\ page'.shown[f.m] = f.s
        /\ \A m \in Msgs : m # f.m => page'.shown[m] = page.shown[m]
    BY <1>2, <1>5, <1>6 DEF Pages
  <1>8. \A i \in DOMAIN wire : i # 1 /\ IsMessage(wire[i]) => f.s < wire[i].s
    BY <1>3, <1>4 DEF Good, InOrder
  <1>9. \A i \in DOMAIN wire : ~IsNotice(wire[i])
    <2> TAKE i \in DOMAIN wire
    <2>1. CASE i = 1
      BY <1>3, <1>4, <2>1, FrameFields
    <2>2. CASE i # 1
      BY <1>3, <1>4, <2>2 DEF Good, InOrder
    <2> QED BY <2>1, <2>2
  <1>10. NoticesAreTrue'
    BY <1>3, <1>9 DEF NoticesAreTrue
  <1>11. \A m \in Msgs : LeftOut(m) => seq[m] < page.floor
    BY <1>9 DEF LeftOut
  <1>12. ASSUME NEW m \in Msgs \ page.late, 0 < seq[m],
                OnItsWay(m) \/ (page.shown[m] = seq[m] /\ NoneOnItsWay(m)) \/ LeftOut(m)
         PROVE  OnItsWay(m)' \/ (page'.shown[m] = seq[m] /\ NoneOnItsWay(m)') \/ LeftOut(m)'
    <2>1. CASE OnItsWay(m)
      <3>1. PICK i \in DOMAIN wire : IsMessage(wire[i]) /\ wire[i].m = m /\ wire[i].s = seq[m]
        BY <2>1 DEF OnItsWay
      <3>2. CASE i # 1
        BY <1>3, <3>1, <3>2 DEF OnItsWay
      <3>3. CASE i = 1
        <4>1. f.m = m /\ f.s = seq[m]
          BY <1>3, <3>1, <3>3
        <4>2. ASSUME NEW j \in DOMAIN wire', IsMessage(wire'[j]), wire'[j].m = m PROVE FALSE
          <5>1. j + 1 \in DOMAIN wire /\ j + 1 # 1 /\ wire'[j] = wire[j+1]
            BY <1>3
          <5>2. PICK w : w = wire[j+1]
            OBVIOUS
          <5>3. w \in Frames /\ IsMessage(w) /\ w.m = m /\ f.s < w.s /\ w.s <= seq[m]
            BY <1>8, <4>2, <5>1, <5>2, Types DEF Good, InOrder
          <5>4. w.s \in Nat
            BY <5>3, FrameFields, SeqsAreNat
          <5> QED BY <1>5, <1>6, <4>1, <5>3, <5>4
        <4> QED BY <1>7, <4>1, <4>2 DEF NoneOnItsWay
      <3> QED BY <3>2, <3>3
    <2>2. CASE page.shown[m] = seq[m] /\ NoneOnItsWay(m)
      <3>1. f.m # m
        BY <1>3, <1>4, <2>2 DEF NoneOnItsWay
      <3>2. NoneOnItsWay(m)'
        BY <1>3, <2>2 DEF NoneOnItsWay
      <3> QED BY <1>7, <2>2, <3>1, <3>2
    <2>3. CASE LeftOut(m)
      BY <1>3, <1>7, <1>11, <2>3 DEF LeftOut
    <2> QED BY <1>12, <2>1, <2>2, <2>3
  <1>13. Passed'
    BY <1>7, <1>12, ReadPassed
  <1>14. OnePoll'
    BY <1>7, ReadPolls
  <1>15. PageIsCurrent'
    <2> SUFFICES ASSUME NEW m \in Msgs, page.floor <= seq[m], seq[m] <= f.s, seq[m] # 0, m \notin page.late
                 PROVE  page'.shown[m] = seq[m]
      BY <1>3, <1>7 DEF PageIsCurrent, Covered
    <2>1. UpTo(f.s)
      BY <1>3, <1>4 DEF Good, Passed
    <2>2. OnItsWay(m) \/ (page.shown[m] = seq[m] /\ NoneOnItsWay(m)) \/ LeftOut(m)
      BY <1>6, <2>1 DEF UpTo
    <2>3. ~LeftOut(m)
      BY <1>6, <1>11
    <2>4. CASE OnItsWay(m)
      <3>1. PICK i \in DOMAIN wire : IsMessage(wire[i]) /\ wire[i].m = m /\ wire[i].s = seq[m]
        BY <2>4 DEF OnItsWay
      <3>2. i = 1
        <4>1. i # 1 => f.s < seq[m]
          BY <1>8, <3>1
        <4> QED BY <1>5, <1>6, <4>1
      <3> QED BY <1>3, <1>7, <3>1, <3>2
    <2>5. CASE page.shown[m] = seq[m] /\ NoneOnItsWay(m)
      <3>1. f.m # m
        BY <1>3, <1>4, <2>5 DEF NoneOnItsWay
      <3> QED BY <1>7, <2>5, <3>1
    <2> QED BY <2>2, <2>3, <2>4, <2>5
  <1>16. HiddenBelow'
    <2>1. \A m \in Msgs : Hidden(m)' => Hidden(m)
      <3> TAKE m \in Msgs
      <3>1. CASE m = f.m
        BY <1>5, <1>7, <3>1 DEF Hidden
      <3>2. CASE m # f.m
        BY <1>3, <1>7, <3>2 DEF Hidden
      <3> QED BY <3>1, <3>2
    <2> QED BY <1>3, <1>7, <2>1 DEF Good, PageInv, HiddenBelow
  <1>17. Loading'
    BY <1>7 DEF Good, PageInv, Loading
  <1>18. Seen(page.last)' /\ Seen(page.floor)' /\ (page'.floor # 0 => Full(page.floor)')
    BY <1>3, <1>5, <1>7 DEF Good, PageInv, Seen, Full
  <1>19. PageInv'
    BY <1>15, <1>16, <1>17, <1>18 DEF PageInv
  <1>20. InOrder'
    BY ReadInOrder
  <1> QED BY <1>10, <1>13, <1>14, <1>19, <1>20 DEF Good
\* A notice: the replay that follows has a new beginning.
LEMMA ReadNotice ==
    ASSUME StreamTypeOK, StreamTypeOK', ~page.overlap, Good, ClientReads, IsNotice(Head(wire))
    PROVE  Good'
  <1>1. PICK f : f = Head(wire)
    OBVIOUS
  <1>2. page' = [page EXCEPT !.notice = f.n, !.crossed = @ \/ page.load # "no",
                             !.floor = IF f.cut > @ THEN f.cut ELSE @]
    BY <1>1 DEF ClientReads, IsNotice, Notes
  <1>3. /\ f = wire[1] /\ 1 \in DOMAIN wire
        /\ \A i \in DOMAIN wire' : i + 1 \in DOMAIN wire /\ wire'[i] = wire[i+1] /\ i + 1 # 1
        /\ \A i \in DOMAIN wire : i # 1 => 1 < i /\ \E j \in DOMAIN wire' : wire'[j] = wire[i]
        /\ UNCHANGED <<seq, polls>>
    BY <1>1, ReadFacts
  <1>4. f \in Frames /\ IsNotice(f) /\ NoticeIsTrue(f)
    BY <1>1, <1>3, Types DEF Good, NoticesAreTrue
  <1>5. f.cut \in Nat /\ page.floor \in Nat /\ page \in Pages /\ \A m \in Msgs : seq[m] \in Nat
    BY <1>4, Types, FrameFields, PageFields, SeqsAreNat
  <1>6. /\ page'.shown = page.shown /\ page'.last = page.last
        /\ page'.load = page.load /\ page'.before = page.before
        /\ page'.older = page.older /\ page'.more = page.more
        /\ page'.late = page.late /\ page'.overlap = page.overlap
        /\ page'.notice = f.n /\ page'.floor = (IF f.cut > page.floor THEN f.cut ELSE page.floor)
    BY <1>2, <1>5 DEF Pages
  <1>7. ~page'.crossed => ~page.crossed /\ page.load = "no"
    <2>1. page'.crossed = (page.crossed \/ page.load # "no")
      BY <1>2, <1>5 DEF Pages
    <2> QED BY <2>1
  <1>8. /\ page.floor <= page'.floor /\ f.cut <= page'.floor /\ page'.floor \in Nat
        /\ page'.floor = page.floor \/ (page'.floor = f.cut /\ f.cut # 0)
    <2>1. f.cut > page.floor => f.cut # 0 /\ page.floor <= f.cut
      BY <1>5
    <2>2. ~(f.cut > page.floor) => f.cut <= page.floor
      BY <1>5
    <2> QED BY <1>5, <1>6, <2>1, <2>2
  <1>9. \A i \in DOMAIN wire : i # 1 => ~IsNotice(wire[i])
    BY <1>3, <1>4 DEF Good, InOrder
  <1>10. NoticesAreTrue'
    BY <1>3, <1>9 DEF NoticesAreTrue
  <1>11. ASSUME NEW m \in Msgs \ page.late, 0 < seq[m],
                OnItsWay(m) \/ (page.shown[m] = seq[m] /\ NoneOnItsWay(m)) \/ LeftOut(m)
         PROVE  OnItsWay(m)' \/ (page'.shown[m] = seq[m] /\ NoneOnItsWay(m)') \/ LeftOut(m)'
    <2>1. CASE OnItsWay(m)
      <3>1. PICK i \in DOMAIN wire : IsMessage(wire[i]) /\ wire[i].m = m /\ wire[i].s = seq[m]
        BY <2>1 DEF OnItsWay
      <3>2. i # 1
        BY <1>3, <1>4, <3>1, FrameFields
      <3> QED BY <1>3, <3>1, <3>2 DEF OnItsWay
    <2>2. CASE page.shown[m] = seq[m] /\ NoneOnItsWay(m)
      BY <1>3, <1>6, <2>2 DEF NoneOnItsWay
    <2>3. CASE LeftOut(m)
      <3>1. seq[m] < page.floor \/ seq[m] < f.cut
        BY <1>3, <1>9, <2>3 DEF LeftOut
      <3>2. seq[m] < page'.floor
        BY <1>5, <1>8, <3>1
      <3> QED BY <1>3, <3>2 DEF LeftOut
    <2> QED BY <1>11, <2>1, <2>2, <2>3
  <1>12. Passed'
    BY <1>6, <1>11, ReadPassed
  <1>13. OnePoll'
    <2>1. ~con.back /\ ~(\E i \in DOMAIN polls : polls[i].pc = "count")
      BY <1>3, <1>4 DEF Good, InOrder
    <2> QED BY <1>6, <2>1, ReadPolls
  <1>14. PageIsCurrent'
    <2> SUFFICES ASSUME NEW m \in Msgs, page'.floor <= seq[m], seq[m] <= page.last, seq[m] # 0,
                        m \notin page.late
                 PROVE  page.shown[m] = seq[m]
      BY <1>3, <1>6 DEF PageIsCurrent, Covered
    <2>1. Covered(m)
      BY <1>5, <1>8 DEF Covered
    <2> QED BY <2>1 DEF Good, PageInv, PageIsCurrent
  <1>15. HiddenBelow'
    <2> SUFFICES ASSUME ~page'.crossed, NEW m \in Msgs, Hidden(m)'
                 PROVE  /\ page'.notice.older /\ (page'.notice.oldest = 0 \/ seq[m] < page'.notice.oldest)
                        /\ page'.load # "got"
      BY <1>3 DEF HiddenBelow
    <2>1. seq[m] < page'.floor /\ page'.floor # 0
      BY <1>3, <1>5, <1>8 DEF Hidden
    <2>2. f.n.older
      BY <1>4, <1>8, <2>1 DEF NoticeIsTrue
    <2>3. f.n.oldest = 0 \/ seq[m] < f.n.oldest
      <3>1. f.n.oldest \in Nat
        BY <1>4, FrameFields, SeqsAreNat
      <3>2. f.n.oldest = 0 \/ page'.floor <= f.n.oldest
        BY <1>4, <1>8, <3>1 DEF NoticeIsTrue
      <3> QED BY <1>5, <1>8, <2>1, <3>1, <3>2
    <2> QED BY <1>6, <1>7, <2>2, <2>3
  <1>16. Loading'
    BY <1>6, <1>7 DEF Good, PageInv, Loading
  <1>17. Seen(page.last)' /\ Seen(page.floor)' /\ (page'.floor # 0 => Full(page.floor)')
    <2>1. (Seen(f.cut) /\ Full(f.cut)) \/ f.cut = 0
      BY <1>4 DEF NoticeIsTrue
    <2> QED BY <1>3, <1>6, <1>8, <2>1 DEF Good, PageInv, Seen, Full
  <1>18. PageInv'
    BY <1>14, <1>15, <1>16, <1>17 DEF PageInv
  <1>19. InOrder'
    BY ReadInOrder
  <1> QED BY <1>10, <1>12, <1>13, <1>18, <1>19 DEF Good

\* An error or a beat: nothing on the page.
LEMMA ReadOther ==
    ASSUME StreamTypeOK, Good, ClientReads, ~IsMessage(Head(wire)), ~IsNotice(Head(wire))
    PROVE  Good'
  <1>1. page' = page
    BY DEF ClientReads, IsNotice, IsMessage
  <1>2. /\ Head(wire) = wire[1] /\ 1 \in DOMAIN wire
        /\ \A i \in DOMAIN wire' : i + 1 \in DOMAIN wire /\ wire'[i] = wire[i+1] /\ i + 1 # 1
        /\ \A i \in DOMAIN wire : i # 1 => \E j \in DOMAIN wire' : wire'[j] = wire[i]
        /\ UNCHANGED <<seq, polls>>
    BY ReadFacts
  <1>3. NoticesAreTrue'
    BY <1>1, <1>2 DEF Good, NoticesAreTrue, NoticeIsTrue, Full, Seen
  <1>4. ASSUME NEW m \in Msgs \ page.late, 0 < seq[m],
               OnItsWay(m) \/ (page.shown[m] = seq[m] /\ NoneOnItsWay(m)) \/ LeftOut(m)
        PROVE  OnItsWay(m)' \/ (page'.shown[m] = seq[m] /\ NoneOnItsWay(m)') \/ LeftOut(m)'
    <2>1. CASE OnItsWay(m)
      BY <1>2, <2>1 DEF OnItsWay
    <2>2. CASE page.shown[m] = seq[m] /\ NoneOnItsWay(m)
      BY <1>1, <1>2, <2>2 DEF NoneOnItsWay
    <2>3. CASE LeftOut(m)
      BY <1>1, <1>2, <2>3 DEF LeftOut
    <2> QED BY <1>4, <2>1, <2>2, <2>3
  <1>5. Passed'
    BY <1>1, <1>4, ReadPassed
  <1>6. OnePoll'
    BY <1>1, ReadPolls
  <1>7. PageInv'
    BY <1>1, <1>2, PageStays DEF Good
  <1>8. InOrder'
    BY ReadInOrder
  <1> QED BY <1>3, <1>5, <1>6, <1>7, <1>8 DEF Good
-----------------------------------------------------------------------------
(* Older messages.                                                          *)

\* The page may load older messages and show more of them.
LEMMA OlderKeeps ==
    ASSUME StreamTypeOK, Good, UNCHANGED <<seq, con, polls, wire>>,
           page'.floor = page.floor, page'.last = page.last, page'.late = page.late,
           page'.overlap = page.overlap,
           \A m \in Msgs : page.shown[m] # 0 => page'.shown[m] = page.shown[m],
           HiddenBelow', Loading'
    PROVE  Good'
  <1>1. \A m \in Msgs : seq[m] \in Nat
    BY Types
  <1>2. InOrder'
    BY DEF Good, InOrder
  <1>3. NoticesAreTrue'
    BY DEF Good, NoticesAreTrue, NoticeIsTrue, Full, Seen
  <1>4. ASSUME NEW s, UpTo(s) PROVE UpTo(s)'
    <2> SUFFICES ASSUME NEW m \in Msgs \ page.late, 0 < seq[m], seq[m] <= s
                 PROVE  OnItsWay(m)' \/ (page'.shown[m] = seq[m] /\ NoneOnItsWay(m)') \/ LeftOut(m)'
      BY DEF UpTo
    <2>1. OnItsWay(m) \/ (page.shown[m] = seq[m] /\ NoneOnItsWay(m)) \/ LeftOut(m)
      BY <1>4 DEF UpTo
    <2>2. page.shown[m] = seq[m] => page'.shown[m] = seq[m]
      BY <1>1
    <2>3. (OnItsWay(m) => OnItsWay(m)') /\ (NoneOnItsWay(m) => NoneOnItsWay(m)') /\ (LeftOut(m) => LeftOut(m)')
      BY DEF OnItsWay, NoneOnItsWay, LeftOut
    <2> QED BY <2>1, <2>2, <2>3
  <1>5. Passed'
    <2>1. ASSUME NEW i \in DOMAIN wire', IsMessage(wire'[i]) PROVE UpTo(wire[i].s)'
      <3>1. PICK s : s = wire[i].s
        OBVIOUS
      <3>2. UpTo(s)'
        BY <1>4, <2>1, <3>1 DEF Good, Passed
      <3> QED BY <3>1, <3>2
    <2>2. ASSUME Writable(con') PROVE UpTo(con.cursor)' /\ Seen(con.cursor)'
      <3>1. PICK s : s = con.cursor
        OBVIOUS
      <3>2. UpTo(s)' /\ Seen(s)'
        BY <1>4, <2>2, <3>1 DEF Good, Passed, Seen
      <3> QED BY <3>1, <3>2
    <2> QED BY <2>1, <2>2 DEF Passed
  <1>6. OnePoll'
    <2>1. ASSUME NEW i \in DOMAIN polls PROVE PollIsTrue(polls[i])'
      <3>1. PICK p : p = polls[i]
        OBVIOUS
      <3>2. PollIsTrue(p)
        BY <3>1 DEF Good, OnePoll
      <3>3. RowsAreTrue(p)'
        BY <3>2 DEF PollIsTrue, RowsAreTrue, Full
      <3>4. PollIsTrue(p)'
        BY <3>2, <3>3 DEF PollIsTrue
      <3> QED BY <3>1, <3>4
    <2>2. Len(polls') <= 1
      BY DEF Good, OnePoll
    <2> QED BY <2>1, <2>2 DEF OnePoll
  <1>7. PageIsCurrent'
    <2> SUFFICES ASSUME ~page.overlap, NEW m \in Msgs, Covered(m)', m \notin page.late
                 PROVE  page'.shown[m] = seq[m]
      BY DEF PageIsCurrent
    <2>1. Covered(m) /\ seq[m] # 0
      BY DEF Covered
    <2>2. page.shown[m] = seq[m]
      BY <2>1 DEF Good, PageInv, PageIsCurrent
    <2> QED BY <2>1, <2>2
  <1>8. Seen(page.last)' /\ Seen(page.floor)' /\ (page'.floor # 0 => Full(page.floor)')
    BY DEF Good, PageInv, Seen, Full
  <1>9. PageInv'
    BY <1>7, <1>8 DEF PageInv
  <1> QED BY <1>2, <1>3, <1>5, <1>6, <1>9 DEF Good

\* "Load older": from the notice.
LEMMA LoadOlderKeeps ==
    ASSUME StreamTypeOK, Good, LoadOlder
    PROVE  Good'
  <1>1. /\ page.load = "no" /\ page.notice.older /\ page.notice.oldest # 0
        /\ page' = [page EXCEPT !.load = "ask", !.before = page.notice.oldest]
        /\ UNCHANGED <<nextseq, seq, open, member, con, polls, wire, spent>>
    BY DEF LoadOlder
  <1>2. page \in Pages
    BY Types
  <1>3. /\ page'.shown = page.shown /\ page'.notice = page.notice /\ page'.last = page.last
        /\ page'.load = "ask" /\ page'.before = page.notice.oldest
        /\ page'.older = page.older /\ page'.more = page.more /\ page'.floor = page.floor
        /\ page'.late = page.late /\ page'.overlap = page.overlap /\ page'.crossed = page.crossed
    BY <1>1, <1>2 DEF Pages
  <1>4. HiddenBelow'
    BY <1>1, <1>3 DEF Good, PageInv, HiddenBelow, Hidden
  <1>5. Loading'
    BY <1>1, <1>3 DEF Good, PageInv, Loading
  <1> QED BY <1>1, <1>3, <1>4, <1>5, OlderKeeps

\* The answer: the newest of the older ones, or none.
LEMMA OlderQueryKeeps ==
    ASSUME StreamTypeOK, ThreadInv, Good, OlderQuery
    PROVE  Good'
  <1> DEFINE R == {r \in RowsAbove(0) : r.s < page.before}
             W == Newest(R, Limit)
  <1>1. page.load = "ask" /\ UNCHANGED <<nextseq, seq, open, member, con, polls, wire>>
    BY DEF OlderQuery
  <1>2. page \in Pages /\ page.before \in Nat /\ page.notice.oldest \in Nat /\ \A m \in Msgs : seq[m] \in Nat
    BY Types, PageFields, SeqsAreNat DEF Notices
  <1>3. CASE page' = [page EXCEPT !.load = "got", !.older = W, !.more = Cardinality(R) > Limit]
    <2>1. /\ page'.shown = page.shown /\ page'.notice = page.notice /\ page'.last = page.last
          /\ page'.load = "got" /\ page'.before = page.before
          /\ page'.older = W /\ page'.more = (Cardinality(R) > Limit) /\ page'.floor = page.floor
          /\ page'.late = page.late /\ page'.overlap = page.overlap /\ page'.crossed = page.crossed
      BY <1>2, <1>3 DEF Pages
    <2>2. Ranked(R)
      <3>1. R \in SUBSET RowsAbove(0)
        OBVIOUS
      <3> QED BY <3>1, SeqIsNumbered, PartCount
    <2>3. Limit \in Nat \ {0}
      BY StreamAssumption
    <2>4. \A m \in Msgs : 0 < seq[m] /\ seq[m] < page.before =>
             [m |-> m, s |-> seq[m]] \in R /\ [m |-> m, s |-> seq[m]].s = seq[m]
      BY <1>2 DEF RowsAbove
    <2>5. \A r \in R : 0 < r.s
      BY <1>2 DEF RowsAbove
    <2> HIDE DEF R, W
    <2>6. /\ W \in SUBSET R
          /\ \A x \in R \ W : Cardinality(R) > Limit /\ \A r \in W : x.s < r.s
          /\ R # {} => W # {}
      BY <2>2, <2>3, NewestIsTop DEF W
    <2>7. HiddenBelow'
      <3> SUFFICES ASSUME ~page.crossed, NEW m \in Msgs, Hidden(m)
                   PROVE  /\ page.notice.older /\ (page.notice.oldest = 0 \/ seq[m] < page.notice.oldest)
                          /\ \/ [m |-> m, s |-> seq[m]] \in W
                             \/ Cardinality(R) > Limit /\ \A r \in W : seq[m] < r.s
        BY <1>1, <2>1 DEF HiddenBelow, Hidden
      <3>1. page.notice.older /\ (page.notice.oldest = 0 \/ seq[m] < page.notice.oldest)
        BY DEF Good, PageInv, HiddenBelow
      <3>2. page.before = page.notice.oldest /\ page.before # 0
        BY <1>1 DEF Good, PageInv, Loading
      <3>3. 0 < seq[m] /\ seq[m] < page.before
        BY <3>1, <3>2 DEF Hidden
      <3>4. [m |-> m, s |-> seq[m]] \in R /\ [m |-> m, s |-> seq[m]].s = seq[m]
        BY <2>4, <3>3
      <3> QED BY <2>6, <3>1, <3>4
    <2>8. Loading'
      <3>1. Cardinality(R) > Limit => W # {}
        <4>1. R = {} => Cardinality(R) = 0
          BY FS_EmptySet
        <4> QED BY <2>3, <2>6, <4>1
      <3>2. \A r \in W : 0 < r.s
        BY <2>5, <2>6
      <3> QED BY <1>1, <2>1, <3>1, <3>2 DEF Good, PageInv, Loading
    <2> QED BY <1>1, <2>1, <2>7, <2>8, OlderKeeps
  <1>4. CASE page' = [page EXCEPT !.load = "no"]
    <2>1. /\ page'.shown = page.shown /\ page'.notice = page.notice /\ page'.last = page.last
          /\ page'.load = "no" /\ page'.before = page.before
          /\ page'.older = page.older /\ page'.more = page.more /\ page'.floor = page.floor
          /\ page'.late = page.late /\ page'.overlap = page.overlap /\ page'.crossed = page.crossed
      BY <1>2, <1>4 DEF Pages
    <2>2. HiddenBelow'
      BY <1>1, <2>1 DEF Good, PageInv, HiddenBelow, Hidden
    <2>3. Loading'
      BY <2>1 DEF Good, PageInv, Loading
    <2> QED BY <1>1, <2>1, <2>2, <2>3, OlderKeeps
  <1> QED BY <1>3, <1>4 DEF OlderQuery
\* The lowest seq of some rows.
LEMMA LowestIs ==
    ASSUME NEW R \in SUBSET Rows, R # {}
    PROVE  LowestOf(R) \in Seqs /\ LowestOf(R) \in {r.s : r \in R} /\ \A r \in R : LowestOf(R) <= r.s
  <1> DEFINE T == {r.s : r \in R}
  <1>1. T \in SUBSET Nat /\ T # {} /\ T \in SUBSET Seqs
    BY SeqsAreNat DEF Rows
  <1>2. \E s \in T : \A y \in T : s <= y
    BY <1>1, Least
  <1>3. \E s \in T : \A r \in R : s <= r.s
    BY <1>2
  <1>4. LowestOf(R) = CHOOSE s \in T : \A r \in R : s <= r.s
    BY DEF LowestOf
  <1>5. LowestOf(R) \in T /\ \A r \in R : LowestOf(R) <= r.s
    <2> HIDE DEF T
    <2> QED BY <1>3, <1>4
  <1> QED BY <1>1, <1>5

\* What the page is after older messages have been shown.
LEMMA OlderShownDoes ==
    ASSUME StreamTypeOK, OlderShown
    PROVE  /\ page.load = "got" /\ page' \in Pages
           /\ page'.last = page.last /\ page'.load = "no" /\ page'.before = page.before
           /\ page'.older = {} /\ page'.more = FALSE /\ page'.floor = page.floor
           /\ page'.late = page.late /\ page'.overlap = page.overlap /\ page'.crossed = page.crossed
           /\ page'.notice = IF page.older = {} THEN [page.notice EXCEPT !.older = FALSE]
                             ELSE [older |-> page.more, oldest |-> LowestOf(page.older)]
           /\ \A m \in Msgs : page.shown[m] # 0 => page'.shown[m] = page.shown[m]
           /\ \A m \in Msgs : page'.shown[m] = 0 =>
                 page.shown[m] = 0 /\ \A r \in page.older : r.m = m => r.s = 0 \/ \E q \in page.older : q.s = 0
           /\ UNCHANGED <<nextseq, seq, open, member, con, polls, wire, spent>>
  <1> DEFINE R == page.older
             C(m) == CHOOSE r \in R : r.m = m
             sh == [m \in Msgs |-> IF \E r \in R : r.m = m THEN AddsTo(m, C(m).s) ELSE page.shown[m]]
             no == IF R = {} THEN [page.notice EXCEPT !.older = FALSE]
                   ELSE [older |-> page.more, oldest |-> LowestOf(R)]
  <1>1. /\ page.load = "got" /\ UNCHANGED <<nextseq, seq, open, member, con, polls, wire, spent>>
        /\ page' = [page EXCEPT !.load = "no", !.older = {}, !.more = FALSE, !.shown = sh, !.notice = no]
    BY DEF OlderShown
  <1>2. page \in Pages /\ page.shown \in [Msgs -> Seqs] /\ page.older \in SUBSET Rows
        /\ page.notice \in Notices /\ page.more \in BOOLEAN
    BY Types, PageFields
  <1>3. ASSUME NEW m \in Msgs, \E r \in R : r.m = m
        PROVE  C(m) \in R /\ C(m).m = m /\ C(m).s \in Seqs
    <2>1. C(m) \in R /\ C(m).m = m
      BY <1>3
    <2> QED BY <1>2, <2>1 DEF Rows
  <1>4. sh \in [Msgs -> Seqs]
    <2> SUFFICES ASSUME NEW m \in Msgs PROVE sh[m] \in Seqs
      OBVIOUS
    <2> HIDE DEF C
    <2> QED BY <1>2, <1>3 DEF AddsTo
  <1>5. no \in Notices
    <2>1. CASE R = {}
      BY <1>2, <2>1 DEF Notices
    <2>2. CASE R # {}
      BY <1>2, <2>2, LowestIs DEF Notices
    <2> QED BY <2>1, <2>2
  <1>6. \A m \in Msgs : page.shown[m] # 0 => sh[m] = page.shown[m]
    BY DEF AddsTo
  <1>7. ASSUME NEW m \in Msgs, sh[m] = 0
        PROVE  page.shown[m] = 0 /\ \A r \in R : r.m = m => r.s = 0 \/ \E q \in R : q.s = 0
    <2>1. page.shown[m] = 0
      BY <1>6, <1>7
    <2>2. ASSUME NEW r \in R, r.m = m PROVE \E q \in R : q.s = 0
      <3>1. C(m) \in R
        BY <1>3, <2>2
      <3> HIDE DEF C
      <3>2. sh[m] = C(m).s
        BY <2>1, <2>2 DEF AddsTo
      <3> QED BY <1>7, <3>1, <3>2
    <2> QED BY <2>1, <2>2
  <1> HIDE DEF sh, no
  <1>8. /\ page' \in Pages /\ page'.shown = sh /\ page'.notice = no
        /\ page'.last = page.last /\ page'.load = "no" /\ page'.before = page.before
        /\ page'.older = {} /\ page'.more = FALSE /\ page'.floor = page.floor
        /\ page'.late = page.late /\ page'.overlap = page.overlap /\ page'.crossed = page.crossed
    BY <1>1, <1>2, <1>4, <1>5 DEF Pages
  <1> QED BY <1>1, <1>6, <1>7, <1>8 DEF no

\* The answer is shown: what it leaves out is below the notice.
LEMMA OlderShownKeeps ==
    ASSUME StreamTypeOK, Good, OlderShown
    PROVE  Good'
  <1> DEFINE R == page.older
  <1>1. /\ page.load = "got"
        /\ page'.last = page.last /\ page'.load = "no" /\ page'.before = page.before
        /\ page'.older = {} /\ page'.more = FALSE /\ page'.floor = page.floor
        /\ page'.late = page.late /\ page'.overlap = page.overlap /\ page'.crossed = page.crossed
        /\ page'.notice = IF R = {} THEN [page.notice EXCEPT !.older = FALSE]
                          ELSE [older |-> page.more, oldest |-> LowestOf(R)]
        /\ \A m \in Msgs : page.shown[m] # 0 => page'.shown[m] = page.shown[m]
        /\ \A m \in Msgs : page'.shown[m] = 0 =>
              page.shown[m] = 0 /\ \A r \in R : r.m = m => r.s = 0 \/ \E q \in R : q.s = 0
        /\ UNCHANGED <<nextseq, seq, open, member, con, polls, wire, spent>>
    BY OlderShownDoes
  <1>2. R \in SUBSET Rows /\ (page.more => R # {}) /\ \A r \in R : 0 < r.s /\ r.s \in Nat
    <2>1. R \in SUBSET Rows
      BY Types, PageFields
    <2> QED BY <2>1, SeqsAreNat DEF Good, PageInv, Loading, Rows
  <1> HIDE DEF R
  <1>3. \A m \in Msgs : page'.shown[m] = 0 => page.shown[m] = 0 /\ \A r \in R : r.m # m
    BY <1>1, <1>2
  <1>4. HiddenBelow'
    <2> SUFFICES ASSUME ~page.crossed, NEW m \in Msgs, Hidden(m)'
                 PROVE  page'.notice.older /\ seq[m] < page'.notice.oldest
      BY <1>1 DEF HiddenBelow
    <2>1. Hidden(m) /\ \A r \in R : r.m # m
      BY <1>1, <1>3 DEF Hidden
    <2>2. page.more /\ \A r \in R : seq[m] < r.s
      <3>1. [m |-> m, s |-> seq[m]] \notin R
        BY <2>1
      <3> QED BY <1>1, <2>1, <3>1 DEF Good, PageInv, HiddenBelow, R
    <2>3. R # {} /\ LowestOf(R) \in {r.s : r \in R}
      <3>1. R \in SUBSET Rows /\ R # {}
        BY <1>2, <2>2
      <3> QED BY <3>1, LowestIs
    <2>4. page'.notice.older = page.more /\ page'.notice.oldest = LowestOf(R)
      <3>1. page'.notice = IF R = {} THEN [page.notice EXCEPT !.older = FALSE]
                           ELSE [older |-> page.more, oldest |-> LowestOf(R)]
        BY <1>1
      <3>2. R # {}
        BY <2>3
      <3>3. page'.notice = [older |-> page.more, oldest |-> LowestOf(R)]
        BY <3>1, <3>2
      <3> QED BY <3>3
    <2> QED BY <2>2, <2>3, <2>4
  <1>5. Loading'
    BY <1>1 DEF Loading
  <1> QED BY <1>1, <1>4, <1>5, OlderKeeps

\* A commit moves one message on; what was read reaches it only behind a later seq.
LEMMA CommitFacts ==
    ASSUME StreamTypeOK, ThreadInv, ThreadInv', StreamTypeOK', NEW r \in open, Commit(r)
    PROVE  /\ UNCHANGED <<con, polls, wire>>
           /\ page'.shown = page.shown /\ page'.notice = page.notice /\ page'.last = page.last
           /\ page'.load = page.load /\ page'.before = page.before /\ page'.older = page.older
           /\ page'.more = page.more /\ page'.floor = page.floor /\ page.late \subseteq page'.late
           /\ page'.overlap = page.overlap /\ page'.crossed = page.crossed
           /\ \A m \in Msgs : seq[m] <= seq'[m] /\ seq[m] \in Nat /\ seq'[m] \in Nat
           /\ \A s \in Seqs : Seen(s) => Seen(s)'
           /\ \A s \in Seqs \ {0} : Full(s) => Full(s)'
           /\ \A s \in Seqs, m \in Msgs \ page'.late : Seen(s) /\ seq'[m] <= s => seq'[m] = seq[m]
  <1>1. /\ seq \in [Msgs -> Seqs] /\ seq' \in [Msgs -> Seqs] /\ page \in Pages /\ Seqs \subseteq Nat
        /\ r \in Rows /\ \A m \in Msgs : seq[m] \in Nat /\ seq'[m] \in Nat
    BY Types, SeqsAreNat DEF StreamTypeOK
  <1>2. r.m \in Msgs /\ r.s \in Nat
    BY <1>1 DEF Rows
  <1>3. /\ seq' = [seq EXCEPT ![r.m] = r.s] /\ UNCHANGED <<con, polls, wire>>
        /\ page' = IF Behind(r) THEN [page EXCEPT !.late = @ \cup {r.m}] ELSE page
    BY DEF Commit, Stamped
  <1>4. seq[r.m] < r.s /\ \A m \in Msgs : seq[m] # r.s
    BY <1>2 DEF ThreadInv
  <1>5. seq'[r.m] = r.s /\ \A m \in Msgs : m # r.m => seq'[m] = seq[m]
    BY <1>1, <1>2, <1>3
  <1>6. /\ page'.shown = page.shown /\ page'.notice = page.notice /\ page'.last = page.last
        /\ page'.load = page.load /\ page'.before = page.before /\ page'.older = page.older
        /\ page'.more = page.more /\ page'.floor = page.floor /\ page.late \subseteq page'.late
        /\ page'.overlap = page.overlap /\ page'.crossed = page.crossed
        /\ r.m \in page'.late \/ ~Behind(r)
    <2>1. CASE Behind(r)
      BY <1>1, <1>3, <2>1, PageFields DEF Pages
    <2>2. CASE ~Behind(r)
      BY <1>3, <2>2
    <2> QED BY <2>1, <2>2
  <1>7. \A m \in Msgs : seq[m] <= seq'[m]
    <2> SUFFICES ASSUME NEW m \in Msgs PROVE seq[m] <= seq'[m]
      OBVIOUS
    <2>1. seq[m] \in Nat /\ seq'[m] \in Nat
      BY <1>1
    <2>2. CASE m = r.m
      BY <1>2, <1>4, <1>5, <2>1, <2>2
    <2>3. CASE m # r.m
      BY <1>5, <2>1, <2>3
    <2> QED BY <2>2, <2>3
  <1>8. ASSUME NEW s \in Seqs, Seen(s) PROVE Seen(s)'
    <2>1. s \in Nat
      BY <1>1
    <2>2. CASE s = 0
      BY <2>2 DEF Seen
    <2>3. ASSUME NEW m \in Msgs, s <= seq[m] PROVE Seen(s)'
      <3>1. s <= seq'[m]
        BY <1>1, <1>7, <2>1, <2>3
      <3> QED BY <3>1 DEF Seen
    <2> QED BY <1>8, <2>2, <2>3 DEF Seen
  <1>9. ASSUME NEW s \in Seqs \ {0}, Full(s) PROVE Full(s)'
    <2>1. Numbered(seq) /\ Numbered(seq')
      BY DEF StreamTypeOK, ThreadInv, Numbered
    <2>2. s \in Nat \ {0}
      BY <1>1
    <2>3. FullIn(seq', s)
      BY <1>7, <1>9, <2>1, <2>2, FullGrows DEF Full
    <2> QED BY <2>3 DEF Full
  <1>10. ASSUME NEW s \in Seqs, NEW m \in Msgs \ page'.late, Seen(s), seq'[m] <= s
         PROVE  seq'[m] = seq[m]
    <2> SUFFICES ASSUME m = r.m PROVE FALSE
      BY <1>5
    <2>1. \A n \in Msgs : ~(seq[n] > r.s)
      BY <1>6 DEF Behind
    <2>2. s \in Nat /\ r.s <= s
      BY <1>1, <1>5, <1>10
    <2>3. CASE s = 0
      <3>1. seq[r.m] \in Nat
        BY <1>1, <1>2
      <3> QED BY <1>2, <1>4, <2>2, <2>3, <3>1
    <2>4. ASSUME NEW n \in Msgs, s <= seq[n] PROVE FALSE
      <3>1. seq[n] \in Nat /\ seq[n] # r.s /\ ~(seq[n] > r.s)
        BY <1>1, <1>4, <2>1
      <3> QED BY <1>2, <2>2, <2>4, <3>1
    <2> QED BY <1>10, <2>3, <2>4 DEF Seen
  <1> QED BY <1>1, <1>3, <1>6, <1>7, <1>8, <1>9, <1>10

\* So whatever is said of a message up to a seq that was read stays true.
LEMMA CommitKeeps ==
    ASSUME StreamTypeOK, ThreadInv, ThreadInv', StreamTypeOK', CutHasRows, Good, NEW r \in open, Commit(r)
    PROVE  Good'
  <1>1. /\ UNCHANGED <<con, polls, wire>>
        /\ page'.shown = page.shown /\ page'.notice = page.notice /\ page'.last = page.last
        /\ page'.load = page.load /\ page'.before = page.before /\ page'.older = page.older
        /\ page'.more = page.more /\ page'.floor = page.floor /\ page.late \subseteq page'.late
        /\ page'.overlap = page.overlap /\ page'.crossed = page.crossed
    BY CommitFacts
  <1>2. \A m \in Msgs : seq[m] <= seq'[m] /\ seq[m] \in Nat /\ seq'[m] \in Nat
    BY CommitFacts
  <1>3. /\ \A s \in Seqs : Seen(s) => Seen(s)'
        /\ \A s \in Seqs \ {0} : Full(s) => Full(s)'
    BY CommitFacts
  <1>4. \A s \in Seqs, m \in Msgs \ page'.late : Seen(s) /\ seq'[m] <= s => seq'[m] = seq[m]
    BY CommitFacts
  <1>5. /\ page.last \in Seqs /\ page.floor \in Seqs /\ Seqs \subseteq Nat
        /\ \A i \in DOMAIN wire : wire[i] \in Frames
        /\ \A i \in DOMAIN polls : polls[i] \in Polls
        /\ con.cursor \in Seqs
    BY Types, PageFields, ConnFields, SeqsAreNat
  <1>6. ASSUME NEW i \in DOMAIN wire, IsMessage(wire[i])
        PROVE  /\ wire[i].m \in Msgs /\ wire[i].s \in Seqs /\ 0 < wire[i].s
               /\ wire[i].s <= seq[wire[i].m] /\ wire[i].s <= seq'[wire[i].m] /\ Seen(wire[i].s)
    <2>1. wire[i].m \in Msgs /\ wire[i].s \in Seqs
      BY <1>5, <1>6, FrameFields
    <2>2. 0 < wire[i].s /\ wire[i].s <= seq[wire[i].m]
      BY <1>6 DEF Good, InOrder
    <2>3. wire[i].s <= seq'[wire[i].m]
      <3>1. wire[i].s \in Nat
        BY <1>5, <2>1
      <3> QED BY <1>2, <2>1, <2>2, <3>1
    <2> QED BY <2>1, <2>2, <2>3 DEF Seen
  <1>7. InOrder'
    <2>1. \A i \in DOMAIN wire : IsMessage(wire[i]) => wire[i].s <= seq'[wire[i].m]
      BY <1>6
    <2> QED BY <1>1, <2>1 DEF Good, InOrder
  <1>8. NoticesAreTrue'
    <2> SUFFICES ASSUME NEW i \in DOMAIN wire, IsNotice(wire[i]) PROVE NoticeIsTrue(wire[i])'
      BY <1>1 DEF NoticesAreTrue
    <2>1. NoticeIsTrue(wire[i]) /\ wire[i].cut \in Seqs
      BY <1>5, FrameFields DEF Good, NoticesAreTrue
    <2>2. wire[i].cut # 0 => Full(wire[i].cut)' /\ Seen(wire[i].cut)'
      BY <1>1, <1>3, <2>1 DEF NoticeIsTrue
    <2> QED BY <1>1, <2>1, <2>2 DEF NoticeIsTrue
  <1>9. ASSUME NEW s \in Seqs, Seen(s), UpTo(s) PROVE UpTo(s)'
    <2> SUFFICES ASSUME NEW m \in Msgs \ page'.late, 0 < seq'[m], seq'[m] <= s
                 PROVE  OnItsWay(m)' \/ (page'.shown[m] = seq'[m] /\ NoneOnItsWay(m)') \/ LeftOut(m)'
      BY DEF UpTo
    <2>1. seq'[m] = seq[m]
      BY <1>4, <1>9
    <2>2. OnItsWay(m) \/ (page.shown[m] = seq[m] /\ NoneOnItsWay(m)) \/ LeftOut(m)
      BY <1>1, <1>9, <2>1 DEF UpTo
    <2> QED BY <1>1, <2>1, <2>2 DEF OnItsWay, NoneOnItsWay, LeftOut
  <1>10. Passed'
    <2>1. ASSUME NEW i \in DOMAIN wire, IsMessage(wire[i]) PROVE UpTo(wire[i].s)'
      <3>1. PICK s : s = wire[i].s
        OBVIOUS
      <3>2. UpTo(s) /\ s \in Seqs /\ Seen(s)
        BY <1>6, <2>1, <3>1 DEF Good, Passed
      <3>3. UpTo(s)'
        BY <1>9, <3>2
      <3>4. s = wire'[i].s
        BY <1>1, <3>1
      <3> QED BY <3>3, <3>4 DEF UpTo
    <2>2. Writable(con) => UpTo(con.cursor)' /\ Seen(con.cursor)'
      <3> SUFFICES ASSUME Writable(con) PROVE UpTo(con.cursor)' /\ Seen(con.cursor)'
        OBVIOUS
      <3>1. PICK s : s = con.cursor
        OBVIOUS
      <3>2. UpTo(s) /\ s \in Seqs /\ Seen(s)
        BY <1>5, <3>1 DEF Good, Passed
      <3>3. UpTo(s)' /\ Seen(s)'
        BY <1>3, <1>9, <3>2
      <3>4. s = con'.cursor
        BY <1>1, <3>1
      <3> QED BY <3>3, <3>4 DEF UpTo, Seen
    <2> QED BY <1>1, <2>1, <2>2 DEF Passed
  <1>11. ASSUME NEW i \in DOMAIN polls PROVE PollIsTrue(polls[i])'
    <2>1. PICK p : p = polls[i]
      OBVIOUS
    <2>2. p \in Polls /\ PollIsTrue(p) /\ (p.cut => p.rows # <<>>)
      BY <1>5, <2>1 DEF Good, OnePoll, CutHasRows
    <2>3. p.cursor \in Seqs /\ p.rows \in Seq(Rows)
      BY <2>2, PollFields
    <2>4. ASSUME NEW k \in DOMAIN p.rows
          PROVE  /\ p.rows[k].s \in Seqs /\ p.cursor < p.rows[k].s /\ Seen(p.rows[k].s)
                 /\ p.rows[k].s <= seq'[p.rows[k].m]
      <3>1. p.rows[k].s \in Seqs /\ p.rows[k].m \in Msgs /\ p.rows[k].s \in Nat
        BY <2>2, RowFields
      <3>2. p.cursor < p.rows[k].s /\ p.rows[k].s <= seq[p.rows[k].m]
        BY <2>2 DEF PollIsTrue, RowsAreTrue
      <3>3. p.rows[k].s <= seq'[p.rows[k].m]
        BY <1>2, <3>1, <3>2
      <3> QED BY <3>1, <3>2, <3>3 DEF Seen
    <2>5. \A k \in DOMAIN p.rows, m \in Msgs \ page'.late :
             p.cursor < seq'[m] /\ seq'[m] <= p.rows[k].s =>
                (\E j \in DOMAIN p.rows : p.rows[j] = [m |-> m, s |-> seq'[m]])
                \/ (p.cut /\ seq'[m] < p.rows[1].s)
      <3> SUFFICES ASSUME NEW k \in DOMAIN p.rows, NEW m \in Msgs \ page'.late,
                          p.cursor < seq'[m], seq'[m] <= p.rows[k].s
                   PROVE  (\E j \in DOMAIN p.rows : p.rows[j] = [m |-> m, s |-> seq'[m]])
                          \/ (p.cut /\ seq'[m] < p.rows[1].s)
        OBVIOUS
      <3>1. seq'[m] = seq[m] /\ m \in Msgs \ page.late
        BY <1>1, <1>4, <2>4
      <3>2. RowsAreTrue(p) /\ p.cursor < seq[m] /\ seq[m] <= p.rows[k].s
        BY <2>2, <3>1 DEF PollIsTrue
      <3>3. (\E j \in DOMAIN p.rows : p.rows[j] = [m |-> m, s |-> seq[m]])
            \/ (p.cut /\ seq[m] < p.rows[1].s)
        BY <3>1, <3>2 DEF RowsAreTrue
      <3> QED BY <3>1, <3>3
    <2>6. p.cut => p.back /\ Full(p.rows[1].s)'
      <3> SUFFICES ASSUME p.cut PROVE p.back /\ Full(p.rows[1].s)'
        OBVIOUS
      <3>1. 1 \in DOMAIN p.rows
        BY <2>2, <2>3
      <3>2. p.back /\ Full(p.rows[1].s)
        BY <2>2 DEF PollIsTrue, RowsAreTrue
      <3>3. p.rows[1].s \in Seqs \ {0}
        <4>1. p.rows[1].s \in Seqs /\ p.cursor < p.rows[1].s /\ p.cursor \in Nat
          BY <1>5, <2>3, <2>4, <3>1
        <4> QED BY <4>1
      <3> QED BY <1>3, <3>2, <3>3
    <2>7. RowsAreTrue(p)'
      <3>1. /\ \A k, j \in DOMAIN p.rows : k < j => p.rows[k].s < p.rows[j].s
            /\ p.back => Len(p.rows) <= Limit /\ (p.rows = <<>> \/ page.floor <= p.rows[1].s)
        BY <2>2 DEF PollIsTrue, RowsAreTrue
      <3> QED BY <1>1, <2>4, <2>5, <2>6, <3>1 DEF RowsAreTrue
    <2>8. PollIsTrue(p)'
      BY <1>1, <2>2, <2>7 DEF PollIsTrue
    <2>9. polls'[i] = p
      BY <1>1, <2>1
    <2> QED BY <2>8, <2>9
  <1>12. OnePoll'
    BY <1>1, <1>11 DEF Good, OnePoll
  <1>13. PageInv'
    <2>1. Seen(page.last) /\ Seen(page.floor) /\ (page.floor # 0 => Full(page.floor))
      BY DEF Good, PageInv
    <2>2. Seen(page.last)' /\ Seen(page.floor)' /\ (page'.floor # 0 => Full(page.floor)')
      BY <1>1, <1>3, <1>5, <2>1
    <2>3. PageIsCurrent'
      <3> SUFFICES ASSUME ~page.overlap, NEW m \in Msgs \ page'.late, Covered(m)'
                   PROVE  page'.shown[m] = seq'[m]
        BY <1>1 DEF PageIsCurrent
      <3>1. seq'[m] = seq[m] /\ m \in Msgs \ page.late
        BY <1>1, <1>4, <1>5, <2>1 DEF Covered
      <3>2. Covered(m)
        BY <1>1, <3>1 DEF Covered
      <3> QED BY <1>1, <3>1, <3>2 DEF Good, PageInv, PageIsCurrent
    <2>4. HiddenBelow'
      <3> SUFFICES ASSUME ~page.crossed, NEW m \in Msgs, Hidden(m)'
                   PROVE  /\ page.notice.older /\ (page.notice.oldest = 0 \/ seq'[m] < page.notice.oldest)
                          /\ page.load = "got" => \/ [m |-> m, s |-> seq'[m]] \in page.older
                                                  \/ page.more /\ \A q \in page.older : seq'[m] < q.s
        BY <1>1 DEF HiddenBelow
      <3>1. m \in Msgs \ page'.late /\ seq'[m] < page.floor /\ seq'[m] \in Nat /\ page.floor \in Nat
        BY <1>1, <1>2, <1>5 DEF Hidden
      <3>2. seq'[m] = seq[m]
        <4>1. seq'[m] <= page.floor
          BY <3>1
        <4> QED BY <1>4, <1>5, <2>1, <3>1, <4>1
      <3>3. Hidden(m)
        BY <1>1, <3>2 DEF Hidden
      <3> QED BY <3>2, <3>3 DEF Good, PageInv, HiddenBelow
    <2>5. Loading'
      BY <1>1 DEF Good, PageInv, Loading
    <2> QED BY <2>2, <2>3, <2>4, <2>5 DEF PageInv
  <1> QED BY <1>7, <1>8, <1>10, <1>12, <1>13 DEF Good
-----------------------------------------------------------------------------
(* What holds in any case.                                                  *)

\* Polls, cut answers of which have rows.
SoundPolls == {p \in Polls : p.cut => p.rows # <<>>}
Counts == [conns: 0..MaxConns, faults: 0..MaxStreamFaults]

\* The polls under way are such polls, and conversely.
LEMMA PollsAreSound ==
    ASSUME Base
    PROVE  polls \in Seq(SoundPolls)
  <1>1. polls \in Seq(Polls) /\ \A i \in DOMAIN polls : polls[i] \in SoundPolls
    BY Types DEF Base, CutHasRows, SoundPolls
  <1> QED BY <1>1

\* A step that leaves the thread alone keeps what holds in any case if the types of
\* what it changes are right.
LEMMA BaseFrom ==
    ASSUME Base, UNCHANGED <<nextseq, seq, open>>, member' \in BOOLEAN,
           con' \in Conns, FullIsOver', wire' \in Seq(Frames), page' \in Pages,
           polls' \in Seq(SoundPolls), Len(polls') <= MaxPolls, spent' \in Counts
    PROVE  Base'
  <1>1. \A i \in DOMAIN polls' : polls'[i] \in SoundPolls
    BY LenProperties, ElementOfSeq
  <1>2. polls' \in Seq(Polls)
    BY DEF SoundPolls
  <1>3. CutHasRows'
    BY <1>1 DEF CutHasRows, SoundPolls
  <1>4. StreamTypeOK'
    BY <1>2 DEF Base, StreamTypeOK, Counts
  <1>5. ThreadInv'
    BY DEF Base, ThreadInv
  <1> QED BY <1>3, <1>4, <1>5 DEF Base

\* A poll that ends leaves the others.
LEMMA WithoutIs ==
    ASSUME Base, NEW i \in DOMAIN polls
    PROVE  Without(i) \in Seq(SoundPolls) /\ Len(Without(i)) <= MaxPolls
  <1> DEFINE n == Len(polls)
             a == SubSeq(polls, 1, i-1)
             b == SubSeq(polls, i+1, n)
  <1>1. n \in Nat /\ i \in 1..n /\ n <= MaxPolls /\ MaxPolls \in Nat
    BY Types, StreamAssumption DEF Base
  <1>2. \A j \in 1..n : polls[j] \in SoundPolls
    BY PollsAreSound, ElementOfSeq
  <1>3. a \in Seq(SoundPolls) /\ Len(a) = i-1
    <2>1. \A j \in 1..(i-1) : polls[j] \in SoundPolls
      BY <1>1, <1>2
    <2>2. 1 \in Int /\ i-1 \in Int
      BY <1>1
    <2> HIDE DEF n
    <2>3. a \in Seq(SoundPolls) /\ Len(a) = IF 1 <= i-1 THEN (i-1)-1+1 ELSE 0
      BY <2>1, <2>2, SubSeqProperties
    <2> HIDE DEF a
    <2> QED BY <1>1, <2>3
  <1>4. b \in Seq(SoundPolls) /\ Len(b) = n-i
    <2>1. \A j \in (i+1)..n : polls[j] \in SoundPolls
      BY <1>1, <1>2
    <2>2. i+1 \in Int /\ n \in Int
      BY <1>1
    <2> HIDE DEF n
    <2>3. b \in Seq(SoundPolls) /\ Len(b) = IF i+1 <= n THEN n-(i+1)+1 ELSE 0
      BY <2>1, <2>2, SubSeqProperties
    <2> HIDE DEF b
    <2> QED BY <1>1, <2>3
  <1> HIDE DEF a, b, n
  <1>5. a \o b \in Seq(SoundPolls) /\ Len(a \o b) = (i-1) + (n-i)
    <2>1. a \in Seq(SoundPolls) /\ b \in Seq(SoundPolls)
      BY <1>3, <1>4
    <2>2. a \o b \in Seq(SoundPolls) /\ Len(a \o b) = Len(a) + Len(b)
      BY <2>1, ConcatProperties, Zenon
    <2> QED BY <1>3, <1>4, <2>2
  <1>6. Without(i) = a \o b
    BY DEF Without, a, b, n
  <1>7. (i-1) + (n-i) <= MaxPolls
    BY <1>1
  <1> QED BY <1>5, <1>6, <1>7

\* A step that continues the connection keeps its types.
LEMMA ConnectionTypes ==
    ASSUME GoesOn(Here, Here')
    PROVE  con' \in Conns /\ wire' \in Seq(Frames) /\ FullIsOver'
  <1>1. Here'.c = con' /\ Here'.w = wire'
    BY DEF Here
  <1> QED BY <1>1 DEF GoesOn, Writers, FullIsOver

\* The counter of faults has its bound.
LEMMA CountFaultType ==
    ASSUME Base, StreamFault
    PROVE  spent' \in Counts
  <1>1. spent \in Counts /\ MaxStreamFaults \in Nat
    BY Types, StreamAssumption DEF Base, Counts
  <1>2. spent.faults \in 0..MaxStreamFaults /\ spent.faults < MaxStreamFaults
    BY <1>1 DEF StreamFault, Counts
  <1>3. spent.faults + 1 \in 0..MaxStreamFaults
    BY <1>1, <1>2
  <1> QED BY <1>1, <1>3 DEF StreamFault, Counts

\* The thread's own steps.
LEMMA ChangeBase ==
    ASSUME Base, NEW m \in Msgs, Change(m)
    PROVE  Base'
  <1> DEFINE new == [m |-> m, s |-> nextseq + 1]
  <1>1. /\ nextseq \in Seqs /\ seq \in [Msgs -> Seqs] /\ open \in SUBSET Rows /\ Seqs \subseteq Nat
        /\ nextseq \in Nat /\ MaxSeq \in Nat
    BY Types, SeqsAreNat, StreamAssumption DEF Base
  <1>2. /\ nextseq < MaxSeq /\ ~Locked(m) /\ nextseq' = nextseq + 1 /\ open' = open \cup {new}
        /\ UNCHANGED <<seq, member, con, polls, wire, page, spent>>
    BY DEF Change
  <1>3. nextseq' \in Seqs /\ new \in Rows /\ new.m = m /\ new.s = nextseq + 1
    BY <1>1, <1>2 DEF Seqs, Rows
  <1> HIDE DEF new
  <1>4. StreamTypeOK'
    BY <1>1, <1>2, <1>3 DEF Base, StreamTypeOK
  <1>5. /\ \A r \in open : r.m \in Msgs /\ r.s \in Nat /\ r.m # m /\ 0 < r.s /\ r.s <= nextseq
        /\ \A r \in open : seq[r.m] < r.s
        /\ \A n \in Msgs : seq[n] \in Nat /\ seq[n] <= nextseq
    BY <1>1, <1>2 DEF Base, ThreadInv, Locked, Rows
  <1>6. /\ \A r \in open : r.s <= nextseq + 1 /\ r.s # nextseq + 1
        /\ \A n \in Msgs : seq[n] < nextseq + 1 /\ seq[n] # nextseq + 1 /\ seq[n] <= nextseq + 1
        /\ 0 < nextseq + 1 /\ nextseq + 1 <= nextseq + 1
    <2>1. ASSUME NEW s \in Nat, s <= nextseq
          PROVE  s <= nextseq + 1 /\ s # nextseq + 1 /\ s < nextseq + 1
      BY <1>1, <2>1
    <2>2. \A r \in open : r.s <= nextseq + 1 /\ r.s # nextseq + 1
      BY <1>5, <2>1
    <2>3. \A n \in Msgs : seq[n] < nextseq + 1 /\ seq[n] # nextseq + 1 /\ seq[n] <= nextseq + 1
      BY <1>5, <2>1
    <2>4. 0 < nextseq + 1 /\ nextseq + 1 <= nextseq + 1
      BY <1>1
    <2> QED BY <2>2, <2>3, <2>4
  <1>7. ThreadInv'
    <2>1. \A r \in open' : 0 < r.s /\ r.s <= nextseq' /\ seq'[r.m] < r.s
      BY <1>2, <1>3, <1>5, <1>6
    <2>2. \A r, q \in open' : r.s = q.s \/ r.m = q.m => r = q
      BY <1>2, <1>3, <1>5, <1>6 DEF Base, ThreadInv
    <2>3. (\A n \in Msgs : seq'[n] <= nextseq') /\ \A r \in open', n \in Msgs : seq'[n] # r.s
      BY <1>2, <1>3, <1>6 DEF Base, ThreadInv
    <2>4. \A k, n \in Msgs : seq'[k] = seq'[n] /\ seq'[k] # 0 => k = n
      BY <1>2 DEF Base, ThreadInv
    <2> QED BY <2>1, <2>2, <2>3, <2>4 DEF ThreadInv
  <1> QED BY <1>2, <1>4, <1>7 DEF Base, FullIsOver, CutHasRows

\* A change that commits is the latest of its message, and of nothing else.
LEMMA CommitBase ==
    ASSUME Base, NEW r \in open, Commit(r)
    PROVE  Base'
  <1>1. /\ nextseq \in Seqs /\ seq \in [Msgs -> Seqs] /\ open \in SUBSET Rows /\ page \in Pages
    BY Types DEF Base
  <1>2. r.m \in Msgs /\ r.s \in Seqs
    BY <1>1 DEF Rows
  <1>3. /\ open' = open \ {r} /\ seq' = [seq EXCEPT ![r.m] = r.s]
        /\ page' = IF Behind(r) THEN [page EXCEPT !.late = @ \cup {r.m}] ELSE page
        /\ UNCHANGED <<nextseq, member, con, polls, wire, spent>>
    BY DEF Commit, Stamped
  <1>4. page' \in Pages
    <2>1. [page EXCEPT !.late = @ \cup {r.m}] \in Pages
      BY <1>1, <1>2 DEF Pages
    <2> QED BY <1>1, <1>3, <2>1
  <1>5. seq' \in [Msgs -> Seqs] /\ open' \in SUBSET Rows
    BY <1>1, <1>2, <1>3
  <1>6. StreamTypeOK'
    BY <1>3, <1>4, <1>5 DEF Base, StreamTypeOK
  <1>7. seq'[r.m] = r.s /\ \A m \in Msgs : m # r.m => seq'[m] = seq[m]
    BY <1>1, <1>2, <1>3
  <1>8. \A q \in open' : q \in open /\ q.m \in Msgs /\ q.m # r.m /\ q.s # r.s
    BY <1>1, <1>3 DEF Base, ThreadInv, Rows
  <1>9. ThreadInv'
    <2>1. \A q \in open' : 0 < q.s /\ q.s <= nextseq' /\ seq'[q.m] < q.s
      BY <1>3, <1>7, <1>8 DEF Base, ThreadInv
    <2>2. \A p, q \in open' : p.s = q.s \/ p.m = q.m => p = q
      BY <1>8 DEF Base, ThreadInv
    <2>3. (\A m \in Msgs : seq'[m] <= nextseq') /\ \A q \in open', m \in Msgs : seq'[m] # q.s
      BY <1>3, <1>7, <1>8 DEF Base, ThreadInv
    <2>4. \A m, n \in Msgs : seq'[m] = seq'[n] /\ seq'[m] # 0 => m = n
      BY <1>2, <1>7 DEF Base, ThreadInv
    <2> QED BY <2>1, <2>2, <2>3, <2>4 DEF ThreadInv
  <1> QED BY <1>3, <1>6, <1>9 DEF Base, FullIsOver, CutHasRows

\* The connection's steps, but the polls'.
LEMMA ConnectBase ==
    ASSUME Base, NEW from, Connect(from)
    PROVE  Base'
  <1>1. /\ spent.conns < MaxConns /\ from \in {0, page.last} /\ spent' = [spent EXCEPT !.conns = @ + 1]
        /\ con' = [NoStream EXCEPT !.st = "setup", !.cursor = from, !.closed = FALSE]
        /\ polls' = <<StartPoll(con')>>
        /\ UNCHANGED <<nextseq, seq, open, member, wire, page>>
    BY DEF Connect
  <1>2. /\ page \in Pages /\ member \in BOOLEAN /\ wire \in Seq(Frames) /\ spent \in Counts
        /\ from \in Seqs
    BY <1>1, Types, PageFields, SeqsAreNat DEF Base, Counts
  <1>3. con' \in Conns /\ con'.full = FALSE
    <2>1. Threshold \in Nat /\ 0 \in 0..Threshold
      BY StreamAssumption
    <2> QED BY <1>1, <1>2, <2>1 DEF NoStream, Conns
  <1>4. spent' \in Counts
    <2>1. spent.conns \in 0..MaxConns /\ MaxConns \in Nat
      BY <1>2, StreamAssumption DEF Counts
    <2>2. spent.conns + 1 \in 0..MaxConns
      BY <1>1, <2>1
    <2> QED BY <1>1, <1>2, <2>2 DEF Counts
  <1>5. polls' \in Seq(SoundPolls) /\ Len(polls') <= MaxPolls
    <2>1. PICK p : p = StartPoll(con')
      OBVIOUS
    <2>2. p \in SoundPolls
      BY <1>3, <2>1, NewPoll DEF SoundPolls
    <2>3. polls' = <<p>> /\ Len(polls') = 1
      BY <1>1, <2>1
    <2>4. 1 <= MaxPolls
      BY StreamAssumption
    <2> QED BY <2>2, <2>3, <2>4
  <1> QED BY <1>1, <1>2, <1>3, <1>4, <1>5, BaseFrom DEF FullIsOver

\* A poll more.
LEMMA PollTimerBase ==
    ASSUME Base, PollTimer
    PROVE  Base'
  <1>1. /\ Len(polls) < MaxPolls /\ polls' = Append(polls, StartPoll(con))
        /\ page' = [page EXCEPT !.overlap = @ \/ polls # <<>>]
        /\ UNCHANGED <<nextseq, seq, open, member, con, wire>>
        /\ UNCHANGED spent \/ StreamFault
    BY DEF PollTimer
  <1>2. /\ page \in Pages /\ member \in BOOLEAN /\ wire \in Seq(Frames) /\ spent \in Counts
        /\ con \in Conns /\ Len(polls) \in Nat /\ page.overlap \in BOOLEAN
    BY Types, PageFields DEF Base, Counts
  <1>3. page' \in Pages
    <2>1. (page.overlap \/ polls # <<>>) \in BOOLEAN
      OBVIOUS
    <2> QED BY <1>1, <1>2, <2>1 DEF Pages
  <1>4. polls' \in Seq(SoundPolls) /\ Len(polls') = Len(polls) + 1
    <2>1. StartPoll(con) \in SoundPolls
      BY <1>2, NewPoll DEF SoundPolls
    <2> QED BY <1>1, <2>1, PollsAreSound, AppendProperties
  <1>5. Len(polls') <= MaxPolls
    <2>1. MaxPolls \in Nat
      BY StreamAssumption
    <2> QED BY <1>1, <1>2, <1>4, <2>1
  <1>6. spent' \in Counts
    BY <1>1, <1>2, CountFaultType
  <1> QED BY <1>1, <1>2, <1>3, <1>4, <1>5, <1>6, BaseFrom DEF Base, FullIsOver

\* An answer.
LEMMA PollQueryBase ==
    ASSUME Base, NEW i \in Nat, PollQuery(i)
    PROVE  Base'
  <1> DEFINE p == polls[i]
             q == SortedRows(Asked(p.cursor, p.back))
             cut == p.back /\ More(p.cursor)
             r == [p EXCEPT !.pc = "rows", !.rows = q, !.cut = cut]
  <1>1. /\ i \in DOMAIN polls /\ UNCHANGED <<nextseq, seq, open, member, con, wire, page, spent>>
        /\ polls' = [polls EXCEPT ![i].pc = "rows", ![i].rows = q, ![i].cut = cut]
    BY DEF PollQuery, Asked, More
  <1>2. /\ p \in Polls /\ p.cursor \in Seqs /\ p.back \in BOOLEAN /\ i \in 1..Len(polls)
        /\ Len(polls) <= MaxPolls
    BY <1>1, Types, PollFields DEF Base
  <1> HIDE DEF q, cut
  <1>3. q \in Seq(Rows) /\ (cut => q # <<>>)
    <2>1. Numbered(seq)
      BY SeqIsNumbered DEF Base
    <2> QED BY <1>2, <2>1, AnswerIsTrue DEF q, cut
  <1>4. cut \in BOOLEAN
    BY DEF cut
  <1>5. r \in SoundPolls
    <2> HIDE DEF p
    <2>1. r \in Polls /\ r.rows = q /\ r.cut = cut
      BY <1>2, <1>3, <1>4 DEF Polls
    <2> QED BY <1>3, <2>1 DEF SoundPolls
  <1>6. polls' = [polls EXCEPT ![i] = r]
    <2>1. polls \in Seq(Polls) /\ DOMAIN polls = 1..Len(polls)
      BY Types DEF Base
    <2> QED BY <1>1, <1>2, <2>1
  <1>7. polls' \in Seq(SoundPolls) /\ Len(polls') = Len(polls)
    <2> HIDE DEF r
    <2> QED BY <1>2, <1>5, <1>6, PollsAreSound, ExceptSeq
  <1>8. Len(polls') <= MaxPolls
    BY <1>2, <1>7
  <1> QED BY <1>1, <1>7, <1>8, BaseFrom, Types DEF Base, FullIsOver, Counts

\* The end of a poll that writes: the connection goes on from what was written.
LEMMA FinishBase ==
    ASSUME Base, NEW i \in DOMAIN polls, NEW b, GoesOn(Here, b), Finish(i, b),
           UNCHANGED <<nextseq, seq, open, member, page, spent>>
    PROVE  Base'
  <1>1. b \in Writers /\ (b.c.full => ~Writable(b.c))
    BY DEF GoesOn
  <1>2. /\ con' \in Conns /\ wire' = b.w /\ polls' = Without(i)
        /\ con'.full = b.c.full /\ (Writable(con') <=> Writable(b.c))
    BY <1>1, FinishDoes
  <1>3. wire' \in Seq(Frames) /\ FullIsOver'
    BY <1>1, <1>2 DEF Writers, FullIsOver
  <1>4. member' \in BOOLEAN /\ page' \in Pages /\ spent' \in Counts
    BY Types DEF Base, Counts
  <1> QED BY <1>2, <1>3, <1>4, WithoutIs, BaseFrom

\* The rows.
LEMMA PollRowsBase ==
    ASSUME Base, NEW i \in Nat, PollRows(i)
    PROVE  Base'
  <1>1. i \in DOMAIN polls /\ UNCHANGED <<nextseq, seq, open, member, page, spent>>
    BY DEF PollRows
  <1>2. CASE con.back
    <2> DEFINE r == [polls[i] EXCEPT !.pc = "count"]
    <2>1. /\ con' = [con EXCEPT !.back = FALSE] /\ polls' = [polls EXCEPT ![i].pc = "count"]
          /\ UNCHANGED wire
      BY <1>2 DEF PollRows
    <2>2. /\ con \in Conns /\ i \in 1..Len(polls) /\ polls[i] \in SoundPolls /\ Len(polls) <= MaxPolls
          /\ polls \in Seq(Polls) /\ DOMAIN polls = 1..Len(polls)
      BY <1>1, Types, PollsAreSound, ElementOfSeq DEF Base
    <2>3. con' \in Conns /\ con'.full = con.full /\ con'.st = con.st
      BY <2>1, <2>2 DEF Conns
    <2>4. r \in SoundPolls
      BY <2>2 DEF SoundPolls, Polls
    <2>5. polls' = [polls EXCEPT ![i] = r]
      BY <2>1, <2>2
    <2>6. polls' \in Seq(SoundPolls) /\ Len(polls') = Len(polls)
      <3> HIDE DEF r
      <3> QED BY <2>2, <2>4, <2>5, PollsAreSound, ExceptSeq
    <2>7. FullIsOver'
      BY <2>3 DEF Base, FullIsOver, Writable
    <2>8. member' \in BOOLEAN /\ page' \in Pages /\ spent' \in Counts /\ wire' \in Seq(Frames)
      BY <1>1, <2>1, Types DEF Base, Counts
    <2> QED BY <1>1, <2>2, <2>3, <2>6, <2>7, <2>8, BaseFrom
  <1>3. CASE ~con.back
    <2>1. PICK p : p = polls[i]
      OBVIOUS
    <2>2. PICK b : b = WriteRows(Here, p.rows)
      OBVIOUS
    <2>3. Finish(i, b)
      BY <1>3, <2>1, <2>2 DEF PollRows
    <2>4. /\ Here \in Writers /\ (Here.c.full => ~Writable(Here.c)) /\ p.rows \in Seq(Rows)
      BY <1>1, <2>1, Types, PollFields DEF Base, FullIsOver
    <2>5. GoesOn(Here, b)
      BY <2>2, <2>4, WriteAll
    <2> QED BY <1>1, <2>3, <2>5, FinishBase
  <1> QED BY <1>2, <1>3

\* A notice is a frame.
LEMMA NoticeType ==
    ASSUME NEW p \in SoundPolls
    PROVE  [kind |-> "backfill", n |-> BackfillNotice(p.rows),
            cut |-> IF p.cut THEN p.rows[1].s ELSE 0] \in Frames
  <1> DEFINE s == IF p.rows = <<>> THEN 0 ELSE p.rows[1].s
             c == IF p.cut THEN p.rows[1].s ELSE 0
  <1>1. p \in Polls /\ (p.cut => p.rows # <<>>) /\ p.rows \in Seq(Rows)
    BY PollFields DEF SoundPolls
  <1>2. p.rows # <<>> => p.rows[1].s \in Seqs
    <2> SUFFICES ASSUME p.rows # <<>> PROVE p.rows[1].s \in Seqs
      OBVIOUS
    <2>1. 1 \in DOMAIN p.rows
      BY <1>1
    <2> QED BY <1>1, <2>1, RowFields
  <1>3. s \in Seqs /\ c \in Seqs
    BY <1>1, <1>2, SeqsAreNat
  <1> HIDE DEF s, c
  <1>4. BackfillNotice(p.rows) \in Notices
    <2>1. BackfillNotice(p.rows) = [older |-> Total > Len(p.rows), oldest |-> s]
      BY DEF BackfillNotice, s
    <2>2. (Total > Len(p.rows)) \in BOOLEAN
      OBVIOUS
    <2> QED BY <1>3, <2>1, <2>2 DEF Notices
  <1>5. [kind |-> "backfill", n |-> BackfillNotice(p.rows), cut |-> c] \in Frames
    BY <1>3, <1>4 DEF Frames
  <1> QED BY <1>5 DEF c

\* The notice and the rows.
LEMMA PollCountBase ==
    ASSUME Base, NEW i \in Nat, PollCount(i)
    PROVE  Base'
  <1>1. PICK p : p = polls[i]
    OBVIOUS
  <1>2. PICK f : f = [kind |-> "backfill", n |-> BackfillNotice(p.rows),
                      cut |-> IF p.cut THEN p.rows[1].s ELSE 0]
    OBVIOUS
  <1>3. PICK a : a = SseWrite(Here, f)
    OBVIOUS
  <1>4. PICK b : b = WriteRows(a, p.rows)
    OBVIOUS
  <1>5. /\ i \in DOMAIN polls /\ Finish(i, b)
        /\ UNCHANGED <<nextseq, seq, open, member, page, spent>>
    BY <1>1, <1>2, <1>3, <1>4 DEF PollCount
  <1>6. p \in SoundPolls /\ p.rows \in Seq(Rows)
    BY <1>1, <1>5, Types, PollFields DEF Base, CutHasRows, SoundPolls
  <1>7. Here \in Writers /\ (Here.c.full => ~Writable(Here.c)) /\ f \in Frames
    BY <1>2, <1>6, Types, NoticeType DEF Base, FullIsOver
  <1>8. GoesOn(Here, a)
    BY <1>3, <1>7, WriteOne
  <1>9. a \in Writers /\ (a.c.full => ~Writable(a.c))
    BY <1>8 DEF GoesOn
  <1>10. GoesOn(a, b)
    BY <1>4, <1>6, <1>9, WriteAll
  <1>11. GoesOn(Here, b)
    BY <1>8, <1>10 DEF GoesOn
  <1> QED BY <1>5, <1>11, FinishBase

\* The steps that say nothing to the page.
LEMMA QuietBase ==
    ASSUME Base, Quiet, UNCHANGED <<nextseq, seq, open, member, page>>,
           spent' \in Counts, polls' \in Seq(SoundPolls), Len(polls') <= MaxPolls
    PROVE  Base'
  <1>1. con' \in Conns /\ wire' \in Seq(Frames) /\ FullIsOver'
    BY ConnectionTypes DEF Quiet
  <1>2. member' \in BOOLEAN /\ page' \in Pages
    BY Types DEF Base
  <1> QED BY <1>1, <1>2, BaseFrom

\* Whoever is silent leaves the polls, or ends one.
LEMMA SilentBase ==
    ASSUME Base,
           \/ \E i \in DOMAIN polls : PollFails(i)
           \/ Heartbeat \/ HeartbeatAnswer \/ Deadline
    PROVE  Base'
  <1>1. /\ polls \in Seq(SoundPolls) /\ Len(polls) <= MaxPolls /\ spent \in Counts
        /\ StreamTypeOK /\ FullIsOver
    BY PollsAreSound, Types DEF Base, Counts
  <1>2. ASSUME NEW i \in DOMAIN polls, PollFails(i) PROVE Base'
    <2>1. StreamFault /\ polls' = Without(i) /\ UNCHANGED <<nextseq, seq, open, member, page>>
      BY <1>2 DEF PollFails
    <2>2. Quiet
      BY <1>1, <1>2, PollFailsIsQuiet
    <2> QED BY <2>1, <2>2, CountFaultType, WithoutIs, QuietBase
  <1>3. CASE Heartbeat
    <2>1. StreamFault /\ UNCHANGED <<nextseq, seq, open, member, polls, page>>
      BY <1>3 DEF Heartbeat
    <2>2. Quiet
      BY <1>1, <1>3, HeartbeatIsQuiet
    <2> QED BY <1>1, <2>1, <2>2, CountFaultType, QuietBase
  <1>4. CASE HeartbeatAnswer
    <2>1. (UNCHANGED spent \/ StreamFault) /\ UNCHANGED <<nextseq, seq, open, member, polls, page>>
      BY <1>4 DEF HeartbeatAnswer
    <2>2. Quiet
      BY <1>1, <1>4, AnswerIsQuiet
    <2> QED BY <1>1, <2>1, <2>2, CountFaultType, QuietBase
  <1>5. CASE Deadline
    <2>1. StreamFault /\ UNCHANGED <<nextseq, seq, open, member, polls, page>>
      BY <1>5 DEF Deadline
    <2>2. Quiet
      BY <1>1, <1>5, DeadlineIsQuiet
    <2> QED BY <1>1, <2>1, <2>2, CountFaultType, QuietBase
  <1> QED BY <1>2, <1>3, <1>4, <1>5

\* The user leaves; the connection is closed.
LEMMA LeaveClosedBase ==
    ASSUME Base, LeaveThread \/ Closed
    PROVE  Base'
  <1>1. /\ polls \in Seq(SoundPolls) /\ Len(polls) <= MaxPolls /\ spent \in Counts
        /\ con \in Conns /\ page \in Pages /\ wire \in Seq(Frames) /\ member \in BOOLEAN
    BY PollsAreSound, Types DEF Base, Counts
  <1>2. CASE LeaveThread
    <2>1. member' = FALSE /\ UNCHANGED <<nextseq, seq, open, con, polls, wire, page, spent>>
      BY <1>2 DEF LeaveThread
    <2> QED BY <1>1, <2>1, BaseFrom DEF Base, FullIsOver
  <1>3. CASE Closed
    <2>1. /\ con' = [Closing(con) EXCEPT !.st = "shut"] /\ wire' = <<>>
          /\ UNCHANGED spent \/ StreamFault
          /\ UNCHANGED <<nextseq, seq, open, member, polls, page>>
      BY <1>3 DEF Closed
    <2>2. con' \in Conns /\ con'.st = "shut"
      BY <1>1, <2>1 DEF Conns, Closing
    <2>3. wire' \in Seq(Frames) /\ FullIsOver'
      BY <2>1, <2>2 DEF FullIsOver, Writable
    <2> QED BY <1>1, <2>1, <2>2, <2>3, CountFaultType, BaseFrom
  <1> QED BY <1>2, <1>3

\* The page's steps.
LEMMA PageBase ==
    ASSUME Base, UNCHANGED <<nextseq, seq, open, member, con, polls, wire>>,
           page' \in Pages, spent' \in Counts
    PROVE  Base'
  <1>1. /\ polls \in Seq(SoundPolls) /\ Len(polls) <= MaxPolls
        /\ con \in Conns /\ wire \in Seq(Frames) /\ member \in BOOLEAN
    BY PollsAreSound, Types DEF Base
  <1> QED BY <1>1, BaseFrom DEF Base, FullIsOver

\* What a frame changes.
LEMMA ReadBase ==
    ASSUME Base, ClientReads
    PROVE  Base'
  <1>1. /\ con'.st = con.st /\ con'.full = con.full /\ con' \in Conns
        /\ wire' \in Seq(Frames) /\ Head(wire) = wire[1] /\ 1 \in DOMAIN wire
        /\ UNCHANGED <<nextseq, seq, open, member, polls, spent>>
    BY ReadFacts DEF Base
  <1>2. /\ polls \in Seq(SoundPolls) /\ Len(polls) <= MaxPolls /\ spent \in Counts
        /\ page \in Pages /\ member \in BOOLEAN /\ wire[1] \in Frames
    BY <1>1, PollsAreSound, Types DEF Base, Counts
  <1>3. PICK f : f = wire[1]
    OBVIOUS
  <1>4. page' = CASE f.kind = "message"  -> Shows(f)
                  [] f.kind = "backfill" -> Notes(f)
                  [] OTHER -> page
    BY <1>1, <1>3 DEF ClientReads
  <1>5. CASE f.kind = "message"
    <2>1. f.m \in Msgs /\ f.s \in Seqs
      BY <1>2, <1>3, <1>5, FrameFields DEF IsMessage
    <2>2. Shows(f) \in Pages
      BY <1>2, <2>1 DEF Shows, Pages
    <2>3. page' \in Pages
      BY <1>4, <1>5, <2>2
    <2> QED BY <1>1, <1>2, <2>3, BaseFrom DEF Base, FullIsOver, Writable
  <1>6. CASE f.kind = "backfill"
    <2>1. f.n \in Notices /\ f.cut \in Seqs
      BY <1>2, <1>3, <1>6, FrameFields DEF IsNotice
    <2>2. Notes(f) \in Pages
      <3> DEFINE x == IF f.cut > page.floor THEN f.cut ELSE page.floor
                 y == page.crossed \/ page.load # "no"
      <3>1. x \in Seqs /\ y \in BOOLEAN
        BY <1>2, <2>1, PageFields
      <3>2. Notes(f) = [page EXCEPT !.notice = f.n, !.crossed = y, !.floor = x]
        BY DEF Notes
      <3> HIDE DEF x, y
      <3> QED BY <1>2, <2>1, <3>1, <3>2 DEF Pages
    <2>3. page' = Notes(f)
      BY <1>4, <1>6
    <2> QED BY <1>1, <1>2, <2>2, <2>3, BaseFrom DEF Base, FullIsOver, Writable
  <1>7. CASE f.kind # "message" /\ f.kind # "backfill"
    <2>1. page' = page
      BY <1>4, <1>7
    <2> QED BY <1>1, <1>2, <2>1, BaseFrom DEF Base, FullIsOver, Writable
  <1> QED BY <1>5, <1>6, <1>7

\* Older messages.
LEMMA OlderBase ==
    ASSUME Base, LoadOlder \/ OlderQuery \/ OlderShown
    PROVE  Base'
  <1>1. /\ page \in Pages /\ spent \in Counts /\ seq \in [Msgs -> Seqs]
        /\ page.notice \in Notices /\ page.notice.oldest \in Seqs
    BY Types, PageFields DEF Base, Counts, Notices
  <1>2. CASE LoadOlder
    <2>1. /\ page' = [page EXCEPT !.load = "ask", !.before = page.notice.oldest]
          /\ UNCHANGED <<nextseq, seq, open, member, con, polls, wire, spent>>
      BY <1>2 DEF LoadOlder
    <2>2. page' \in Pages
      BY <1>1, <2>1 DEF Pages
    <2> QED BY <1>1, <2>1, <2>2, PageBase
  <1>3. CASE OlderQuery
    <2> DEFINE R == {r \in RowsAbove(0) : r.s < page.before}
               W == Newest(R, Limit)
               more == Cardinality(R) > Limit
    <2>1. /\ \/ page' = [page EXCEPT !.load = "got", !.older = W, !.more = more]
             \/ page' = [page EXCEPT !.load = "no"]
          /\ UNCHANGED spent \/ StreamFault
          /\ UNCHANGED <<nextseq, seq, open, member, con, polls, wire>>
      BY <1>3 DEF OlderQuery
    <2>2. W \in SUBSET Rows /\ more \in BOOLEAN
      BY <1>1 DEF Newest, RowsAbove, Rows
    <2> HIDE DEF W, more
    <2>3. page' \in Pages
      <3>1. [page EXCEPT !.load = "got", !.older = W, !.more = more] \in Pages
        BY <1>1, <2>2 DEF Pages
      <3>2. [page EXCEPT !.load = "no"] \in Pages
        BY <1>1 DEF Pages
      <3> QED BY <2>1, <3>1, <3>2, Zenon
    <2>4. spent' \in Counts
      BY <1>1, <2>1, CountFaultType
    <2> QED BY <2>1, <2>3, <2>4, PageBase
  <1>4. CASE OlderShown
    <2>1. page' \in Pages /\ UNCHANGED <<nextseq, seq, open, member, con, polls, wire, spent>>
      BY <1>4, OlderShownDoes DEF Base
    <2> QED BY <1>1, <2>1, PageBase
  <1> QED BY <1>2, <1>3, <1>4
-----------------------------------------------------------------------------
(* The theorems.                                                            *)

\* Initially nothing has been written, read or left out.
LEMMA InitInv ==
    ASSUME StreamInit
    PROVE  StreamInv
  <1>1. /\ nextseq = 0 /\ seq = [m \in Msgs |-> 0] /\ open = {} /\ member = TRUE
        /\ con = NoStream /\ polls = <<>> /\ wire = <<>>
        /\ page = [shown |-> [m \in Msgs |-> 0], notice |-> [older |-> FALSE, oldest |-> 0],
                   last |-> 0, load |-> "no", before |-> 0, older |-> {}, more |-> FALSE,
                   floor |-> 0, late |-> {}, overlap |-> FALSE, crossed |-> FALSE]
        /\ spent = [conns |-> 0, faults |-> 0]
    BY DEF StreamInit
  <1>2. 0 \in Seqs /\ 0 \in 0..Threshold /\ 0 \in 0..MaxConns /\ 0 \in 0..MaxStreamFaults /\ 0 <= MaxPolls
    BY SeqsAreNat, StreamAssumption
  <1>3. con \in Conns
    BY <1>1, <1>2 DEF NoStream, Conns
  <1>4. page \in Pages
    BY <1>1, <1>2 DEF Pages, Notices
  <1>5. StreamTypeOK
    <2>1. polls \in Seq(Polls) /\ Len(polls) <= MaxPolls /\ wire \in Seq(Frames)
      BY <1>1, <1>2
    <2>2. nextseq \in Seqs /\ seq \in [Msgs -> Seqs] /\ open \subseteq Rows /\ member \in BOOLEAN
      BY <1>1, <1>2
    <2>3. spent \in [conns: 0..MaxConns, faults: 0..MaxStreamFaults]
      BY <1>1, <1>2
    <2> QED BY <1>3, <1>4, <2>1, <2>2, <2>3 DEF StreamTypeOK
  <1>6. ThreadInv
    BY <1>1 DEF ThreadInv
  <1>7. con.full = FALSE /\ con.st = "shut" /\ ~Writable(con) /\ DOMAIN polls = {} /\ DOMAIN wire = {}
    BY <1>1 DEF NoStream, Writable
  <1>8. Base
    BY <1>5, <1>6, <1>7 DEF Base, FullIsOver, CutHasRows
  <1>9. InOrder /\ NoticesAreTrue /\ Passed /\ OnePoll
    <2>1. Len(polls) <= 1
      BY <1>1
    <2> QED BY <1>1, <1>7, <2>1 DEF InOrder, NoticesAreTrue, Passed, OnePoll
  <1>10. /\ page.floor = 0 /\ page.last = 0 /\ page.load = "no" /\ page.more = FALSE
         /\ page.older = {} /\ \A m \in Msgs : seq[m] = 0
    BY <1>1
  <1>11. PageIsCurrent /\ HiddenBelow /\ Loading
    BY <1>10 DEF PageIsCurrent, Covered, HiddenBelow, Hidden, Loading
  <1>12. PageInv
    BY <1>10, <1>11 DEF PageInv, Seen
  <1> QED BY <1>8, <1>9, <1>12 DEF StreamInv, Good

\* Every step keeps what holds in any case.
LEMMA NextBase ==
    ASSUME Base, StreamNext
    PROVE  Base'
  <1>1. ASSUME NEW i \in 1..MaxPolls, PollStep(i) \/ PollFails(i) PROVE Base'
    <2>1. PollFails(i) => i \in DOMAIN polls
      BY DEF PollFails
    <2>2. i \in Nat
      BY StreamAssumption
    <2> QED BY <1>1, <2>1, <2>2, PollQueryBase, PollRowsBase, PollCountBase, SilentBase DEF PollStep
  <1> QED BY <1>1, ChangeBase, CommitBase, LeaveClosedBase, ConnectBase, PollTimerBase,
             SilentBase, ReadBase, OlderBase DEF StreamNext

\* Two polls that have been in flight together are not forgotten.
LEMMA OverlapStays ==
    ASSUME StreamTypeOK, StreamNext, page.overlap
    PROVE  page'.overlap
  <1>1. page \in Pages
    BY Types
  <1>2. UNCHANGED page => page'.overlap
    OBVIOUS
  <1>3. ASSUME NEW r \in open, Commit(r) PROVE page'.overlap
    BY <1>1, <1>3 DEF Commit, Pages
  <1>4. CASE PollTimer
    BY <1>1, <1>4 DEF PollTimer, Pages
  <1>5. CASE ClientReads
    <2>1. \A f : Shows(f).overlap = page.overlap /\ Notes(f).overlap = page.overlap
      BY <1>1 DEF Shows, Notes, Pages
    <2>2. page' = Shows(Head(wire)) \/ page' = Notes(Head(wire)) \/ page' = page
      BY <1>5 DEF ClientReads
    <2> QED BY <2>1, <2>2
  <1>6. CASE LoadOlder
    BY <1>1, <1>6 DEF LoadOlder, Pages
  <1>7. CASE OlderQuery
    BY <1>1, <1>7 DEF OlderQuery, Pages
  <1>8. CASE OlderShown
    BY <1>8, OlderShownDoes
  <1>9. ASSUME NEW m \in Msgs, Change(m) PROVE UNCHANGED page
    BY <1>9 DEF Change
  <1>10. ASSUME NEW from, Connect(from) PROVE UNCHANGED page
    BY <1>10 DEF Connect
  <1>11. ASSUME NEW i, PollStep(i) \/ PollFails(i) PROVE UNCHANGED page
    BY <1>11 DEF PollStep, PollQuery, PollRows, PollCount, PollFails
  <1>12. LeaveThread \/ Heartbeat \/ HeartbeatAnswer \/ Deadline \/ Closed => UNCHANGED page
    BY DEF LeaveThread, Heartbeat, HeartbeatAnswer, Deadline, Closed
  <1> QED BY <1>2, <1>3, <1>4, <1>5, <1>6, <1>7, <1>8, <1>9, <1>10, <1>11, <1>12 DEF StreamNext

\* A step that says nothing to the page keeps the rest.
LEMMA SilentKeeps ==
    ASSUME Base, StreamTypeOK', Good,
           \/ \E m \in Msgs : Change(m)
           \/ \E i \in DOMAIN polls : PollFails(i)
           \/ LeaveThread \/ Heartbeat \/ HeartbeatAnswer \/ Deadline
    PROVE  Good'
  <1>1. StreamTypeOK /\ FullIsOver
    BY DEF Base
  <1>2. UNCHANGED <<con, wire>> => Quiet
    <2> SUFFICES ASSUME UNCHANGED <<con, wire>> PROVE Quiet
      OBVIOUS
    <2>1. Here' = Here /\ GoesOn(Here, Here)
      BY <1>1, Types DEF Here, GoesOn, FullIsOver
    <2> QED BY <2>1 DEF Quiet
  <1>3. ASSUME NEW m \in Msgs, Change(m) PROVE Good'
    <2>1. UNCHANGED <<seq, con, polls, wire, page>>
      BY <1>3 DEF Change
    <2> QED BY <1>1, <1>2, <2>1, QuietKeeps
  <1>4. ASSUME NEW i \in DOMAIN polls, PollFails(i) PROVE Good'
    <2>1. polls' = Without(i) /\ UNCHANGED <<seq, page>>
      BY <1>4 DEF PollFails
    <2>2. Without(i) = <<>>
      BY <1>1, OnlyPoll DEF Good
    <2>3. Quiet
      BY <1>1, <1>4, PollFailsIsQuiet
    <2> QED BY <1>1, <2>1, <2>2, <2>3, QuietKeeps
  <1>5. CASE LeaveThread
    <2>1. UNCHANGED <<seq, con, polls, wire, page>>
      BY <1>5 DEF LeaveThread
    <2> QED BY <1>1, <1>2, <2>1, QuietKeeps
  <1>6. CASE Heartbeat \/ HeartbeatAnswer \/ Deadline
    <2>1. UNCHANGED <<seq, polls, page>>
      BY <1>6 DEF Heartbeat, HeartbeatAnswer, Deadline
    <2>2. Quiet
      BY <1>1, <1>6, HeartbeatIsQuiet, AnswerIsQuiet, DeadlineIsQuiet
    <2> QED BY <1>1, <2>1, <2>2, QuietKeeps
  <1> QED BY <1>3, <1>4, <1>5, <1>6

\* Every step keeps the rest, unless two polls are in flight after it.
LEMMA NextGood ==
    ASSUME Base, Base', Good, StreamNext, ~page.overlap, ~page'.overlap
    PROVE  Good'
  <1>1. StreamTypeOK /\ ThreadInv /\ FullIsOver /\ CutHasRows /\ StreamTypeOK' /\ ThreadInv'
    BY DEF Base
  <1>2. ASSUME NEW i \in 1..MaxPolls, PollStep(i) \/ PollFails(i) PROVE Good'
    <2>1. PollFails(i) => i \in DOMAIN polls
      BY DEF PollFails
    <2>2. i \in Nat
      BY StreamAssumption
    <2>3. CASE PollFails(i)
      BY <1>1, <2>1, <2>3, SilentKeeps
    <2>4. CASE PollQuery(i)
      BY <1>1, <2>2, <2>4, PollQueryKeeps
    <2>5. CASE PollRows(i)
      BY <1>1, <2>2, <2>5, PollRowsKeeps, ToCountKeeps
    <2>6. CASE PollCount(i)
      BY <1>1, <2>2, <2>6, PollCountKeeps
    <2> QED BY <1>2, <2>3, <2>4, <2>5, <2>6 DEF PollStep
  <1>3. CASE ClientReads
    BY <1>1, <1>3, ReadMessage, ReadNotice, ReadOther
  <1>4. ASSUME NEW r \in open, Commit(r) PROVE Good'
    BY <1>1, <1>4, CommitKeeps
  <1>5. CASE LoadOlder \/ OlderQuery \/ OlderShown
    BY <1>1, <1>5, LoadOlderKeeps, OlderQueryKeeps, OlderShownKeeps
  <1>6. CASE PollTimer \/ Closed
    BY <1>1, <1>6, PollTimerKeeps, ClosedKeeps
  <1>7. ASSUME NEW from, Connect(from) PROVE Good'
    BY <1>1, <1>7, ConnectKeeps
  <1>8. CASE (\E m \in Msgs : Change(m)) \/ LeaveThread \/ Heartbeat \/ HeartbeatAnswer \/ Deadline
    BY <1>1, <1>8, SilentKeeps
  <1> QED BY <1>2, <1>3, <1>4, <1>5, <1>6, <1>7, <1>8 DEF StreamNext

\* routes/chat.ts, sse-writer.ts, chat-backfill.ts, ChatView.tsx: the invariant of the
\* stream.  In every state the types are right, a full writer has ended, and no change
\* is numbered twice; and until two polls have been in flight together, every message up
\* to the cursor is on its way to the page, or on it, or announced as left out.
THEOREM StreamInvariant == StreamSpec => []StreamInv
  <1>1. StreamInit => StreamInv
    BY InitInv
  <1>2. StreamInv /\ [StreamNext]_streamVars => StreamInv'
    <2> SUFFICES ASSUME StreamInv, [StreamNext]_streamVars PROVE StreamInv'
      OBVIOUS
    <2>1. Base /\ (~page.overlap => Good)
      BY DEF StreamInv
    <2>2. CASE StreamNext
      <3>1. Base'
        BY <2>1, <2>2, NextBase
      <3>2. ~page'.overlap => ~page.overlap
        BY <2>1, <2>2, OverlapStays DEF Base
      <3>3. ~page'.overlap => Good'
        BY <2>1, <2>2, <3>1, <3>2, NextGood
      <3> QED BY <3>1, <3>3 DEF StreamInv
    <2>3. CASE UNCHANGED streamVars
      <3>1. Base'
        BY <2>1, <2>3 DEF streamVars, Base, StreamTypeOK, ThreadInv, FullIsOver, CutHasRows
      <3>2. ~page.overlap => Good'
        <4> SUFFICES ASSUME Good PROVE Good'
          BY <2>1
        <4>1. StreamTypeOK /\ StreamTypeOK' /\ FullIsOver /\ UNCHANGED <<seq, con, polls, wire, page>>
          BY <2>1, <2>3, <3>1 DEF Base, streamVars
        <4>2. Here' = Here /\ GoesOn(Here, Here)
          BY <4>1, Types DEF Here, GoesOn, FullIsOver
        <4>3. Quiet
          BY <4>1, <4>2 DEF Quiet
        <4> QED BY <4>1, <4>3, QuietKeeps
      <3>3. page' = page
        BY <2>3 DEF streamVars
      <3> QED BY <3>1, <3>2, <3>3 DEF StreamInv
    <2> QED BY <2>2, <2>3
  <1> QED BY <1>1, <1>2, PTL DEF StreamSpec

\* The types of the stream.
THEOREM StreamTypeCorrect == StreamSpec => []StreamTypeOK
  <1>1. StreamInv => StreamTypeOK
    BY DEF StreamInv, Base
  <1> QED BY <1>1, StreamInvariant, PTL

\* chat.ts, chat-backfill.ts, ChatView.tsx: whatever the order of changes and commits,
\* failed polls, pauses, a full writer, ends and reconnections, what the page shows of
\* the messages it has read past is their current version, and what a cut replay left
\* out is announced; for any number of messages, any limits and any bounds.
THEOREM PagesAreTrue == StreamSpec => []PageIsTrue
  <1>1. StreamInv => PageIsTrue
    <2> SUFFICES ASSUME StreamInv PROVE PageIsTrue
      OBVIOUS
    <2>1. CASE page.overlap
      BY <2>1 DEF PageIsTrue, PageIsCurrent, HiddenIsAnnounced
    <2>2. CASE ~page.overlap
      <3>1. PageInv
        BY <2>2 DEF StreamInv, Good
      <3>2. PageIsCurrent
        BY <3>1 DEF PageInv
      <3>3. HiddenIsAnnounced
        BY <3>1 DEF PageInv, HiddenBelow, Hidden, HiddenIsAnnounced
      <3> QED BY <3>2, <3>3 DEF PageIsTrue
    <2> QED BY <2>1, <2>2
  <1> QED BY <1>1, StreamInvariant, PTL
=============================================================================
