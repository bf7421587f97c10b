------------------------------- MODULE Relays --------------------------------
(***************************************************************************)
(* The long-lived connections of the API, one of them followed here:       *)
(*   "terminal"  a browser's WebSocket relayed to the shell in an agent's  *)
(*               container: services/terminal-proxy.ts, its pumps in       *)
(*               services/relay-backpressure.ts, the other end in agentbox *)
(*               (ws_terminal.py) and the page (ui chat/XTerminal.tsx);    *)
(*   "logs"      GET /agents/:id/logs?follow=true   (routes/agents.ts);    *)
(*   "events"    GET /agents/:id/events?follow=true (routes/agents.ts);    *)
(*   "thread"    GET /chat/threads/:id/events?follow=true (routes/chat.ts),*)
(*               one container stream per running agent of the thread;     *)
(*   "install"   a tool put into a container by commands run over docker's *)
(*               exec stream, with a timeout and a retry, at start or by   *)
(*               POST /agents/:id/reconcile-tools (tool-installer.ts).     *)
(*                                                                         *)
(* What flows is counted, not modelled; an await is a step boundary.       *)
(***************************************************************************)
EXTENDS Naturals, FiniteSets

CONSTANTS
    Agents,       \* running agents of the thread
    High,         \* high-water mark, in messages
    Cap,          \* hard cap
    MaxRetries,   \* maxReconnects of the page
    Tries,        \* attempts at an installation
    MaxConns,     \* bound: connections, one after the other
    MaxFaults,    \* bound: revocations, refusals, errors, lost connections
    MaxInstalls   \* bound: installations, and their faults

ASSUME RelayAssumption ==
    /\ Agents # {} /\ High \in Nat \ {0} /\ Cap \in Nat /\ High < Cap
    /\ MaxRetries \in Nat /\ Tries \in Nat \ {0} /\ MaxConns \in Nat /\ MaxFaults \in Nat /\ MaxInstalls \in Nat

VARIABLES kind, t, l, x, used
vars == <<kind, t, l, x, used>>
-----------------------------------------------------------------------------
Kinds == {"terminal", "logs", "events", "thread", "install"}
Sides == {"agent", "client"}                  \* a side is the source of one pump
Other(s) == IF s = "agent" THEN "client" ELSE "agent"
Sockets == {"none", "connecting", "open", "closing", "closed"}
Codes == {"none", "plain", "1011", "1001", "4002", "4003", "4004"}

Terminals == [sock: [Sides -> Sockets],
              q: [Sides -> 0..(Cap + 1)],     \* bufferedAmount of the other side
              hold: SUBSET Sides,             \* sockets that are not read: _socket.pause()
              timer: SUBSET Sides,            \* resumeTimer of the pump
              over: SUBSET Sides,             \* overflowed
              armed: BOOLEAN,                 \* pingInterval and expiryTimer
              shell: {"none", "alive", "dead"},
              code: Codes,                    \* the close code the page is sent
              page: {"on", "retry", "stop"}, mounted: BOOLEAN, retries: 0..MaxRetries,
              early: BOOLEAN]                 \* history: closed before the agent answered
Streams == {"none", "live", "dead"}
Logs == [pc: {"none", "lookup", "backfill", "exec", "live", "done"},
         res: {"open", "ended", "gone"},
         reg: BOOLEAN,                        \* req.on('close', cleanup) was reached
         closed: BOOLEAN, todo: SUBSET Agents,
         src: [Agents -> Streams], paused: SUBSET Agents, waiting: BOOLEAN,
         timers: BOOLEAN, q: 0..(Cap + 2), over: BOOLEAN,
         tails: SUBSET Agents,                \* containers in which a 'tail -f' nobody reads goes on
         early: BOOLEAN]                      \* history: gone before cleanup was registered
Installers == {"first", "second"}             \* requests that install the tool at once
Commands == Installers \X (1..Tries)          \* the script of an attempt
Installs == [row: {"none", "installing", "installed", "failed"},   \* agent_tool_installs
             pc: [Installers -> {"none", "check", "script", "wait", "good", "bad"}], try: [Installers -> 1..Tries],
             cmd: [Commands -> {"none", "tar", "cp", "copying", "rm", "ok", "bad"}],
             tmp: BOOLEAN,                    \* /tmp/hill90-tools is unpacked
             bin: {"none", "partial", "whole"},       \* /data/tools/bin, on a volume
             torn: BOOLEAN,                   \* history: a copy was cut off
             lost: BOOLEAN]                   \* history: the end of an installation was not written

NewTerminal == [sock |-> [s \in Sides |-> "none"], q |-> [s \in Sides |-> 0], hold |-> {},
                timer |-> {}, over |-> {}, armed |-> FALSE, shell |-> "none", code |-> "none",
                page |-> "on", mounted |-> TRUE, retries |-> 0, early |-> FALSE]
NewLog == [pc |-> "none", res |-> "gone", reg |-> FALSE, closed |-> FALSE, todo |-> {},
           src |-> [a \in Agents |-> "none"], paused |-> {}, waiting |-> FALSE,
           timers |-> FALSE, q |-> 0, over |-> FALSE, tails |-> {}, early |-> FALSE]

NewInstall == [row |-> "none", pc |-> [i \in Installers |-> "none"], try |-> [i \in Installers |-> 1],
               cmd |-> [c \in Commands |-> "none"], tmp |-> FALSE, bin |-> "none", torn |-> FALSE,
               lost |-> FALSE]

TypeOK ==
    /\ kind \in Kinds /\ t \in Terminals /\ l \in Logs /\ x \in Installs
    /\ used \in [conns: 0..MaxConns, faults: 0..MaxFaults]

Init ==
    /\ kind \in Kinds /\ t = NewTerminal /\ l = NewLog /\ x = NewInstall
    /\ used = [conns |-> 0, faults |-> 0]

CountFault == used.faults < MaxFaults /\ used' = [used EXCEPT !.faults = @ + 1]
CountConn == used.conns < MaxConns /\ used' = [used EXCEPT !.conns = @ + 1]
-----------------------------------------------------------------------------
(* Terminal: the pumps.                                                     *)

Terminal == kind = "terminal" /\ UNCHANGED <<kind, l, x>>
IsOpen(r, s) == r.sock[s] = "open"

Close(r, s) == IF IsOpen(r, s) THEN [r EXCEPT !.sock[s] = "closing"] ELSE r
CloseClient(r, code) == IF IsOpen(r, "client")
                        THEN [Close(r, "client") EXCEPT !.code = code] ELSE r
\* the functions pumpWithBackpressure returns: a source is never left paused
StopPumps(r) == [r EXCEPT !.timer = {}, !.hold = {}]
\* cleanupAll closes what is open; a socket that is still connecting is not
CleanupAll(r) ==
    LET out == CloseClient([StopPumps(r) EXCEPT !.armed = FALSE], "plain")
    IN  [Close(out, "agent") EXCEPT !.early = @ \/ r.sock["agent"] = "connecting"]

\* from.on('message'): sent, then the queue is looked at
Marks(r, s) ==
    IF r.q[s] > Cap
    THEN CleanupAll(CloseClient([r EXCEPT !.over = @ \cup {s}, !.timer = @ \ {s}], "4003"))
    ELSE IF r.q[s] > High /\ s \notin r.hold
         THEN [r EXCEPT !.hold = @ \cup {s}, !.timer = @ \cup {s}] ELSE r
Speaks(s) == IF s = "agent" THEN t.shell = "alive" ELSE t.mounted
Sent(r, s) == IF IsOpen(r, s) /\ IsOpen(r, Other(s)) /\ s \notin r.over
              THEN Marks([r EXCEPT !.q[s] = @ + 1], s) ELSE r
\* one read of the socket may hold two messages: pausing it stops the next read
Message(s) ==
    /\ Terminal
    /\ IsOpen(t, s) /\ Speaks(s) /\ s \notin t.hold
    /\ IsOpen(t, Other(s)) /\ s \notin t.over
    /\ t' \in {Sent(t, s), Sent(Sent(t, s), s)}
    /\ UNCHANGED used

\* the resume timer of a paused source: its peer has read enough, or is gone
Mark == High \div 2
\* Mut: strictly below half of the mark
MutBelowHalf(r, s) == r.q[s] < Mark
LowEnough(r, s) == r.q[s] <= Mark
ResumeTimer(s) ==
    /\ Terminal
    /\ s \in t.timer
    /\ LowEnough(t, s) \/ ~IsOpen(t, Other(s))
    /\ t' = [t EXCEPT !.hold = @ \ {s}, !.timer = @ \ {s}]
    /\ UNCHANGED used

\* the peer reads a message
PeerReads(s) ==
    /\ Terminal
    /\ t.q[s] > 0 /\ t.sock[Other(s)] \in {"open", "closing"}
    /\ t' = [t EXCEPT !.q[s] = @ - 1]
    /\ UNCHANGED used
-----------------------------------------------------------------------------
(* Terminal: the session.                                                   *)

\* 'upgrade': origin, token, deadline, participation and a running agent are
\* checked; then the client is open and the agent's socket is connecting
Upgrade ==
    /\ Terminal
    /\ t.sock["client"] \in {"none", "closed"} /\ t.sock["agent"] \in {"none", "closed"}
    /\ t.sock["client"] = "none" \/ t.page = "retry"
    /\ t.shell # "alive"
    /\ CountConn
    /\ t' = [NewTerminal EXCEPT !.sock = [s \in Sides |-> IF s = "client" THEN "open" ELSE "connecting"],
                 !.armed = TRUE, !.mounted = t.mounted]      \* ws.onopen: retries := 0

\* a retry that is refused: origin, token, participation, a running agent
Refused == t.page = "retry" /\ CountFault
\* the page counts it, as it does a retry that finds no token
RetryFails ==
    /\ Terminal
    /\ Refused
    /\ t' = [t EXCEPT !.page = IF t.retries < MaxRetries THEN "retry" ELSE "stop",
                      !.retries = IF @ < MaxRetries THEN @ + 1 ELSE @]

\* agentbox accepts and forks a shell; or answers 403 ('unexpected-response');
\* or is not there ('error')
AgentAnswers ==
    /\ Terminal
    /\ t.sock["agent"] = "connecting"
    /\ \/ t' = [t EXCEPT !.sock["agent"] = "open", !.shell = "alive"] /\ UNCHANGED used
       \/ CountFault /\ t' = CloseClient([t EXCEPT !.sock["agent"] = "closed"], "1011")
       \/ CountFault /\ t' = CleanupAll([t EXCEPT !.sock["agent"] = "closed"])

\* ws.onclose in the page: these codes end the session, others are retried
Ends(code) == code \in {"4002", "4004"}
Learns(r) == IF Ends(r.code) THEN [r EXCEPT !.page = "stop"]
             ELSE IF r.retries < MaxRetries THEN [r EXCEPT !.page = "retry", !.retries = @ + 1]
             ELSE [r EXCEPT !.page = "stop"]
Gone(r, s) == LET out == CleanupAll([r EXCEPT !.sock[s] = "closed"])
              IN  IF s = "client" THEN Learns(out) ELSE out

\* 'close' after close(): the peer answers, or ws gives up after its timeout
CloseCompletes(s) ==
    /\ Terminal
    /\ t.sock[s] = "closing"
    /\ t' = Gone(t, s)
    /\ UNCHANGED used

\* the other end goes away: noticed only by a socket that is read
PeerGone(s) ==
    /\ Terminal
    /\ IsOpen(t, s) /\ s \notin t.hold
    /\ \/ CountFault
       \/ s = "agent" /\ t.shell = "dead" /\ UNCHANGED used    \* ws_terminal closes 1011
    /\ t' = Gone(t, s)

\* the user leaves the page: the cleanup closes the first socket only, and a
\* close without a code is retried
PageLeaves ==
    /\ Terminal
    /\ t.mounted /\ IsOpen(t, "client")
    /\ t' = IF used.conns = 1 THEN [Close(t, "client") EXCEPT !.mounted = FALSE, !.code = "plain"]
            ELSE [t EXCEPT !.mounted = FALSE]
    /\ UNCHANGED used

\* the ping tick finds the user out of the thread; the credential runs out
Ended(code) ==
    /\ Terminal
    /\ t.armed
    /\ CountFault
    /\ t' = CleanupAll(CloseClient(t, code))

\* closeAllSessions at shutdown, then the process exits
Shutdown ==
    /\ Terminal
    /\ IsOpen(t, "client")
    /\ CountFault
    /\ t' = CloseClient(t, "1001")
ProcessExits ==
    /\ Terminal
    /\ t.code = "1001" /\ \E s \in Sides : t.sock[s] \notin {"none", "closed"}
    /\ t' = [t EXCEPT !.sock = [s \in Sides |-> "closed"], !.armed = FALSE, !.timer = {}, !.hold = {},
                      !.page = IF t.sock["client"] = "closed" THEN @ ELSE "retry"]
    /\ UNCHANGED used

\* agentbox: the shell ends by itself; or the socket is gone, and it is killed
ShellExits ==
    /\ Terminal
    /\ t.shell = "alive"
    /\ CountFault
    /\ t' = [t EXCEPT !.shell = "dead"]
\* Mut: the handler leaves its loop without killing the shell
MutLeaveShell(st) == st
Killed(st) == "dead"
HandlerEnds ==
    /\ Terminal
    /\ t.shell = "alive" /\ t.sock["agent"] \in {"closing", "closed"}
    /\ t' = [t EXCEPT !.shell = Killed(@)]
    /\ UNCHANGED used
-----------------------------------------------------------------------------
(* Streams of a container's log, as events of a response.                   *)

Log == kind \notin {"terminal", "install"} /\ UNCHANGED <<kind, t, x>>
LiveOf(r) == {a \in Agents : r.src[a] = "live"}
\* What a route destroys is docker's own stream for "logs"; the others hold the
\* transform that docker's stream is piped into: destroying it unpipes it and
\* ends neither the socket nor the 'tail -f' in the container.
Left(A) == IF kind = "logs" THEN {} ELSE A
Destroyed(r) == [r EXCEPT !.src = [a \in Agents |-> IF @[a] = "live" THEN "dead" ELSE @[a]],
                          !.paused = {}, !.tails = @ \cup Left(LiveOf(r))]
Cleanup(r) == [Destroyed(r) EXCEPT !.closed = TRUE, !.timers = FALSE]
EndRes(r) == IF r.res = "open" THEN [r EXCEPT !.res = "ended"] ELSE r

\* the writer: above the cap the route's onOverflow, below it the pause
Overflow(r) == EndRes([Cleanup(r) EXCEPT !.closed = IF kind = "thread" THEN TRUE ELSE r.closed,
                                         !.over = TRUE])
SseWrite(r) ==
    IF r.over \/ r.res # "open" THEN r
    ELSE IF r.q > Cap THEN Overflow(r)
    ELSE [r EXCEPT !.q = @ + 1,
                   !.paused = IF r.q + 1 > High /\ ~r.waiting THEN LiveOf(r) ELSE @,
                   !.waiting = @ \/ r.q + 1 > High]

\* the queries that come first: nobody listens for 'close' yet
LogOpen ==
    /\ Log
    /\ l.pc \in {"none", "done"} /\ l.res = "gone" /\ LiveOf(l) = {} /\ ~l.timers
    /\ CountConn
    /\ l' = [NewLog EXCEPT !.pc = "lookup", !.res = "open", !.tails = l.tails]

\* "events" replays the model calls before it registers its cleanup
Registers(r) == [r EXCEPT !.reg = TRUE, !.pc = "exec"]
LogLookup ==
    /\ Log
    /\ l.pc = "lookup"
    /\ \E A \in SUBSET Agents :
          /\ A # {} /\ (kind # "thread" => Cardinality(A) = 1)
          /\ l' = IF kind = "events" THEN [l EXCEPT !.pc = "backfill", !.todo = A]
                  ELSE Registers([l EXCEPT !.todo = A])
    /\ UNCHANGED used
LogBackfill ==
    /\ Log
    /\ l.pc = "backfill"
    /\ l' = Registers(IF l.res = "open" /\ l.q <= Cap THEN [l EXCEPT !.q = @ + 1] ELSE l)
    /\ UNCHANGED used

\* after the stream, or all of them: "events" polls, "thread" has two timers
Started(r) == [r EXCEPT !.pc = "live",
                        !.timers = \/ kind = "events"
                                   \/ kind = "thread" /\ r.res = "open"]
\* execInContainer / getContainerLogs: 'closed' is looked at again after it
\* Mut: it is not looked at again
MutAdopt(r, a) == [r EXCEPT !.src[a] = "live"]
Adopt(r, a) == IF r.closed THEN [r EXCEPT !.src[a] = "dead", !.tails = @ \cup Left({a})]
               ELSE [r EXCEPT !.src[a] = "live"]
LogExec(a) ==
    LET out == [Adopt(l, a) EXCEPT !.todo = @ \ {a}] IN
    /\ Log
    /\ l.pc = "exec" /\ a \in l.todo
    /\ l' = IF l.closed THEN [out EXCEPT !.pc = "done", !.todo = {}]
            ELSE IF out.todo = {} THEN Started(out) ELSE out
    /\ UNCHANGED used
LogExecFails(a) ==
    LET out == [l EXCEPT !.todo = @ \ {a}] IN
    /\ Log
    /\ l.pc = "exec" /\ a \in l.todo
    /\ CountFault
    /\ l' = IF kind # "thread" THEN [EndRes(out) EXCEPT !.pc = "done"]
            ELSE IF l.closed THEN [out EXCEPT !.pc = "done", !.todo = {}]
            ELSE IF out.todo = {} THEN Started(out) ELSE out

\* stream 'data'
LogData(a) ==
    /\ Log
    /\ l.src[a] = "live" /\ a \notin l.paused /\ l.res = "open"
    /\ l' = SseWrite(l)
    /\ UNCHANGED used

\* stream 'end' and 'error' (the container stops): one agent of a thread may
\* stop without the others
LogStops(a) ==
    LET dead == [l EXCEPT !.src[a] = "dead", !.paused = @ \ {a}] IN
    /\ Log
    /\ l.src[a] = "live"
    /\ CountFault
    /\ l' = IF kind = "thread" THEN SseWrite(dead) ELSE EndRes([dead EXCEPT !.timers = FALSE])
\* a line of an event log that does not end: the stream is destroyed
LogLineTooLong ==
    /\ Log
    /\ kind = "events" /\ LiveOf(l) # {} /\ l.res = "open"
    /\ CountFault
    /\ l' = EndRes([Destroyed(l) EXCEPT !.timers = FALSE])
\* the container stops, and what still ran in it
TailStops(a) ==
    /\ Log
    /\ a \in l.tails
    /\ CountFault
    /\ l' = [l EXCEPT !.tails = @ \ {a}]

\* the poll of model calls, the refresh of message ids, the heartbeat; they are
\* seconds apart: finding the client still reading is counted
LogTimer ==
    /\ Log
    /\ l.timers /\ l.res = "open"
    /\ l' = SseWrite(l)
    /\ IF l.waiting THEN CountFault ELSE UNCHANGED used
LogRevoked ==
    /\ Log
    /\ kind = "thread" /\ l.timers /\ l.res = "open"
    /\ CountFault
    /\ l' = Cleanup(EndRes(l))
LogDeadline ==
    /\ Log
    /\ l.res = "open" /\ l.pc # "lookup"
    /\ CountFault
    /\ l' = EndRes(l)

\* the client reads; an empty socket is a 'drain', which resumes the streams
\* Mut: 'drain' resumes nothing
MutStayPaused(r) == [r EXCEPT !.waiting = FALSE]
Drain(r) == IF r.over THEN r ELSE [r EXCEPT !.waiting = FALSE, !.paused = {}]
LogRead ==
    /\ Log
    /\ l.q > 0 /\ l.res # "gone"
    /\ LET r == [l EXCEPT !.q = @ - 1] IN l' = IF r.q = 0 THEN Drain(r) ELSE r
    /\ UNCHANGED used

\* req 'close': after the end, or the client leaves; only a listener that is
\* there hears it
LogGone ==
    /\ Log
    /\ \/ l.res = "ended" /\ l.q = 0 /\ UNCHANGED used
       \/ l.res # "gone" /\ CountFault
    /\ LET r == [l EXCEPT !.res = "gone", !.q = 0] IN
       l' = IF l.reg THEN [Cleanup(r) EXCEPT !.pc = IF @ = "exec" THEN "exec" ELSE "done"]
            ELSE [r EXCEPT !.early = TRUE]
-----------------------------------------------------------------------------
(* Installing a tool.                                                       *)

Install == kind = "install" /\ UNCHANGED <<kind, t, l>>
CountInstall == used.conns < MaxInstalls /\ CountConn
CountLost == used.faults < MaxInstalls /\ CountFault
Current(i) == <<i, x.try[i]>>
Done(i, row) == x' = [x EXCEPT !.row = row, !.pc[i] = "none"]
\* ensureRequiredToolsInstalled, reconcileToolInstalls: the latter runs beside
\* others and leaves alone what is recorded as installed (bound: two requests,
\* one of them after the other has no command left)
InstallBegin(i) ==
    /\ Install
    /\ x.pc[i] = "none" /\ \A n \in 1..Tries : x.cmd[<<i, n>>] = "none"
    /\ x.row = "installed" => \A j \in Installers : x.pc[j] = "none"
    /\ CountInstall
    /\ x' = [x EXCEPT !.row = "installing", !.pc[i] = "check", !.try[i] = 1, !.lost = FALSE]
\* only the request that waits for a command learns how it ended
Waits(i) == x.pc[i] = "wait"
Result(c, st) == IF Waits(c[1]) /\ c = Current(c[1]) THEN st ELSE "none"
Unheard(st) == IF st \in {"ok", "bad"} THEN "none" ELSE st
\* an attempt threw: the catch records the next one, or 'failed'; when that
\* statement throws too, nothing records the end of this installation
AttemptFails(i) == x' = [x EXCEPT !.pc[i] = "bad", !.cmd[Current(i)] = Unheard(@)]
InstallFailed(i) ==
    /\ Install
    /\ x.pc[i] = "bad"
    /\ \/ /\ x.try[i] < Tries
          /\ x' = [x EXCEPT !.row = "installing", !.pc[i] = "check", !.try[i] = @ + 1]
          /\ UNCHANGED used
       \/ x.try[i] = Tries /\ Done(i, "failed") /\ UNCHANGED used
       \/ CountLost /\ x' = [x EXCEPT !.pc[i] = "none", !.lost = TRUE]
\* test -x: what is there is not installed again; its exec may throw or time
\* out; and a download fails (a host that is not listed, too many redirects)
Runs == x.bin # "none"
InstallCheck(i) ==
    /\ Install
    /\ x.pc[i] = "check"
    /\ \/ x' = [x EXCEPT !.pc[i] = IF Runs THEN "good" ELSE "script"] /\ UNCHANGED used
       \/ AttemptFails(i) /\ CountLost
\* execWithStdin
InstallScript(i) ==
    /\ Install
    /\ x.pc[i] = "script"
    /\ x' = [x EXCEPT !.pc[i] = "wait", !.cmd[Current(i)] = "tar"]
    /\ UNCHANGED used
\* binaryInstallScript, under set -e: tar, cp, chmod, rm (its stdin may be cut)
CommandStep(c) ==
    /\ Install
    /\ x' = CASE x.cmd[c] = "tar" -> [x EXCEPT !.cmd[c] = "cp", !.tmp = TRUE]
              [] x.cmd[c] = "cp" /\ x.tmp -> [x EXCEPT !.cmd[c] = "copying", !.bin = "partial"]
              [] x.cmd[c] = "cp" /\ ~x.tmp -> [x EXCEPT !.cmd[c] = Result(c, "bad")]
              [] x.cmd[c] = "copying" -> [x EXCEPT !.cmd[c] = "rm", !.bin = "whole"]
              [] x.cmd[c] = "rm" -> [x EXCEPT !.cmd[c] = Result(c, "ok"), !.tmp = FALSE]
              [] OTHER -> x
    /\ x.cmd[c] \notin {"none", "ok", "bad"} /\ UNCHANGED used
CommandFails(c) ==
    /\ Install
    /\ x.cmd[c] \in {"tar", "cp", "copying"}
    /\ CountLost
    /\ x' = [x EXCEPT !.cmd[c] = Result(c, "bad"), !.torn = @ \/ x.cmd[c] = "copying"]
\* the stream ended; a command that still runs has no exit code: ExitCode ?? 1
\* Mut: ExitCode ?? 0
MutNullIsZero(st) == st # "bad"
ExitsWell(st) == st = "ok"
StreamEnds(i) ==
    LET st == x.cmd[Current(i)] IN
    /\ Install
    /\ Waits(i)
    /\ IF st \in {"ok", "bad"} THEN UNCHANGED used ELSE CountLost
    /\ IF ExitsWell(st) THEN x' = [x EXCEPT !.pc[i] = "good", !.cmd[Current(i)] = "none"] ELSE AttemptFails(i)
\* the timer: the stream is destroyed, the command goes on
\* Mut: no timer
MutNoTimer(i) == FALSE
TimerArmed(i) == Waits(i)
CommandTimesOut(i) ==
    /\ Install
    /\ TimerArmed(i)
    /\ AttemptFails(i)
    /\ UNCHANGED used
\* the statement that records it is inside the attempt's try
InstallDone(i) ==
    /\ Install
    /\ x.pc[i] = "good"
    /\ \/ Done(i, "installed") /\ UNCHANGED used
       \/ AttemptFails(i) /\ CountLost
\* the API dies; what runs in the container goes on
InstallerCrash ==
    /\ Install
    /\ \E i \in Installers : x.pc[i] # "none"
    /\ CountLost
    /\ x' = [x EXCEPT !.pc = [i \in Installers |-> "none"], !.lost = TRUE,
                      !.cmd = [c \in Commands |-> Unheard(@[c])]]
\* the container stops; the volume stays
ContainerStops ==
    /\ Install
    /\ \E c \in Commands : x.cmd[c] \notin {"none", "ok", "bad"}
    /\ CountLost
    /\ x' = [x EXCEPT !.tmp = FALSE, !.cmd = [c \in Commands |-> IF @[c] \in {"none", "ok"} THEN @[c] ELSE Result(c, "bad")],
                      !.torn = @ \/ \E c \in Commands : x.cmd[c] = "copying"]
InstallSteps(i) == \/ InstallCheck(i) \/ InstallScript(i) \/ StreamEnds(i) \/ CommandTimesOut(i)
                   \/ InstallDone(i) \/ InstallFailed(i)
-----------------------------------------------------------------------------
Next ==
    \/ Upgrade \/ RetryFails \/ AgentAnswers \/ PageLeaves \/ Shutdown \/ ProcessExits
    \/ ShellExits \/ HandlerEnds \/ Ended("4002") \/ Ended("4004")
    \/ \E s \in Sides : Message(s) \/ ResumeTimer(s) \/ PeerReads(s) \/ CloseCompletes(s) \/ PeerGone(s)
    \/ LogOpen \/ LogLookup \/ LogBackfill \/ LogTimer \/ LogRevoked \/ LogDeadline \/ LogRead \/ LogGone
    \/ \E a \in Agents : LogExec(a) \/ LogExecFails(a) \/ LogData(a) \/ LogStops(a) \/ TailStops(a)
    \/ LogLineTooLong
    \/ \E i \in Installers : InstallBegin(i) \/ InstallSteps(i)
    \/ ContainerStops \/ InstallerCrash \/ \E c \in Commands : CommandStep(c) \/ CommandFails(c)

\* Timers fire, a close handshake ends (ws has a timeout for it), an open TCP
\* peer that answers is read, and the handler of agentbox notices its socket.
\* An installer goes on, if only by its timeout.  Nothing is assumed of users,
\* credentials, agents and the commands run in a container.
Spec == /\ Init /\ [][Next]_vars
        /\ \A s \in Sides : WF_vars(ResumeTimer(s)) /\ WF_vars(PeerReads(s)) /\ WF_vars(CloseCompletes(s))
        /\ WF_vars(HandlerEnds) /\ WF_vars(PeerGone("agent") /\ t.shell = "dead")
        /\ WF_vars(LogRead) /\ WF_vars(LogGone /\ l.res = "ended")
        /\ \A i \in Installers : WF_vars(InstallSteps(i))
-----------------------------------------------------------------------------
(* Properties.                                                              *)

\* relay-backpressure.ts: a paused terminal is read again, or its session ends.
HeldIsReleased == \A s \in Sides : (s \in t.hold) ~> (s \notin t.hold)

\* terminal-proxy.ts, ws_terminal.py: once one end of a session is gone the
\* other one and the shell follow, unless the client left while the agent's
\* socket was connecting.
SessionEnds ==
    \A s \in Sides : (t.sock[s] = "closed") ~>
        (~IsOpen(t, Other(s)) /\ t.shell # "alive") \/ t.early \/ t.sock[s] # "closed"

\* routes/agents.ts, routes/chat.ts: a response that is gone is fed by no stream
\* and no timer, however the client's leaving interleaves with the awaits,
\* unless it left before the handler had registered its cleanup; and of a log
\* the container's own stream is closed too.  (Of the other kinds it is not:
\* tails.)
StreamIsOwned == /\ (l.res = "gone" /\ ~l.early) => LiveOf(l) = {} /\ ~l.timers
                 /\ kind = "logs" => l.tails = {}

\* sse-writer.ts: a container stream that was paused for a slow client goes on,
\* or the response ends; unless another agent's stream was opened meanwhile,
\* which nothing pauses and which may keep the queue from emptying.
StreamGoesOn ==
    \A a \in Agents : (a \in l.paused) ~> (a \notin l.paused \/ l.res # "open" \/ LiveOf(l) # l.paused)

\* tool-installer.ts, docker.ts: a tool recorded as installed is in the container,
\* and whole, with timeouts, lost streams, commands that go on after their
\* timeout and a second request at work; unless a copy was cut off, or goes on.
InstalledIsThere ==
    x.row = "installed" => /\ x.bin # "none"
                           /\ x.bin = "whole" \/ x.torn \/ \E c \in Commands : x.cmd[c] = "copying"

\* tool-installer.ts, docker.ts: an installation ends and its row is settled,
\* even when its command hangs, unless the API dies or the last statement
\* throws.  The row then stays 'installing' (nothing else looks at it) until
\* the tool is installed again, which settles it.
InstallEnds == (x.row = "installing" /\ ~x.lost) ~> (x.row # "installing" \/ x.lost)
=============================================================================
