----------------------------- MODULE AgentRuntime -----------------------------
(***************************************************************************)
(* The process inside an agent's container (services/agentbox): work comes  *)
(* by POST /work and runs in a thread of its own, a chat in the loop of     *)
(* inferences and tools of chat.py, a shell command under policy.py.  The   *)
(* caller is answered at once; what becomes of the work is told by a        *)
(* callback to the API and by the file of events.  All threads type into    *)
(* one terminal (the tmux session "agent"), and read its pane.  One browser *)
(* serves all threads, and the users who look at it through the API; its    *)
(* coroutines run on a loop of their own, and who waits for one blocks: a   *)
(* user's request blocks the loop that takes in the work.                   *)
(*                                                                         *)
(* Left out: the texts; what a tool does beside that (one step that         *)
(* answers); terminal.jsonl, which nothing else of the repository reads;    *)
(* and more than one tool call in an answer.                                *)
(***************************************************************************)
EXTENDS Naturals, Sequences, FiniteSets

CONSTANTS
    Works,        \* pieces of work, each posted at most once
    MaxIter,      \* tool_loop.max_iterations
    Grace,        \* idle polls of a command until it is told to stop
    MaxTyped,     \* bound: commands typed into the terminal
    MaxViews,     \* bound: actions of the browser, of tools and users
    MaxFaults     \* bound: failed calls, lost answers, unwritten events, stops

ASSUME RuntimeAssumption ==
    /\ Works # {} /\ MaxIter \in Nat \ {0} /\ Grace \in Nat \ {0}
    /\ MaxTyped \in Nat /\ MaxViews \in Nat /\ MaxFaults \in Nat

VARIABLES work, child, tm, br, used
vars == <<work, child, tm, br, used>>
-----------------------------------------------------------------------------
Terminal == {"complete", "error"}
Messages == {"none", "thinking"} \cup Terminal
Events == {"work_completed", "work_failed", "callback_failed", "callback_refused", "unwritten", "stopped"}
Pcs == {"posted", "chat", "infer", "tool", "visible", "direct", "pty", "git", "browse", "shell",
        "deliver", "raised", "returned", "refused", "done"}

\* Of a work: where it is; the callback it delivers, the attempts that failed and
\* where it goes on; the endings the API has taken; its events; the command it
\* typed and the one whose exit status it was told, 0 being none; and whether
\* the pane was read before the prompt was back, or not to its end.
WorkRecs == [pc: Pcs, i: 0..MaxIter, msg: Messages, att: 0..2, next: Pcs, said: SUBSET Terminal,
             ev: SUBSET Events, mine: 0..MaxTyped, told: 0..MaxTyped, cut: BOOLEAN]
\* A command that is not typed: its process, "left" being one that nobody waits
\* for any more; whether it, or what it started, still holds its terminal or its
\* pipes; whether it prints, so that no poll finds its terminal silent; idle
\* polls, and what it was sent.
Children == [st: {"none", "runs", "dead", "reaped", "left"}, open: BOOLEAN, prints: BOOLEAN,
             idle: 0..Grace, sig: {"none", "term", "kill"}]
\* The pane: commands typed and not run (0: one without a sentinel); the
\* sentinels on it, in order; how many were typed; and what the container is used
\* for: commands are typed if AGENT_USE_TERMINAL is set and there is a tmux, and
\* are processes of their own if not (bound: the browser is not used beside them).
Uses == {"typed", "commands", "browser"}
Panes == [for: Uses, up: BOOLEAN, typed: Seq(0..MaxTyped), shown: Seq(1..MaxTyped), n: 0..MaxTyped]

\* The browser: _browser_page; browsers started; the coroutine of each caller; and
\* whether the server waits for one of a user's request.
Callers == Works \cup {"user"}
Browsers == [page: BOOLEAN, n: 0..Cardinality(Callers), co: [Callers -> {"none", "ensure", "launch", "act"}],
             wait: BOOLEAN, views: 0..MaxViews]

NoWork == [pc |-> "posted", i |-> 0, msg |-> "none", att |-> 0, next |-> "done", said |-> {}, ev |-> {},
           mine |-> 0, told |-> 0, cut |-> FALSE]
NoChild == [st |-> "none", open |-> FALSE, prints |-> FALSE, idle |-> 0, sig |-> "none"]
Spawned == [NoChild EXCEPT !.st = "runs", !.open = TRUE]

TypeOK ==
    /\ work \in [Works -> WorkRecs] /\ child \in [Works -> Children]
    /\ tm \in Panes /\ br \in Browsers /\ used \in 0..MaxFaults

Init ==
    /\ work = [w \in Works |-> NoWork] /\ child = [w \in Works |-> NoChild]
    /\ \E u \in Uses : tm = [for |-> u, up |-> FALSE, typed |-> <<>>, shown |-> <<>>, n |-> 0]
    /\ used = 0
    /\ br = [page |-> FALSE, n |-> 0, co |-> [c \in Callers |-> "none"], wait |-> FALSE, views |-> 0]

Fault == used < MaxFaults /\ used' = used + 1
Set(w, q) == work' = [work EXCEPT ![w] = q]
At(w, pc) == work[w].pc = pc
To(w, pc) == Set(w, [work[w] EXCEPT !.pc = pc])
\* EventEmitter.emit, the thread being at q: what cannot be written goes to
\* stderr, and the thread goes on
Emits(w, q, e) ==
    \/ Set(w, [q EXCEPT !.ev = @ \cup {e}]) /\ UNCHANGED used
    \/ Set(w, [q EXCEPT !.ev = @ \cup {"unwritten"}]) /\ Fault
-----------------------------------------------------------------------------
(* handle_work, _run_chat and _run_shell.                                   *)

\* a request is taken in when the server's loop is free
Taking(w) == At(w, "posted") /\ ~br.wait
\* a wrong token, a body that is not as it should be, an unknown type, a shell
\* that is not enabled
Refuse(w) ==
    /\ Taking(w) /\ Emits(w, [work[w] EXCEPT !.pc = "refused"], "work_failed")
    /\ UNCHANGED <<child, tm, br>>
AcceptChat(w) ==
    /\ Taking(w) /\ To(w, "chat")
    /\ UNCHANGED <<child, tm, br, used>>
\* a command the policy does not allow is returned at once
AcceptShell(w) ==
    /\ Taking(w)
    /\ \/ tm.for # "browser" /\ To(w, "shell") /\ child' = [child EXCEPT ![w] = Spawned]
       \/ To(w, "returned") /\ UNCHANGED child
    /\ UNCHANGED <<tm, br, used>>
Returned(w) ==
    /\ At(w, "returned") /\ Emits(w, [work[w] EXCEPT !.pc = "done"], "work_completed")
    /\ UNCHANGED <<child, tm, br>>
\* Mut: the thread ends with what it raised
MutEscapes(w, q) == Set(w, q) /\ UNCHANGED used
Caught(w, q) == Emits(w, q, "work_failed")
Raised(w) ==
    /\ At(w, "raised") /\ Caught(w, [work[w] EXCEPT !.pc = "done"])
    /\ UNCHANGED <<child, tm, br>>
-----------------------------------------------------------------------------
(* handle_chat and _run_tool_loop.                                          *)

\* _deliver_callback and what follows it; an ending is followed by the return
Deliver(q, msg, next) == [q EXCEPT !.pc = "deliver", !.msg = msg, !.att = 0, !.next = next]
Fails(q) == Deliver(q, "error", "returned")
Completes(q) == Deliver(q, "complete", "returned")

\* no callback to call: an event only
NoCallback(w) ==
    /\ At(w, "chat") /\ Emits(w, [work[w] EXCEPT !.pc = "returned"], "work_failed")
    /\ UNCHANGED <<child, tm, br>>
\* a command for the terminal; no token for the model router; or the loop
ChatBegin(w) ==
    /\ At(w, "chat")
    /\ (tm.for = "typed" /\ Set(w, Deliver(work[w], "thinking", "direct"))) \/ Set(w, Fails(work[w])) \/ To(w, "infer")
    /\ UNCHANGED <<child, tm, br, used>>
\* the loop is exhausted; or the time is over, the request fails, is refused or
\* has no choices; or there is an answer; or a tool is asked for
Infer(w) ==
    LET q == work[w] IN
    /\ At(w, "infer")
    /\ \/ q.i = MaxIter /\ Set(w, Completes(q))
       \/ q.i < MaxIter /\ work' \in {[work EXCEPT ![w] = r] :
                                         r \in {Fails(q), Completes(q), [q EXCEPT !.pc = "tool", !.i = @ + 1]}}
    /\ UNCHANGED <<child, tm, br, used>>
\* a 200 that is no JSON
Unreadable(w) ==
    /\ At(w, "infer") /\ work[w].i < MaxIter /\ Fault /\ To(w, "raised")
    /\ UNCHANGED <<child, tm, br>>

\* a tool has answered; an exception is an answer too
Answered(q) == Deliver(q, "thinking", "infer")
\* files, an unknown tool, a command not allowed
ToolAnswers(w) ==
    /\ At(w, "tool") /\ Set(w, Answered(work[w]))
    /\ UNCHANGED <<child, tm, br, used>>
\* the web and what the agent remembers: a request with a timeout, whose failure
\* is an answer
ToolRequests(w) ==
    /\ At(w, "tool") /\ (UNCHANGED used \/ Fault) /\ Set(w, Answered(work[w]))
    /\ UNCHANGED <<child, tm, br>>
-----------------------------------------------------------------------------
(* _deliver_callback.                                                       *)

Attempts(msg) == IF msg = "thinking" THEN 1 ELSE 2
Taken(q) == [q EXCEPT !.said = @ \cup ({q.msg} \cap Terminal)]
\* an answer of any status ends it
Post(w) ==
    LET q == [work[w] EXCEPT !.pc = work[w].next] IN
    /\ At(w, "deliver") /\ work[w].att < Attempts(work[w].msg)
    /\ \/ Set(w, Taken(q)) /\ UNCHANGED used
       \/ Set(w, [q EXCEPT !.ev = @ \cup {"callback_refused"}]) /\ Fault
    /\ UNCHANGED <<child, tm, br>>
\* an exception, before the API has taken the message or after
PostFails(w) ==
    /\ At(w, "deliver") /\ work[w].att < Attempts(work[w].msg) /\ Fault
    /\ \E q \in {work[w], Taken(work[w])} : Set(w, [q EXCEPT !.att = @ + 1])
    /\ UNCHANGED <<child, tm, br>>
GivesUp(w) ==
    LET q == [work[w] EXCEPT !.pc = work[w].next] IN
    /\ At(w, "deliver") /\ work[w].att = Attempts(work[w].msg)
    /\ IF work[w].msg \in Terminal THEN Emits(w, q, "callback_failed") ELSE Set(w, q) /\ UNCHANGED used
    /\ UNCHANGED <<child, tm, br>>
-----------------------------------------------------------------------------
(* The terminal, typed into by every thread.                                *)

\* _ensure_tmux_session, then the keys
Session == IF tm.up THEN tm ELSE [tm EXCEPT !.up = TRUE, !.typed = <<>>, !.shown = <<>>]
Type(w) ==
    /\ At(w, "tool") /\ tm.for = "typed" /\ work[w].mine < MaxTyped /\ tm.n < MaxTyped
    /\ tm' = [Session EXCEPT !.n = @ + 1, !.typed = Append(@, tm.n + 1)]
    /\ Set(w, [work[w] EXCEPT !.pc = "visible", !.mine = tm.n + 1, !.told = 0, !.cut = FALSE])
    /\ UNCHANGED <<child, br, used>>
\* _run_direct_command: no sentinel; tmux may fail
TypeDirect(w) ==
    /\ At(w, "direct")
    /\ \/ /\ tm' = [Session EXCEPT !.typed = Append(@, 0)]
          /\ Set(w, Completes(work[w])) /\ UNCHANGED used
       \/ Fault /\ Set(w, Fails(work[w])) /\ UNCHANGED tm
    /\ UNCHANGED <<child, br>>
\* the tmux tool: keys for the session, if there is one
TypeKeys(w) ==
    /\ At(w, "tool") /\ Set(w, Answered(work[w]))
    /\ tm' = IF tm.up THEN [tm EXCEPT !.typed = Append(@, 0)] ELSE tm
    /\ UNCHANGED <<child, br, used>>
\* the shell of the pane runs what was typed, in order
PaneRuns ==
    /\ tm.typed # <<>>
    /\ tm' = [tm EXCEPT !.typed = Tail(@), !.shown = IF Head(tm.typed) = 0 THEN @ ELSE Append(@, Head(tm.typed))]
    /\ UNCHANGED <<work, child, br, used>>
PaneDies ==
    /\ tm.up /\ Fault
    /\ tm' = [tm EXCEPT !.up = FALSE, !.typed = <<>>, !.shown = <<>>]
    /\ UNCHANGED <<work, child, br>>
\* _extract_exit_code: the last sentinel of the pane, whosever
\* Mut: the first
MutFirst(s) == IF s = <<>> THEN 0 ELSE s[1]
Extracted(s) == IF s = <<>> THEN 0 ELSE s[Len(s)]
\* _wait_and_capture: the prompt is back; or the deadline, or a line that looks
\* like a prompt.  Of the pane it keeps what is above the first indented line that
\* looks like one.
Capture(w) ==
    /\ At(w, "visible")
    /\ \E k \in 0..Len(tm.shown) :
         Set(w, [Answered(work[w]) EXCEPT !.told = Extracted(SubSeq(tm.shown, 1, k)),
                                          !.cut = ~(tm.up /\ tm.typed = <<>> /\ k = Len(tm.shown))])
    /\ UNCHANGED <<child, tm, br, used>>
-----------------------------------------------------------------------------
(* Commands of their own: pty_shell.py for a tool, policy.py for a shell    *)
(* work.                                                                    *)

Sets(w, c) == child' = [child EXCEPT ![w] = c]
Runs(w) == child[w].st = "runs"
\* by itself, or by a signal; what it started may run on and hold what it held
ChildExits(w) ==
    /\ Runs(w)
    /\ \/ Sets(w, [child[w] EXCEPT !.st = "dead", !.open = FALSE, !.prints = FALSE]) /\ UNCHANGED used
       \/ child[w].open /\ Sets(w, [child[w] EXCEPT !.st = "dead"]) /\ Fault
    /\ UNCHANGED <<work, tm, br>>
\* its terminal or its pipes are closed: by itself, running on; or as what it
\* started ends
ChildCloses(w) ==
    /\ child[w].open /\ Sets(w, [child[w] EXCEPT !.open = FALSE, !.prints = FALSE])
    /\ (Runs(w) /\ Fault) \/ (~Runs(w) /\ UNCHANGED used)
    /\ UNCHANGED <<work, tm, br>>
\* it begins to print without a pause, or stops
ChildPrints(w) ==
    /\ At(w, "pty") /\ child[w].open /\ Sets(w, [child[w] EXCEPT !.prints = ~@])
    /\ UNCHANGED <<work, tm, br, used>>
PtyStart(w) ==
    /\ At(w, "tool") /\ tm.for = "commands" /\ To(w, "pty") /\ Sets(w, Spawned)
    /\ UNCHANGED <<tm, br, used>>
\* a poll without output; one with output changes nothing, not even the time
PtyIdle(w) ==
    /\ At(w, "pty") /\ Runs(w) /\ child[w].open /\ ~child[w].prints /\ child[w].sig = "none"
    /\ Sets(w, IF child[w].idle + 1 < Grace THEN [child[w] EXCEPT !.idle = @ + 1]
               ELSE [child[w] EXCEPT !.idle = Grace, !.sig = "term"])
    /\ UNCHANGED <<work, tm, br, used>>
Kill(c) == [c EXCEPT !.sig = "kill"]
PtyGraceOver(w) ==
    /\ At(w, "pty") /\ Runs(w) /\ child[w].sig = "term" /\ Sets(w, Kill(child[w]))
    /\ UNCHANGED <<work, tm, br, used>>
\* waitpid, what is still to be read, up to a silence, and the end of the generator
Over(st) == [NoChild EXCEPT !.st = st]
PtyEnds(w) ==
    /\ At(w, "pty") /\ child[w].st = "dead" /\ ~child[w].prints /\ Sets(w, Over("reaped"))
    /\ Set(w, Answered(work[w]))
    /\ UNCHANGED <<tm, br, used>>
\* the write of the event of an output fails: the generator is closed where it is,
\* and does not come to its kill or waitpid
PtyAbandoned(w) ==
    /\ At(w, "pty") /\ child[w].prints /\ Fault
    /\ \E st \in {"left"} \cup (IF Runs(w) THEN {} ELSE {"reaped"}) : Sets(w, Over(st))
    /\ Set(w, Answered(work[w]))
    /\ UNCHANGED <<tm, br>>
\* threading.Timer, from the start of the command to its end
ShellTimer(w) ==
    /\ At(w, "shell") /\ Runs(w) /\ child[w].sig = "none" /\ Sets(w, Kill(child[w]))
    /\ UNCHANGED <<work, tm, br, used>>
\* the end of stdout and of stderr, then wait
ShellEnds(w) ==
    /\ At(w, "shell") /\ child[w].st = "dead" /\ ~child[w].open /\ Sets(w, Over("reaped")) /\ To(w, "returned")
    /\ UNCHANGED <<tm, br, used>>
\* the end of stderr, which is no text: an exception, before the wait
ShellGarbled(w) ==
    /\ At(w, "shell") /\ ~child[w].open /\ Fault /\ Sets(w, Over("left")) /\ To(w, "returned")
    /\ UNCHANGED <<tm, br>>
\* git: read to the end of its output and waited for, without a timeout
GitStart(w) ==
    /\ At(w, "tool") /\ tm.for # "browser" /\ To(w, "git") /\ Sets(w, Spawned)
    /\ UNCHANGED <<tm, br, used>>
GitEnds(w) ==
    /\ At(w, "git") /\ child[w].st = "dead" /\ ~child[w].open /\ Sets(w, Over("reaped")) /\ Set(w, Answered(work[w]))
    /\ UNCHANGED <<tm, br, used>>
-----------------------------------------------------------------------------
(* The browser.                                                             *)

\* run_coroutine_threadsafe
Submit(c, wait) ==
    /\ tm.for = "browser" /\ br.views < MaxViews /\ br.co[c] = "none"
    /\ br' = [br EXCEPT !.co[c] = "ensure", !.wait = wait, !.views = @ + 1]
Browse(w) ==
    /\ At(w, "tool") /\ To(w, "browse") /\ Submit(w, br.wait)
    /\ UNCHANGED <<child, tm, used>>
\* a user's click, key, text or address, through the API to the endpoint, which
\* is a coroutine of the server's loop and waits there
UserBrowses ==
    /\ ~br.wait /\ Submit("user", TRUE)
    /\ UNCHANGED <<work, child, tm, used>>
\* _ensure_browser_page_on_loop: looked at, then awaits until it is set
EnsurePage(c) ==
    /\ br.co[c] = "ensure"
    /\ br' = [br EXCEPT !.co[c] = IF br.page THEN "act" ELSE "launch"]
    /\ UNCHANGED <<work, child, tm, used>>
Launched(c) ==
    /\ br.co[c] = "launch"
    /\ \/ br' = [br EXCEPT !.co[c] = "act", !.page = TRUE, !.n = @ + 1] /\ UNCHANGED used
       \/ br' = [br EXCEPT !.co[c] = "none"] /\ Fault
    /\ UNCHANGED <<work, child, tm>>
\* the action, done or failed
Acted(c) ==
    /\ br.co[c] = "act" /\ br' = [br EXCEPT !.co[c] = "none"]
    /\ UNCHANGED <<work, child, tm, used>>
\* future.result(timeout): the coroutine is done; or the time is over, and it goes on
\* Mut: no timeout
MutForever(c) == br.co[c] = "none"
ResultOrTimeout(c) == TRUE
Browsed(w) ==
    /\ At(w, "browse") /\ ResultOrTimeout(w) /\ Set(w, Answered(work[w]))
    /\ UNCHANGED <<child, tm, br, used>>
UserAnswered ==
    /\ br.wait /\ ResultOrTimeout("user") /\ br' = [br EXCEPT !.wait = FALSE]
    /\ UNCHANGED <<work, child, tm, used>>
-----------------------------------------------------------------------------
\* the container stops: daemon threads and commands go with it
Stops ==
    /\ Fault
    /\ work' = [w \in Works |-> IF work[w].pc \in {"posted", "refused", "done"} THEN work[w]
                                ELSE [work[w] EXCEPT !.pc = "done", !.ev = @ \cup {"stopped"}]]
    /\ child' = [w \in Works |-> NoChild]
    /\ tm' = [tm EXCEPT !.up = FALSE, !.typed = <<>>, !.shown = <<>>]
    /\ br' = [br EXCEPT !.page = FALSE, !.n = 0, !.co = [c \in Callers |-> "none"], !.wait = FALSE]

TakeIn(w) == Refuse(w) \/ AcceptChat(w) \/ AcceptShell(w)
Thread(w) == Returned(w) \/ Raised(w) \/ ChatBegin(w) \/ Infer(w) \/ ToolAnswers(w) \/ Post(w) \/ GivesUp(w)
             \/ TypeDirect(w) \/ Capture(w) \/ PtyGraceOver(w) \/ ShellTimer(w) \/ ShellEnds(w) \/ GitEnds(w)
             \/ Browsed(w)
Listens(w) == PtyIdle(w) \/ PtyEnds(w)
Next ==
    \/ \E w \in Works : \/ TakeIn(w) \/ NoCallback(w) \/ Unreadable(w) \/ PostFails(w)
                        \/ ToolRequests(w) \/ Type(w) \/ TypeKeys(w) \/ PtyStart(w) \/ GitStart(w) \/ Browse(w)
                        \/ ChildExits(w) \/ ChildCloses(w) \/ ChildPrints(w) \/ PtyAbandoned(w)
                        \/ ShellGarbled(w) \/ Listens(w) \/ Thread(w)
    \/ \E c \in Callers : EnsurePage(c) \/ Launched(c) \/ Acted(c)
    \/ UserBrowses \/ UserAnswered \/ PaneRuns \/ PaneDies \/ Stops

\* The server takes in what is posted, threads go on, and SIGKILL works.  A pause
\* of the output is as long as a poll, so one that comes again and again is met by
\* one.  Nothing is assumed of the browser, and of a command not that it pauses,
\* closes what it holds or ends.
Spec == /\ Init /\ [][Next]_vars
        /\ WF_vars(UserAnswered)
        /\ \A w \in Works : /\ WF_vars(TakeIn(w)) /\ WF_vars(Thread(w)) /\ SF_vars(Listens(w))
                            /\ WF_vars(child[w].sig = "kill" /\ ChildExits(w))
-----------------------------------------------------------------------------
(* Properties.                                                              *)

\* chat.py: a reply is ended one way: no chat sends "complete" and "error",
\* whatever of its callbacks is repeated or lost.
OneAnswer == \A w \in Works : Cardinality(work[w].said) <= 1

\* runtime.py, chat.py, events.py: a work that ended has left an event, and a
\* chat whose ending the API has not taken one that tells of a failure; unless
\* the write of an event failed or the container was stopped.
Silent(w) == work[w].ev \cap {"unwritten", "stopped"} = {}
EndIsRecorded ==
    \A w \in Works : At(w, "done") /\ Silent(w) =>
        /\ work[w].ev \cap {"work_completed", "work_failed"} # {}
        /\ (work[w].msg # "none" /\ work[w].said = {})
              => work[w].ev \cap {"work_failed", "callback_failed", "callback_refused"} # {}

\* chat.py, runtime.py: a work ends one way and leaves a trace (the parts above).
EndIsTold == OneAnswer /\ EndIsRecorded

\* pty_shell.py, policy.py: once the thread has gone on from a command, the command
\* is over and waited for; unless the event of its output could not be written, or
\* its stderr was no text, and it is left.
NoChildIsLeft ==
    \A w \in Works :
        work[w].pc \notin {"pty", "git", "shell"} => child[w].st \in {"none", "reaped", "left"}

\* chat.py: the exit status a tool call reports is not that of a command typed
\* before its own, if the prompt was waited for and no line of the pane above its
\* own passed for a prompt.
StatusIsOwn ==
    \A w \in Works : work[w].told < work[w].mine /\ work[w].told # 0 => work[w].cut

\* chat.py, pty_shell.py, policy.py: a command that is over is over for good, and
\* what is told of it is not of one before it (the two parts above).
CommandIsSettled == NoChildIsLeft /\ StatusIsOwn

\* What keeps a thread for ever: a git that does not end, or what it started; a
\* command that prints without a pause, itself or by what it started, or closes its
\* terminal and runs on; what a shell command started and left with its pipes.
Stuck(w) ==
    \/ At(w, "git") /\ (Runs(w) \/ child[w].open)
    \/ At(w, "pty") /\ (child[w].prints \/ (Runs(w) /\ ~child[w].open))
    \/ At(w, "shell") /\ child[w].open /\ ~Runs(w)
\* runtime.py, chat.py, pty_shell.py, tools.py: every work that is posted ends,
\* whatever the browser does and however long a user's request keeps the server
\* waiting; or its thread is kept for ever by one of the four above.
WorkEnds == \A w \in Works : <>(work[w].pc \in {"refused", "done"}) \/ <>[]Stuck(w)
=============================================================================
