----------------------------- MODULE ChatStream ------------------------------
(***************************************************************************)
(* The event stream of a chat thread: GET /chat/threads/:id/stream of      *)
(* routes/chat.ts, its bounded writer (services/sse-writer.ts), its first  *)
(* replay (helpers/chat-backfill.ts), its ends (helpers/stream-deadline.ts *)
(* and helpers/participation-watch.ts), and the page that reads it, shows  *)
(* messages and loads older ones (ui/src/app/chat/ChatView.tsx).           *)
(*                                                                         *)
(* A message is its id and the seq of its last change: every INSERT and    *)
(* UPDATE takes nextval, and commits later.  A poll is three steps: the    *)
(* timer starts it, the query takes its snapshot, the handler goes on with *)
(* the rows.  The timer does not wait for the poll before.                 *)
(***************************************************************************)
EXTENDS Naturals, Sequences, FiniteSets

CONSTANTS
    Msgs,         \* message ids of the thread
    Limit,        \* SSE_BACKFILL_LIMIT, and the page of GET /threads/:id
    HighWater,    \* frames queued before res.write answers false
    HardCap,      \* frames queued before the writer gives up (hardCapBytes)
    Threshold,    \* failed polls before the stream says so
    MaxSeq,       \* bound: changes of messages
    MaxOpen,      \* bound: changes that are not committed yet
    MaxPolls,     \* bound: polls in flight at a time
    MaxConns,     \* bound: connections, the first one included
    MaxStreamFaults \* bound: failed and slow queries, lost connections, heartbeats

ASSUME StreamAssumption ==
    /\ Msgs # {} /\ Limit \in Nat \ {0} /\ HighWater \in Nat \ {0}
    /\ HardCap \in Nat /\ Threshold \in Nat \ {0} /\ MaxSeq \in Nat
    /\ MaxOpen \in Nat /\ MaxConns \in Nat /\ MaxStreamFaults \in Nat
    /\ MaxPolls \in Nat \ {0}             \* the handler makes the first one itself

VARIABLES
    nextseq,   \* chat_messages_seq
    seq,       \* committed seq of each message, 0: no such row
    open,      \* changes under way: sets of [m, s]
    member,    \* the user is a participant
    con,       \* the connection and the handler's state
    polls,     \* polls in flight
    wire,      \* frames written and not yet read
    page,      \* ChatView
    spent

streamVars == <<nextseq, seq, open, member, con, polls, wire, page, spent>>
-----------------------------------------------------------------------------
Seqs == 0..MaxSeq
Rows == [m: Msgs, s: Seqs]
Notices == [older: BOOLEAN, oldest: Seqs]       \* oldest 0: null
Frames == [kind: {"message"}, m: Msgs, s: Seqs]
          \cup [kind: {"backfill"}, n: Notices, cut: Seqs]    \* cut: history, see floor
          \cup [kind: {"beat", "error"}]
Conns == [st: {"shut", "setup", "open", "ended"},  \* ended: res.end() was called
          cursor: Seqs, back: BOOLEAN,     \* isBackfill
          paused: BOOLEAN, full: BOOLEAN,  \* pollPaused, overflowed
          timers: BOOLEAN, closed: BOOLEAN, fails: 0..Threshold,
          asking: BOOLEAN]                 \* a participation check is under way
Polls == [pc: {"query", "rows", "count"}, cursor: Seqs, back: BOOLEAN, rows: Seq(Rows),
          cut: BOOLEAN]                    \* history: there were more than Limit
Pages == [shown: [Msgs -> Seqs],           \* the version on the screen, 0: none
          notice: Notices, last: Seqs,     \* id of the last message frame
          load: {"no", "ask", "got"}, before: Seqs, older: SUBSET Rows, more: BOOLEAN,
          floor: Seqs,                     \* history: where the last cut replay began
          late: SUBSET Msgs,               \* history: committed behind a later seq
          overlap: BOOLEAN,                \* history: two polls were in flight
          crossed: BOOLEAN]                \* history: a replay while older ones load

NoStream == [st |-> "shut", cursor |-> 0, back |-> TRUE, paused |-> FALSE, full |-> FALSE,
         timers |-> FALSE, closed |-> TRUE, fails |-> 0, asking |-> FALSE]

StreamTypeOK ==
    /\ nextseq \in Seqs /\ seq \in [Msgs -> Seqs] /\ open \subseteq Rows
    /\ member \in BOOLEAN /\ con \in Conns /\ page \in Pages
    /\ polls \in Seq(Polls) /\ Len(polls) <= MaxPolls
    /\ wire \in Seq(Frames)
    /\ spent \in [conns: 0..MaxConns, faults: 0..MaxStreamFaults]

StreamInit ==
    /\ nextseq = 0 /\ seq = [m \in Msgs |-> 0] /\ open = {} /\ member = TRUE
    /\ con = NoStream /\ polls = <<>> /\ wire = <<>>
    /\ page = [shown |-> [m \in Msgs |-> 0], notice |-> [older |-> FALSE, oldest |-> 0],
               last |-> 0, load |-> "no", before |-> 0, older |-> {}, more |-> FALSE,
               floor |-> 0, late |-> {}, overlap |-> FALSE, crossed |-> FALSE]
    /\ spent = [conns |-> 0, faults |-> 0]

StreamFault == spent.faults < MaxStreamFaults /\ spent' = [spent EXCEPT !.faults = @ + 1]
-----------------------------------------------------------------------------
(* The thread.                                                              *)

Locked(m) == \E r \in open : r.m = m

\* INSERT, or UPDATE ... SET seq = nextval: a statement of some transaction
Change(m) ==
    /\ nextseq < MaxSeq
    /\ Cardinality(open) < MaxOpen
    /\ ~Locked(m)
    /\ nextseq' = nextseq + 1
    /\ open' = open \cup {[m |-> m, s |-> nextseq + 1]}
    /\ UNCHANGED <<seq, member, con, polls, wire, page, spent>>

Stamped(r) == [seq EXCEPT ![r.m] = r.s]
\* history: someone has read, or is reading, past the seq that commits now
Behind(r) == \/ con.cursor > r.s \/ page.last > r.s
             \/ \E m \in Msgs : seq[m] > r.s
Commit(r) ==
    /\ r \in open
    /\ open' = open \ {r}
    /\ seq' = Stamped(r)
    /\ page' = IF Behind(r) THEN [page EXCEPT !.late = @ \cup {r.m}] ELSE page
    /\ UNCHANGED <<nextseq, member, con, polls, wire, spent>>

\* PUT /threads/:id/participants takes the user out of the thread
LeaveThread ==
    /\ member
    /\ member' = FALSE
    /\ UNCHANGED <<nextseq, seq, open, con, polls, wire, page, spent>>
-----------------------------------------------------------------------------
(* The writer.  A write is refused after the end and above the cap; the     *)
(* first one that fills the socket pauses the polls until 'drain'.          *)

Writable(c) == c.st \in {"setup", "open"}
Closing(c) == [c EXCEPT !.closed = TRUE, !.timers = FALSE]      \* cleanup()

Overflows(w) == Len(w) > HardCap
SseWrite(st, f) ==       \* st: the connection and the wire after the writes so far
    IF ~Writable(st.c) \/ st.c.full THEN st
    ELSE IF Overflows(st.w)
         THEN [c |-> [Closing(st.c) EXCEPT !.full = TRUE, !.st = "ended"],
               w |-> Append(st.w, [kind |-> "error"])]
         ELSE [c |-> [st.c EXCEPT !.paused = @ \/ Len(st.w) + 1 >= HighWater],
               w |-> Append(st.w, f)]

\* the loop over the rows: the cursor follows each row that is written
WriteRow(st, row) ==
    IF ~Writable(st.c) THEN st
    ELSE LET out == SseWrite(st, [kind |-> "message", m |-> row.m, s |-> row.s])
         IN  [out EXCEPT !.c.cursor = row.s]
WriteRows(st, rows) ==
    LET after[i \in 0..Len(rows)] == IF i = 0 THEN st ELSE WriteRow(after[i-1], rows[i])
    IN  after[Len(rows)]

Here == [c |-> con, w |-> wire]
Put(st) == con' = st.c /\ wire' = st.w

\* endStreamForExpiredCredential, endStreamForRevokedAccess: past the writer
EndWith(c) == [c |-> [c EXCEPT !.st = "ended"], w |-> Append(wire, [kind |-> "error"])]
-----------------------------------------------------------------------------
(* The handler.                                                             *)

StartPoll(c) == [pc |-> "query", cursor |-> c.cursor, back |-> c.back,
                 rows |-> <<>>, cut |-> FALSE]

\* the browser (re)connects; the page's proxy drops Last-Event-ID, a client
\* that is not behind it sends the last id it has.  404 for a stranger.
Connect(from) ==
    /\ con.st = "shut" /\ polls = <<>>
    /\ spent.conns < MaxConns
    /\ member
    /\ from \in {0, page.last}
    /\ spent' = [spent EXCEPT !.conns = @ + 1]
    /\ con' = [NoStream EXCEPT !.st = "setup", !.cursor = from, !.closed = FALSE]
    /\ polls' = <<StartPoll(con')>>
    /\ UNCHANGED <<nextseq, seq, open, member, wire, page>>

\* setInterval(poll, 1000); a poll that is slower than that counts as a fault
PollTimer ==
    /\ con.timers /\ con.st = "open" /\ ~con.paused
    /\ Len(polls) < MaxPolls
    /\ polls' = Append(polls, StartPoll(con))
    /\ page' = [page EXCEPT !.overlap = @ \/ polls # <<>>]
    /\ IF polls = <<>> THEN UNCHANGED spent ELSE StreamFault
    /\ UNCHANGED <<nextseq, seq, open, member, con, wire>>

SortedRows(R) == CHOOSE q \in [1..Cardinality(R) -> R] :
                    \A i, j \in 1..Cardinality(R) : i < j => q[i].s < q[j].s
RowsAbove(c) == {[m |-> m, s |-> seq[m]] : m \in {n \in Msgs : seq[n] > c}}
Newest(R, n) == {r \in R : Cardinality({x \in R : x.s > r.s}) < n}

\* POLL_SQL, or BACKFILL_TAIL_SQL for the first poll that gets an answer
PollQuery(i) ==
    LET p == polls[i] IN
    /\ i \in DOMAIN polls /\ p.pc = "query"
    /\ polls' = [polls EXCEPT ![i].pc = "rows", ![i].rows =
                    SortedRows(IF p.back THEN Newest(RowsAbove(p.cursor), Limit)
                               ELSE RowsAbove(p.cursor)),
                    ![i].cut = p.back /\ Cardinality(RowsAbove(p.cursor)) > Limit]
    /\ UNCHANGED <<nextseq, seq, open, member, con, wire, page, spent>>

Without(i) == SubSeq(polls, 1, i-1) \o SubSeq(polls, i+1, Len(polls))
\* the end of the first poll, whatever its result: timers, unless closed by now
Armed(c) == IF c.st = "setup" /\ ~c.closed THEN [c EXCEPT !.st = "open", !.timers = TRUE] ELSE c
FirstPollDone(c) == Armed(c)

Finish(i, st) ==
    /\ Put([st EXCEPT !.c = FirstPollDone([@ EXCEPT !.fails = 0])])
    /\ polls' = Without(i)

\* the rows are here: write them, or count first if this is still the replay
PollRows(i) ==
    LET p == polls[i] IN
    /\ i \in DOMAIN polls /\ p.pc = "rows"
    /\ IF con.back
       THEN /\ con' = [con EXCEPT !.back = FALSE]
            /\ polls' = [polls EXCEPT ![i].pc = "count"]
            /\ UNCHANGED wire
       ELSE Finish(i, WriteRows(Here, p.rows))
    /\ UNCHANGED <<nextseq, seq, open, member, page, spent>>

Total == Cardinality({m \in Msgs : seq[m] # 0})
BackfillNotice(rows) == [older |-> Total > Len(rows),
                         oldest |-> IF rows = <<>> THEN 0 ELSE rows[1].s]
PollCount(i) ==
    LET p == polls[i]
        noted == SseWrite(Here, [kind |-> "backfill", n |-> BackfillNotice(p.rows),
                                  cut |-> IF p.cut THEN p.rows[1].s ELSE 0])
    IN
    /\ i \in DOMAIN polls /\ p.pc = "count"
    /\ Finish(i, WriteRows(noted, p.rows))
    /\ UNCHANGED <<nextseq, seq, open, member, page, spent>>

\* a query throws: nothing of this poll is written; told once per outage
PollFails(i) ==
    LET failed == [con EXCEPT !.fails = IF @ < Threshold THEN @ + 1 ELSE @]
        st == IF con.fails + 1 = Threshold
              THEN SseWrite([Here EXCEPT !.c = failed], [kind |-> "error"])
              ELSE [Here EXCEPT !.c = failed]
    IN
    /\ i \in DOMAIN polls /\ polls[i].pc \in {"query", "count"}
    /\ StreamFault
    /\ Put([st EXCEPT !.c = FirstPollDone(@)])
    /\ polls' = Without(i)
    /\ UNCHANGED <<nextseq, seq, open, member, page>>

\* every 30 s: a comment frame, and a look at the participation
Heartbeat ==
    /\ con.timers /\ con.st = "open" /\ ~con.asking
    /\ StreamFault
    /\ LET st == SseWrite(Here, [kind |-> "beat"]) IN Put([st EXCEPT !.c.asking = TRUE])
    /\ UNCHANGED <<nextseq, seq, open, member, polls, page>>

\* stillAuthorised: an error counts as "no"
HeartbeatAnswer ==
    /\ con.asking
    /\ \/ /\ member \/ ~Writable(con)
          /\ con' = [con EXCEPT !.asking = FALSE]
          /\ UNCHANGED <<wire, spent>>
       \/ /\ Writable(con)
          /\ IF member THEN StreamFault ELSE UNCHANGED spent
          /\ LET st == EndWith([con EXCEPT !.asking = FALSE])
             IN  Put([st EXCEPT !.c = Closing(@)])
    /\ UNCHANGED <<nextseq, seq, open, member, polls, page>>

\* the deadline of the credential; only the 'close' that follows cleans up
Deadline ==
    /\ Writable(con)
    /\ StreamFault
    /\ Put(EndWith(con))
    /\ UNCHANGED <<nextseq, seq, open, member, polls, page>>

\* req 'close': after the end once everything is read, or because the client
\* went away, with what was still queued
Closed ==
    /\ con.st # "shut"
    /\ \/ con.st = "ended" /\ wire = <<>> /\ UNCHANGED spent
       \/ StreamFault
    /\ con' = [Closing(con) EXCEPT !.st = "shut"]
    /\ wire' = <<>>
    /\ UNCHANGED <<nextseq, seq, open, member, polls, page>>
-----------------------------------------------------------------------------
(* The page.                                                                *)

\* es 'message': replace the message with this id, or add it
Shows(f) == [page EXCEPT !.shown[f.m] = f.s, !.last = f.s]
\* es 'backfill': setBackfill
Notes(f) == [page EXCEPT !.notice = f.n, !.crossed = @ \/ page.load # "no",
                         !.floor = IF f.cut > @ THEN f.cut ELSE @]
\* Mut: no 'drain' listener
MutStayPaused(c) == c
Drained(c) == IF c.full THEN c ELSE [c EXCEPT !.paused = FALSE]
\* the socket takes a frame; when it is empty, 'drain' lets the polls go on
ClientReads ==
    /\ wire # <<>> /\ con.st # "shut"
    /\ page' = CASE Head(wire).kind = "message"  -> Shows(Head(wire))
                 [] Head(wire).kind = "backfill" -> Notes(Head(wire))
                 [] OTHER -> page
    /\ wire' = Tail(wire)
    /\ con' = IF wire' = <<>> THEN Drained(con) ELSE con
    /\ UNCHANGED <<nextseq, seq, open, member, polls, spent>>

\* "Load older": GET /chat/threads/:id?before_seq=
LoadOlder ==
    /\ page.load = "no" /\ page.notice.older /\ page.notice.oldest # 0
    /\ page' = [page EXCEPT !.load = "ask", !.before = page.notice.oldest]
    /\ UNCHANGED <<nextseq, seq, open, member, con, polls, wire, spent>>

OlderQuery ==
    LET R == {r \in RowsAbove(0) : r.s < page.before} IN
    /\ page.load = "ask"
    /\ \/ /\ member
          /\ page' = [page EXCEPT !.load = "got", !.older = Newest(R, Limit),
                                  !.more = Cardinality(R) > Limit]
          /\ UNCHANGED spent
       \/ /\ IF member THEN StreamFault ELSE UNCHANGED spent
          /\ page' = [page EXCEPT !.load = "no"]
    /\ UNCHANGED <<nextseq, seq, open, member, con, polls, wire>>

\* only messages that are not on the screen are added; the notice moves down
\* Mut: what was fetched replaces what is shown
MutReplaceShown(m, s) == s
AddsTo(m, s) == IF page.shown[m] = 0 THEN s ELSE page.shown[m]
LowestOf(R) == CHOOSE s \in {r.s : r \in R} : \A r \in R : s <= r.s
OlderShown ==
    LET R == page.older IN
    /\ page.load = "got"
    /\ page' = [page EXCEPT !.load = "no", !.older = {}, !.more = FALSE,
                    !.shown = [m \in Msgs |-> IF \E r \in R : r.m = m
                                 THEN AddsTo(m, (CHOOSE r \in R : r.m = m).s) ELSE @[m]],
                    !.notice = IF R = {} THEN [@ EXCEPT !.older = FALSE]
                               ELSE [older |-> page.more, oldest |-> LowestOf(R)]]
    /\ UNCHANGED <<nextseq, seq, open, member, con, polls, wire, spent>>
-----------------------------------------------------------------------------
PollStep(i) == PollQuery(i) \/ PollRows(i) \/ PollCount(i)
FirstPoll == PollStep(1)

StreamNext ==
    \/ \E m \in Msgs : Change(m)
    \/ \E r \in open : Commit(r)
    \/ LeaveThread
    \/ \E from \in Seqs : Connect(from)
    \/ PollTimer \/ \E i \in 1..MaxPolls : PollStep(i) \/ PollFails(i)
    \/ Heartbeat \/ HeartbeatAnswer \/ Deadline \/ Closed
    \/ ClientReads \/ LoadOlder \/ OlderQuery \/ OlderShown

\* The timer fires and a query ends (the pool has a statement timeout); the
\* browser reads what arrives and connects again (EventSource does).  Nothing
\* is assumed of writers, heartbeats or the user.
StreamSpec == /\ StreamInit /\ [][StreamNext]_streamVars
              /\ WF_streamVars(PollTimer) /\ WF_streamVars(FirstPoll)
              /\ WF_streamVars(ClientReads) /\ WF_streamVars(Closed) /\ WF_streamVars(Connect(0))
-----------------------------------------------------------------------------
(* Properties.                                                              *)

\* The page shows the current version of every message the stream has passed
\* since its last replay: whatever the order of changes, pauses, failed polls,
\* ends and reconnections.  The code keeps this unless a change committed
\* behind a later seq, or two polls were in flight together.
Covered(m) == page.floor <= seq[m] /\ seq[m] <= page.last /\ seq[m] # 0
PageIsCurrent ==
    ~page.overlap => \A m \in Msgs : Covered(m) /\ m \notin page.late => page.shown[m] = seq[m]

\* A message that a truncated replay left out is announced: the page offers to
\* load older ones until it has them (not if a replay arrived while a page of
\* older messages was being loaded).
HiddenIsAnnounced ==
    ~page.overlap /\ ~page.crossed =>
        \A m \in Msgs : (0 < seq[m] /\ seq[m] < page.floor /\ page.shown[m] = 0
                         /\ m \notin page.late) => page.notice.older

\* chat.ts, chat-backfill.ts, the page: what a page shows is current, and what it
\* does not show is announced (the two parts above).
PageIsTrue == PageIsCurrent /\ HiddenIsAnnounced

\* A connected page catches up with every committed change, below the replay's
\* start excepted, unless the user is out of the thread or the bounds are spent.
CatchesUp ==
    \A m \in Msgs :
        (seq[m] # page.shown[m]) ~>
            \/ seq[m] = page.shown[m] \/ seq[m] < page.floor \/ m \in page.late
            \/ page.overlap \/ ~member \/ (con.st = "shut" /\ spent.conns = MaxConns)
=============================================================================
