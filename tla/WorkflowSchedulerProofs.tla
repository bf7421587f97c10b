----------------------- MODULE WorkflowSchedulerProofs -----------------------
(***************************************************************************)
(* Proofs about WorkflowScheduler, for any number of workflows, instances, *)
(* connections, requests, faults and any clock: a due time is fired once,  *)
(* and a run that is unfinished is being worked on.                        *)
(***************************************************************************)
EXTENDS WorkflowScheduler, SequenceTheorems, TLAPS

USE ScheduleAssumption
-----------------------------------------------------------------------------
(* The inductive invariant.                                                 *)

FlowRecs == [st: {"new", "live", "gone"}, on: BOOLEAN, cron: Crons \cup {Null}, hook: BOOLEAN, next: Nat]
Runs == [w: Flows, st: {"running", "error"}, thread: BOOLEAN, due: Nat,
         sent: BOOLEAN, slip: BOOLEAN, lost: BOOLEAN]
Ticks == [pc: TickPcs, todo: SUBSET Flows, ups: SUBSET Flows, snap: [Flows -> FlowRecs],
          w: Flows, k: Nat, refused: BOOLEAN, bare: BOOLEAN]
Hands == [pc: HandPcs, w: Flows, k: Nat, cron: Crons \cup {Null}, on: {"keep", "yes", "no"}, next: Nat]
HeldLocks == [i: Insts, c: Conns, n: Nat]
Typed ==
    /\ now \in Nat /\ wf \in [Flows -> FlowRecs] /\ run \in Seq(Runs) /\ lock \in HeldLocks
    /\ tick \in [Insts -> Ticks] /\ hand \in [Insts -> Hands]

Settled(x) == x.thread \/ x.st = "error" \/ x.lost
\* where a tick has a run in its hands
Busy == {"thread", "dispatch", "link", "label", "advance"}
\* what a tick is still to insert a run for
ToFire(t) == t.todo \cup (IF t.pc = "insert" THEN {t.w} ELSE {})
Firing == {"pick", "insert"} \cup Busy

\* Of a tick: the run it has in its hands is of its workflow, and labelled or
\* linked before it is let go; what it is to fire for was due; if its lock is
\* gone, the run carries the mark.
TickSound(t, rn, tm) ==
    /\ t.k # 0 => t.k \in DOMAIN rn /\ t.pc \in Busy /\ rn[t.k].w = t.w /\ (t.bare => rn[t.k].slip)
    /\ t.pc \in Busy \ {"advance"} => t.k # 0
    /\ t.pc = "advance" /\ t.k # 0 => Settled(rn[t.k])
    /\ t.pc \in Firing => \A w \in ToFire(t) : t.snap[w].next # Null /\ t.snap[w].next <= tm
    /\ t.pc = "insert" => t.w \notin t.todo
\* With its lock, it is to fire for nothing that was fired before.
Fresh(t, rn) ==
    t.pc \in Firing /\ ~t.bare =>
        \A w \in ToFire(t) : \A k \in DOMAIN rn : rn[k].w = w /\ rn[k].due = t.snap[w].next => rn[k].slip
HandSound(h, rn) ==
    /\ h.k # 0 => h.k \in DOMAIN rn /\ h.pc \notin {"idle", "put", "insert"}
    /\ h.pc \in {"thread", "link", "dispatch", "stamp", "label"} => h.k # 0
    /\ h.pc \in {"dispatch", "stamp"} => Settled(rn[h.k])

\* A tick with its lock is the only one.
LockIsHeld == \A i \in Insts : Ticking(i) /\ ~tick[i].bare => lock.n > 0 /\ lock.i = i
\* What was fired for is not what the row says next, unless the tick that fired
\* has yet to move it.
Moving(k) == \E i \in Insts : tick[i].k = k /\ ~tick[i].bare
FiredIsPast == \A k \in DOMAIN run :
    /\ run[k].due <= now
    /\ ~run[k].slip /\ run[k].due # Null /\ Live(run[k].w) => run[k].due # wf[run[k].w].next \/ Moving(k)

SchedInv ==
    /\ Typed
    /\ \A i \in Insts : TickSound(tick[i], run, now) /\ Fresh(tick[i], run) /\ HandSound(hand[i], run)
    /\ LockIsHeld /\ FiredIsPast /\ FiredOnce /\ UnfinishedIsAttended
-----------------------------------------------------------------------------
(* Cron, sequences and records.                                             *)

\* The next run is after now.
LEMMA NextIsLater ==
    ASSUME now \in Nat, NEW cron \in Crons \cup {Null}
    PROVE  ComputeNextRun(cron) \in Nat /\ (ComputeNextRun(cron) # Null => now < ComputeNextRun(cron))
  <1>1. CASE cron = Null
    BY <1>1 DEF ComputeNextRun, Null
  <1>2. CASE cron # Null
    <2>1. cron \in Nat /\ cron > 0
      BY <1>2 DEF Null
    <2>2. now \div cron \in Nat
      BY <2>1
    <2>3. now < (now \div cron + 1) * cron
      BY <2>1
    <2>4. (now \div cron + 1) * cron \in Nat
      BY <2>1, <2>2
    <2> QED
      BY <1>2, <2>3, <2>4 DEF ComputeNextRun
  <1> QED
    BY <1>1, <1>2

\* Runs keep what they were inserted for, and the marks they have.
Kept(x, y) == x.w = y.w /\ x.due = y.due /\ (x.slip => y.slip) /\ (Settled(x) => Settled(y))
Patched == run' \in [DOMAIN run -> Runs] /\ \A k \in DOMAIN run : Kept(run[k], run'[k])

\* The sequence of runs.
LEMMA RunDomain ==
    ASSUME run \in Seq(Runs)
    PROVE  /\ Len(run) \in Nat /\ DOMAIN run = 1..Len(run) /\ \A k \in DOMAIN run : run[k] \in Runs
           /\ 0 \notin DOMAIN run /\ Len(run) + 1 \notin DOMAIN run
  BY LenProperties

\* Rewriting runs leaves them a sequence.
LEMMA PatchIsSeq == ASSUME run \in Seq(Runs), Patched PROVE run' \in Seq(Runs) /\ DOMAIN run' = DOMAIN run
  <1>1. run' \in [1..Len(run) -> Runs] /\ Len(run) \in Nat /\ DOMAIN run = 1..Len(run)
    BY RunDomain DEF Patched
  <1>2. run' \in Seq(Runs)
    BY <1>1, SeqDef
  <1> QED
    BY <1>1, <1>2

\* Inserting a run.
LEMMA InsertIsSeq ==
    ASSUME run \in Seq(Runs), NEW x \in Runs, run' = Append(run, x)
    PROVE  /\ run' \in Seq(Runs) /\ DOMAIN run' = DOMAIN run \cup {Len(run) + 1}
           /\ run'[Len(run) + 1] = x /\ \A k \in DOMAIN run : run'[k] = run[k]
  <1>1. Append(run, x) \in Seq(Runs) /\ Len(Append(run, x)) = Len(run) + 1
    BY AppendProperties
  <1>2. \A k \in 1..Len(run) : Append(run, x)[k] = run[k]
    BY AppendProperties
  <1>3. Append(run, x)[Len(run) + 1] = x
    BY AppendProperties
  <1>4. DOMAIN Append(run, x) = 1..(Len(run) + 1) /\ DOMAIN run = 1..Len(run) /\ Len(run) \in Nat
    BY <1>1, LenProperties
  <1> QED
    BY <1>1, <1>2, <1>3, <1>4

\* One run is rewritten.
LEMMA PatchOne ==
    ASSUME run \in Seq(Runs), NEW k \in DOMAIN run, NEW x \in Runs, run' = [run EXCEPT ![k] = x], Kept(run[k], x)
    PROVE  Patched /\ run'[k] = x
  <1>1. run \in [DOMAIN run -> Runs]
    BY RunDomain
  <1>2. \A j \in DOMAIN run : run'[j] = IF j = k THEN x ELSE run[j]
    BY <1>1
  <1>3. \A j \in DOMAIN run : Kept(run[j], run[j])
    BY DEF Kept
  <1>4. run' \in [DOMAIN run -> Runs]
    BY <1>1
  <1> QED
    BY <1>2, <1>3, <1>4 DEF Patched

\* No run is rewritten.
LEMMA PatchNone == ASSUME run \in Seq(Runs), UNCHANGED run PROVE Patched
  BY RunDomain DEF Patched, Kept

\* The ways a run is rewritten.
LEMMA RunSteps ==
    ASSUME NEW x \in Runs
    PROVE  /\ \A b \in BOOLEAN : [x EXCEPT !.thread = b] \in Runs /\ [x EXCEPT !.sent = b] \in Runs
                                 /\ [x EXCEPT !.lost = b] \in Runs /\ [x EXCEPT !.slip = b] \in Runs
                                 /\ [x EXCEPT !.sent = b, !.st = "error"] \in Runs
           /\ \A b, c \in BOOLEAN : [x EXCEPT !.sent = b, !.lost = c] \in Runs
                                    /\ [x EXCEPT !.slip = b, !.lost = c] \in Runs
           /\ [x EXCEPT !.st = "error"] \in Runs
  BY DEF Runs
-----------------------------------------------------------------------------
(* What steps have in common.                                               *)

\* What holds of a tick or a handler outlives marks on the runs.
LEMMA SoundStays ==
    ASSUME run \in Seq(Runs), Patched
    PROVE  /\ \A t \in Ticks : TickSound(t, run, now) => TickSound(t, run', now)
           /\ \A t \in Ticks : Fresh(t, run) => Fresh(t, run')
           /\ \A h \in Hands : HandSound(h, run) => HandSound(h, run')
  <1>1. DOMAIN run' = DOMAIN run /\ \A k \in DOMAIN run : Kept(run[k], run'[k])
    BY PatchIsSeq DEF Patched
  <1>2. \A t \in Ticks : TickSound(t, run, now) => TickSound(t, run', now)
    BY <1>1 DEF TickSound, Kept
  <1>3. \A t \in Ticks : Fresh(t, run) => Fresh(t, run')
    BY <1>1 DEF Fresh, Kept
  <1>4. \A h \in Hands : HandSound(h, run) => HandSound(h, run')
    <2> SUFFICES ASSUME NEW h \in Hands, HandSound(h, run) PROVE HandSound(h, run')
      OBVIOUS
    <2>1. h.pc \in {"dispatch", "stamp"} => h.k \in DOMAIN run /\ Settled(run[h.k])
      BY DEF HandSound
    <2>2. h.pc \in {"dispatch", "stamp"} => Settled(run'[h.k])
      BY <1>1, <2>1 DEF Kept
    <2> QED
      BY <1>1, <2>2 DEF HandSound
  <1> QED
    BY <1>2, <1>3, <1>4

\* Of a run: its workflow's next time is as it was, or is not what it fired for.
NextKept(k) ==
    ~run'[k].slip /\ run[k].due # Null /\ wf'[run[k].w].st = "live"
        => \/ run[k].due # wf'[run[k].w].next
           \/ wf[run[k].w].st = "live" /\ wf'[run[k].w].next = wf[run[k].w].next
\* Of a run that its tick lets go: it is settled, and its time was moved or it
\* carries the mark.
LetGo(k) ==
    /\ Settled(run'[k])
    /\ \/ run'[k].slip \/ run[k].due = Null \/ wf'[run[k].w].st # "live"
       \/ run[k].due # wf'[run[k].w].next

\* A step that inserts no run.
LEMMA Moves ==
    ASSUME SchedInv, Patched, now' = now, wf' \in [Flows -> FlowRecs], lock' \in HeldLocks,
           tick' \in [Insts -> Ticks], hand' \in [Insts -> Hands], LockIsHeld',
           \A k \in DOMAIN run : NextKept(k),
           \A i \in Insts :
              /\ TickSound(tick'[i], run', now) /\ Fresh(tick'[i], run') /\ HandSound(hand'[i], run')
              /\ tick[i].k # 0 => \/ tick'[i].k = tick[i].k /\ (tick'[i].bare => tick[i].bare \/ run'[tick[i].k].slip)
                                  \/ LetGo(tick[i].k)
              /\ hand[i].k # 0 => hand'[i].k = hand[i].k \/ Settled(run'[hand[i].k])
    PROVE  SchedInv'
  <1>r. run \in Seq(Runs) /\ 0 \notin DOMAIN run /\ \A k \in DOMAIN run : run[k] \in Runs
    BY RunDomain DEF SchedInv, Typed
  <1>1. DOMAIN run' = DOMAIN run /\ run' \in Seq(Runs) /\ \A k \in DOMAIN run : Kept(run[k], run'[k]) /\ run'[k] \in Runs
    BY <1>r, PatchIsSeq DEF Patched
  <1>2. Typed'
    BY <1>1 DEF SchedInv, Typed
  <1>3. \A i \in Insts : (TickSound(tick[i], run, now) /\ Fresh(tick[i], run) /\ HandSound(hand[i], run))'
    OBVIOUS
  <1>4. FiredOnce'
    <2> SUFFICES ASSUME NEW k \in DOMAIN run', NEW l \in DOMAIN run', k < l, run'[k].w = run'[l].w,
                        run'[k].due = run'[l].due, run'[k].due # Null
                 PROVE  run'[k].slip \/ run'[l].slip
      BY DEF FiredOnce
    <2>1. k \in DOMAIN run /\ l \in DOMAIN run /\ Kept(run[k], run'[k]) /\ Kept(run[l], run'[l])
      BY <1>1
    <2>2. run[k].slip \/ run[l].slip
      BY <2>1 DEF SchedInv, FiredOnce, Kept
    <2> QED
      BY <2>1, <2>2 DEF Kept
  <1>5. UnfinishedIsAttended'
    <2> SUFFICES ASSUME NEW k \in DOMAIN run', ~Settled(run'[k]) PROVE Working(k)'
      <3>1. \A k \in DOMAIN run' : run'[k].st = "running" /\ ~run'[k].thread /\ ~run'[k].lost => ~Settled(run'[k])
        BY DEF Settled
      <3> QED
        BY <3>1 DEF UnfinishedIsAttended
    <2>1. k \in DOMAIN run /\ ~Settled(run[k]) /\ k # 0
      BY <1>r, <1>1 DEF Kept
    <2>2. run[k].st = "running" /\ ~run[k].thread /\ ~run[k].lost
      BY <1>r, <2>1 DEF Settled, Runs
    <2>3. Working(k)
      BY <2>1, <2>2 DEF SchedInv, UnfinishedIsAttended
    <2>4. ASSUME NEW i \in Insts, tick[i].k = k PROVE tick'[i].k = k
      BY <2>1, <2>4 DEF LetGo
    <2>5. ASSUME NEW i \in Insts, hand[i].k = k PROVE hand'[i].k = k
      BY <2>1, <2>5
    <2> QED
      BY <2>3, <2>4, <2>5 DEF Working
  <1>6. FiredIsPast'
    <2> SUFFICES ASSUME NEW k \in DOMAIN run'
                 PROVE  /\ run'[k].due <= now'
                        /\ ~run'[k].slip /\ run'[k].due # Null /\ wf'[run'[k].w].st = "live"
                             => run'[k].due # wf'[run'[k].w].next \/ \E i \in Insts : tick'[i].k = k /\ ~tick'[i].bare
      BY DEF FiredIsPast, Live, Moving
    <2>1. k \in DOMAIN run /\ Kept(run[k], run'[k]) /\ k # 0 /\ run[k].due <= now
      BY <1>r, <1>1 DEF SchedInv, FiredIsPast
    <2>2. run'[k].due <= now'
      BY <2>1 DEF Kept
    <2>3. ASSUME ~run'[k].slip, run'[k].due # Null, wf'[run'[k].w].st = "live", run'[k].due = wf'[run'[k].w].next
          PROVE  \E i \in Insts : tick'[i].k = k /\ ~tick'[i].bare
      <3>1. run'[k].w = run[k].w /\ run'[k].due = run[k].due /\ ~run[k].slip
        BY <2>1, <2>3 DEF Kept
      <3>2. wf[run[k].w].st = "live" /\ wf[run[k].w].next = run[k].due
        BY <2>1, <2>3, <3>1 DEF NextKept
      <3>3. PICK i \in Insts : tick[i].k = k /\ ~tick[i].bare
        BY <2>1, <2>3, <3>1, <3>2 DEF SchedInv, FiredIsPast, Live, Moving
      <3>4. ~LetGo(k)
        BY <2>3, <3>1 DEF LetGo
      <3> QED
        BY <2>1, <2>3, <3>3, <3>4
    <2> QED
      BY <2>2, <2>3
  <1> QED
    BY <1>2, <1>3, <1>4, <1>5, <1>6 DEF SchedInv

\* The rows stay, or only others' do.
LEMMA FlowsRest == ASSUME SchedInv, UNCHANGED wf PROVE \A k \in DOMAIN run : NextKept(k)
  BY DEF NextKept

\* A next time that lies ahead, or none, is nobody's that was fired.
LEMMA FlowsRoll ==
    ASSUME SchedInv,
           \A w \in Flows : wf'[w].st = "live" => \/ wf[w].st = "live" /\ wf'[w].next = wf[w].next
                                                  \/ wf'[w].next = Null \/ now < wf'[w].next
    PROVE  \A k \in DOMAIN run : NextKept(k)
  <1> SUFFICES ASSUME NEW k \in DOMAIN run PROVE NextKept(k)
    OBVIOUS
  <1>1. run[k] \in Runs /\ run[k].due <= now /\ now \in Nat
    BY RunDomain DEF SchedInv, Typed, FiredIsPast
  <1>2. run[k].w \in Flows /\ run[k].due \in Nat
    BY <1>1 DEF Runs
  <1>3. now < wf'[run[k].w].next => run[k].due # wf'[run[k].w].next
    BY <1>1, <1>2
  <1> QED
    BY <1>2, <1>3 DEF NextKept

\* A handler moves.
LEMMA HandMoves ==
    ASSUME SchedInv, Patched, NEW i \in Insts, NEW h \in Hands, hand' = [hand EXCEPT ![i] = h],
           UNCHANGED <<now, lock, tick>>, wf' \in [Flows -> FlowRecs], \A k \in DOMAIN run : NextKept(k),
           HandSound(h, run'), hand[i].k # 0 => h.k = hand[i].k \/ Settled(run'[hand[i].k])
    PROVE  SchedInv'
  <1>t. run \in Seq(Runs) /\ tick \in [Insts -> Ticks] /\ hand \in [Insts -> Hands] /\ lock \in HeldLocks
    BY DEF SchedInv, Typed
  <1>1. LockIsHeld'
    BY DEF SchedInv, LockIsHeld, Ticking
  <1>2. hand' \in [Insts -> Hands] /\ \A j \in Insts : hand'[j] = IF j = i THEN h ELSE hand[j]
    BY <1>t
  <1>3. \A j \in Insts : TickSound(tick[j], run', now) /\ Fresh(tick[j], run') /\ HandSound(hand[j], run')
    BY <1>t, SoundStays DEF SchedInv
  <1>4. \A j \in Insts : /\ TickSound(tick'[j], run', now) /\ Fresh(tick'[j], run') /\ HandSound(hand'[j], run')
                         /\ tick'[j].k = tick[j].k /\ tick'[j].bare = tick[j].bare
                         /\ hand[j].k # 0 => hand'[j].k = hand[j].k \/ Settled(run'[hand[j].k])
    BY <1>2, <1>3
  <1> QED
    BY <1>t, <1>1, <1>2, <1>4, Moves

\* A tick moves.
LEMMA TickMoves ==
    ASSUME SchedInv, Patched, NEW i \in Insts, NEW t \in Ticks, tick' = [tick EXCEPT ![i] = t],
           UNCHANGED <<now, hand>>, wf' \in [Flows -> FlowRecs], \A k \in DOMAIN run : NextKept(k),
           lock' \in HeldLocks, LockIsHeld', TickSound(t, run', now), Fresh(t, run'),
           tick[i].k # 0 => \/ t.k = tick[i].k /\ (t.bare => tick[i].bare \/ run'[tick[i].k].slip)
                            \/ LetGo(tick[i].k)
    PROVE  SchedInv'
  <1>t. run \in Seq(Runs) /\ tick \in [Insts -> Ticks] /\ hand \in [Insts -> Hands]
    BY DEF SchedInv, Typed
  <1>1. tick' \in [Insts -> Ticks] /\ \A j \in Insts : tick'[j] = IF j = i THEN t ELSE tick[j]
    BY <1>t
  <1>2. \A j \in Insts : TickSound(tick[j], run', now) /\ Fresh(tick[j], run') /\ HandSound(hand[j], run')
    BY <1>t, SoundStays DEF SchedInv
  <1>3. \A j \in Insts : /\ TickSound(tick'[j], run', now) /\ Fresh(tick'[j], run') /\ HandSound(hand'[j], run')
                         /\ tick[j].k # 0 => \/ tick'[j].k = tick[j].k /\ (tick'[j].bare => tick[j].bare \/ run'[tick[j].k].slip)
                                             \/ LetGo(tick[j].k)
                         /\ hand'[j].k = hand[j].k
    BY <1>1, <1>2
  <1> QED
    BY <1>t, <1>1, <1>3, Moves

\* A tick that goes on keeps the lock it has.
LEMMA LockStays ==
    ASSUME SchedInv, NEW i \in Insts, NEW t \in Ticks, tick' = [tick EXCEPT ![i] = t], UNCHANGED lock,
           t.pc \notin {"boot", "init", "idle"} /\ ~t.bare => Ticking(i) /\ ~tick[i].bare
    PROVE  LockIsHeld'
  <1>1. \A j \in Insts : tick'[j] = IF j = i THEN t ELSE tick[j]
    BY DEF SchedInv, Typed
  <1> QED
    BY <1>1 DEF SchedInv, LockIsHeld, Ticking

\* Neither ticks nor handlers nor runs change.
LEMMA FlowsMove ==
    ASSUME SchedInv, UNCHANGED <<now, run, tick, hand>>, wf' \in [Flows -> FlowRecs],
           lock' \in HeldLocks, LockIsHeld', \A k \in DOMAIN run : NextKept(k)
    PROVE  SchedInv'
  <1>1. Patched /\ tick' \in [Insts -> Ticks] /\ hand' \in [Insts -> Hands]
    BY PatchNone DEF SchedInv, Typed
  <1>2. \A j \in Insts : /\ TickSound(tick'[j], run', now) /\ Fresh(tick'[j], run') /\ HandSound(hand'[j], run')
                         /\ tick'[j].k = tick[j].k /\ tick'[j].bare = tick[j].bare /\ hand'[j].k = hand[j].k
    BY DEF SchedInv
  <1> QED
    BY <1>1, <1>2, Moves
-----------------------------------------------------------------------------
(* Around the instances.                                                    *)

\* A workflow is created or deleted.
LEMMA FlowSteps ==
    ASSUME SchedInv, NEW w \in Flows,
           \/ \E cron \in Crons, hook \in BOOLEAN, on \in BOOLEAN : CreateFlow(w, cron, hook, on)
           \/ DeleteFlow(w)
    PROVE  SchedInv'
  <1>t. wf \in [Flows -> FlowRecs] /\ now \in Nat /\ lock \in HeldLocks
    BY DEF SchedInv, Typed
  <1>1. UNCHANGED <<now, run, lock, tick, hand>>
    BY DEF CreateFlow, DeleteFlow
  <1>2. LockIsHeld'
    BY <1>1 DEF SchedInv, LockIsHeld, Ticking
  <1>3. CASE \E cron \in Crons, hook \in BOOLEAN, on \in BOOLEAN : CreateFlow(w, cron, hook, on)
    <2>1. PICK cron \in Crons, hook \in BOOLEAN, on \in BOOLEAN : CreateFlow(w, cron, hook, on)
      BY <1>3
    <2> DEFINE c == IF hook THEN Null ELSE cron
               n == IF hook THEN Null ELSE ComputeNextRun(cron)
               f == [st |-> "live", on |-> on, hook |-> hook, cron |-> c, next |-> n]
    <2>2. wf' = [wf EXCEPT ![w] = f]
      BY <2>1 DEF CreateFlow
    <2>3. c \in Crons \cup {Null} /\ n \in Nat /\ (n = Null \/ now < n)
      BY <1>t, NextIsLater DEF Null
    <2> HIDE DEF c, n
    <2>4. f \in FlowRecs /\ f.next = n
      BY <2>3 DEF FlowRecs
    <2> HIDE DEF f
    <2>5. \A v \in Flows : wf'[v] = IF v = w THEN f ELSE wf[v]
      BY <1>t, <2>2
    <2>6. wf' \in [Flows -> FlowRecs]
      BY <1>t, <2>2, <2>4
    <2>7. \A k \in DOMAIN run : NextKept(k)
      BY <2>3, <2>4, <2>5, FlowsRoll
    <2> QED
      BY <1>t, <1>1, <1>2, <2>6, <2>7, FlowsMove
  <1>4. CASE DeleteFlow(w)
    <2> DEFINE f == [wf[w] EXCEPT !.st = "gone"]
    <2>1. wf' = [wf EXCEPT ![w] = f]
      BY <1>4 DEF DeleteFlow
    <2>2. f \in FlowRecs /\ f.st = "gone"
      BY <1>t DEF FlowRecs
    <2> HIDE DEF f
    <2>3. \A v \in Flows : wf'[v] = IF v = w THEN f ELSE wf[v]
      BY <1>t, <2>1
    <2>4. wf' \in [Flows -> FlowRecs]
      BY <1>t, <2>1, <2>2
    <2>5. \A k \in DOMAIN run : NextKept(k)
      BY <2>2, <2>3, FlowsRoll
    <2> QED
      BY <1>t, <1>1, <1>2, <2>4, <2>5, FlowsMove
  <1> QED
    BY <1>3, <1>4

\* A lock nobody has.
LEMMA FreeTypes == FreeLock \in HeldLocks /\ FreeLock.n = 0
  BY DEF FreeLock, HeldLocks

\* An agent starts or stops; the pool closes a connection after the tick.
LEMMA QuietSteps ==
    ASSUME SchedInv, (\E w \in Flows : AgentFlips(w)) \/ IdleCloses \/ UNCHANGED vars PROVE SchedInv'
  <1>1. UNCHANGED <<now, wf, run, tick, hand>> /\ (lock' = lock \/ IdleCloses)
    BY DEF AgentFlips, IdleCloses, vars
  <1>2. LockIsHeld'
    <2>1. CASE lock' = lock
      BY <1>1, <2>1 DEF SchedInv, LockIsHeld, Ticking
    <2>2. CASE IdleCloses
      <3>1. lock.n > 0 /\ ~Ticking(lock.i)
        BY <2>2 DEF IdleCloses
      <3>2. \A i \in Insts : Ticking(i) => tick[i].bare
        BY <3>1 DEF SchedInv, LockIsHeld
      <3> QED
        BY <1>1, <3>2 DEF LockIsHeld, Ticking
    <2> QED
      BY <1>1, <2>1, <2>2
  <1>3. lock' \in HeldLocks /\ wf' \in [Flows -> FlowRecs]
    BY <1>1, FreeTypes DEF SchedInv, Typed, IdleCloses
  <1> QED
    BY <1>1, <1>2, <1>3, FlowsRest, FlowsMove

\* Time passes.
LEMMA ClockSteps == ASSUME SchedInv, Clock PROVE SchedInv'
  <1>1. now' = now + 1 /\ now \in Nat /\ UNCHANGED <<wf, run, lock, tick, hand>>
    BY DEF Clock, SchedInv, Typed
  <1>2. Typed'
    BY <1>1 DEF SchedInv, Typed
  <1>3. \A i \in Insts : TickSound(tick[i], run, now')
    <2> SUFFICES ASSUME NEW i \in Insts PROVE TickSound(tick[i], run, now')
      OBVIOUS
    <2>1. TickSound(tick[i], run, now) /\ tick[i] \in Ticks
      BY DEF SchedInv, Typed
    <2>2. \A w \in ToFire(tick[i]) : tick[i].snap[w].next \in Nat
      BY <2>1 DEF ToFire, Ticks, FlowRecs
    <2> QED
      BY <1>1, <2>1, <2>2 DEF TickSound
  <1>4. \A k \in DOMAIN run : run[k].due <= now'
    <2>1. \A k \in DOMAIN run : run[k].due \in Nat /\ run[k].due <= now
      BY RunDomain DEF SchedInv, Typed, FiredIsPast, Runs
    <2> QED
      BY <1>1, <2>1
  <1>5. LockIsHeld' /\ FiredOnce' /\ UnfinishedIsAttended'
    BY <1>1 DEF SchedInv, LockIsHeld, Ticking, FiredOnce, UnfinishedIsAttended, Working
  <1>6. FiredIsPast'
    BY <1>1, <1>4 DEF SchedInv, FiredIsPast, Live, Moving
  <1> QED
    BY <1>1, <1>2, <1>3, <1>5, <1>6 DEF SchedInv

\* A run is marked, and what it was inserted for stays.
LEMMA Marks ==
    ASSUME NEW x \in Runs
    PROVE  /\ \A b \in BOOLEAN : /\ Kept(x, [x EXCEPT !.sent = b]) /\ Kept(x, [x EXCEPT !.sent = b, !.st = "error"])
           /\ Kept(x, [x EXCEPT !.st = "error"]) /\ Settled([x EXCEPT !.st = "error"])
  <1>1. ASSUME NEW b \in BOOLEAN PROVE Kept(x, [x EXCEPT !.sent = b]) /\ Kept(x, [x EXCEPT !.sent = b, !.st = "error"])
    <2> DEFINE y == [x EXCEPT !.sent = b]
               z == [x EXCEPT !.sent = b, !.st = "error"]
    <2>1. y.w = x.w /\ y.due = x.due /\ y.slip = x.slip /\ y.thread = x.thread /\ y.st = x.st /\ y.lost = x.lost
      BY DEF Runs
    <2>2. z.w = x.w /\ z.due = x.due /\ z.slip = x.slip /\ z.st = "error"
      BY DEF Runs
    <2> HIDE DEF y, z
    <2>3. Kept(x, y) /\ Kept(x, z)
      BY <2>1, <2>2 DEF Kept, Settled
    <2> QED
      BY <2>3 DEF y, z
  <1>2. Kept(x, [x EXCEPT !.st = "error"]) /\ Settled([x EXCEPT !.st = "error"])
    <2> DEFINE y == [x EXCEPT !.st = "error"]
    <2>1. y.w = x.w /\ y.due = x.due /\ y.slip = x.slip /\ y.st = "error"
      BY DEF Runs
    <2> HIDE DEF y
    <2>2. Kept(x, y) /\ Settled(y)
      BY <2>1 DEF Kept, Settled
    <2> QED
      BY <2>2 DEF y
  <1> QED
    BY <1>1, <1>2

\* The marks that are Booleans.
LEMMA Flags ==
    ASSUME NEW x \in Runs
    PROVE  LET th == [x EXCEPT !.thread = TRUE]
               lo == [x EXCEPT !.lost = TRUE]
               sl == [x EXCEPT !.slip = TRUE]
               sx == [x EXCEPT !.slip = TRUE, !.lost = TRUE]
               se == [x EXCEPT !.sent = FALSE, !.lost = TRUE]
           IN  /\ th \in Runs /\ Kept(x, th) /\ Settled(th)
               /\ lo \in Runs /\ Kept(x, lo) /\ Settled(lo)
               /\ sl \in Runs /\ Kept(x, sl) /\ sl.slip
               /\ sx \in Runs /\ Kept(x, sx) /\ sx.slip /\ Settled(sx)
               /\ se \in Runs /\ Kept(x, se)
  <1> DEFINE th == [x EXCEPT !.thread = TRUE]
             lo == [x EXCEPT !.lost = TRUE]
             sl == [x EXCEPT !.slip = TRUE]
             sx == [x EXCEPT !.slip = TRUE, !.lost = TRUE]
             se == [x EXCEPT !.sent = FALSE, !.lost = TRUE]
  <1>b. TRUE \in BOOLEAN /\ FALSE \in BOOLEAN
    OBVIOUS
  <1>1. th \in Runs /\ lo \in Runs /\ sl \in Runs /\ sx \in Runs /\ se \in Runs
    BY <1>b, RunSteps, Zenon
  <1>2. th.w = x.w /\ th.due = x.due /\ th.slip = x.slip /\ th.thread = TRUE
    BY DEF Runs
  <1>3. lo.w = x.w /\ lo.due = x.due /\ lo.slip = x.slip /\ lo.lost = TRUE
    BY DEF Runs
  <1>4. sl.w = x.w /\ sl.due = x.due /\ sl.slip = TRUE /\ sl.thread = x.thread /\ sl.st = x.st /\ sl.lost = x.lost
    BY DEF Runs
  <1>5. sx.w = x.w /\ sx.due = x.due /\ sx.slip = TRUE /\ sx.lost = TRUE
    BY DEF Runs
  <1>6. se.w = x.w /\ se.due = x.due /\ se.slip = x.slip /\ se.lost = TRUE
    BY DEF Runs
  <1> HIDE DEF th, lo, sl, sx, se
  <1>7. /\ Kept(x, th) /\ Settled(th) /\ Kept(x, lo) /\ Settled(lo) /\ Kept(x, sl)
        /\ Kept(x, sx) /\ Settled(sx) /\ Kept(x, se)
    BY <1>2, <1>3, <1>4, <1>5, <1>6 DEF Kept, Settled
  <1>8. sl.slip /\ sx.slip
    BY <1>4, <1>5
  <1> QED
    BY <1>1, <1>7, <1>8 DEF th, lo, sl, sx, se

\* A dispatch that nobody awaits comes to its end.
LEMMA Settles == ASSUME SchedInv, NEW k \in DOMAIN run, DispatchSettles(k) PROVE SchedInv'
  <1>t. run \in Seq(Runs) /\ run[k] \in Runs /\ tick \in [Insts -> Ticks] /\ hand \in [Insts -> Hands]
        /\ lock \in HeldLocks /\ wf \in [Flows -> FlowRecs]
    BY RunDomain DEF SchedInv, Typed
  <1>1. UNCHANGED <<now, wf, lock, tick, hand>>
    BY DEF DispatchSettles
  <1> DEFINE a == [run[k] EXCEPT !.sent = FALSE]
             b == [run[k] EXCEPT !.sent = FALSE, !.st = "error"]
             c == [run[k] EXCEPT !.sent = FALSE, !.lost = TRUE]
  <1>2. run' = [run EXCEPT ![k] = a] \/ run' = [run EXCEPT ![k] = b] \/ run' = [run EXCEPT ![k] = c]
    BY DEF DispatchSettles
  <1>3. a \in Runs /\ b \in Runs /\ Kept(run[k], a) /\ Kept(run[k], b)
    <2>1. FALSE \in BOOLEAN
      OBVIOUS
    <2> QED
      BY <1>t, <2>1, RunSteps, Marks, Zenon
  <1>4. c \in Runs /\ Kept(run[k], c)
    BY <1>t, Flags
  <1> HIDE DEF a, b, c
  <1>5. Patched
    BY <1>t, <1>2, <1>3, <1>4, PatchOne
  <1>6. \A j \in Insts : /\ TickSound(tick'[j], run', now) /\ Fresh(tick'[j], run') /\ HandSound(hand'[j], run')
                         /\ tick'[j].k = tick[j].k /\ tick'[j].bare = tick[j].bare /\ hand'[j].k = hand[j].k
    BY <1>t, <1>1, <1>5, SoundStays DEF SchedInv
  <1>7. LockIsHeld'
    BY <1>1 DEF SchedInv, LockIsHeld, Ticking
  <1> QED
    BY <1>t, <1>1, <1>5, <1>6, <1>7, FlowsRest, Moves
-----------------------------------------------------------------------------
(* Handlers.                                                                *)

\* A handler that serves nobody.
LEMMA IdleHandTypes == IdleHand \in Hands /\ IdleHand.k = 0 /\ IdleHand.pc = "idle" /\ \A rn : HandSound(IdleHand, rn)
  <1>1. AnyFlow \in Flows
    BY DEF AnyFlow
  <1>2. IdleHand \in Hands /\ IdleHand.k = 0 /\ IdleHand.pc = "idle"
    BY <1>1 DEF IdleHand, Hands, HandPcs, Null
  <1> QED
    BY <1>2 DEF HandSound

\* A handler goes on.
LEMMA HandGoes ==
    ASSUME NEW h \in Hands, NEW pc \in HandPcs
    PROVE  [h EXCEPT !.pc = pc] \in Hands /\ [h EXCEPT !.pc = pc].pc = pc /\ [h EXCEPT !.pc = pc].k = h.k
  BY DEF Hands

\* A request is read.
LEMMA HandBegins ==
    ASSUME SchedInv, NEW i \in Insts, NEW w \in Flows,
           \/ \E cron \in Crons \cup {Null}, on \in {"keep", "yes", "no"} : PutRead(i, w, cron, on)
           \/ RunFlow(i, w) \/ HookFlow(i, w)
    PROVE  SchedInv'
  <1>t. hand \in [Insts -> Hands] /\ wf \in [Flows -> FlowRecs] /\ now \in Nat /\ run \in Seq(Runs)
    BY DEF SchedInv, Typed
  <1>1. UNCHANGED <<now, wf, run, lock, tick>> /\ hand[i].pc = "idle"
    BY DEF PutRead, RunFlow, HookFlow, HandAt
  <1>2. hand[i].k = 0 /\ HandSound(hand[i], run)
    BY <1>1 DEF SchedInv, HandSound
  <1>3. PICK h \in Hands : hand' = [hand EXCEPT ![i] = h] /\ h.k = 0 /\ h.pc \in {"put", "insert"}
    <2>1. CASE \E cron \in Crons \cup {Null}, on \in {"keep", "yes", "no"} : PutRead(i, w, cron, on)
      <3>1. PICK cron \in Crons \cup {Null}, on \in {"keep", "yes", "no"} : PutRead(i, w, cron, on)
        BY <2>1
      <3>2. PICK renew \in BOOLEAN :
              hand' = [hand EXCEPT ![i] = [IdleHand EXCEPT !.pc = "put", !.w = w, !.cron = cron, !.on = on,
                          !.next = IF renew THEN ComputeNextRun(IF cron = Null THEN wf[w].cron ELSE cron) ELSE Null]]
        <4> DEFINE re == ~wf[w].hook /\ ((cron # Null /\ cron # wf[w].cron) \/ Enabling(wf[w], on))
        <4>1. re \in BOOLEAN
          OBVIOUS
        <4>2. hand' = [hand EXCEPT ![i] = [IdleHand EXCEPT !.pc = "put", !.w = w, !.cron = cron, !.on = on,
                          !.next = IF re THEN ComputeNextRun(IF cron = Null THEN wf[w].cron ELSE cron) ELSE Null]]
          BY <3>1 DEF PutRead
        <4> HIDE DEF re
        <4> QED
          BY <4>1, <4>2
      <3> DEFINE cr == IF cron = Null THEN wf[w].cron ELSE cron
                 n == IF renew THEN ComputeNextRun(cr) ELSE Null
                 h == [IdleHand EXCEPT !.pc = "put", !.w = w, !.cron = cron, !.on = on, !.next = n]
      <3>3. cr \in Crons \cup {Null}
        BY <1>t DEF FlowRecs
      <3> HIDE DEF cr
      <3>4. n \in Nat
        BY <1>t, <3>3, NextIsLater DEF Null
      <3>5. hand' = [hand EXCEPT ![i] = h]
        BY <3>2 DEF cr
      <3> HIDE DEF n
      <3>6. h \in Hands /\ h.k = IdleHand.k /\ h.pc = "put"
        BY <3>4, IdleHandTypes DEF Hands, HandPcs
      <3> HIDE DEF h
      <3> QED
        BY <3>5, <3>6, IdleHandTypes
    <2>2. CASE RunFlow(i, w) \/ HookFlow(i, w)
      <3> DEFINE h == [IdleHand EXCEPT !.pc = "insert", !.w = w]
      <3>1. hand' = [hand EXCEPT ![i] = h]
        BY <2>2 DEF RunFlow, HookFlow
      <3>2. h \in Hands /\ h.k = IdleHand.k /\ h.pc = "insert"
        BY IdleHandTypes DEF Hands, HandPcs
      <3> HIDE DEF h
      <3> QED
        BY <3>1, <3>2, IdleHandTypes
    <2> QED
      BY <2>1, <2>2
  <1>4. HandSound(h, run')
    BY <1>3 DEF HandSound
  <1> QED
    BY <1>t, <1>1, <1>2, <1>3, <1>4, PatchNone, FlowsRest, HandMoves

\* An edit is written: a time that was computed before a firing and comes back
\* after it marks the run.
LEMMA PutWrites == ASSUME SchedInv, NEW i \in Insts, PutWrite(i) PROVE SchedInv'
  <1> DEFINE h == hand[i]
  <1>t. /\ h \in Hands /\ wf \in [Flows -> FlowRecs] /\ now \in Nat /\ run \in Seq(Runs)
        /\ HandSound(h, run) /\ \A k \in DOMAIN run : run[k] \in Runs
    BY RunDomain DEF SchedInv, Typed
  <1>1. /\ h.pc = "put" /\ hand' = [hand EXCEPT ![i] = IdleHand] /\ UNCHANGED <<now, lock, tick>>
        /\ \/ /\ wf' = [wf EXCEPT ![h.w] = IF wf[h.w].st # "live" THEN wf[h.w] ELSE
                          [wf[h.w] EXCEPT !.cron = Coalesce(h.cron, @), !.next = Coalesce(h.next, @),
                                          !.on = IF h.on = "keep" THEN @ ELSE h.on = "yes"]]
              /\ run' = Rearmed(h.w, h.next)
           \/ UNCHANGED <<wf, run>>
    BY DEF PutWrite, HandAt, Answer
  <1>2. h.k = 0
    BY <1>t, <1>1 DEF HandSound
  <1>3. CASE UNCHANGED <<wf, run>>
    BY <1>t, <1>1, <1>2, <1>3, PatchNone, FlowsRest, IdleHandTypes, HandMoves
  <1>4. CASE /\ wf' = [wf EXCEPT ![h.w] = IF wf[h.w].st # "live" THEN wf[h.w] ELSE
                          [wf[h.w] EXCEPT !.cron = Coalesce(h.cron, @), !.next = Coalesce(h.next, @),
                                          !.on = IF h.on = "keep" THEN @ ELSE h.on = "yes"]]
             /\ run' = Rearmed(h.w, h.next)
    <2> HIDE DEF h
    <2> DEFINE old == wf[h.w]
               cr == Coalesce(h.cron, old.cron)
               nx == Coalesce(h.next, old.next)
               on == IF h.on = "keep" THEN old.on ELSE h.on = "yes"
               f == [old EXCEPT !.cron = cr, !.next = nx, !.on = on]
    <2>1. h.w \in Flows /\ h.next \in Nat /\ h.cron \in Crons \cup {Null}
      BY <1>t DEF Hands
    <2>2. old \in FlowRecs
      BY <1>t, <2>1
    <2>3. cr \in Crons \cup {Null} /\ nx \in Nat
      BY <2>1, <2>2 DEF Coalesce, FlowRecs
    <2>4. on \in BOOLEAN
      BY <2>2 DEF FlowRecs
    <2>5. wf' = [wf EXCEPT ![h.w] = IF old.st # "live" THEN old ELSE f]
      BY <1>4
    <2> HIDE DEF old, cr, nx, on
    <2>6. f \in FlowRecs /\ f.next = nx /\ f.st = old.st
      BY <2>2, <2>3, <2>4 DEF FlowRecs
    <2> HIDE DEF f
    <2>7. wf' \in [Flows -> FlowRecs] /\ \A v \in Flows : v # h.w => wf'[v] = wf[v]
      BY <1>t, <2>1, <2>2, <2>5, <2>6
    <2>8. wf'[h.w] = IF old.st # "live" THEN old ELSE f
      BY <1>t, <2>1, <2>5
    <2>9. \A k \in DOMAIN run :
             run'[k] = IF run[k].w = h.w /\ run[k].due = h.next /\ h.next # Null
                       THEN [run[k] EXCEPT !.slip = TRUE] ELSE run[k]
      BY <1>4 DEF Rearmed
    <2>10. Patched
      <3>1. ASSUME NEW k \in DOMAIN run PROVE run'[k] \in Runs /\ Kept(run[k], run'[k])
        <4>1. Kept(run[k], run[k])
          BY DEF Kept
        <4>2. [run[k] EXCEPT !.slip = TRUE] \in Runs /\ Kept(run[k], [run[k] EXCEPT !.slip = TRUE])
          BY <1>t, Flags
        <4> QED
          BY <1>t, <2>9, <4>1, <4>2
      <3>2. run' = [k \in DOMAIN run |-> run'[k]]
        BY <1>4 DEF Rearmed
      <3> QED
        BY <3>1, <3>2 DEF Patched
    <2>11. ASSUME NEW k \in DOMAIN run PROVE NextKept(k)
      <3>1. run[k].w \in Flows
        BY <1>t DEF Runs
      <3>2. CASE run[k].w # h.w
        BY <2>7, <3>1, <3>2 DEF NextKept
      <3>3. CASE run[k].w = h.w /\ h.next = Null
        BY <2>6, <2>8, <3>3 DEF NextKept, old, nx, Coalesce
      <3>4. CASE run[k].w = h.w /\ h.next # Null /\ run[k].due = h.next
        <4>1. run'[k].slip
          BY <1>t, <2>9, <3>4, Flags
        <4> QED
          BY <4>1 DEF NextKept
      <3>5. CASE run[k].w = h.w /\ h.next # Null /\ run[k].due # h.next
        <4>1. wf'[h.w].st = "live" => wf'[h.w].next = h.next
          BY <2>6, <2>8, <3>5 DEF nx, Coalesce
        <4> QED
          BY <3>5, <4>1 DEF NextKept
      <3> QED
        BY <3>2, <3>3, <3>4, <3>5
    <2> QED
      BY <1>1, <1>2, <2>7, <2>10, <2>11, IdleHandTypes, HandMoves DEF h
  <1> QED
    BY <1>1, <1>3, <1>4

\* A run in a handler's hands goes its way, or the catch labels it.
LEMMA HandSteps ==
    ASSUME SchedInv, NEW i \in Insts,
           RunThread(i) \/ RunLink(i) \/ RunDispatch(i) \/ RunStamp(i) \/ RunLabel(i)
    PROVE  SchedInv'
  <1> DEFINE h == hand[i]
             k == h.k
             x == run[k]
  <1>t. h \in Hands /\ run \in Seq(Runs) /\ HandSound(h, run) /\ wf \in [Flows -> FlowRecs]
    BY DEF SchedInv, Typed
  <1>1. UNCHANGED <<now, wf, lock, tick>> /\ h.pc \in {"thread", "link", "dispatch", "stamp", "label"}
    BY DEF RunThread, RunLink, RunDispatch, RunStamp, RunLabel, HandAt
  <1>2. k \in DOMAIN run /\ x \in Runs /\ k # 0
    BY <1>t, <1>1, RunDomain DEF HandSound
  <1>n. \A j \in DOMAIN run : NextKept(j)
    BY <1>1, FlowsRest
  \* it goes on with its run
  <1>g. ASSUME NEW pc \in HandPcs, HandTo(i, pc), Patched, pc \notin {"idle", "put", "insert"},
               pc \in {"dispatch", "stamp"} => Settled(run'[k])
        PROVE  SchedInv'
    <2> DEFINE g == [h EXCEPT !.pc = pc]
    <2>1. hand' = [hand EXCEPT ![i] = g]
      BY <1>g DEF HandTo
    <2>2. g \in Hands /\ g.pc = pc /\ g.k = k
      BY <1>t, HandGoes
    <2> HIDE DEF g
    <2>3. HandSound(g, run')
      BY <1>g, <1>t, <1>2, <2>2, PatchIsSeq DEF HandSound
    <2> QED
      BY <1>g, <1>n, <1>t, <1>1, <2>1, <2>2, <2>3, HandMoves
  \* it lets go of a run that is settled
  <1>l. ASSUME Answer(i), Patched, Settled(run'[k]) PROVE SchedInv'
    BY <1>l, <1>n, <1>t, <1>1, IdleHandTypes, HandMoves DEF Answer
  <1>p. {"thread", "link", "dispatch", "stamp", "label"} \subseteq HandPcs
    BY DEF HandPcs
  <1>o. UNCHANGED run => Patched
    BY <1>t, PatchNone
  <1>c. RunThrows(i) => SchedInv'
    BY <1>g, <1>o, <1>p DEF RunThrows
  <1>3. CASE RunThread(i)
    BY <1>3, <1>c, <1>g, <1>o, <1>p DEF RunThread
  <1>4. CASE RunLink(i) /\ ~RunThrows(i)
    <2> DEFINE y == [x EXCEPT !.thread = TRUE]
    <2>1. run' = [run EXCEPT ![k] = y] /\ HandTo(i, "dispatch")
      BY <1>4 DEF RunLink
    <2>2. y \in Runs /\ Kept(x, y) /\ Settled(y)
      BY <1>2, Flags
    <2> HIDE DEF y
    <2>3. Patched /\ run'[k] = y
      BY <1>t, <1>2, <2>1, <2>2, PatchOne
    <2> QED
      BY <1>g, <1>p, <2>1, <2>2, <2>3
  <1>5. CASE RunDispatch(i) /\ ~RunThrows(i)
    <2> DEFINE y == [x EXCEPT !.sent = TRUE]
    <2>1. run' = [run EXCEPT ![k] = y] /\ HandTo(i, "stamp") /\ h.pc = "dispatch"
      BY <1>5 DEF RunDispatch, HandAt
    <2>2. TRUE \in BOOLEAN
      OBVIOUS
    <2>3. y \in Runs /\ Kept(x, y)
      BY <1>2, <2>2, RunSteps, Marks, Zenon
    <2>4. Settled(x)
      BY <1>t, <2>1 DEF HandSound
    <2> HIDE DEF y
    <2>5. Patched /\ run'[k] = y /\ Settled(y)
      BY <1>t, <1>2, <2>1, <2>3, <2>4, PatchOne DEF Kept
    <2> QED
      BY <1>g, <1>p, <2>1, <2>5
  <1>6. CASE RunStamp(i) /\ ~RunThrows(i)
    <2>1. Answer(i) /\ UNCHANGED run /\ h.pc = "stamp"
      BY <1>6 DEF RunStamp, HandAt
    <2>2. Settled(run'[k])
      BY <1>t, <2>1 DEF HandSound
    <2> QED
      BY <1>l, <1>o, <2>1, <2>2
  <1>7. CASE RunLabel(i)
    <2> DEFINE a == [x EXCEPT !.st = "error"]
               b == [x EXCEPT !.lost = TRUE]
    <2>1. Answer(i) /\ (run' = [run EXCEPT ![k] = a] \/ run' = [run EXCEPT ![k] = b])
      BY <1>7 DEF RunLabel
    <2>2. a \in Runs /\ Kept(x, a) /\ Settled(a)
      BY <1>2, RunSteps, Marks
    <2>3. b \in Runs /\ Kept(x, b) /\ Settled(b)
      BY <1>2, Flags
    <2> HIDE DEF a, b
    <2>4. Patched /\ Settled(run'[k])
      BY <1>t, <1>2, <2>1, <2>2, <2>3, PatchOne
    <2> QED
      BY <1>l, <2>1, <2>4
  <1> QED
    BY <1>c, <1>3, <1>4, <1>5, <1>6, <1>7 DEF RunLink, RunDispatch, RunStamp
-----------------------------------------------------------------------------
(* Ticks.                                                                   *)

\* A tick that is over, or has just begun again.
LEMMA IdleTickTypes ==
    ASSUME NEW pc \in {"boot", "idle"}, NEW t, t = IF pc = "idle" THEN IdleTick ELSE [IdleTick EXCEPT !.pc = pc]
    PROVE  t \in Ticks /\ t.k = 0 /\ t.pc = pc /\ \A rn, tm : TickSound(t, rn, tm) /\ Fresh(t, rn)
  <1>1. AnyFlow \in Flows
    BY DEF AnyFlow
  <1>2. NewFlow \in FlowRecs
    BY DEF NewFlow, FlowRecs, Null
  <1>3. [w \in Flows |-> NewFlow] \in [Flows -> FlowRecs]
    BY <1>2
  <1>4. IdleTick \in Ticks /\ IdleTick.k = 0 /\ IdleTick.pc = "idle"
    BY <1>1, <1>3 DEF IdleTick, Ticks, TickPcs
  <1>5. t \in Ticks /\ t.k = 0 /\ t.pc = pc
    BY <1>4 DEF Ticks, TickPcs
  <1> QED
    BY <1>5 DEF TickSound, Fresh, Busy, Firing

\* A tick goes on.
LEMMA TickGoes ==
    ASSUME NEW t \in Ticks, NEW pc \in TickPcs
    PROVE  LET g == [t EXCEPT !.pc = pc]
           IN  /\ g \in Ticks /\ g.pc = pc /\ g.k = t.k /\ g.w = t.w /\ g.todo = t.todo
               /\ g.snap = t.snap /\ g.bare = t.bare
  BY DEF Ticks

\* A tick that has inserted a run goes on with it.
LEMMA RunGoes ==
    ASSUME SchedInv, Patched, NEW i \in Insts, NEW t \in Ticks, tick' = [tick EXCEPT ![i] = t],
           UNCHANGED <<now, wf, lock, hand>>, tick[i].pc \in Busy \ {"advance"}, t.pc \in Busy,
           t.k = tick[i].k, t.w = tick[i].w, t.todo = tick[i].todo, t.snap = tick[i].snap,
           t.bare = tick[i].bare, t.pc = "advance" => Settled(run'[t.k])
    PROVE  SchedInv'
  <1>t. run \in Seq(Runs) /\ tick[i] \in Ticks /\ wf \in [Flows -> FlowRecs] /\ lock \in HeldLocks
    BY DEF SchedInv, Typed
  <1>1. TickSound(tick[i], run', now) /\ Fresh(tick[i], run')
    BY <1>t, SoundStays DEF SchedInv
  <1>2. ToFire(t) = ToFire(tick[i])
    BY DEF ToFire, Busy
  <1>3. TickSound(t, run', now)
    BY <1>1, <1>2 DEF TickSound, Busy, Firing
  <1>4. Fresh(t, run')
    BY <1>1, <1>2 DEF Fresh, Busy, Firing
  <1>5. LockIsHeld'
    BY LockStays DEF Busy, Ticking
  <1> QED
    BY <1>t, <1>3, <1>4, <1>5, FlowsRest, TickMoves

\* The run is given its thread and dispatched, linked, or labelled.
LEMMA RunTicks ==
    ASSUME SchedInv, NEW i \in Insts, TickThread(i) \/ TickDispatch(i) \/ TickLink(i) \/ TickLabel(i)
    PROVE  SchedInv'
  <1> DEFINE t == tick[i]
             k == t.k
             x == run[k]
  <1>t. t \in Ticks /\ run \in Seq(Runs) /\ TickSound(t, run, now)
    BY DEF SchedInv, Typed
  <1>1. UNCHANGED <<now, wf, lock, hand>> /\ t.pc \in Busy \ {"advance"}
    BY DEF TickThread, TickDispatch, TickLink, TickLabel, TickAt, Busy
  <1>2. k \in DOMAIN run /\ x \in Runs /\ k # 0
    BY <1>t, <1>1, RunDomain DEF TickSound
  <1>p. Busy \subseteq TickPcs
    BY DEF Busy, TickPcs
  <1>o. UNCHANGED run => Patched
    BY <1>t, PatchNone
  <1>g. ASSUME NEW pc \in Busy, TickTo(i, pc), Patched, pc = "advance" => Settled(run'[k]) PROVE SchedInv'
    <2> DEFINE g == [t EXCEPT !.pc = pc]
    <2>1. tick' = [tick EXCEPT ![i] = g]
      BY <1>g DEF TickTo
    <2>2. /\ g \in Ticks /\ g.pc = pc /\ g.k = k /\ g.w = t.w /\ g.todo = t.todo
          /\ g.snap = t.snap /\ g.bare = t.bare
      BY <1>t, <1>g, <1>p, TickGoes
    <2> HIDE DEF g
    <2> QED
      BY <1>g, <1>1, <2>1, <2>2, RunGoes
  <1>b. {"dispatch", "link", "label", "advance"} \subseteq Busy
    BY DEF Busy
  <1>3. CASE TickThread(i)
    BY <1>3, <1>b, <1>g, <1>o DEF TickThread
  <1>4. CASE TickDispatch(i) /\ ~TickTo(i, "label")
    <2>1. PICK no \in BOOLEAN : tick' = [tick EXCEPT ![i].pc = "link", ![i].refused = no]
      BY <1>4 DEF TickDispatch
    <2> DEFINE g == [t EXCEPT !.pc = "link", !.refused = no]
    <2>2. tick' = [tick EXCEPT ![i] = g]
      BY <2>1
    <2>3. /\ g \in Ticks /\ g.pc = "link" /\ g.k = k /\ g.w = t.w /\ g.todo = t.todo
          /\ g.snap = t.snap /\ g.bare = t.bare
      BY <1>t DEF Ticks, TickPcs
    <2>4. UNCHANGED run
      BY <1>4 DEF TickDispatch
    <2> HIDE DEF g
    <2> QED
      BY <1>b, <1>o, <1>1, <2>2, <2>3, <2>4, RunGoes
  <1>5. CASE TickDispatch(i) /\ TickTo(i, "label")
    BY <1>5, <1>b, <1>g, <1>o DEF TickDispatch
  <1>6. CASE TickLink(i)
    <2>1. CASE UNCHANGED run /\ TickTo(i, "label")
      BY <2>1, <1>b, <1>g, <1>o
    <2> DEFINE y == [x EXCEPT !.thread = TRUE]
    <2>2. CASE run' = [run EXCEPT ![k] = y] /\ TickTo(i, IF t.refused THEN "label" ELSE "advance")
      <3>1. y \in Runs /\ Kept(x, y) /\ Settled(y)
        BY <1>2, Flags
      <3> HIDE DEF y
      <3>2. Patched /\ run'[k] = y
        BY <1>t, <1>2, <2>2, <3>1, PatchOne
      <3> DEFINE pc == IF t.refused THEN "label" ELSE "advance"
      <3>3. pc \in Busy
        BY <1>b
      <3> QED
        BY <1>g, <2>2, <3>1, <3>2, <3>3
    <2> QED
      BY <1>6, <2>1, <2>2 DEF TickLink
  <1>7. CASE TickLabel(i)
    <2> DEFINE a == [x EXCEPT !.st = "error"]
               b == [x EXCEPT !.lost = TRUE]
    <2>1. TickTo(i, "advance") /\ (run' = [run EXCEPT ![k] = a] \/ run' = [run EXCEPT ![k] = b])
      BY <1>7 DEF TickLabel
    <2>2. a \in Runs /\ Kept(x, a) /\ Settled(a)
      BY <1>2, RunSteps, Marks
    <2>3. b \in Runs /\ Kept(x, b) /\ Settled(b)
      BY <1>2, Flags
    <2> HIDE DEF a, b
    <2>4. Patched /\ Settled(run'[k])
      BY <1>t, <1>2, <2>1, <2>2, <2>3, PatchOne
    <2> QED
      BY <1>b, <1>g, <2>1, <2>4
  <1> QED
    BY <1>3, <1>4, <1>5, <1>6, <1>7

\* A tick with no run in its hands goes where it is to fire for nothing yet.
LEMMA QuietTick ==
    ASSUME SchedInv, NEW i \in Insts, NEW t \in Ticks, tick' = [tick EXCEPT ![i] = t],
           UNCHANGED <<now, run, hand>>, tick[i].pc \notin Busy, t.k = 0, t.pc \notin Firing,
           wf' \in [Flows -> FlowRecs], \A k \in DOMAIN run : NextKept(k), lock' \in HeldLocks, LockIsHeld'
    PROVE  SchedInv'
  <1>t. run \in Seq(Runs) /\ TickSound(tick[i], run, now)
    BY DEF SchedInv, Typed
  <1>1. tick[i].k = 0
    BY <1>t DEF TickSound
  <1>2. TickSound(t, run', now) /\ Fresh(t, run')
    BY DEF TickSound, Fresh, Firing
  <1> QED
    BY <1>t, <1>1, <1>2, PatchNone, TickMoves

\* An instance starts: next times that are missing are read and written.
LEMMA BootSteps == ASSUME SchedInv, NEW i \in Insts, BootRead(i) \/ BootWrite(i) PROVE SchedInv'
  <1> DEFINE t == tick[i]
  <1>t. t \in Ticks /\ wf \in [Flows -> FlowRecs] /\ lock \in HeldLocks /\ now \in Nat /\ TickSound(t, run, now)
    BY DEF SchedInv, Typed
  <1>1. UNCHANGED <<now, run, lock, hand>> /\ t.pc \in {"boot", "init"} /\ t.pc \notin Busy
    BY DEF BootRead, BootWrite, TickAt, Busy
  <1>k. t.k = 0
    BY <1>t, <1>1 DEF TickSound
  <1>2. ASSUME NEW g \in Ticks, tick' = [tick EXCEPT ![i] = g], g.k = 0, g.pc \in {"init", "idle"},
               wf' \in [Flows -> FlowRecs], \A k \in DOMAIN run : NextKept(k)
        PROVE  SchedInv'
    <2>1. LockIsHeld'
      BY <1>2, <1>1, LockStays
    <2>2. g.pc \notin Firing
      BY <1>2 DEF Firing, Busy
    <2> QED
      BY <1>2, <1>t, <1>1, <2>1, <2>2, QuietTick
  <1>i. IdleTick \in Ticks /\ IdleTick.k = 0 /\ IdleTick.pc = "idle"
    BY IdleTickTypes
  <1>3. CASE BootRead(i)
    <2>w. UNCHANGED wf /\ \A k \in DOMAIN run : NextKept(k)
      BY <1>3, FlowsRest DEF BootRead
    <2>1. CASE TickTo(i, "idle")
      <3> DEFINE g == [t EXCEPT !.pc = "idle"]
      <3>1. g \in Ticks /\ g.pc = "idle" /\ g.k = t.k
        BY <1>t, TickGoes DEF TickPcs
      <3>2. tick' = [tick EXCEPT ![i] = g]
        BY <2>1 DEF TickTo
      <3> HIDE DEF g
      <3> QED
        BY <1>t, <1>k, <1>2, <2>w, <3>1, <3>2
    <2>2. CASE ~TickTo(i, "idle")
      <3> DEFINE td == {w \in Flows : Live(w) /\ wf[w].on /\ wf[w].next = Null}
                 g == [IdleTick EXCEPT !.pc = "init", !.snap = wf, !.todo = td]
      <3>1. tick' = [tick EXCEPT ![i] = g]
        BY <1>3, <2>2 DEF BootRead
      <3>2. td \in SUBSET Flows
        OBVIOUS
      <3> HIDE DEF td
      <3>3. g \in Ticks /\ g.pc = "init" /\ g.k = IdleTick.k
        BY <1>t, <1>i, <3>2 DEF Ticks, TickPcs
      <3> HIDE DEF g
      <3> QED
        BY <1>t, <1>i, <1>2, <2>w, <3>1, <3>3
    <2> QED
      BY <2>1, <2>2
  <1>4. CASE BootWrite(i)
    <2>1. CASE tick' = [tick EXCEPT ![i] = IdleTick] /\ UNCHANGED wf
      BY <1>t, <1>i, <1>2, <2>1, FlowsRest
    <2>2. ASSUME NEW w \in t.todo, tick' = [tick EXCEPT ![i].todo = @ \ {w}],
                 wf' = IF ComputeNextRun(t.snap[w].cron) = Null \/ ~Live(w) THEN wf
                       ELSE [wf EXCEPT ![w].next = ComputeNextRun(t.snap[w].cron)]
          PROVE  SchedInv'
      <3> DEFINE g == [t EXCEPT !.todo = t.todo \ {w}]
                 nx == ComputeNextRun(t.snap[w].cron)
      <3>1. tick' = [tick EXCEPT ![i] = g]
        BY <2>2
      <3>2. g \in Ticks /\ g.pc = t.pc /\ g.k = t.k
        BY <1>t DEF Ticks
      <3>3. w \in Flows /\ t.snap[w].cron \in Crons \cup {Null}
        BY <1>t, <2>2 DEF Ticks, FlowRecs
      <3>4. nx \in Nat /\ (nx # Null => now < nx)
        BY <1>t, <3>3, NextIsLater
      <3>5. wf' = IF nx = Null \/ ~Live(w) THEN wf ELSE [wf EXCEPT ![w].next = nx]
        BY <2>2
      <3> HIDE DEF g, nx
      <3>6. wf' \in [Flows -> FlowRecs] /\ \A v \in Flows : wf'[v] = wf[v] \/ now < wf'[v].next
        <4> DEFINE f == [wf[w] EXCEPT !.next = nx]
        <4>1. f \in FlowRecs /\ f.next = nx
          BY <1>t, <3>3, <3>4 DEF FlowRecs
        <4>2. wf' = IF nx = Null \/ ~Live(w) THEN wf ELSE [wf EXCEPT ![w] = f]
          BY <3>5
        <4> HIDE DEF f
        <4>3. CASE wf' = wf
          BY <1>t, <4>3
        <4>4. CASE wf' = [wf EXCEPT ![w] = f] /\ nx # Null /\ Live(w)
          <5>1. wf' \in [Flows -> FlowRecs] /\ \A v \in Flows : wf'[v] = IF v = w THEN f ELSE wf[v]
            BY <1>t, <3>3, <4>1, <4>4
          <5> QED
            BY <3>4, <4>1, <4>4, <5>1
        <4> QED
          BY <4>2, <4>3, <4>4
      <3>7. \A k \in DOMAIN run : NextKept(k)
        BY <3>6, FlowsRoll
      <3>8. t.pc = "init"
        BY <1>4 DEF BootWrite, TickAt
      <3> QED
        BY <1>k, <1>2, <3>1, <3>2, <3>6, <3>7, <3>8
    <2> QED
      BY <1>4, <2>1, <2>2 DEF BootWrite
  <1> QED
    BY <1>3, <1>4

\* The lock is taken, and left, or not.
LEMMA LockSteps ==
    ASSUME SchedInv, NEW i \in Insts, (\E c \in Conns : TickLock(i, c)) \/ TickUnlock(i) PROVE SchedInv'
  <1> DEFINE t == tick[i]
  <1>t. t \in Ticks /\ wf \in [Flows -> FlowRecs] /\ lock \in HeldLocks /\ tick \in [Insts -> Ticks]
        /\ TickSound(t, run, now) /\ lock.n \in Nat
    BY DEF SchedInv, Typed, HeldLocks
  <1>1. UNCHANGED <<now, wf, run, hand>> /\ t.pc \in {"idle", "unlock"} /\ t.pc \notin Busy
    BY DEF TickLock, TickUnlock, TickAt, Busy
  <1>k. t.k = 0
    BY <1>t, <1>1 DEF TickSound
  <1>2. CASE \E c \in Conns : TickLock(i, c)
    <2>1. PICK c \in Conns : TickLock(i, c)
      BY <1>2
    <2> DEFINE g == [t EXCEPT !.pc = "read"]
    <2>2. g \in Ticks /\ g.pc = "read" /\ g.k = t.k
      BY <1>t, TickGoes DEF TickPcs
    <2>3. tick' = [tick EXCEPT ![i] = g] /\ lock' = [i |-> i, c |-> c, n |-> lock.n + 1]
      BY <2>1 DEF TickLock, TickTo
    <2> HIDE DEF g
    <2>4. lock' \in HeldLocks /\ lock'.n > 0 /\ lock'.i = i
      BY <1>t, <2>3 DEF HeldLocks
    <2>5. LockIsHeld'
      <3>1. lock.n = 0 \/ lock.i = i
        BY <2>1 DEF TickLock, CanLock
      <3>2. \A j \in Insts : j # i => tick'[j] = tick[j]
        BY <1>t, <2>3
      <3>3. \A j \in Insts : j # i => ~(Ticking(j) /\ ~tick[j].bare)
        BY <1>t, <3>1 DEF SchedInv, LockIsHeld
      <3> QED
        BY <2>4, <3>2, <3>3 DEF LockIsHeld, Ticking
    <2>6. g.pc \notin Firing
      BY <2>2 DEF Firing, Busy
    <2> QED
      BY <1>t, <1>k, <1>1, <2>2, <2>3, <2>4, <2>5, <2>6, FlowsRest, QuietTick
  <1>3. CASE TickUnlock(i)
    <2>1. tick' = [tick EXCEPT ![i] = IdleTick]
      BY <1>3 DEF TickUnlock
    <2>2. IdleTick \in Ticks /\ IdleTick.k = 0 /\ IdleTick.pc = "idle"
      BY IdleTickTypes
    <2>3. lock' = lock \/ (lock.i = i /\ lock' = Released)
      BY <1>3 DEF TickUnlock
    <2>4. Released \in HeldLocks
      BY <1>t, FreeTypes DEF Released, HeldLocks
    <2>5. LockIsHeld'
      <3>1. \A j \in Insts : j # i => tick'[j] = tick[j]
        BY <1>t, <2>1
      <3>2. tick'[i].pc = "idle"
        BY <1>t, <2>1, <2>2
      <3>3. \A j \in Insts : j # i /\ Ticking(j) /\ ~tick[j].bare => lock.n > 0 /\ lock.i = j /\ lock' = lock
        BY <2>3 DEF SchedInv, LockIsHeld
      <3> QED
        BY <3>1, <3>2, <3>3 DEF LockIsHeld, Ticking
    <2>6. IdleTick.pc \notin Firing
      BY <2>2 DEF Firing, Busy
    <2> QED
      BY <1>t, <1>1, <2>1, <2>2, <2>3, <2>4, <2>5, <2>6, FlowsRest, QuietTick
  <1> QED
    BY <1>2, <1>3

\* A tick reads what is due: with the lock, nothing of it was fired before.
LEMMA ReadSteps == ASSUME SchedInv, NEW i \in Insts, TickRead(i) PROVE SchedInv'
  <1> DEFINE t == tick[i]
  <1>t. /\ t \in Ticks /\ wf \in [Flows -> FlowRecs] /\ lock \in HeldLocks /\ now \in Nat
        /\ TickSound(t, run, now) /\ run \in Seq(Runs)
    BY DEF SchedInv, Typed
  <1>1. UNCHANGED <<now, wf, run, lock, hand>> /\ t.pc = "read" /\ t.pc \notin Busy
    BY DEF TickRead, TickAt, Busy
  <1>k. t.k = 0
    BY <1>t, <1>1 DEF TickSound
  <1>2. CASE TickTo(i, "unlock")
    <2> DEFINE g == [t EXCEPT !.pc = "unlock"]
    <2>1. g \in Ticks /\ g.pc = "unlock" /\ g.k = t.k /\ g.bare = t.bare
      BY <1>t, TickGoes DEF TickPcs
    <2>2. tick' = [tick EXCEPT ![i] = g]
      BY <1>2 DEF TickTo
    <2> HIDE DEF g
    <2>3. LockIsHeld' /\ g.pc \notin Firing
      BY <1>1, <2>1, <2>2, LockStays DEF Ticking, Firing, Busy
    <2> QED
      BY <1>t, <1>k, <1>1, <2>1, <2>2, <2>3, FlowsRest, QuietTick
  <1>3. CASE ~TickTo(i, "unlock")
    <2> DEFINE td == {w \in Flows : Due(w)}
               up == {w \in Flows : agentUp[w]}
               g == [t EXCEPT !.pc = "pick", !.snap = wf, !.todo = td, !.ups = up]
    <2>1. tick' = [tick EXCEPT ![i] = g]
      BY <1>3 DEF TickRead
    <2>2. td \in SUBSET Flows /\ up \in SUBSET Flows
      OBVIOUS
    <2>3. \A w \in td : wf[w].st = "live" /\ wf[w].next # Null /\ wf[w].next <= now
      BY DEF Due, Live
    <2> HIDE DEF td, up
    <2>4. g \in Ticks /\ g.pc = "pick" /\ g.k = t.k /\ g.bare = t.bare /\ g.todo = td /\ g.snap = wf
      BY <1>t, <2>2 DEF Ticks, TickPcs
    <2> HIDE DEF g
    <2>5. ToFire(g) = td
      BY <2>4 DEF ToFire
    <2>6. TickSound(g, run', now)
      BY <1>k, <2>3, <2>4, <2>5 DEF TickSound, Busy
    <2>7. Fresh(g, run')
      <3> SUFFICES ASSUME ~t.bare, NEW w \in td, NEW k \in DOMAIN run, run[k].w = w, run[k].due = wf[w].next, ~run[k].slip
                   PROVE  FALSE
        BY <1>1, <2>4, <2>5 DEF Fresh
      <3>1. run[k].due # Null /\ Live(run[k].w)
        BY <2>3 DEF Live
      <3>2. PICK j \in Insts : tick[j].k = k /\ ~tick[j].bare
        BY <3>1 DEF SchedInv, FiredIsPast, Moving
      <3>3. tick[j].k # 0 /\ TickSound(tick[j], run, now)
        BY <1>t, <3>2, RunDomain DEF SchedInv
      <3>4. tick[j].pc \in Busy
        BY <3>3 DEF TickSound
      <3>5. lock.i = j
        BY <3>2, <3>4 DEF SchedInv, LockIsHeld, Ticking, Busy
      <3>6. lock.i = i
        BY <1>1 DEF SchedInv, LockIsHeld, Ticking
      <3> QED
        BY <1>k, <3>3, <3>5, <3>6
    <2>8. LockIsHeld'
      BY <1>1, <2>1, <2>4, LockStays DEF Ticking
    <2> QED
      BY <1>t, <1>k, <1>1, <2>1, <2>4, <2>6, <2>7, <2>8, PatchNone, FlowsRest, TickMoves
  <1> QED
    BY <1>2, <1>3

\* A tick that is to fire for no more than before, and has no run in its hands.
LEMMA PickGoes ==
    ASSUME SchedInv, NEW i \in Insts, NEW t \in Ticks, tick' = [tick EXCEPT ![i] = t],
           UNCHANGED <<now, wf, run, lock, hand>>, tick[i].pc \in {"pick", "insert"}, t.k = 0,
           t.pc \in {"pick", "insert", "advance", "unlock"}, t.bare = tick[i].bare, t.snap = tick[i].snap,
           ToFire(t) \subseteq ToFire(tick[i]), t.pc = "insert" => t.w \notin t.todo
    PROVE  SchedInv'
  <1>t. /\ TickSound(tick[i], run, now) /\ Fresh(tick[i], run) /\ run \in Seq(Runs)
        /\ wf \in [Flows -> FlowRecs] /\ lock \in HeldLocks
    BY DEF SchedInv, Typed
  <1>1. tick[i].k = 0
    BY <1>t DEF TickSound, Busy
  <1>2. TickSound(t, run', now)
    BY <1>t DEF TickSound, Busy, Firing
  <1>3. Fresh(t, run')
    BY <1>t DEF Fresh, Busy, Firing
  <1>4. LockIsHeld'
    BY LockStays DEF Ticking
  <1> QED
    BY <1>t, <1>1, <1>2, <1>3, <1>4, PatchNone, FlowsRest, TickMoves

\* A tick takes the next of what is due, or ends; the INSERT fails.
LEMMA PickSteps ==
    ASSUME SchedInv, NEW i \in Insts, TickPick(i) \/ (TickInsert(i) /\ UNCHANGED run /\ TickTo(i, "pick"))
    PROVE  SchedInv'
  <1> DEFINE t == tick[i]
  <1>t. t \in Ticks /\ TickSound(t, run, now) /\ run \in Seq(Runs)
    BY DEF SchedInv, Typed
  <1>1. UNCHANGED <<now, wf, run, lock, hand>> /\ t.pc \in {"pick", "insert"}
    BY DEF TickPick, TickInsert, TickAt
  <1>k. t.k = 0
    BY <1>t, <1>1 DEF TickSound, Busy
  <1>2. ASSUME NEW pc \in {"pick", "unlock"}, TickTo(i, pc) PROVE SchedInv'
    <2> DEFINE g == [t EXCEPT !.pc = pc]
    <2>p. pc \in TickPcs
      BY DEF TickPcs
    <2>1. g \in Ticks /\ g.pc = pc /\ g.k = t.k /\ g.bare = t.bare /\ g.todo = t.todo /\ g.snap = t.snap
      BY <1>t, <2>p, TickGoes
    <2>2. tick' = [tick EXCEPT ![i] = g]
      BY <1>2 DEF TickTo
    <2> HIDE DEF g
    <2>3. ToFire(g) \subseteq ToFire(t)
      BY <2>1 DEF ToFire
    <2> QED
      BY <1>k, <1>1, <2>1, <2>2, <2>3, PickGoes
  <1>3. ASSUME NEW w \in t.todo, t.pc = "pick",
               tick' = [tick EXCEPT ![i] = [t EXCEPT !.w = w, !.todo = @ \ {w},
                                                     !.pc = IF w \in t.ups THEN "insert" ELSE "advance"]]
        PROVE  SchedInv'
    <2> DEFINE pc == IF w \in t.ups THEN "insert" ELSE "advance"
               td == t.todo \ {w}
               g == [t EXCEPT !.w = w, !.todo = td, !.pc = pc]
    <2>1. pc \in {"insert", "advance"} /\ w \in Flows /\ td \subseteq Flows /\ td \subseteq t.todo /\ w \notin td
      BY <1>t DEF Ticks
    <2>2. tick' = [tick EXCEPT ![i] = g]
      BY <1>3
    <2> HIDE DEF pc, td
    <2>3. /\ g \in Ticks /\ g.pc = pc /\ g.k = t.k /\ g.bare = t.bare /\ g.todo = td /\ g.snap = t.snap /\ g.w = w
      BY <1>t, <2>1 DEF Ticks, TickPcs
    <2> HIDE DEF g
    <2>4. ToFire(g) \subseteq ToFire(t)
      BY <1>3, <2>1, <2>3 DEF ToFire
    <2> QED
      BY <1>k, <1>1, <2>1, <2>2, <2>3, <2>4, PickGoes
  <1>4. CASE TickPick(i)
    <2>1. t.pc = "pick"
      BY <1>4 DEF TickPick, TickAt
    <2>2. \/ TickTo(i, "unlock")
          \/ \E w \in t.todo : tick' = [tick EXCEPT ![i] = [t EXCEPT !.w = w, !.todo = @ \ {w},
                                            !.pc = IF w \in t.ups THEN "insert" ELSE "advance"]]
      BY <1>4 DEF TickPick
    <2> QED
      BY <1>2, <1>3, <2>1, <2>2
  <1>5. CASE TickInsert(i) /\ UNCHANGED run /\ TickTo(i, "pick")
    BY <1>2, <1>5
  <1> QED
    BY <1>4, <1>5

\* The mark on a run whose tick failed it.
LEMMA Slips ==
    ASSUME run \in Seq(Runs), NEW k, k = 0 \/ k \in DOMAIN run, run' = Slip(k)
    PROVE  Patched /\ (k # 0 => run'[k].slip)
  <1>1. CASE k = 0
    BY <1>1, PatchNone DEF Slip
  <1>2. CASE k # 0
    <2> DEFINE y == [run[k] EXCEPT !.slip = TRUE]
    <2>1. k \in DOMAIN run /\ run[k] \in Runs /\ run' = [run EXCEPT ![k] = y]
      BY <1>2, RunDomain DEF Slip
    <2>2. y \in Runs /\ Kept(run[k], y) /\ y.slip
      BY <2>1, Flags
    <2> HIDE DEF y
    <2>3. Patched /\ run'[k] = y
      BY <2>1, <2>2, PatchOne
    <2> QED
      BY <2>2, <2>3
  <1> QED
    BY <1>1, <1>2

\* A tick moves the workflow to its next time and lets the run go.
LEMMA AdvanceSteps == ASSUME SchedInv, NEW i \in Insts, TickAdvance(i) PROVE SchedInv'
  <1> DEFINE t == tick[i]
             k == t.k
             g == [t EXCEPT !.pc = "pick", !.k = 0, !.refused = FALSE]
             nx == ComputeNextRun(t.snap[t.w].cron)
  <1>t. /\ t \in Ticks /\ wf \in [Flows -> FlowRecs] /\ lock \in HeldLocks /\ now \in Nat
        /\ TickSound(t, run, now) /\ Fresh(t, run) /\ run \in Seq(Runs)
    BY DEF SchedInv, Typed
  <1>1. UNCHANGED <<now, lock, hand>> /\ t.pc = "advance" /\ tick' = [tick EXCEPT ![i] = g]
    BY DEF TickAdvance, TickAt
  <1>2. g \in Ticks /\ g.pc = "pick" /\ g.k = 0 /\ g.todo = t.todo /\ g.snap = t.snap /\ g.bare = t.bare
    BY <1>t DEF Ticks, TickPcs
  <1>3. t.w \in Flows /\ t.snap[t.w].cron \in Crons \cup {Null}
    BY <1>t DEF Ticks, FlowRecs
  <1>4. nx \in Nat /\ (nx # Null => now < nx)
    BY <1>t, <1>3, NextIsLater
  <1>5. \/ wf' = (IF Live(t.w) THEN [wf EXCEPT ![t.w].next = nx] ELSE wf) /\ UNCHANGED run
        \/ run' = Slip(k) /\ UNCHANGED wf
    BY DEF TickAdvance
  <1> HIDE DEF g, nx
  <1>6. k # 0 => k \in DOMAIN run /\ run[k].w = t.w /\ Settled(run[k]) /\ run[k].due <= now /\ run[k] \in Runs
    BY <1>t, <1>1, RunDomain DEF TickSound, SchedInv, FiredIsPast
  <1>7. ToFire(g) = ToFire(t)
    BY <1>1, <1>2 DEF ToFire
  <1>8. ASSUME Patched PROVE TickSound(g, run', now) /\ Fresh(g, run')
    <2>1. TickSound(t, run', now) /\ Fresh(t, run')
      BY <1>t, <1>8, SoundStays
    <2>2. TickSound(g, run', now)
      BY <1>1, <1>2, <1>7, <2>1 DEF TickSound, Busy, Firing
    <2>3. Fresh(g, run')
      BY <1>1, <1>2, <1>7, <2>1 DEF Fresh, Busy, Firing
    <2> QED
      BY <2>2, <2>3
  <1>9. LockIsHeld'
    BY <1>1, <1>2, LockStays DEF Ticking
  <1>10. CASE run' = Slip(k) /\ UNCHANGED wf
    <2>1. Patched /\ (k # 0 => run'[k].slip)
      BY <1>t, <1>6, <1>10, Slips
    <2>2. k # 0 => LetGo(k)
      BY <1>6, <2>1 DEF LetGo, Patched, Kept
    <2> QED
      BY <1>t, <1>1, <1>2, <1>8, <1>9, <1>10, <2>1, <2>2, FlowsRest, TickMoves
  <1>11. CASE wf' = (IF Live(t.w) THEN [wf EXCEPT ![t.w].next = nx] ELSE wf) /\ UNCHANGED run
    <2> DEFINE old == wf[t.w]
               f == [old EXCEPT !.next = nx]
    <2>o. old \in FlowRecs
      BY <1>t, <1>3
    <2> HIDE DEF old
    <2>1. f \in FlowRecs /\ f.next = nx
      BY <1>4, <2>o DEF FlowRecs
    <2>2. wf' = IF Live(t.w) THEN [wf EXCEPT ![t.w] = f] ELSE wf
      BY <1>11 DEF old
    <2> HIDE DEF f
    <2>3. wf' \in [Flows -> FlowRecs]
      BY <1>t, <1>3, <2>1, <2>2
    <2>4. \A v \in Flows : wf'[v] = IF v = t.w /\ Live(t.w) THEN f ELSE wf[v]
      BY <1>t, <1>3, <2>2
    <2>5. \A j \in DOMAIN run : NextKept(j)
      BY <1>4, <2>1, <2>4, FlowsRoll
    <2>6. Patched
      BY <1>t, <1>11, PatchNone
    <2>7. k # 0 => LetGo(k)
      <3> SUFFICES ASSUME k # 0 PROVE LetGo(k)
        OBVIOUS
      <3>1. run[k].due \in Nat
        BY <1>6 DEF Runs
      <3>2. CASE Live(t.w)
        <4>1. wf'[t.w].next = nx
          BY <1>3, <2>1, <2>4, <3>2
        <4>2. run[k].due = Null \/ run[k].due # nx
          BY <1>t, <1>4, <1>6, <3>1
        <4> QED
          BY <1>6, <1>11, <4>1, <4>2 DEF LetGo
      <3>3. CASE ~Live(t.w)
        BY <1>6, <1>11, <3>3 DEF LetGo, Live
      <3> QED
        BY <3>2, <3>3
    <2> QED
      BY <1>t, <1>1, <1>2, <1>8, <1>9, <2>3, <2>5, <2>6, <2>7, TickMoves
  <1> QED
    BY <1>5, <1>10, <1>11

\* The connection with the lock is closed in the middle of the tick.
LEMMA LostSteps == ASSUME SchedInv, LockLost PROVE SchedInv'
  <1> DEFINE i == lock.i
             t == tick[i]
             k == t.k
             g == [t EXCEPT !.bare = TRUE]
  <1>t. /\ i \in Insts /\ t \in Ticks /\ wf \in [Flows -> FlowRecs] /\ TickSound(t, run, now)
        /\ run \in Seq(Runs) /\ tick \in [Insts -> Ticks]
    BY DEF SchedInv, Typed, HeldLocks
  <1>1. /\ UNCHANGED <<now, wf, hand>> /\ lock' = FreeLock /\ tick' = [tick EXCEPT ![i] = g]
        /\ run' = Slip(k)
    BY DEF LockLost
  <1>2. /\ g.pc = t.pc /\ g.k = k /\ g.w = t.w /\ g.todo = t.todo /\ g.snap = t.snap /\ g.bare = TRUE
    BY <1>t DEF Ticks
  <1>3. g \in Ticks
    <2>1. \A b \in BOOLEAN : [t EXCEPT !.bare = b] \in Ticks
      BY <1>t DEF Ticks
    <2>2. TRUE \in BOOLEAN
      OBVIOUS
    <2> QED
      BY <2>1, <2>2, Zenon
  <1> HIDE DEF g
  <1>4. k = 0 \/ k \in DOMAIN run
    BY <1>t DEF TickSound
  <1>5. Patched /\ (k # 0 => run'[k].slip)
    BY <1>t, <1>1, <1>4, Slips
  <1>6. TickSound(t, run', now)
    BY <1>t, <1>5, SoundStays
  <1>7. ToFire(g) = ToFire(t)
    BY <1>2 DEF ToFire
  <1>8. TickSound(g, run', now)
    BY <1>2, <1>5, <1>6, <1>7 DEF TickSound
  <1>9. Fresh(g, run')
    BY <1>2 DEF Fresh
  <1>10. LockIsHeld'
    <2>1. \A j \in Insts : j # i => tick'[j] = tick[j] /\ ~(Ticking(j) /\ ~tick[j].bare)
      BY <1>t, <1>1 DEF SchedInv, LockIsHeld
    <2>2. tick'[i] = g
      BY <1>t, <1>1
    <2> QED
      BY <1>2, <2>1, <2>2 DEF LockIsHeld, Ticking
  <1>11. lock' \in HeldLocks
    BY <1>1, FreeTypes
  <1>12. k # 0 => g.k = k /\ (g.bare => t.bare \/ run'[k].slip)
    BY <1>2, <1>5
  <1> HIDE DEF i
  <1>13. \A j \in DOMAIN run : NextKept(j)
    BY <1>1, FlowsRest
  <1> QED
    BY <1>t, <1>1, <1>3, <1>5, <1>8, <1>9, <1>10, <1>11, <1>12, <1>13, TickMoves

\* An instance dies, and comes back.
LEMMA RestartSteps == ASSUME SchedInv, NEW i \in Insts, InstRestarts(i) PROVE SchedInv'
  <1> DEFINE g == [IdleTick EXCEPT !.pc = "boot"]
  <1>t. /\ wf \in [Flows -> FlowRecs] /\ lock \in HeldLocks /\ run \in Seq(Runs)
        /\ tick \in [Insts -> Ticks] /\ hand \in [Insts -> Hands] /\ \A k \in DOMAIN run : run[k] \in Runs
    BY RunDomain DEF SchedInv, Typed
  <1>1. /\ UNCHANGED <<now, wf>> /\ tick' = [tick EXCEPT ![i] = g] /\ hand' = [hand EXCEPT ![i] = IdleHand]
        /\ lock' = IF lock.i = i THEN FreeLock ELSE lock
        /\ run' = [k \in DOMAIN run |-> IF k \in Orphans(i)
                      THEN [run[k] EXCEPT !.slip = TRUE, !.lost = TRUE] ELSE run[k]]
    BY DEF InstRestarts
  <1>2. g \in Ticks /\ g.k = 0 /\ g.pc = "boot" /\ \A rn, tm : TickSound(g, rn, tm) /\ Fresh(g, rn)
    BY IdleTickTypes
  <1> HIDE DEF g
  <1>3. ASSUME NEW k \in DOMAIN run
        PROVE  run'[k] \in Runs /\ Kept(run[k], run'[k]) /\ (k \in Orphans(i) => run'[k].slip /\ Settled(run'[k]))
    <2> DEFINE y == [run[k] EXCEPT !.slip = TRUE, !.lost = TRUE]
    <2>1. run'[k] = IF k \in Orphans(i) THEN y ELSE run[k]
      BY <1>1
    <2>2. y \in Runs /\ Kept(run[k], y) /\ y.slip /\ Settled(y)
      BY <1>t, Flags
    <2> HIDE DEF y
    <2>3. Kept(run[k], run[k]) /\ run[k] \in Runs
      BY <1>t DEF Kept
    <2> QED
      BY <2>1, <2>2, <2>3
  <1>4. Patched
    <2>1. run' = [k \in DOMAIN run |-> run'[k]]
      BY <1>1
    <2> QED
      BY <1>3, <2>1 DEF Patched
  <1>5. LockIsHeld'
    <2>1. \A j \in Insts : j # i => tick'[j] = tick[j]
      BY <1>t, <1>1
    <2>2. tick'[i].pc = "boot"
      BY <1>t, <1>1, <1>2
    <2>3. \A j \in Insts : j # i /\ Ticking(j) /\ ~tick[j].bare => lock.n > 0 /\ lock.i = j /\ lock' = lock
      BY <1>1 DEF SchedInv, LockIsHeld
    <2> QED
      BY <2>1, <2>2, <2>3 DEF LockIsHeld, Ticking
  <1>6. lock' \in HeldLocks /\ tick' \in [Insts -> Ticks] /\ hand' \in [Insts -> Hands]
    BY <1>t, <1>1, <1>2, FreeTypes, IdleHandTypes
  <1>7. \A j \in Insts : tick'[j] = (IF j = i THEN g ELSE tick[j]) /\ hand'[j] = IF j = i THEN IdleHand ELSE hand[j]
    BY <1>t, <1>1
  <1>8. \A j \in Insts : TickSound(tick[j], run', now) /\ Fresh(tick[j], run') /\ HandSound(hand[j], run')
    BY <1>t, <1>4, SoundStays DEF SchedInv
  <1>9. tick[i].k # 0 => LetGo(tick[i].k)
    <2>1. tick[i].k # 0 => tick[i].k \in DOMAIN run /\ tick[i].k \in Orphans(i)
      BY DEF SchedInv, TickSound, Orphans
    <2> QED
      BY <1>3, <2>1 DEF LetGo
  <1>10. hand[i].k # 0 => Settled(run'[hand[i].k])
    <2>1. hand[i].k # 0 => hand[i].k \in DOMAIN run /\ hand[i].k \in Orphans(i)
      BY DEF SchedInv, HandSound, Orphans
    <2> QED
      BY <1>3, <2>1
  <1>11. \A j \in Insts :
            /\ TickSound(tick'[j], run', now) /\ Fresh(tick'[j], run') /\ HandSound(hand'[j], run')
            /\ tick[j].k # 0 => \/ tick'[j].k = tick[j].k /\ (tick'[j].bare => tick[j].bare \/ run'[tick[j].k].slip)
                                \/ LetGo(tick[j].k)
            /\ hand[j].k # 0 => hand'[j].k = hand[j].k \/ Settled(run'[hand[j].k])
    BY <1>2, <1>7, <1>8, <1>9, <1>10, IdleHandTypes
  <1>12. \A k \in DOMAIN run : NextKept(k)
    BY <1>1, FlowsRest
  <1> QED
    BY <1>t, <1>1, <1>4, <1>5, <1>6, <1>11, <1>12, Moves
-----------------------------------------------------------------------------
(* Runs are inserted.                                                       *)

\* What holds of a tick or a handler outlives the run of another one; a tick
\* that is to fire stays fresh if the run is not for what it is to fire.
LEMMA SoundGrows ==
    ASSUME run \in Seq(Runs), NEW x \in Runs, run' = Append(run, x)
    PROVE  /\ \A t \in Ticks : TickSound(t, run, now) => TickSound(t, run', now)
           /\ \A h \in Hands : HandSound(h, run) => HandSound(h, run')
           /\ \A t \in Ticks : /\ Fresh(t, run)
                               /\ \/ x.slip \/ t.pc \notin Firing \/ t.bare
                                  \/ \A w \in ToFire(t) : w = x.w => x.due # t.snap[w].next
                               => Fresh(t, run')
  <1>1. /\ DOMAIN run' = DOMAIN run \cup {Len(run) + 1} /\ run'[Len(run) + 1] = x
        /\ \A k \in DOMAIN run : run'[k] = run[k]
    BY InsertIsSeq
  <1>2. \A t \in Ticks : TickSound(t, run, now) => TickSound(t, run', now)
    <2> SUFFICES ASSUME NEW t \in Ticks, TickSound(t, run, now) PROVE TickSound(t, run', now)
      OBVIOUS
    <2>1. t.k # 0 => t.k \in DOMAIN run' /\ run'[t.k] = run[t.k]
      BY <1>1 DEF TickSound
    <2> QED
      BY <2>1 DEF TickSound
  <1>3. \A h \in Hands : HandSound(h, run) => HandSound(h, run')
    <2> SUFFICES ASSUME NEW h \in Hands, HandSound(h, run) PROVE HandSound(h, run')
      OBVIOUS
    <2>1. h.k # 0 => h.k \in DOMAIN run' /\ run'[h.k] = run[h.k]
      BY <1>1 DEF HandSound
    <2> QED
      BY <2>1 DEF HandSound
  <1>4. ASSUME NEW t \in Ticks, Fresh(t, run),
               \/ x.slip \/ t.pc \notin Firing \/ t.bare
               \/ \A w \in ToFire(t) : w = x.w => x.due # t.snap[w].next
        PROVE  Fresh(t, run')
    <2> SUFFICES ASSUME t.pc \in Firing, ~t.bare, NEW w \in ToFire(t), NEW k \in DOMAIN run',
                        run'[k].w = w, run'[k].due = t.snap[w].next
                 PROVE  run'[k].slip
      BY DEF Fresh
    <2>1. CASE k \in DOMAIN run
      BY <1>1, <1>4, <2>1 DEF Fresh
    <2>2. CASE k = Len(run) + 1
      BY <1>1, <1>4, <2>2
    <2> QED
      BY <1>1, <2>1, <2>2
  <1> QED
    BY <1>2, <1>3, <1>4

\* A step that inserts a run.
LEMMA Inserts ==
    ASSUME SchedInv, NEW x \in Runs, run' = Append(run, x), UNCHANGED <<now, wf, lock>>,
           tick' \in [Insts -> Ticks], hand' \in [Insts -> Hands], LockIsHeld',
           \A i \in Insts :
              /\ TickSound(tick'[i], run', now) /\ Fresh(tick'[i], run') /\ HandSound(hand'[i], run')
              /\ tick[i].k # 0 => tick'[i].k = tick[i].k /\ (tick'[i].bare => tick[i].bare)
              /\ hand[i].k # 0 => hand'[i].k = hand[i].k,
           \E i \in Insts : tick'[i].k = Len(run) + 1 \/ hand'[i].k = Len(run) + 1,
           x.due <= now, x.slip \/ x.due = Null \/ \E i \in Insts : tick'[i].k = Len(run) + 1 /\ ~tick'[i].bare,
           \A k \in DOMAIN run : run[k].w = x.w /\ run[k].due = x.due /\ x.due # Null => run[k].slip \/ x.slip
    PROVE  SchedInv'
  <1> DEFINE n == Len(run) + 1
  <1>r. run \in Seq(Runs) /\ 0 \notin DOMAIN run /\ DOMAIN run = 1..Len(run) /\ Len(run) \in Nat
    BY RunDomain DEF SchedInv, Typed
  <1>1. /\ run' \in Seq(Runs) /\ DOMAIN run' = DOMAIN run \cup {n} /\ run'[n] = x
        /\ \A k \in DOMAIN run : run'[k] = run[k]
    BY <1>r, InsertIsSeq
  <1>2. \A k \in DOMAIN run : k < n /\ ~(n < k)
    BY <1>r
  <1>3. Typed'
    BY <1>1 DEF SchedInv, Typed
  <1> HIDE DEF n
  <1>4. FiredOnce'
    <2> SUFFICES ASSUME NEW k \in DOMAIN run', NEW l \in DOMAIN run', k < l, run'[k].w = run'[l].w,
                        run'[k].due = run'[l].due, run'[k].due # Null
                 PROVE  run'[k].slip \/ run'[l].slip
      BY DEF FiredOnce
    <2>1. k \in DOMAIN run
      <3>1. n \in Nat
        BY <1>r DEF n
      <3>2. k = n => l = n
        BY <1>1, <1>2
      <3> QED
        BY <1>1, <3>1, <3>2
    <2>2. CASE l \in DOMAIN run
      <3>1. run'[k] = run[k] /\ run'[l] = run[l]
        BY <1>1, <2>1, <2>2
      <3> QED
        BY <2>1, <2>2, <3>1 DEF SchedInv, FiredOnce
    <2>3. CASE l = n
      <3>1. run'[k] = run[k] /\ run'[l] = x
        BY <1>1, <2>1, <2>3
      <3> QED
        BY <2>1, <3>1
    <2> QED
      BY <1>1, <2>2, <2>3
  <1>5. UnfinishedIsAttended'
    <2> SUFFICES ASSUME NEW k \in DOMAIN run', run'[k].st = "running" /\ ~run'[k].thread /\ ~run'[k].lost
                 PROVE  Working(k)'
      BY DEF UnfinishedIsAttended
    <2>1. CASE k = n
      BY <2>1 DEF Working, n
    <2>2. CASE k \in DOMAIN run
      <3>1. Working(k) /\ k # 0
        BY <1>r, <1>1, <2>2 DEF SchedInv, UnfinishedIsAttended
      <3> QED
        BY <3>1 DEF Working
    <2> QED
      BY <1>1, <2>1, <2>2
  <1>6. FiredIsPast'
    <2> SUFFICES ASSUME NEW k \in DOMAIN run'
                 PROVE  /\ run'[k].due <= now'
                        /\ ~run'[k].slip /\ run'[k].due # Null /\ wf'[run'[k].w].st = "live"
                             => run'[k].due # wf'[run'[k].w].next \/ \E i \in Insts : tick'[i].k = k /\ ~tick'[i].bare
      BY DEF FiredIsPast, Live, Moving
    <2>1. CASE k = n
      BY <1>1, <2>1 DEF n
    <2>2. CASE k \in DOMAIN run
      <3>1. /\ run[k].due <= now /\ k # 0
            /\ ~run[k].slip /\ run[k].due # Null /\ wf[run[k].w].st = "live"
                 => run[k].due # wf[run[k].w].next \/ \E i \in Insts : tick[i].k = k /\ ~tick[i].bare
        BY <1>r, <2>2 DEF SchedInv, FiredIsPast, Live, Moving
      <3>2. run'[k] = run[k]
        BY <1>1, <2>2
      <3> QED
        BY <3>1, <3>2
    <2> QED
      BY <1>1, <2>1, <2>2
  <1>7. \A i \in Insts : (TickSound(tick[i], run, now) /\ Fresh(tick[i], run) /\ HandSound(hand[i], run))'
    OBVIOUS
  <1> QED
    BY <1>3, <1>4, <1>5, <1>6, <1>7 DEF SchedInv

\* A run as it is inserted.
LEMMA NewRunTypes ==
    ASSUME NEW w \in Flows, NEW due \in Nat, NEW b \in BOOLEAN
    PROVE  /\ NewRun(w, due, b) \in Runs /\ NewRun(w, due, b).w = w /\ NewRun(w, due, b).due = due
           /\ NewRun(w, due, b).slip = b
  BY DEF NewRun, Runs

\* A request inserts its run, or answers 500.
LEMMA HandInserts == ASSUME SchedInv, NEW i \in Insts, RunInsert(i) PROVE SchedInv'
  <1> DEFINE h == hand[i]
  <1>t. /\ h \in Hands /\ HandSound(h, run) /\ wf \in [Flows -> FlowRecs] /\ run \in Seq(Runs)
        /\ tick \in [Insts -> Ticks] /\ hand \in [Insts -> Hands] /\ now \in Nat
    BY DEF SchedInv, Typed
  <1>1. UNCHANGED <<now, wf, lock, tick>> /\ h.pc = "insert"
    BY DEF RunInsert, HandAt
  <1>k. h.k = 0
    BY <1>t, <1>1 DEF HandSound
  <1>2. CASE Answer(i) /\ UNCHANGED run
    <2>1. Patched
      BY <1>2, <1>t, PatchNone
    <2>2. \A k \in DOMAIN run : NextKept(k)
      BY <1>1, FlowsRest
    <2> QED
      BY <1>2, <1>t, <1>k, <1>1, <2>1, <2>2, IdleHandTypes, HandMoves DEF Answer
  <1> DEFINE x == NewRun(h.w, Null, FALSE)
             n == Len(run) + 1
             g == [h EXCEPT !.pc = "thread", !.k = n]
  <1>3. CASE run' = Append(run, x) /\ hand' = [hand EXCEPT ![i].pc = "thread", ![i].k = n]
    <2>1. hand' = [hand EXCEPT ![i] = g]
      BY <1>3
    <2>2. n \in Nat /\ n # 0
      BY <1>t, RunDomain
    <2>3. x \in Runs /\ x.w = h.w /\ x.due = Null
      <3>1. FALSE \in BOOLEAN /\ Null \in Nat
        BY DEF Null
      <3>2. h.w \in Flows
        BY <1>t DEF Hands
      <3> QED
        BY <3>1, <3>2, NewRunTypes, Zenon
    <2> HIDE DEF x
    <2>4. DOMAIN run' = DOMAIN run \cup {n}
      BY <1>t, <1>3, <2>3, InsertIsSeq
    <2> HIDE DEF n
    <2>5. g \in Hands /\ g.pc = "thread" /\ g.k = n
      BY <1>t, <2>2 DEF Hands, HandPcs
    <2> HIDE DEF g
    <2>6. HandSound(g, run')
      BY <2>2, <2>4, <2>5 DEF HandSound
    <2>7. ASSUME NEW j \in Insts
          PROVE  TickSound(tick[j], run', now) /\ Fresh(tick[j], run') /\ HandSound(hand[j], run')
      <3>1. /\ TickSound(tick[j], run, now) /\ Fresh(tick[j], run) /\ HandSound(hand[j], run)
            /\ tick[j] \in Ticks /\ hand[j] \in Hands
        BY <1>t DEF SchedInv
      <3>2. tick[j].pc \in Firing => \A w \in ToFire(tick[j]) : tick[j].snap[w].next # Null
        BY <3>1 DEF TickSound
      <3> QED
        BY <1>t, <1>3, <2>3, <3>1, <3>2, SoundGrows
    <2>8. hand' \in [Insts -> Hands] /\ \A j \in Insts : hand'[j] = IF j = i THEN g ELSE hand[j]
      BY <1>t, <2>1, <2>5
    <2>9. LockIsHeld'
      BY <1>1 DEF SchedInv, LockIsHeld, Ticking
    <2>10. \A j \in Insts :
              /\ TickSound(tick'[j], run', now) /\ Fresh(tick'[j], run') /\ HandSound(hand'[j], run')
              /\ tick[j].k # 0 => tick'[j].k = tick[j].k /\ (tick'[j].bare => tick[j].bare)
              /\ hand[j].k # 0 => hand'[j].k = hand[j].k
      BY <1>k, <1>1, <2>6, <2>7, <2>8
    <2>11. \E j \in Insts : tick'[j].k = Len(run) + 1 \/ hand'[j].k = Len(run) + 1
      BY <2>5, <2>8 DEF n
    <2>12. x.due <= now
      BY <1>t, <2>3 DEF Null
    <2> QED
      BY <1>t, <1>1, <1>3, <2>3, <2>8, <2>9, <2>10, <2>11, <2>12, Inserts
  <1> QED
    BY <1>2, <1>3 DEF RunInsert

\* A tick fires: nobody else with the lock could have.
LEMMA TickInserts == ASSUME SchedInv, NEW i \in Insts, TickInsert(i) PROVE SchedInv'
  <1> DEFINE t == tick[i]
             due == t.snap[t.w].next
             x == NewRun(t.w, due, t.bare)
             n == Len(run) + 1
             g == [t EXCEPT !.pc = "thread", !.k = n]
  <1>t. /\ t \in Ticks /\ TickSound(t, run, now) /\ Fresh(t, run) /\ run \in Seq(Runs)
        /\ tick \in [Insts -> Ticks] /\ hand \in [Insts -> Hands] /\ now \in Nat
    BY DEF SchedInv, Typed
  <1>1. UNCHANGED <<now, wf, lock, hand>> /\ t.pc = "insert"
    BY DEF TickInsert, TickAt
  <1>k. t.k = 0 /\ t.w \notin t.todo
    BY <1>t, <1>1 DEF TickSound, Busy
  <1>2. CASE TickTo(i, "pick") /\ UNCHANGED run
    BY <1>2, PickSteps
  <1>3. CASE run' = Append(run, x) /\ tick' = [tick EXCEPT ![i].pc = "thread", ![i].k = n]
    <2>1. tick' = [tick EXCEPT ![i] = g]
      BY <1>3
    <2>2. n \in Nat /\ n # 0
      BY <1>t, RunDomain
    <2>3. t.w \in Flows /\ due \in Nat /\ t.bare \in BOOLEAN
      BY <1>t DEF Ticks, FlowRecs
    <2>d. due # Null /\ due <= now /\ t.w \in ToFire(t)
      BY <1>t, <1>1 DEF TickSound, ToFire, Firing
    <2> HIDE DEF due
    <2>4. x \in Runs /\ x.w = t.w /\ x.due = due /\ x.slip = t.bare
      BY <2>3, NewRunTypes
    <2> HIDE DEF x
    <2>5. DOMAIN run' = DOMAIN run \cup {n} /\ run'[n] = x
      BY <1>t, <1>3, <2>4, InsertIsSeq
    <2> HIDE DEF n
    <2>6. /\ g \in Ticks /\ g.pc = "thread" /\ g.k = n /\ g.w = t.w /\ g.todo = t.todo /\ g.snap = t.snap
          /\ g.bare = t.bare
      BY <1>t, <2>2 DEF Ticks, TickPcs
    <2> HIDE DEF g
    <2>7. ToFire(g) \subseteq ToFire(t) /\ ToFire(g) = t.todo
      BY <2>6 DEF ToFire
    <2>8. TickSound(g, run', now)
      <3>1. \A w \in ToFire(g) : g.snap[w].next # Null /\ g.snap[w].next <= now
        BY <1>t, <1>1, <2>6, <2>7 DEF TickSound, Firing
      <3> QED
        BY <2>2, <2>4, <2>5, <2>6, <3>1 DEF TickSound, Busy
    <2>9. Fresh(g, run')
      <3>1. Fresh(g, run)
        BY <1>t, <1>1, <2>6, <2>7 DEF Fresh, Firing
      <3>2. \A w \in ToFire(g) : w # x.w
        BY <1>k, <2>4, <2>7
      <3> QED
        BY <1>t, <1>3, <2>4, <2>6, <3>1, <3>2, SoundGrows
    <2>10. ASSUME NEW j \in Insts, j # i
           PROVE  TickSound(tick[j], run', now) /\ Fresh(tick[j], run')
      <3>1. TickSound(tick[j], run, now) /\ Fresh(tick[j], run) /\ tick[j] \in Ticks
        BY <1>t DEF SchedInv
      <3>2. x.slip \/ tick[j].pc \notin Firing \/ tick[j].bare
        <4> SUFFICES ASSUME ~t.bare, tick[j].pc \in Firing, ~tick[j].bare PROVE FALSE
          BY <2>4
        <4>1. lock.i = i
          BY <1>1 DEF SchedInv, LockIsHeld, Ticking
        <4>2. lock.i = j
          BY DEF SchedInv, LockIsHeld, Ticking, Firing, Busy
        <4> QED
          BY <2>10, <4>1, <4>2
      <3> QED
        BY <1>t, <1>3, <2>4, <3>1, <3>2, SoundGrows
    <2>11. \A j \in Insts : HandSound(hand[j], run')
      BY <1>t, <1>3, <2>4, SoundGrows DEF SchedInv
    <2>12. tick' \in [Insts -> Ticks] /\ \A j \in Insts : tick'[j] = IF j = i THEN g ELSE tick[j]
      BY <1>t, <2>1, <2>6
    <2>13. LockIsHeld'
      BY <1>1, <2>1, <2>6, LockStays DEF Ticking
    <2>14. \A j \in Insts :
              /\ TickSound(tick'[j], run', now) /\ Fresh(tick'[j], run') /\ HandSound(hand'[j], run')
              /\ tick[j].k # 0 => tick'[j].k = tick[j].k /\ (tick'[j].bare => tick[j].bare)
              /\ hand[j].k # 0 => hand'[j].k = hand[j].k
      BY <1>k, <1>1, <2>8, <2>9, <2>10, <2>11, <2>12
    <2>15. tick'[i].k = Len(run) + 1 /\ (x.slip \/ ~tick'[i].bare)
      BY <2>4, <2>6, <2>12 DEF n
    <2>16. \A k \in DOMAIN run : run[k].w = x.w /\ run[k].due = x.due => run[k].slip \/ x.slip
      BY <1>t, <1>1, <2>d, <2>4 DEF Fresh, Firing, due
    <2>17. hand' \in [Insts -> Hands] /\ x.due <= now
      BY <1>t, <1>1, <2>d, <2>4
    <2> QED
      BY <1>t, <1>1, <1>3, <2>4, <2>12, <2>13, <2>14, <2>15, <2>16, <2>17, Inserts
  <1> QED
    BY <1>2, <1>3 DEF TickInsert
-----------------------------------------------------------------------------
(* The invariant holds.                                                     *)

\* At the start there are no runs.
LEMMA InitSched == Init => SchedInv
  <1> SUFFICES ASSUME Init PROVE SchedInv
    OBVIOUS
  <1>1. /\ IdleTick \in Ticks /\ IdleTick.k = 0 /\ IdleTick.pc = "idle"
        /\ \A rn, tm : TickSound(IdleTick, rn, tm) /\ Fresh(IdleTick, rn)
    BY IdleTickTypes
  <1>2. NewFlow \in FlowRecs
    BY DEF NewFlow, FlowRecs, Null
  <1>3. run = <<>> /\ run \in Seq(Runs) /\ DOMAIN run = {}
    BY DEF Init
  <1>4. /\ now \in Nat /\ wf \in [Flows -> FlowRecs] /\ lock \in HeldLocks
        /\ tick \in [Insts -> Ticks] /\ hand \in [Insts -> Hands]
        /\ \A i \in Insts : tick[i] = IdleTick /\ hand[i] = IdleHand
    BY <1>1, <1>2, FreeTypes, IdleHandTypes DEF Init
  <1>5. \A i \in Insts : TickSound(tick[i], run, now) /\ Fresh(tick[i], run) /\ HandSound(hand[i], run)
    BY <1>1, <1>4, IdleHandTypes
  <1>6. LockIsHeld
    BY <1>1, <1>4 DEF LockIsHeld, Ticking
  <1>7. FiredIsPast /\ FiredOnce /\ UnfinishedIsAttended
    BY <1>3 DEF FiredIsPast, FiredOnce, UnfinishedIsAttended
  <1> QED
    BY <1>3, <1>4, <1>5, <1>6, <1>7 DEF SchedInv, Typed

\* Every step keeps the invariant.
LEMMA NextSched == SchedInv /\ [Next]_vars => SchedInv'
  <1> SUFFICES ASSUME SchedInv, [Next]_vars PROVE SchedInv'
    OBVIOUS
  <1>w. Web \subseteq Insts
    OBVIOUS
  <1>1. ASSUME NEW w \in Flows, NEW cron \in Crons, NEW hook \in BOOLEAN, NEW on \in BOOLEAN,
               CreateFlow(w, cron, hook, on)
        PROVE  SchedInv'
    BY <1>1, FlowSteps
  <1>2. ASSUME NEW w \in Flows, DeleteFlow(w) PROVE SchedInv'
    BY <1>2, FlowSteps
  <1>3. ASSUME NEW i \in Web, NEW w \in Flows, NEW cron \in Crons \cup {Null}, NEW on \in {"keep", "yes", "no"},
               PutRead(i, w, cron, on)
        PROVE  SchedInv'
    BY <1>w, <1>3, HandBegins
  <1>4. ASSUME NEW i \in Web, NEW w \in Flows, RunFlow(i, w) \/ HookFlow(i, w) PROVE SchedInv'
    BY <1>w, <1>4, HandBegins
  <1>5. ASSUME NEW i \in Insts, HandStep(i) PROVE SchedInv'
    BY <1>5, PutWrites, HandInserts, HandSteps DEF HandStep
  <1>6. ASSUME NEW i \in Insts, TickStep(i) PROVE SchedInv'
    BY <1>6, BootSteps, LockSteps, ReadSteps, PickSteps, TickInserts, RunTicks, AdvanceSteps DEF TickStep
  <1>7. ASSUME NEW k \in DOMAIN run, DispatchSettles(k) PROVE SchedInv'
    BY <1>7, Settles
  <1>8. CASE Clock
    BY <1>8, ClockSteps
  <1>9. CASE (\E w \in Flows : AgentFlips(w)) \/ IdleCloses \/ UNCHANGED vars
    BY <1>9, QuietSteps
  <1>10. CASE LockLost
    BY <1>10, LostSteps
  <1>11. ASSUME NEW i \in Insts, InstRestarts(i) PROVE SchedInv'
    BY <1>11, RestartSteps
  <1> QED
    BY <1>1, <1>2, <1>3, <1>4, <1>5, <1>6, <1>7, <1>8, <1>9, <1>10, <1>11 DEF Next

\* SchedInv is an invariant.
LEMMA SchedIsInv == Spec => []SchedInv
  BY InitSched, NextSched, PTL DEF Spec

\* workflow-scheduler.ts: whatever edits, requests, restarts and other instances
\* do, two runs of one workflow for one due time are there only if a tick failed
\* to move next_run_at, died or lost its lock, or an edit put the time back.
THEOREM DueTimesFireOnce == Spec => []FiredOnce
  <1>1. SchedInv => FiredOnce
    BY DEF SchedInv
  <1> QED
    BY <1>1, SchedIsInv, PTL

\* routes/workflows.ts: a run that says 'running' and has no thread is being
\* worked on, unless the process died or the write that labels it failed.
THEOREM UnfinishedRunsAreAttended == Spec => []UnfinishedIsAttended
  <1>1. SchedInv => UnfinishedIsAttended
    BY DEF SchedInv
  <1> QED
    BY <1>1, SchedIsInv, PTL
=============================================================================
