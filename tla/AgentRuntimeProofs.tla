------------------------- MODULE AgentRuntimeProofs -------------------------
(***************************************************************************)
(* Proofs about AgentRuntime, for any number of works, iterations, polls   *)
(* and faults: a work ends one way and leaves a trace, and a command that  *)
(* is over is over for good.                                               *)
(***************************************************************************)
EXTENDS AgentRuntime, FiniteSetTheorems, TLAPS

USE RuntimeAssumption
-----------------------------------------------------------------------------
(* The inductive invariant.  What a work says of itself does not depend on  *)
(* the other threads; what it reads from the pane does.                     *)

Commands == {"pty", "git", "shell"}
\* an event that tells of a failure
Telling == {"work_failed", "callback_failed", "callback_refused"}
Quiet(q) == q.ev \cap {"unwritten", "stopped"} = {}
\* the ending is known to the API, or an event tells that it may not be
Traced(q) == Quiet(q) /\ q.msg # "none" /\ q.said = {} => q.ev \cap Telling # {}

\* Of a work: only what it ends with is said, and only in its last delivery.
SaidOnce(q) ==
    /\ q.said \subseteq {q.msg}
    /\ q.pc \in {"posted", "chat", "shell"} => q.msg = "none"
    /\ q.pc \notin {"deliver", "returned", "done"} => q.said = {}
    /\ q.pc = "deliver" =>
          \/ q.msg = "thinking" /\ q.next \in {"infer", "direct"} /\ q.said = {}
          \/ q.msg \in Terminal /\ q.next = "returned"
Recorded(q) ==
    /\ q.pc = "returned" => Traced(q)
    /\ q.pc = "done" => Traced(q) /\ (Quiet(q) => q.ev \cap {"work_completed", "work_failed"} # {})
Own(q) == q.told < q.mine /\ q.told # 0 => q.cut
Sound(q) == q \in WorkRecs /\ SaidOnce(q) /\ Recorded(q) /\ Own(q)

\* Of the pane: what is typed and shown is in the order of typing.
LastShown(p) == p.shown[Len(p.shown)]
InOrder(p) ==
    /\ \A j, k \in 1..Len(p.typed) : j < k /\ p.typed[j] # 0 /\ p.typed[k] # 0 => p.typed[j] < p.typed[k]
    /\ \A j \in 1..Len(p.typed) : p.typed[j] <= p.n
    /\ p.shown # <<>> => /\ LastShown(p) <= p.n
                         /\ \A j \in 1..Len(p.typed) : p.typed[j] # 0 => p.typed[j] > LastShown(p)
    /\ ~p.up => p.typed = <<>> /\ p.shown = <<>>
\* command m is still to run, or nothing on the pane is older
Ahead(m, p) ==
    \/ \E j \in 1..Len(p.typed) : p.typed[j] = m
    \/ /\ \A j \in 1..Len(p.typed) : p.typed[j] # 0 => p.typed[j] > m
       /\ p.shown # <<>> => LastShown(p) >= m
Waits(q, p) == q.mine <= p.n /\ (q.pc = "visible" => q.mine > 0 /\ Ahead(q.mine, p))

WorksSound == \A w \in Works : Sound(work[w])
PaneSound == tm \in Panes /\ InOrder(tm)
WorksWait == \A w \in Works : Waits(work[w], tm)

RuntimeInv == /\ work \in [Works -> WorkRecs] /\ child \in [Works -> Children]
              /\ WorksSound /\ PaneSound /\ WorksWait /\ NoChildIsLeft
-----------------------------------------------------------------------------
(* What the steps make of one work.                                         *)

\* r is q but for the fields that the invariant does not look at
Alike(q, r) == /\ r \in WorkRecs /\ r.msg = q.msg /\ r.next = q.next /\ r.said = q.said /\ r.ev = q.ev
               /\ r.mine = q.mine /\ r.told = q.told /\ r.cut = q.cut

\* The thread goes on elsewhere.
LEMMA Goes ==
  ASSUME NEW q \in WorkRecs, NEW pc \in Pcs
  PROVE  /\ Alike(q, [q EXCEPT !.pc = pc]) /\ [q EXCEPT !.pc = pc].pc = pc
         /\ q.i < MaxIter => /\ Alike(q, [q EXCEPT !.pc = pc, !.i = @ + 1])
                             /\ [q EXCEPT !.pc = pc, !.i = @ + 1].pc = pc
         /\ q.att < 2 => /\ Alike(q, [q EXCEPT !.att = @ + 1])
                         /\ [q EXCEPT !.att = @ + 1].pc = q.pc
  <1>1. Alike(q, [q EXCEPT !.pc = pc]) /\ [q EXCEPT !.pc = pc].pc = pc
    BY DEF WorkRecs, Alike
  <1>2. ASSUME q.i < MaxIter
        PROVE  /\ Alike(q, [q EXCEPT !.pc = pc, !.i = @ + 1])
               /\ [q EXCEPT !.pc = pc, !.i = @ + 1].pc = pc
    <2>1. q.i + 1 \in 0..MaxIter
      BY <1>2 DEF WorkRecs
    <2> QED
      BY <2>1 DEF WorkRecs, Alike
  <1>3. ASSUME q.att < 2
        PROVE  /\ Alike(q, [q EXCEPT !.att = @ + 1])
               /\ [q EXCEPT !.att = @ + 1].pc = q.pc
    <2>1. q.att + 1 \in 0..2
      BY <1>3 DEF WorkRecs
    <2> QED
      BY <2>1 DEF WorkRecs, Alike
  <1> QED
    BY <1>1, <1>2, <1>3

\* An event is added.
LEMMA Emitted ==
  ASSUME NEW q \in WorkRecs, NEW e \in Events
  PROVE  LET r == [q EXCEPT !.ev = @ \cup {e}] IN
         /\ r \in WorkRecs /\ r.pc = q.pc /\ r.msg = q.msg /\ r.next = q.next /\ r.said = q.said
         /\ r.ev = q.ev \cup {e} /\ r.mine = q.mine /\ r.told = q.told /\ r.cut = q.cut
  BY DEF WorkRecs

\* A delivery begins.
LEMMA Delivers ==
  ASSUME NEW q \in WorkRecs, NEW msg \in Messages, NEW next \in Pcs
  PROVE  LET r == Deliver(q, msg, next) IN
         /\ r \in WorkRecs /\ r.pc = "deliver" /\ r.msg = msg /\ r.next = next /\ r.said = q.said
         /\ r.ev = q.ev /\ r.mine = q.mine /\ r.told = q.told /\ r.cut = q.cut
  <1>1. "deliver" \in Pcs /\ 0 \in 0..2
    BY DEF Pcs
  <1> QED
    BY <1>1 DEF WorkRecs, Deliver

\* The API takes a message.
LEMMA Takes ==
  ASSUME NEW q \in WorkRecs
  PROVE  LET r == Taken(q) IN
         /\ r \in WorkRecs /\ r.pc = q.pc /\ r.msg = q.msg /\ r.next = q.next /\ r.att = q.att
         /\ r.said = q.said \cup ({q.msg} \cap Terminal)
         /\ r.ev = q.ev /\ r.mine = q.mine /\ r.told = q.told /\ r.cut = q.cut
  BY DEF WorkRecs, Taken

\* A thread that is not ending goes on, and is sound.
LEMMA SoundGoes ==
  ASSUME NEW q, NEW r, Sound(q), Alike(q, r), q.pc \notin {"deliver", "returned", "done"},
         r.pc \notin {"deliver", "done"},
         r.pc \in {"posted", "chat", "shell", "returned"} => q.msg = "none"
  PROVE  Sound(r)
  <1>1. SaidOnce(r)
    BY DEF Sound, SaidOnce, Alike
  <1>2. Recorded(r)
    BY DEF Sound, Alike, Recorded, Traced
  <1>3. Own(r)
    BY DEF Sound, Alike, Own
  <1> QED
    BY <1>1, <1>2, <1>3 DEF Sound, Alike

\* A delivery that begins is sound: an ending is the last one.
LEMMA SoundDelivers ==
  ASSUME NEW q, Sound(q), q.pc \notin {"deliver", "returned", "done"},
         NEW msg \in Messages, NEW next \in Pcs,
         \/ msg = "thinking" /\ next \in {"infer", "direct"}
         \/ msg \in Terminal /\ next = "returned"
  PROVE  Sound(Deliver(q, msg, next)) /\ Deliver(q, msg, next).pc = "deliver"
                                      /\ Deliver(q, msg, next).mine = q.mine
  <1> DEFINE r == Deliver(q, msg, next)
  <1>1. /\ r \in WorkRecs /\ r.pc = "deliver" /\ r.msg = msg /\ r.next = next /\ r.said = q.said
        /\ r.ev = q.ev /\ r.mine = q.mine /\ r.told = q.told /\ r.cut = q.cut
    BY Delivers DEF Sound
  <1> HIDE DEF r
  <1>2. q.said = {}
    BY DEF Sound, SaidOnce
  <1>3. SaidOnce(r)
    BY <1>1, <1>2 DEF SaidOnce
  <1>4. Recorded(r) /\ Own(r)
    BY <1>1 DEF Sound, Recorded, Own
  <1> QED
    BY <1>1, <1>3, <1>4 DEF Sound, r

\* The deliveries of the loop, the tools and the endings are such.
LEMMA SoundAnswers ==
  ASSUME NEW q, Sound(q), q.pc \notin {"deliver", "returned", "done"}
  PROVE  \A r \in {Fails(q), Completes(q), Answered(q), Deliver(q, "thinking", "direct")} :
             Sound(r) /\ r.pc = "deliver" /\ r.mine = q.mine
  BY SoundDelivers DEF Fails, Completes, Answered, Messages, Pcs, Terminal

\* What emit does to the thread's record.
LEMMA EmitsOne ==
  ASSUME NEW w, NEW q, NEW e, Emits(w, q, e)
  PROVE  \E x \in {e, "unwritten"} : Set(w, [q EXCEPT !.ev = @ \cup {x}])
  BY DEF Emits

\* the thread at pc, having emitted x
Ended(q, pc, x) == [[q EXCEPT !.pc = pc] EXCEPT !.ev = @ \cup {x}]

\* The end of a thread: its event is written, or known not to be.
LEMMA SoundEnds ==
  ASSUME NEW q, Sound(q), NEW pc, NEW e, NEW x \in {e, "unwritten"},
         \/ q.pc = "returned" /\ pc = "done" /\ e = "work_completed"
         \/ q.pc = "raised" /\ pc = "done" /\ e = "work_failed"
         \/ q.pc = "posted" /\ pc = "refused" /\ e = "work_failed"
         \/ q.pc = "chat" /\ pc = "returned" /\ e = "work_failed"
  PROVE  Sound(Ended(q, pc, x)) /\ Ended(q, pc, x).pc = pc /\ Ended(q, pc, x).mine = q.mine
  <1> DEFINE p == [q EXCEPT !.pc = pc]
             r == [p EXCEPT !.ev = @ \cup {x}]
  <1>1. Alike(q, p) /\ p.pc = pc
    <2>1. pc \in Pcs /\ q \in WorkRecs
      BY DEF Sound, Pcs
    <2> QED
      BY <2>1, Goes
  <1>2. x \in Events
    BY DEF Events
  <1> HIDE DEF p
  <1>3. /\ r \in WorkRecs /\ r.pc = pc /\ r.msg = q.msg /\ r.next = q.next /\ r.said = q.said
        /\ r.ev = q.ev \cup {x} /\ r.mine = q.mine /\ r.told = q.told /\ r.cut = q.cut
    BY <1>1, <1>2, Emitted DEF Alike
  <1> HIDE DEF r
  <1>4. SaidOnce(r) /\ Own(r)
    BY <1>3 DEF Sound, SaidOnce, Own
  <1>5. Recorded(r)
    <2>1. CASE q.pc = "returned"
      BY <1>3, <2>1 DEF Sound, Recorded, Traced, Quiet, Telling
    <2>2. CASE q.pc # "returned"
      BY <1>3, <2>2 DEF Sound, SaidOnce, Recorded, Traced, Quiet, Telling
    <2> QED
      BY <2>1, <2>2
  <1> QED
    BY <1>3, <1>4, <1>5 DEF Sound, Ended, r, p
-----------------------------------------------------------------------------
(* What the steps make of the pane.                                         *)

\* Typing keeps the order, and what was ahead of others stays ahead.
LEMMA Typed ==
  ASSUME NEW p \in Panes, InOrder(p), NEW x \in 0..MaxTyped, NEW r \in Panes,
         r.n >= p.n, x <= r.n, x # 0 => x > p.n,
         r.typed = Append(p.typed, x), r.shown = p.shown, r.up
  PROVE  /\ InOrder(r)
         /\ \A m \in 1..p.n : Ahead(m, p) => Ahead(m, r)
         /\ x # 0 => Ahead(x, r)
  <1>t. /\ p.typed \in Seq(0..MaxTyped) /\ p.shown \in Seq(1..MaxTyped) /\ p.n \in 0..MaxTyped
        /\ Len(p.typed) \in Nat /\ Len(p.shown) \in Nat /\ r.n \in 0..MaxTyped
    BY DEF Panes
  <1>1. /\ Len(r.typed) = Len(p.typed) + 1 /\ r.typed[Len(p.typed) + 1] = x
        /\ \A j \in 1..Len(p.typed) : r.typed[j] = p.typed[j] /\ r.typed[j] \in 0..MaxTyped
    <2>1. /\ Len(Append(p.typed, x)) = Len(p.typed) + 1 /\ Append(p.typed, x)[Len(p.typed) + 1] = x
          /\ \A j \in 1..Len(p.typed) : /\ Append(p.typed, x)[j] = p.typed[j]
                                        /\ p.typed[j] \in 0..MaxTyped
      BY <1>t
    <2> QED
      BY <2>1
  <1>2. \A j \in 1..Len(r.typed) : j \in 1..Len(p.typed) \/ j = Len(p.typed) + 1
    BY <1>1, <1>t
  <1>3. \A j \in 1..Len(p.typed) : p.typed[j] <= p.n
    BY DEF InOrder
  <1>s. p.shown # <<>> => LastShown(p) \in 1..MaxTyped
    BY <1>t DEF LastShown
  <1>4. InOrder(r)
    <2>1. ASSUME NEW j \in 1..Len(r.typed), NEW k \in 1..Len(r.typed), j < k, r.typed[j] # 0, r.typed[k] # 0
          PROVE  r.typed[j] < r.typed[k]
      <3>1. j \in 1..Len(p.typed)
        BY <1>1, <1>t, <2>1
      <3>2. CASE k \in 1..Len(p.typed)
        BY <1>1, <2>1, <3>1, <3>2 DEF InOrder
      <3>3. CASE k = Len(p.typed) + 1
        BY <1>1, <1>3, <1>t, <2>1, <3>1, <3>3
      <3> QED
        BY <1>2, <3>2, <3>3
    <2>2. \A j \in 1..Len(r.typed) : r.typed[j] <= r.n
      BY <1>1, <1>2, <1>3, <1>t
    <2>3. ASSUME r.shown # <<>>
          PROVE  /\ LastShown(r) <= r.n
                 /\ \A j \in 1..Len(r.typed) : r.typed[j] # 0 => r.typed[j] > LastShown(r)
      <3>1. /\ LastShown(r) = LastShown(p) /\ LastShown(p) <= p.n
            /\ \A j \in 1..Len(p.typed) : p.typed[j] # 0 => p.typed[j] > LastShown(p)
        BY <2>3 DEF InOrder, LastShown
      <3> QED
        BY <1>1, <1>2, <1>s, <1>t, <2>3, <3>1
    <2> QED
      BY <2>1, <2>2, <2>3 DEF InOrder
  <1>5. ASSUME NEW m \in 1..p.n, Ahead(m, p) PROVE Ahead(m, r)
    <2>1. CASE \E j \in 1..Len(p.typed) : p.typed[j] = m
      BY <1>1, <1>t, <2>1 DEF Ahead
    <2>2. CASE /\ \A j \in 1..Len(p.typed) : p.typed[j] # 0 => p.typed[j] > m
               /\ p.shown # <<>> => LastShown(p) >= m
      <3>1. \A j \in 1..Len(r.typed) : r.typed[j] # 0 => r.typed[j] > m
        BY <1>1, <1>2, <1>t, <2>2
      <3>2. r.shown # <<>> => LastShown(r) >= m
        BY <2>2 DEF LastShown
      <3> QED
        BY <3>1, <3>2 DEF Ahead
    <2> QED
      BY <1>5, <2>1, <2>2 DEF Ahead
  <1>6. x # 0 => Ahead(x, r)
    BY <1>1, <1>t DEF Ahead
  <1> QED
    BY <1>4, <1>5, <1>6

\* The last element of a sequence is the one appended last.
LEMMA AppendLast ==
  ASSUME NEW S, NEW s \in Seq(S), NEW x \in S
  PROVE  Append(s, x) # <<>> /\ Append(s, x)[Len(Append(s, x))] = x
  <1>1. Len(Append(s, x)) = Len(s) + 1 /\ Len(s) \in Nat /\ Len(<<>>) = 0
    OBVIOUS
  <1>2. Append(s, x)[Len(s) + 1] = x
    OBVIOUS
  <1> QED
    BY <1>1, <1>2

\* Running the first command that was typed.
LEMMA Ran ==
  ASSUME NEW p \in Panes, InOrder(p), p.typed # <<>>, NEW r \in Panes,
         r.typed = Tail(p.typed), r.n = p.n, r.up = p.up,
         r.shown = IF Head(p.typed) = 0 THEN p.shown ELSE Append(p.shown, Head(p.typed))
  PROVE  InOrder(r) /\ \A m \in 1..p.n : Ahead(m, p) => Ahead(m, r)
  <1> DEFINE x == p.typed[1]
  <1>t. /\ p.typed \in Seq(0..MaxTyped) /\ p.shown \in Seq(1..MaxTyped) /\ p.n \in 0..MaxTyped
        /\ Len(p.typed) \in Nat /\ Len(p.typed) > 0 /\ Len(p.shown) \in Nat
    BY DEF Panes
  <1>1. /\ Len(r.typed) = Len(p.typed) - 1
        /\ \A j \in 1..Len(r.typed) : /\ j + 1 \in 1..Len(p.typed) /\ r.typed[j] = p.typed[j + 1]
                                      /\ r.typed[j] \in 0..MaxTyped
        /\ Head(p.typed) = x /\ x \in 0..MaxTyped /\ 1 \in 1..Len(p.typed)
    BY <1>t
  <1>2. \A j \in 1..Len(p.typed) : j # 1 => j - 1 \in 1..Len(r.typed) /\ r.typed[j - 1] = p.typed[j]
    BY <1>1, <1>t
  <1>3. ASSUME x # 0 PROVE r.shown # <<>> /\ LastShown(r) = x
    <2>1. r.shown = Append(p.shown, x) /\ x \in 1..MaxTyped
      BY <1>1, <1>3
    <2>2. Append(p.shown, x) # <<>> /\ Append(p.shown, x)[Len(Append(p.shown, x))] = x
      BY <1>t, <2>1, AppendLast
    <2> QED
      BY <2>1, <2>2, Zenon DEF LastShown
  <1>4. x = 0 => r.shown = p.shown /\ LastShown(r) = LastShown(p)
    BY <1>1 DEF LastShown
  <1>5. x # 0 => \A j \in 1..Len(r.typed) : r.typed[j] # 0 => r.typed[j] > x
    BY <1>1, <1>t DEF InOrder
  <1>6. p.up
    BY Zenon DEF InOrder
  <1> HIDE DEF x
  <1>7. InOrder(r)
    <2>1. ASSUME NEW j \in 1..Len(r.typed), NEW k \in 1..Len(r.typed), j < k, r.typed[j] # 0, r.typed[k] # 0
          PROVE  r.typed[j] < r.typed[k]
      <3>1. j + 1 < k + 1 /\ p.typed[j + 1] # 0 /\ p.typed[k + 1] # 0
        BY <1>1, <2>1
      <3>2. p.typed[j + 1] < p.typed[k + 1]
        BY <1>1, <3>1 DEF InOrder
      <3> QED
        BY <1>1, <3>2
    <2>2. \A j \in 1..Len(r.typed) : r.typed[j] <= r.n
      BY <1>1 DEF InOrder
    <2>3. ASSUME r.shown # <<>>
          PROVE  /\ LastShown(r) <= r.n
                 /\ \A j \in 1..Len(r.typed) : r.typed[j] # 0 => r.typed[j] > LastShown(r)
      <3>1. CASE x = 0
        BY <1>1, <1>4, <2>3, <3>1 DEF InOrder
      <3>2. CASE x # 0
        BY <1>1, <1>3, <1>5, <3>2 DEF InOrder, x
      <3> QED
        BY <3>1, <3>2
    <2> QED
      BY <1>6, <2>1, <2>2, <2>3 DEF InOrder
  <1>8. ASSUME NEW m \in 1..p.n, Ahead(m, p) PROVE Ahead(m, r)
    <2>m. m # 0 /\ m \in Nat
      BY <1>t
    <2>1. ASSUME NEW j \in 1..Len(p.typed), p.typed[j] = m, j # 1 PROVE Ahead(m, r)
      BY <1>2, <2>1 DEF Ahead
    <2>2. CASE x = m
      BY <1>3, <1>5, <2>2, <2>m DEF Ahead
    <2>3. CASE /\ \A j \in 1..Len(p.typed) : p.typed[j] # 0 => p.typed[j] > m
               /\ p.shown # <<>> => LastShown(p) >= m
      <3>1. \A j \in 1..Len(r.typed) : r.typed[j] # 0 => r.typed[j] > m
        BY <1>1, <2>3
      <3>2. r.shown # <<>> => LastShown(r) >= m
        <4>1. CASE x = 0
          BY <1>4, <2>3, <4>1
        <4>2. CASE x # 0
          <5>1. x > m
            BY <1>1, <2>3, <4>2 DEF x
          <5> QED
            BY <1>1, <1>3, <2>m, <4>2, <5>1
        <4> QED
          BY <4>1, <4>2
      <3> QED
        BY <3>1, <3>2 DEF Ahead
    <2> QED
      BY <1>8, <2>1, <2>2, <2>3 DEF Ahead, x
  <1> QED
    BY <1>7, <1>8

\* A pane that is gone shows nothing.
LEMMA Cleared ==
  ASSUME NEW r \in Panes, r.typed = <<>>, r.shown = <<>>
  PROVE  InOrder(r) /\ \A m : Ahead(m, r)
  <1>1. Len(r.typed) = 0 /\ 1..0 = {}
    OBVIOUS
  <1> QED
    BY <1>1 DEF InOrder, Ahead
-----------------------------------------------------------------------------
(* The steps.                                                               *)

\* A command that starts, and none, are commands.
LEMMA ChildTypes ==
  /\ NoChild \in Children /\ Spawned \in Children
  /\ \A st \in {"reaped", "left"} : Over(st) \in Children /\ Over(st).st = st
  <1>1. \A st \in {"none", "runs"}, b \in BOOLEAN :
           [st |-> st, open |-> b, prints |-> b, idle |-> 0, sig |-> "none"] \in Children
    BY DEF Children
  <1>2. \A c \in Children, b \in BOOLEAN : [c EXCEPT !.st = "runs", !.open = b] \in Children
    BY DEF Children
  <1>3. NoChild \in Children
    BY <1>1, Zenon DEF NoChild
  <1>4. Spawned \in Children
    BY <1>2, <1>3, Zenon DEF Spawned
  <1>5. \A st \in {"reaped", "left"}, c \in Children :
           [c EXCEPT !.st = st] \in Children /\ [c EXCEPT !.st = st].st = st
    BY DEF Children
  <1> QED
    BY <1>3, <1>4, <1>5 DEF Over

\* A step of one work, or of none, keeps the invariant when it does so for the
\* work, for its command and for the pane.
LEMMA OneStep ==
  ASSUME RuntimeInv, NEW w \in Works, NEW q, NEW c \in Children,
         work' = [work EXCEPT ![w] = q], child' = [child EXCEPT ![w] = c],
         Sound(q), Waits(q, tm'), q.pc \notin Commands => c.st \in {"none", "reaped", "left"},
         PaneSound', tm.n <= tm'.n, \A m \in 1..tm.n : Ahead(m, tm) => Ahead(m, tm')
  PROVE  RuntimeInv'
  <1>1. work' \in [Works -> WorkRecs] /\ child' \in [Works -> Children]
    BY DEF RuntimeInv, Sound
  <1>2. /\ work'[w] = q /\ \A v \in Works \ {w} : work'[v] = work[v]
        /\ child'[w] = c /\ \A v \in Works \ {w} : child'[v] = child[v]
    BY DEF RuntimeInv
  <1>3. WorksSound'
    BY <1>2 DEF RuntimeInv, WorksSound
  <1>4. NoChildIsLeft'
    BY <1>2 DEF RuntimeInv, NoChildIsLeft, Commands
  <1>5. WorksWait'
    <2> SUFFICES ASSUME NEW v \in Works PROVE Waits(work'[v], tm')
      BY DEF WorksWait
    <2>1. CASE v = w
      BY <1>2, <2>1
    <2>2. CASE v # w
      <3>1. work'[v] = work[v] /\ Waits(work[v], tm)
        BY <1>2, <2>2 DEF RuntimeInv, WorksWait
      <3>2. work[v].mine \in Nat /\ tm.n \in Nat /\ tm'.n \in Nat
        BY DEF RuntimeInv, WorkRecs, PaneSound, Panes
      <3>3. work[v].mine <= tm'.n
        BY <3>1, <3>2 DEF Waits
      <3>4. work[v].pc = "visible" => work[v].mine \in 1..tm.n /\ Ahead(work[v].mine, tm)
        BY <3>1, <3>2 DEF Waits
      <3> QED
        BY <3>1, <3>2, <3>3, <3>4 DEF Waits
    <2> QED
      BY <2>1, <2>2
  <1> QED
    BY <1>1, <1>3, <1>4, <1>5 DEF RuntimeInv

\* The same when the pane is left alone and the thread does not type.
LEMMA StillStep ==
  ASSUME RuntimeInv, NEW w \in Works, NEW q, NEW c \in Children,
         work' = [work EXCEPT ![w] = q], child' = [child EXCEPT ![w] = c], UNCHANGED tm,
         Sound(q), q.mine = work[w].mine, q.pc = "visible" => work[w].pc = "visible",
         q.pc \notin Commands => c.st \in {"none", "reaped", "left"}
  PROVE  RuntimeInv'
  <1>1. Waits(work[w], tm)
    BY DEF RuntimeInv, WorksWait
  <1>2. Waits(q, tm')
    BY <1>1 DEF Waits
  <1>3. PaneSound' /\ tm.n <= tm'.n /\ \A m \in 1..tm.n : Ahead(m, tm) => Ahead(m, tm')
    BY DEF RuntimeInv, PaneSound, Panes
  <1> QED
    BY <1>2, <1>3, OneStep

\* The same when commands are left alone too.
LEMMA PlainStep ==
  ASSUME RuntimeInv, NEW w \in Works, NEW q, Set(w, q), UNCHANGED <<child, tm>>,
         Sound(q), q.mine = work[w].mine, q.pc # "visible", work[w].pc \notin Commands
  PROVE  RuntimeInv'
  <1>1. child' = [child EXCEPT ![w] = child[w]] /\ child[w] \in Children
    BY DEF RuntimeInv
  <1>2. child[w].st \in {"none", "reaped", "left"}
    BY DEF RuntimeInv, NoChildIsLeft, Commands
  <1> QED
    BY <1>1, <1>2, StillStep DEF Set

\* Taking in work and ending it.
LEMMA TakingSteps ==
  ASSUME RuntimeInv, NEW w \in Works,
         \/ TakeIn(w) \/ Returned(w) \/ Raised(w) \/ NoCallback(w)
  PROVE  RuntimeInv'
  <1> DEFINE q == work[w]
  <1>q. Sound(q) /\ q \in WorkRecs
    BY DEF RuntimeInv, WorksSound
  <1>e. ASSUME NEW pc \in {"done", "refused", "returned"}, NEW e,
               Emits(w, [q EXCEPT !.pc = pc], e), UNCHANGED <<child, tm>>, q.pc \notin Commands,
               \/ q.pc = "returned" /\ pc = "done" /\ e = "work_completed"
               \/ q.pc = "raised" /\ pc = "done" /\ e = "work_failed"
               \/ q.pc = "posted" /\ pc = "refused" /\ e = "work_failed"
               \/ q.pc = "chat" /\ pc = "returned" /\ e = "work_failed"
        PROVE  RuntimeInv'
    <2>1. PICK x \in {e, "unwritten"} : Set(w, Ended(q, pc, x))
      BY <1>e, EmitsOne DEF Ended
    <2>2. /\ Sound(Ended(q, pc, x)) /\ Ended(q, pc, x).pc = pc
          /\ Ended(q, pc, x).mine = q.mine
      BY <1>q, <1>e, SoundEnds
    <2> QED
      BY <1>e, <2>1, <2>2, PlainStep
  <1>g. ASSUME NEW pc \in Pcs, To(w, pc), pc # "visible", q.pc \notin {"deliver", "returned", "done"},
               q.pc \notin Commands, UNCHANGED <<child, tm>>, pc \notin {"deliver", "done"},
               pc \in {"posted", "chat", "shell", "returned"} => q.msg = "none"
        PROVE  RuntimeInv'
    <2> DEFINE r == [q EXCEPT !.pc = pc]
    <2>1. Alike(q, r) /\ r.pc = pc /\ Set(w, r)
      BY <1>q, <1>g, Goes DEF To
    <2> HIDE DEF r
    <2>2. Sound(r) /\ r.mine = q.mine
      BY <1>q, <1>g, <2>1, SoundGoes DEF Alike
    <2> QED
      BY <1>g, <2>1, <2>2, PlainStep
  <1>m. q.pc \in {"posted", "chat"} => q.msg = "none"
    BY <1>q DEF Sound, SaidOnce
  <1>1. CASE Refuse(w)
    BY <1>1, <1>e DEF Refuse, Taking, At, Commands
  <1>2. CASE AcceptChat(w)
    BY <1>2, <1>g, <1>m DEF AcceptChat, Taking, At, Commands, Pcs
  <1>3. CASE AcceptShell(w)
    <2>1. CASE To(w, "returned") /\ UNCHANGED child
      BY <1>3, <1>g, <1>m, <2>1 DEF AcceptShell, Taking, At, Commands, Pcs
    <2>2. CASE To(w, "shell") /\ child' = [child EXCEPT ![w] = Spawned]
      <3> DEFINE r == [q EXCEPT !.pc = "shell"]
      <3>1. q.pc = "posted" /\ UNCHANGED tm
        BY <1>3 DEF AcceptShell, Taking, At
      <3>2. "shell" \in Pcs
        BY DEF Pcs
      <3>3. Alike(q, r) /\ r.pc = "shell" /\ work' = [work EXCEPT ![w] = r]
        BY <1>q, <2>2, <3>2, Goes DEF To, Set
      <3> HIDE DEF r
      <3>4. Sound(r) /\ r.mine = q.mine
        BY <1>q, <1>m, <3>1, <3>3, SoundGoes DEF Alike
      <3> QED
        BY <2>2, <3>1, <3>3, <3>4, ChildTypes, StillStep DEF Commands
    <2> QED
      BY <1>3, <2>1, <2>2 DEF AcceptShell
  <1>4. CASE Returned(w)
    BY <1>4, <1>e DEF Returned, At, Commands
  <1>5. CASE Raised(w)
    BY <1>5, <1>e DEF Raised, Caught, At, Commands
  <1>6. CASE NoCallback(w)
    BY <1>6, <1>e DEF NoCallback, At, Commands
  <1> QED
    BY <1>1, <1>2, <1>3, <1>4, <1>5, <1>6 DEF TakeIn

\* A thread that goes on or answers, with nothing else changed.
LEMMA ThreadStep ==
  ASSUME RuntimeInv, NEW w \in Works, UNCHANGED <<child, tm>>,
         work[w].pc \notin {"deliver", "returned", "done"} \cup Commands
  PROVE  /\ \A r \in {Fails(work[w]), Completes(work[w]), Answered(work[w]),
                      Deliver(work[w], "thinking", "direct")} : Set(w, r) => RuntimeInv'
         /\ \A pc \in {"infer", "tool", "raised", "browse"} : To(w, pc) => RuntimeInv'
         /\ work[w].i < MaxIter /\ Set(w, [work[w] EXCEPT !.pc = "tool", !.i = @ + 1]) => RuntimeInv'
  <1> DEFINE q == work[w]
  <1>q. Sound(q) /\ q \in WorkRecs
    BY DEF RuntimeInv, WorksSound
  <1>1. \A r \in {Fails(q), Completes(q), Answered(q), Deliver(q, "thinking", "direct")} :
            Sound(r) /\ r.pc = "deliver" /\ r.mine = q.mine
    BY <1>q, SoundAnswers
  <1>2. ASSUME NEW r, Alike(q, r), r.pc \in {"infer", "tool", "raised", "browse"}, Set(w, r)
        PROVE  RuntimeInv'
    <2>1. Sound(r) /\ r.mine = q.mine
      BY <1>q, <1>2, SoundGoes DEF Alike
    <2> QED
      BY <1>2, <2>1, PlainStep
  <1>3. \A pc \in {"infer", "tool", "raised", "browse"} : pc \in Pcs
    BY DEF Pcs
  <1>4. \A pc \in {"infer", "tool", "raised", "browse"} :
           Alike(q, [q EXCEPT !.pc = pc]) /\ [q EXCEPT !.pc = pc].pc = pc
    <2> HIDE DEF q
    <2> TAKE pc \in {"infer", "tool", "raised", "browse"}
    <2>1. pc \in Pcs
      BY <1>3
    <2> QED
      BY <1>q, <2>1, Goes
  <1>5. q.i < MaxIter => /\ Alike(q, [q EXCEPT !.pc = "tool", !.i = @ + 1])
                         /\ [q EXCEPT !.pc = "tool", !.i = @ + 1].pc = "tool"
    <2> HIDE DEF q
    <2>1. "tool" \in Pcs
      BY <1>3
    <2> QED
      BY <1>q, <2>1, Goes
  <1>6. \A r \in {Fails(q), Completes(q), Answered(q), Deliver(q, "thinking", "direct")} :
            Set(w, r) => RuntimeInv'
    BY <1>1, PlainStep
  <1>7. \A pc \in {"infer", "tool", "raised", "browse"} : To(w, pc) => RuntimeInv'
    BY <1>2, <1>4 DEF To
  <1>8. q.i < MaxIter /\ Set(w, [q EXCEPT !.pc = "tool", !.i = @ + 1]) => RuntimeInv'
    BY <1>2, <1>5
  <1> QED
    BY <1>6, <1>7, <1>8

\* The loop of a chat: inferences, and tools that leave the pane alone.
LEMMA LoopSteps ==
  ASSUME RuntimeInv, NEW w \in Works,
         \/ ChatBegin(w) \/ Infer(w) \/ Unreadable(w) \/ ToolAnswers(w) \/ ToolRequests(w)
         \/ Browse(w) \/ Browsed(w)
  PROVE  RuntimeInv'
  <1> DEFINE q == work[w]
             Rs == {Fails(q), Completes(q), Answered(q), Deliver(q, "thinking", "direct")}
  <1>1. UNCHANGED <<child, tm>>
    BY DEF ChatBegin, Infer, Unreadable, ToolAnswers, ToolRequests, Browse, Browsed
  <1>2. q.pc \in {"chat", "infer", "tool", "browse"}
    BY DEF ChatBegin, Infer, Unreadable, ToolAnswers, ToolRequests, Browse, Browsed, At
  <1>3. q.pc \notin {"deliver", "returned", "done"} \cup Commands
    BY <1>2 DEF Commands
  <1>4. \/ \E r \in Rs : Set(w, r)
        \/ \E pc \in {"infer", "tool", "raised", "browse"} : To(w, pc)
        \/ q.i < MaxIter /\ Set(w, [q EXCEPT !.pc = "tool", !.i = @ + 1])
    <2>1. CASE Infer(w)
      <3>1. CASE q.i = MaxIter /\ Set(w, Completes(q))
        BY <3>1
      <3>2. CASE q.i < MaxIter /\ \E r \in {Fails(q), Completes(q), [q EXCEPT !.pc = "tool", !.i = @ + 1]} :
                                     work' = [work EXCEPT ![w] = r]
        BY <3>2 DEF Set
      <3> QED
        BY <2>1, <3>1, <3>2 DEF Infer
    <2>2. CASE ChatBegin(w)
      BY <2>2 DEF ChatBegin
    <2>3. CASE Unreadable(w) \/ ToolAnswers(w) \/ ToolRequests(w) \/ Browse(w) \/ Browsed(w)
      BY <2>3 DEF Unreadable, ToolAnswers, ToolRequests, Browse, Browsed
    <2> QED
      BY <2>1, <2>2, <2>3
  <1> QED
    BY <1>1, <1>3, <1>4, ThreadStep

\* _deliver_callback: a delivery that ends is followed by what it was made for,
\* and an ending that was not taken by an event.
LEMMA DeliverySteps ==
  ASSUME RuntimeInv, NEW w \in Works, Post(w) \/ PostFails(w) \/ GivesUp(w)
  PROVE  RuntimeInv'
  <1> DEFINE q == work[w]
             n == [q EXCEPT !.pc = q.next]
  <1>q. Sound(q) /\ q \in WorkRecs /\ q.pc = "deliver" /\ UNCHANGED <<child, tm>>
    BY DEF RuntimeInv, WorksSound, Post, PostFails, GivesUp, At
  <1>d. \/ q.msg = "thinking" /\ q.next \in {"infer", "direct"} /\ q.said = {}
        \/ q.msg \in Terminal /\ q.next = "returned" /\ q.said \subseteq {q.msg}
    BY <1>q DEF Sound, SaidOnce
  <1>n. Alike(q, n) /\ n.pc = q.next
    <2>1. q.next \in Pcs
      BY <1>q DEF WorkRecs
    <2> QED
      BY <1>q, <2>1, Goes
  <1> HIDE DEF n, q
  \* the thread goes on with r
  <1>s. ASSUME NEW r \in WorkRecs, Set(w, r), r.pc = q.next, r.msg = q.msg,
               r.said \in {q.said, q.said \cup ({q.msg} \cap Terminal)}, q.ev \subseteq r.ev,
               r.mine = q.mine, r.told = q.told, r.cut = q.cut,
               q.msg \in Terminal => \/ r.said # {}
                                     \/ r.ev \cap {"callback_failed", "callback_refused", "unwritten"} # {}
        PROVE  RuntimeInv'
    <2>1. SaidOnce(r)
      BY <1>d, <1>s DEF SaidOnce, Terminal
    <2>2. Recorded(r)
      BY <1>d, <1>s DEF Recorded, Traced, Quiet, Telling
    <2>3. Own(r)
      BY <1>q, <1>s DEF Sound, Own
    <2>4. Sound(r) /\ r.pc # "visible" /\ work[w].pc \notin Commands
      BY <1>q, <1>d, <1>s, <2>1, <2>2, <2>3 DEF Sound, Commands, q
    <2> QED
      BY <1>q, <1>s, <2>4, PlainStep DEF q
  <1>1. CASE Post(w)
    <2>1. Set(w, Taken(n)) \/ Set(w, [n EXCEPT !.ev = @ \cup {"callback_refused"}])
      BY <1>1 DEF Post, n, q
    <2>2. /\ Taken(n) \in WorkRecs /\ Taken(n).pc = q.next /\ Taken(n).msg = q.msg
          /\ Taken(n).said = q.said \cup ({q.msg} \cap Terminal) /\ Taken(n).ev = q.ev
          /\ Taken(n).mine = q.mine /\ Taken(n).told = q.told /\ Taken(n).cut = q.cut
      BY <1>n, Takes DEF Alike
    <2>3. CASE Set(w, Taken(n))
      BY <1>s, <2>2, <2>3
    <2>4. CASE Set(w, [n EXCEPT !.ev = @ \cup {"callback_refused"}])
      <3> DEFINE r == [n EXCEPT !.ev = @ \cup {"callback_refused"}]
      <3>1. "callback_refused" \in Events
        BY DEF Events
      <3>2. /\ r \in WorkRecs /\ r.pc = n.pc /\ r.msg = n.msg /\ r.next = n.next /\ r.said = n.said
            /\ r.ev = n.ev \cup {"callback_refused"} /\ r.mine = n.mine /\ r.told = n.told /\ r.cut = n.cut
        BY <1>n, <3>1, Emitted DEF Alike
      <3> HIDE DEF r
      <3> QED
        BY <1>s, <1>n, <2>4, <3>2 DEF Alike, r
    <2> QED
      BY <2>1, <2>3, <2>4
  <1>2. CASE PostFails(w)
    <2>1. PICK p \in {q, Taken(q)} : Set(w, [p EXCEPT !.att = @ + 1])
      BY <1>2 DEF PostFails, q
    <2>2. q.att < Attempts(q.msg)
      BY <1>2 DEF PostFails, q
    <2>3. /\ Taken(q) \in WorkRecs /\ Taken(q).pc = q.pc /\ Taken(q).msg = q.msg
          /\ Taken(q).said = q.said \cup ({q.msg} \cap Terminal) /\ Taken(q).ev = q.ev
          /\ Taken(q).next = q.next /\ Taken(q).att = q.att
          /\ Taken(q).mine = q.mine /\ Taken(q).told = q.told /\ Taken(q).cut = q.cut
      BY <1>q, Takes
    <2>4. p \in WorkRecs /\ p.att < 2
      <3>1. q.att \in 0..2
        BY <1>q DEF WorkRecs
      <3> QED
        BY <1>q, <2>2, <2>3, <3>1 DEF Attempts
    <2> DEFINE r == [p EXCEPT !.att = @ + 1]
    <2>5. Alike(p, r) /\ r.pc = p.pc
      <3>1. "done" \in Pcs
        BY DEF Pcs
      <3> QED
        BY <2>4, <3>1, Goes
    <2> HIDE DEF r
    <2>6. SaidOnce(r)
      BY <1>q, <1>d, <2>3, <2>5 DEF SaidOnce, Alike, Terminal
    <2>7. Recorded(r)
      BY <1>q, <2>3, <2>5 DEF Recorded
    <2>8. Own(r)
      BY <1>q, <2>3, <2>5 DEF Sound, Own, Alike
    <2>9. Sound(r) /\ r.pc # "visible" /\ work[w].pc \notin Commands /\ r.mine = q.mine
      BY <1>q, <2>3, <2>5, <2>6, <2>7, <2>8 DEF Sound, Commands, Alike, q
    <2> QED
      BY <1>q, <2>1, <2>9, PlainStep DEF r, q
  <1>3. CASE GivesUp(w)
    <2>1. CASE q.msg \in Terminal
      <3>1. Emits(w, n, "callback_failed")
        BY <1>3, <2>1 DEF GivesUp, n, q
      <3>2. PICK x \in {"callback_failed", "unwritten"} : Set(w, [n EXCEPT !.ev = @ \cup {x}])
        BY <3>1, EmitsOne
      <3> DEFINE r == [n EXCEPT !.ev = @ \cup {x}]
      <3>3. x \in Events
        BY DEF Events
      <3>4. /\ r \in WorkRecs /\ r.pc = n.pc /\ r.msg = n.msg /\ r.next = n.next /\ r.said = n.said
            /\ r.ev = n.ev \cup {x} /\ r.mine = n.mine /\ r.told = n.told /\ r.cut = n.cut
        BY <1>n, <3>3, Emitted DEF Alike
      <3> HIDE DEF r
      <3>5. Set(w, r)
        BY <3>2 DEF r
      <3> QED
        BY <1>s, <1>n, <3>4, <3>5 DEF Alike
    <2>2. CASE q.msg \notin Terminal
      <3>1. Set(w, n)
        BY <1>3, <2>2 DEF GivesUp, n, q
      <3> QED
        BY <1>s, <1>n, <2>2, <3>1 DEF Alike
    <2> QED
      BY <2>1, <2>2
  <1> QED
    BY <1>1, <1>2, <1>3

\* The session that is typed into shows what there was, or is new and empty.
LEMMA SessionType ==
  ASSUME PaneSound
  PROVE  /\ Session \in Panes /\ Session.n = tm.n /\ Session.up /\ Session.for = tm.for
         /\ Session.typed = tm.typed /\ Session.shown = tm.shown
  <1>1. tm \in Panes /\ (~tm.up => tm.typed = <<>> /\ tm.shown = <<>>)
    BY Zenon DEF PaneSound, InOrder
  <1>2. CASE tm.up
    BY <1>1, <1>2, Zenon DEF Session
  <1>3. CASE ~tm.up
    <2> DEFINE s(b) == [tm EXCEPT !.up = b, !.typed = <<>>, !.shown = <<>>]
    <2>1. <<>> \in Seq(0..MaxTyped) /\ <<>> \in Seq(1..MaxTyped)
      OBVIOUS
    <2>2. \A b \in BOOLEAN : /\ s(b) \in Panes /\ s(b).n = tm.n /\ s(b).up = b /\ s(b).for = tm.for
                             /\ s(b).typed = <<>> /\ s(b).shown = <<>>
      BY <1>1, <2>1 DEF Panes
    <2>3. Session = s(TRUE)
      BY <1>3 DEF Session
    <2> HIDE DEF s
    <2>4. /\ s(TRUE) \in Panes /\ s(TRUE).n = tm.n /\ s(TRUE).up = TRUE /\ s(TRUE).for = tm.for
          /\ s(TRUE).typed = <<>> /\ s(TRUE).shown = <<>>
      BY <2>2, Zenon
    <2> QED
      BY <1>1, <1>3, <2>3, <2>4, Zenon
  <1> QED
    BY <1>2, <1>3

\* Typing a command without a sentinel, or one with the next number.
LEMMA AppendPane ==
  ASSUME PaneSound, NEW p \in Panes, p.n = tm.n, p.up, p.typed = tm.typed, p.shown = tm.shown
  PROVE  /\ LET r == [p EXCEPT !.typed = Append(@, 0)] IN
            /\ r \in Panes /\ InOrder(r) /\ r.n = tm.n
            /\ \A m \in 1..tm.n : Ahead(m, tm) => Ahead(m, r)
         /\ LET r == [p EXCEPT !.n = @ + 1, !.typed = Append(@, tm.n + 1)] IN
            tm.n < MaxTyped => /\ r \in Panes /\ InOrder(r) /\ r.n = tm.n + 1
                               /\ \A m \in 1..tm.n : Ahead(m, tm) => Ahead(m, r)
                               /\ Ahead(tm.n + 1, r)
  <1>t. /\ tm \in Panes /\ InOrder(tm) /\ tm.n \in 0..MaxTyped /\ p.typed \in Seq(0..MaxTyped)
    BY DEF PaneSound, Panes
  <1>1. /\ Append(p.typed, 0) \in Seq(0..MaxTyped)
        /\ tm.n < MaxTyped => Append(p.typed, tm.n + 1) \in Seq(0..MaxTyped)
    BY <1>t
  <1>2. LET r == [p EXCEPT !.typed = Append(@, 0)] IN
            /\ r \in Panes /\ InOrder(r) /\ r.n = tm.n
            /\ \A m \in 1..tm.n : Ahead(m, tm) => Ahead(m, r)
    <2> DEFINE s == Append(p.typed, 0)
               r == [p EXCEPT !.typed = s]
    <2> HIDE DEF s
    <2>1. r \in Panes /\ r.typed = s /\ r.shown = p.shown /\ r.n = p.n /\ r.up = p.up
      BY <1>1 DEF Panes, s
    <2> HIDE DEF r
    <2>2. r.up /\ r.typed = Append(tm.typed, 0) /\ r.shown = tm.shown /\ r.n = tm.n
      BY <2>1, Zenon DEF s
    <2>3. InOrder(r) /\ \A m \in 1..tm.n : Ahead(m, tm) => Ahead(m, r)
      <3>1. r.n >= tm.n /\ 0 <= r.n /\ 0 \in 0..MaxTyped
        BY <1>t, <2>2
      <3> QED
        BY <1>t, <2>1, <2>2, <3>1, Typed
    <2> QED
      BY <2>1, <2>2, <2>3 DEF r, s
  <1>3. ASSUME tm.n < MaxTyped
        PROVE  LET r == [p EXCEPT !.n = @ + 1, !.typed = Append(@, tm.n + 1)] IN
               /\ r \in Panes /\ InOrder(r) /\ r.n = tm.n + 1
               /\ \A m \in 1..tm.n : Ahead(m, tm) => Ahead(m, r)
               /\ Ahead(tm.n + 1, r)
    <2> DEFINE s == Append(p.typed, tm.n + 1)
               r == [p EXCEPT !.n = p.n + 1, !.typed = s]
    <2> HIDE DEF s
    <2>0. tm.n + 1 \in 0..MaxTyped /\ tm.n + 1 # 0
      BY <1>t, <1>3
    <2>1. r \in Panes /\ r.typed = s /\ r.shown = p.shown /\ r.n = p.n + 1 /\ r.up = p.up
      BY <1>1, <1>3, <2>0 DEF Panes, s
    <2> HIDE DEF r
    <2>2. r.up /\ r.typed = Append(tm.typed, tm.n + 1) /\ r.shown = tm.shown /\ r.n = tm.n + 1
      BY <2>1, Zenon DEF s
    <2>3. /\ InOrder(r) /\ \A m \in 1..tm.n : Ahead(m, tm) => Ahead(m, r)
          /\ Ahead(tm.n + 1, r)
      <3> DEFINE k == tm.n + 1
      <3>1. k \in 0..MaxTyped /\ k # 0 /\ k > tm.n
        BY <1>t, <2>0
      <3>2. r.typed = Append(tm.typed, k) /\ k <= r.n /\ r.n >= tm.n
        BY <1>t, <2>2
      <3> HIDE DEF k
      <3>3. InOrder(r) /\ (\A m \in 1..tm.n : Ahead(m, tm) => Ahead(m, r)) /\ Ahead(k, r)
        BY <1>t, <2>1, <2>2, <3>1, <3>2, Typed
      <3> QED
        BY <3>3 DEF k
    <2> QED
      BY <2>1, <2>2, <2>3 DEF r, s
  <1> QED
    BY <1>2, <1>3

\* A step of the pane alone keeps the invariant.
LEMMA PaneStep ==
  ASSUME RuntimeInv, UNCHANGED <<work, child>>, PaneSound', tm'.n = tm.n,
         \A m \in 1..tm.n : Ahead(m, tm) => Ahead(m, tm')
  PROVE  RuntimeInv'
  <1> PICK w \in Works : TRUE
    OBVIOUS
  <1>1. work' = [work EXCEPT ![w] = work[w]] /\ child' = [child EXCEPT ![w] = child[w]]
    BY DEF RuntimeInv
  <1>2. Sound(work[w]) /\ child[w] \in Children /\ tm.n \in Nat /\ work[w].mine \in Nat
    BY DEF RuntimeInv, WorksSound, PaneSound, Panes, WorkRecs
  <1>3. work[w].pc \notin Commands => child[w].st \in {"none", "reaped", "left"}
    BY DEF RuntimeInv, NoChildIsLeft, Commands
  <1>4. Waits(work[w], tm')
    <2>1. Waits(work[w], tm)
      BY DEF RuntimeInv, WorksWait
    <2>2. work[w].pc = "visible" => work[w].mine \in 1..tm.n
      BY <1>2, <2>1 DEF Waits
    <2> QED
      BY <2>1, <2>2 DEF Waits
  <1>5. tm.n <= tm'.n
    BY <1>2
  <1> QED
    BY <1>1, <1>2, <1>3, <1>4, <1>5, OneStep

\* The terminal: a command is numbered when it is typed, and its thread reads a
\* number that is not before its own.
LEMMA TerminalSteps ==
  ASSUME RuntimeInv, NEW w \in Works, Type(w) \/ TypeDirect(w) \/ TypeKeys(w) \/ Capture(w)
  PROVE  RuntimeInv'
  <1> DEFINE q == work[w]
  <1>q. /\ Sound(q) /\ q \in WorkRecs /\ PaneSound /\ UNCHANGED child
        /\ q.pc \in {"tool", "direct", "visible"} /\ child[w] \in Children /\ tm.n \in 0..MaxTyped
        /\ tm \in Panes
    BY DEF RuntimeInv, WorksSound, PaneSound, Panes, Type, TypeDirect, TypeKeys, Capture, At
  <1>c. /\ child' = [child EXCEPT ![w] = child[w]]
        /\ child[w].st \in {"none", "reaped", "left"}
    BY <1>q DEF RuntimeInv, NoChildIsLeft
  <1>w. Waits(q, tm)
    BY DEF RuntimeInv, WorksWait
  <1>a. \A r \in {Fails(q), Completes(q), Answered(q)} :
            Sound(r) /\ r.pc = "deliver" /\ r.mine = q.mine
    BY <1>q, SoundAnswers
  <1>n. q.pc \notin {"deliver", "returned", "done"} \cup Commands
    BY <1>q DEF Commands
  <1>s. /\ Session \in Panes /\ Session.n = tm.n /\ Session.up
        /\ Session.typed = tm.typed /\ Session.shown = tm.shown
    BY <1>q, SessionType
  \* the thread answers, having typed
  <1>d. ASSUME NEW p \in Panes, p.n = tm.n, p.up, p.typed = tm.typed, p.shown = tm.shown,
               tm' = [p EXCEPT !.typed = Append(@, 0)],
               NEW r \in {Completes(q), Answered(q)}, Set(w, r)
        PROVE  RuntimeInv'
    <2>1. tm' \in Panes /\ InOrder(tm') /\ tm'.n = tm.n /\ \A m \in 1..tm.n : Ahead(m, tm) => Ahead(m, tm')
      BY <1>q, <1>d, AppendPane
    <2>2. Sound(r) /\ r.pc = "deliver" /\ r.mine = q.mine
      BY <1>a, <1>d
    <2>3. Waits(r, tm') /\ PaneSound' /\ tm.n <= tm'.n
      BY <1>q, <1>w, <2>1, <2>2 DEF Waits, PaneSound
    <2> QED
      BY <1>c, <1>d, <1>q, <2>1, <2>2, <2>3, OneStep DEF Set
  <1>1. CASE Type(w)
    <2> DEFINE k == tm.n + 1
               c == [q EXCEPT !.pc = "visible", !.mine = k, !.told = 0, !.cut = FALSE]
    <2>0. tm.n < MaxTyped /\ k \in 1..MaxTyped /\ k \in 0..MaxTyped
      BY <1>1, <1>q DEF Type
    <2>1. tm' = [Session EXCEPT !.n = @ + 1, !.typed = Append(@, k)] /\ work' = [work EXCEPT ![w] = c]
      BY <1>1 DEF Type, Set
    <2>2. /\ tm' \in Panes /\ InOrder(tm') /\ tm'.n = k
          /\ \A m \in 1..tm.n : Ahead(m, tm) => Ahead(m, tm')
          /\ Ahead(k, tm')
      <3>1. LET r == [Session EXCEPT !.n = @ + 1, !.typed = Append(@, k)] IN
            /\ r \in Panes /\ InOrder(r) /\ r.n = k
            /\ \A m \in 1..tm.n : Ahead(m, tm) => Ahead(m, r)
            /\ Ahead(k, r)
        BY <1>q, <1>s, <2>0, AppendPane
      <3> QED
        BY <2>1, <3>1
    <2>3. /\ c \in WorkRecs /\ c.pc = "visible" /\ c.mine = k /\ c.told = 0 /\ c.msg = q.msg
          /\ c.said = q.said
      <3> HIDE DEF k
      <3>1. "visible" \in Pcs /\ 0 \in 0..MaxTyped
        BY DEF Pcs
      <3> QED
        BY <1>q, <2>0, <3>1 DEF WorkRecs
    <2> HIDE DEF c
    <2>4. Sound(c)
      BY <1>q, <2>3 DEF Sound, SaidOnce, Recorded, Own
    <2>5. Waits(c, tm') /\ PaneSound' /\ tm.n <= tm'.n
      BY <1>q, <2>0, <2>2, <2>3 DEF Waits, PaneSound
    <2>6. c.pc \notin Commands => child[w].st \in {"none", "reaped", "left"}
      BY <1>c
    <2> QED
      BY <1>c, <1>q, <2>1, <2>2, <2>4, <2>5, <2>6, OneStep
  <1>2. CASE TypeDirect(w)
    <2>1. CASE Set(w, Fails(q)) /\ UNCHANGED tm
      BY <1>n, <1>q, <2>1, ThreadStep
    <2>2. CASE tm' = [Session EXCEPT !.typed = Append(@, 0)] /\ Set(w, Completes(q))
      BY <1>d, <1>s, <2>2
    <2> QED
      BY <1>2, <2>1, <2>2 DEF TypeDirect
  <1>3. CASE TypeKeys(w)
    <2>1. CASE tm.up
      <3>1. tm' = [tm EXCEPT !.typed = Append(@, 0)] /\ Set(w, Answered(q))
        BY <1>3, <2>1 DEF TypeKeys
      <3> QED
        BY <1>d, <1>q, <2>1, <3>1
    <2>2. CASE ~tm.up
      <3>1. UNCHANGED tm /\ Set(w, Answered(q))
        BY <1>3, <2>2 DEF TypeKeys
      <3> QED
        BY <1>n, <1>q, <3>1, ThreadStep
    <2> QED
      BY <2>1, <2>2
  <1>4. CASE Capture(w)
    <2>k. PICK k \in 0..Len(tm.shown) :
            Set(w, [Answered(q) EXCEPT !.told = Extracted(SubSeq(tm.shown, 1, k)),
                                       !.cut = ~(tm.up /\ tm.typed = <<>> /\ k = Len(tm.shown))])
      BY <1>4 DEF Capture
    <2> DEFINE x == Extracted(SubSeq(tm.shown, 1, k))
               a == Answered(q)
               b == ~(tm.up /\ tm.typed = <<>> /\ k = Len(tm.shown))
    <2>1. q.pc = "visible" /\ UNCHANGED tm
      BY <1>4 DEF Capture, At
    <2>2. a \in WorkRecs /\ Sound(a) /\ a.pc = "deliver" /\ a.mine = q.mine
      BY <1>a DEF Sound
    <2>s. tm.shown \in Seq(1..MaxTyped)
      BY <1>q DEF Panes
    <2>3. x \in 0..MaxTyped
      <3> DEFINE s == SubSeq(tm.shown, 1, k)
      <3>1. s \in Seq(1..MaxTyped)
        BY <2>s
      <3> HIDE DEF s
      <3>2. Extracted(s) \in 0..MaxTyped
        BY <1>q, <3>1 DEF Extracted
      <3> QED
        BY <3>2 DEF s
    <2>4. ~b => x = 0 \/ x >= q.mine
      <3> SUFFICES ASSUME ~b PROVE x = 0 \/ x >= q.mine
        OBVIOUS
      <3>1. Ahead(q.mine, tm) /\ 1..Len(tm.typed) = {}
        BY <1>w, <2>1 DEF Waits
      <3>2. tm.shown # <<>> => LastShown(tm) >= q.mine
        BY <3>1 DEF Ahead
      <3>3. SubSeq(tm.shown, 1, k) = tm.shown
        BY <2>s
      <3> QED
        BY <3>2, <3>3 DEF Extracted, LastShown
    <2>b. b \in BOOLEAN
      OBVIOUS
    <2>7. work' = [work EXCEPT ![w] = [a EXCEPT !.told = x, !.cut = b]]
      BY <2>k DEF Set
    <2> HIDE DEF x, a, b
    <2>r. ASSUME NEW r, work' = [work EXCEPT ![w] = r],
                 r \in WorkRecs, r.pc = a.pc, r.msg = a.msg, r.next = a.next, r.said = a.said,
                 r.ev = a.ev, r.mine = a.mine, r.told = x, r.cut = b
          PROVE  RuntimeInv'
      <3>1. SaidOnce(r) /\ Recorded(r)
        BY <2>2, <2>r DEF Sound, SaidOnce, Recorded
      <3>2. q.mine \in Nat
        BY <1>q DEF WorkRecs
      <3>3. ~b => ~(r.told < r.mine /\ r.told # 0)
        BY <2>2, <2>3, <2>4, <2>r, <3>2
      <3>4. Own(r)
        BY <2>r, <3>3, Zenon DEF Own
      <3>5. Sound(r) /\ r.mine = q.mine /\ r.pc = "deliver"
        BY <2>2, <2>r, <3>1, <3>4 DEF Sound
      <3> QED
        BY <1>c, <1>q, <2>1, <2>r, <3>5, StillStep
    <2>5. \A d \in BOOLEAN : LET r == [a EXCEPT !.told = x, !.cut = d] IN
                /\ r \in WorkRecs /\ r.pc = a.pc /\ r.msg = a.msg /\ r.next = a.next /\ r.said = a.said
                /\ r.ev = a.ev /\ r.mine = a.mine /\ r.told = x /\ r.cut = d
      BY <2>2, <2>3 DEF WorkRecs
    <2> DEFINE r == [a EXCEPT !.told = x, !.cut = b]
    <2>6. /\ r \in WorkRecs /\ r.pc = a.pc /\ r.msg = a.msg /\ r.next = a.next /\ r.said = a.said
          /\ r.ev = a.ev /\ r.mine = a.mine /\ r.told = x /\ r.cut = b
      BY <2>5, <2>b, Zenon
    <2> HIDE DEF r
    <2>8. work' = [work EXCEPT ![w] = r]
      BY <2>7 DEF r
    <2> QED
      BY <2>r, <2>6, <2>8
  <1> QED
    BY <1>1, <1>2, <1>3, <1>4

\* Commands that are processes of their own: their thread stays with them until
\* they are reaped, or left.
LEMMA ChildSteps ==
  ASSUME RuntimeInv, NEW w \in Works,
         \/ ChildExits(w) \/ ChildCloses(w) \/ ChildPrints(w) \/ PtyStart(w) \/ Listens(w)
         \/ PtyGraceOver(w) \/ PtyAbandoned(w) \/ ShellTimer(w) \/ ShellEnds(w) \/ ShellGarbled(w)
         \/ GitStart(w) \/ GitEnds(w)
  PROVE  RuntimeInv'
  <1> DEFINE q == work[w]
             c == child[w]
  <1>q. /\ Sound(q) /\ q \in WorkRecs /\ c \in Children /\ UNCHANGED tm
        /\ q.pc \notin Commands => c.st \in {"none", "reaped", "left"}
    BY DEF RuntimeInv, WorksSound, NoChildIsLeft, Commands, ChildExits, ChildCloses, ChildPrints, PtyStart,
           Listens, PtyIdle, PtyGraceOver, PtyEnds, PtyAbandoned, ShellTimer, ShellEnds, ShellGarbled,
           GitStart, GitEnds
  \* the command changes and its thread waits, or has gone on from it
  <1>w. ASSUME NEW d \in Children, Sets(w, d), UNCHANGED work, q.pc \in Commands \/ d.st = c.st PROVE RuntimeInv'
    <2>1. work' = [work EXCEPT ![w] = q]
      BY <1>w DEF RuntimeInv
    <2> QED
      BY <1>q, <1>w, <2>1, StillStep DEF Sets
  <1>r. c.st = "runs" => q.pc \in Commands
    BY <1>q
  <1> HIDE DEF c
  <1>c. /\ [c EXCEPT !.st = "dead"] \in Children /\ Kill(c) \in Children
        /\ [c EXCEPT !.st = "dead", !.open = FALSE, !.prints = FALSE] \in Children
        /\ [c EXCEPT !.idle = Grace, !.sig = "term"] \in Children
        /\ c.idle + 1 < Grace => [c EXCEPT !.idle = @ + 1] \in Children
    <2>1. [c EXCEPT !.st = "dead"] \in Children /\ Kill(c) \in Children
      BY <1>q DEF Children, Kill
    <2>d. \A b \in BOOLEAN : [c EXCEPT !.st = "dead", !.open = b, !.prints = b] \in Children
      BY <1>q DEF Children
    <2>e. [c EXCEPT !.st = "dead", !.open = FALSE, !.prints = FALSE] \in Children
      BY <2>d, Zenon
    <2>2. Grace \in 0..Grace /\ c.idle \in 0..Grace
      BY <1>q DEF Children
    <2>3. [c EXCEPT !.idle = Grace, !.sig = "term"] \in Children
      BY <1>q, <2>2 DEF Children
    <2>4. ASSUME c.idle + 1 < Grace PROVE [c EXCEPT !.idle = @ + 1] \in Children
      <3>1. c.idle + 1 \in 0..Grace
        BY <2>2, <2>4
      <3> QED
        BY <1>q, <3>1 DEF Children
    <2> QED
      BY <2>1, <2>3, <2>4, <2>e
  <1>o. \A b \in BOOLEAN : /\ [c EXCEPT !.open = b, !.prints = b] \in Children
                           /\ [c EXCEPT !.open = b, !.prints = b].st = c.st
    BY <1>q DEF Children
  <1>f. /\ [c EXCEPT !.open = FALSE, !.prints = FALSE] \in Children
        /\ [c EXCEPT !.open = FALSE, !.prints = FALSE].st = c.st
    BY <1>o, Zenon
  <1>p. [c EXCEPT !.prints = ~@] \in Children /\ [c EXCEPT !.prints = ~@].st = c.st
    <2>1. \A b \in BOOLEAN : [c EXCEPT !.prints = b] \in Children /\ [c EXCEPT !.prints = b].st = c.st
      BY <1>q DEF Children
    <2> DEFINE b == ~c.prints
    <2>2. [c EXCEPT !.prints = b] \in Children /\ [c EXCEPT !.prints = b].st = c.st
      <3>1. b \in BOOLEAN
        OBVIOUS
      <3> HIDE DEF b
      <3> QED
        BY <2>1, <3>1, Zenon
    <2> QED
      BY <2>2
  <1>1. CASE ChildExits(w)
    BY <1>1, <1>c, <1>r, <1>w DEF ChildExits, Runs, c
  <1>2. CASE ChildCloses(w)
    BY <1>2, <1>f, <1>w DEF ChildCloses, c
  <1>10. CASE ChildPrints(w)
    BY <1>10, <1>p, <1>w DEF ChildPrints, c
  <1>3. CASE PtyIdle(w)
    BY <1>3, <1>c, <1>r, <1>w DEF PtyIdle, Runs, c
  <1>4. CASE PtyGraceOver(w)
    BY <1>4, <1>c, <1>r, <1>w DEF PtyGraceOver, Runs, c
  <1>5. CASE ShellTimer(w)
    BY <1>5, <1>c, <1>r, <1>w DEF ShellTimer, Runs, c
  \* a tool starts a command
  <1>s. ASSUME NEW pc \in {"pty", "git"}, To(w, pc), Sets(w, Spawned), q.pc = "tool" PROVE RuntimeInv'
    <2> DEFINE r == [q EXCEPT !.pc = pc]
    <2>1. pc \in Pcs
      BY DEF Pcs
    <2>2. Alike(q, r) /\ r.pc = pc /\ work' = [work EXCEPT ![w] = r]
      BY <1>q, <1>s, <2>1, Goes DEF To, Set
    <2> HIDE DEF r
    <2>3. Sound(r) /\ r.mine = q.mine
      BY <1>q, <1>s, <2>2, SoundGoes DEF Alike
    <2> QED
      BY <1>q, <1>s, <2>2, <2>3, ChildTypes, StillStep DEF Commands, Sets
  <1>6. CASE PtyStart(w)
    BY <1>6, <1>s DEF PtyStart, At
  <1>7. CASE GitStart(w)
    BY <1>7, <1>s DEF GitStart, At
  <1>a. \/ Sound(Answered(q)) /\ Answered(q).pc = "deliver" /\ Answered(q).mine = q.mine
        \/ q.pc \notin {"pty", "git"}
    BY <1>q, SoundAnswers
  <1>8. CASE PtyEnds(w) \/ PtyAbandoned(w) \/ GitEnds(w)
    <2>1. PICK st \in {"reaped", "left"} :
            /\ q.pc \in {"pty", "git"} /\ work' = [work EXCEPT ![w] = Answered(q)]
            /\ child' = [child EXCEPT ![w] = Over(st)]
      BY <1>8 DEF PtyEnds, PtyAbandoned, GitEnds, At, Set, Sets
    <2> QED
      BY <1>a, <1>q, <2>1, ChildTypes, StillStep
  <1>9. CASE ShellEnds(w) \/ ShellGarbled(w)
    <2> DEFINE r == [q EXCEPT !.pc = "returned"]
    <2>1. "returned" \in Pcs
      BY DEF Pcs
    <2>2. Alike(q, r) /\ r.pc = "returned"
      BY <1>q, <2>1, Goes
    <2>3. PICK st \in {"reaped", "left"} :
            /\ q.pc = "shell" /\ work' = [work EXCEPT ![w] = r]
            /\ child' = [child EXCEPT ![w] = Over(st)]
      BY <1>9 DEF ShellEnds, ShellGarbled, At, To, Set, Sets
    <2> HIDE DEF r
    <2>4. q.msg = "none"
      BY <1>q, <2>3 DEF Sound, SaidOnce
    <2>5. Sound(r) /\ r.mine = q.mine
      BY <1>q, <2>2, <2>3, <2>4, SoundGoes DEF Alike
    <2> QED
      BY <1>q, <2>2, <2>3, <2>5, ChildTypes, StillStep
  <1> QED
    BY <1>1, <1>2, <1>3, <1>4, <1>5, <1>6, <1>7, <1>8, <1>9, <1>10 DEF Listens

\* A pane that is cleared.
LEMMA ClearedPane ==
  ASSUME PaneSound, tm' = [tm EXCEPT !.up = FALSE, !.typed = <<>>, !.shown = <<>>]
  PROVE  PaneSound' /\ tm'.n = tm.n /\ \A m : Ahead(m, tm')
  <1> DEFINE s(b) == [tm EXCEPT !.up = b, !.typed = <<>>, !.shown = <<>>]
  <1>1. <<>> \in Seq(0..MaxTyped) /\ <<>> \in Seq(1..MaxTyped)
    OBVIOUS
  <1>2. \A b \in BOOLEAN : /\ s(b) \in Panes /\ s(b).n = tm.n
                           /\ s(b).typed = <<>> /\ s(b).shown = <<>>
    BY <1>1 DEF PaneSound, Panes
  <1> HIDE DEF s
  <1>3. tm' = s(FALSE)
    BY DEF s
  <1>4. tm' \in Panes /\ tm'.n = tm.n /\ tm'.typed = <<>> /\ tm'.shown = <<>>
    BY <1>2, <1>3, Zenon
  <1> QED
    BY <1>4, Cleared DEF PaneSound

\* The shell of the pane runs what was typed, or dies.
LEMMA PaneSteps == ASSUME RuntimeInv, PaneRuns \/ PaneDies PROVE RuntimeInv'
  <1>p. PaneSound /\ tm \in Panes /\ InOrder(tm)
    BY DEF RuntimeInv, PaneSound
  <1>1. CASE PaneRuns
    <2> DEFINE x == Head(tm.typed)
               ty == Tail(tm.typed)
               sh == IF x = 0 THEN tm.shown ELSE Append(tm.shown, x)
    <2>1. /\ tm.typed # <<>> /\ UNCHANGED <<work, child>>
          /\ tm' = [tm EXCEPT !.typed = ty, !.shown = sh]
      BY <1>1 DEF PaneRuns
    <2>2. ty \in Seq(0..MaxTyped) /\ x \in 0..MaxTyped
      BY <1>p, <2>1 DEF Panes
    <2>3. sh \in Seq(1..MaxTyped)
      <3>1. tm.shown \in Seq(1..MaxTyped) /\ (x # 0 => x \in 1..MaxTyped)
        BY <1>p, <2>2 DEF Panes
      <3>2. CASE x = 0
        BY <3>1, <3>2
      <3>3. CASE x # 0
        <4>1. sh = Append(tm.shown, x)
          BY <3>3
        <4> HIDE DEF x, sh
        <4>2. Append(tm.shown, x) \in Seq(1..MaxTyped)
          BY <3>1, <3>3
        <4> QED
          BY <4>1, <4>2
      <3> QED
        BY <3>2, <3>3
    <2> HIDE DEF ty, sh
    <2>4. tm' \in Panes /\ tm'.typed = ty /\ tm'.shown = sh /\ tm'.n = tm.n /\ tm'.up = tm.up
      BY <1>p, <2>1, <2>2, <2>3 DEF Panes
    <2>5. InOrder(tm') /\ \A m \in 1..tm.n : Ahead(m, tm) => Ahead(m, tm')
      <3> DEFINE r == tm'
      <3>1. /\ r \in Panes /\ r.typed = Tail(tm.typed) /\ r.n = tm.n /\ r.up = tm.up
            /\ r.shown = IF Head(tm.typed) = 0 THEN tm.shown ELSE Append(tm.shown, Head(tm.typed))
        BY <2>4 DEF ty, sh
      <3> HIDE DEF r
      <3>2. InOrder(r) /\ \A m \in 1..tm.n : Ahead(m, tm) => Ahead(m, r)
        BY <1>p, <2>1, <3>1, Ran
      <3> QED
        BY <3>2 DEF r
    <2> QED
      BY <2>1, <2>4, <2>5, PaneStep DEF PaneSound
  <1>2. CASE PaneDies
    <2>1. UNCHANGED <<work, child>> /\ PaneSound' /\ tm'.n = tm.n /\ \A m : Ahead(m, tm')
      BY <1>2, <1>p, ClearedPane DEF PaneDies
    <2> QED
      BY <2>1, PaneStep
  <1> QED
    BY <1>1, <1>2

\* The container stops: every thread that was at work is known to be stopped.
LEMMA StopsStep == ASSUME RuntimeInv, Stops PROVE RuntimeInv'
  <1>1. PaneSound' /\ tm'.n = tm.n /\ \A m : Ahead(m, tm')
    BY ClearedPane DEF RuntimeInv, Stops
  <1>2. child' \in [Works -> Children] /\ NoChildIsLeft'
    <2>1. \A w \in Works : child'[w] = NoChild
      BY DEF Stops
    <2>2. NoChild.st = "none"
      BY DEF NoChild
    <2> QED
      BY <2>1, <2>2, ChildTypes DEF Stops, NoChildIsLeft
  <1>3. ASSUME NEW w \in Works
        PROVE  /\ Sound(work'[w]) /\ work'[w].mine = work[w].mine
               /\ work'[w].pc = "visible" => work[w].pc = "visible"
    <2> DEFINE q == work[w]
               p == [q EXCEPT !.pc = "done"]
               r == [p EXCEPT !.ev = @ \cup {"stopped"}]
    <2>q. Sound(q) /\ q \in WorkRecs
      BY DEF RuntimeInv, WorksSound
    <2>1. CASE q.pc \in {"posted", "refused", "done"}
      <3>1. work'[w] = q
        BY <2>1 DEF Stops
      <3> QED
        BY <2>q, <3>1
    <2>2. CASE q.pc \notin {"posted", "refused", "done"}
      <3> DEFINE s == [q EXCEPT !.pc = "done", !.ev = @ \cup {"stopped"}]
      <3>1. work'[w] = s
        BY <2>2 DEF Stops
      <3>2. "done" \in Pcs /\ "stopped" \in Events
        BY DEF Pcs, Events
      <3>3. /\ s \in WorkRecs /\ s.pc = "done" /\ s.msg = q.msg /\ s.said = q.said
            /\ s.ev = q.ev \cup {"stopped"} /\ s.mine = q.mine /\ s.told = q.told /\ s.cut = q.cut
        <4> HIDE DEF q
        <4> QED
          BY <2>q, <3>2 DEF WorkRecs
      <3> HIDE DEF s
      <3>4. Sound(s)
        BY <2>q, <3>3 DEF Sound, SaidOnce, Recorded, Traced, Quiet, Own
      <3> QED
        BY <3>1, <3>3, <3>4
    <2> QED
      BY <2>1, <2>2
  <1>4. work' \in [Works -> WorkRecs] /\ WorksSound'
    <2>1. work' = [w \in Works |-> work'[w]]
      BY DEF Stops
    <2> QED
      BY <1>3, <2>1 DEF WorksSound, Sound
  <1>5. WorksWait'
    BY <1>1, <1>3 DEF RuntimeInv, WorksWait, Waits
  <1> QED
    BY <1>1, <1>2, <1>4, <1>5 DEF RuntimeInv

\* Every step keeps the invariant.
LEMMA NextRuntime == ASSUME RuntimeInv, [Next]_vars PROVE RuntimeInv'
  <1>1. ASSUME NEW w \in Works,
               \/ TakeIn(w) \/ NoCallback(w) \/ Unreadable(w) \/ PostFails(w)
               \/ ToolRequests(w) \/ Type(w) \/ TypeKeys(w) \/ PtyStart(w) \/ GitStart(w) \/ Browse(w)
               \/ ChildExits(w) \/ ChildCloses(w) \/ ChildPrints(w) \/ PtyAbandoned(w)
               \/ ShellGarbled(w) \/ Listens(w) \/ Thread(w)
        PROVE  RuntimeInv'
    BY <1>1, TakingSteps, LoopSteps, DeliverySteps, TerminalSteps, ChildSteps DEF Thread
  <1>2. CASE UNCHANGED <<work, child, tm>>
    BY <1>2 DEF RuntimeInv, WorksSound, PaneSound, WorksWait, NoChildIsLeft
  <1>3. CASE \E c \in Callers : EnsurePage(c) \/ Launched(c) \/ Acted(c)
    BY <1>2, <1>3 DEF EnsurePage, Launched, Acted
  <1>4. CASE UserBrowses \/ UserAnswered
    BY <1>2, <1>4 DEF UserBrowses, UserAnswered
  <1>5. CASE PaneRuns \/ PaneDies
    BY <1>5, PaneSteps
  <1>6. CASE Stops
    BY <1>6, StopsStep
  <1>7. CASE UNCHANGED vars
    BY <1>2, <1>7 DEF vars
  <1> QED
    BY <1>1, <1>3, <1>4, <1>5, <1>6, <1>7 DEF Next

\* The invariant holds before any work is posted.
LEMMA InitRuntime == Init => RuntimeInv
  <1> SUFFICES ASSUME Init PROVE RuntimeInv
    OBVIOUS
  <1>1. Sound(NoWork) /\ NoWork.pc = "posted" /\ NoWork.mine = 0
    <2>1. \A b \in BOOLEAN :
            [pc |-> "posted", i |-> 0, msg |-> "none", att |-> 0, next |-> "done", said |-> {}, ev |-> {},
             mine |-> 0, told |-> 0, cut |-> b] \in WorkRecs
      BY DEF WorkRecs, Pcs, Messages
    <2>2. NoWork \in WorkRecs
      BY <2>1, Zenon DEF NoWork
    <2>3. /\ NoWork.pc = "posted" /\ NoWork.msg = "none" /\ NoWork.said = {} /\ NoWork.mine = 0
          /\ NoWork.told = 0
      BY DEF NoWork
    <2> QED
      BY <2>2, <2>3 DEF Sound, SaidOnce, Recorded, Own
  <1>2. PaneSound /\ tm.n = 0
    <2>1. PICK u \in Uses : tm = [for |-> u, up |-> FALSE, typed |-> <<>>, shown |-> <<>>, n |-> 0]
      BY DEF Init
    <2>2. \A b \in BOOLEAN :
            LET p == [for |-> u, up |-> b, typed |-> <<>>, shown |-> <<>>, n |-> 0] IN
            p \in Panes /\ p.typed = <<>> /\ p.shown = <<>> /\ p.n = 0
      BY DEF Panes
    <2>3. tm \in Panes /\ tm.typed = <<>> /\ tm.shown = <<>> /\ tm.n = 0
      BY <2>1, <2>2, Zenon
    <2> QED
      BY <2>3, Cleared DEF PaneSound
  <1>3. child \in [Works -> Children] /\ NoChildIsLeft
    <2>1. NoChild.st = "none"
      BY DEF NoChild
    <2> QED
      BY <2>1, ChildTypes DEF Init, NoChildIsLeft
  <1>4. work \in [Works -> WorkRecs] /\ WorksSound /\ WorksWait
    BY <1>1, <1>2 DEF Init, Sound, WorksSound, WorksWait, Waits
  <1> QED
    BY <1>2, <1>3, <1>4 DEF RuntimeInv

\* A work ends one way and leaves a trace: no chat tells the API both
\* "complete" and "error", however often its callbacks are repeated, and a work
\* that is over without the API having taken its ending has left an event that
\* tells so, unless the event could not be written or the container stopped.
THEOREM EveryEndIsTold == Spec => []EndIsTold
  <1>1. RuntimeInv => EndIsTold
    <2> SUFFICES ASSUME RuntimeInv, NEW w \in Works
                 PROVE  /\ Cardinality(work[w].said) <= 1
                        /\ At(w, "done") /\ Silent(w) =>
                             /\ work[w].ev \cap {"work_completed", "work_failed"} # {}
                             /\ (work[w].msg # "none" /\ work[w].said = {})
                                  => work[w].ev \cap Telling # {}
      BY DEF EndIsTold, OneAnswer, EndIsRecorded, Telling
    <2>1. Sound(work[w])
      BY DEF RuntimeInv, WorksSound
    <2>2. Cardinality(work[w].said) <= 1
      <3>1. work[w].said = {} \/ work[w].said = {work[w].msg}
        BY <2>1 DEF Sound, SaidOnce
      <3>2. Cardinality({}) = 0
        BY FS_EmptySet
      <3>3. Cardinality({work[w].msg}) = 1
        BY FS_Singleton
      <3> QED
        BY <3>1, <3>2, <3>3
    <2> QED
      BY <2>1, <2>2 DEF Sound, Recorded, Traced, Quiet, Silent, At
  <1> QED
    BY <1>1, InitRuntime, NextRuntime, PTL DEF Spec

\* A command that its thread has gone on from was waited for, but for one that was
\* left when the event of its output could not be written or its stderr was no
\* text; and the exit status that a tool call reports is not that of a command
\* typed earlier, by whichever thread, unless the pane was read too early or not
\* to its end.
THEOREM CommandsAreSettled == Spec => []CommandIsSettled
  <1>1. RuntimeInv => CommandIsSettled
    BY DEF RuntimeInv, WorksSound, Sound, Own, CommandIsSettled, StatusIsOwn
  <1> QED
    BY <1>1, InitRuntime, NextRuntime, PTL DEF Spec
=============================================================================
