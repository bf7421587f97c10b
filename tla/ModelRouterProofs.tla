-------------------------- MODULE ModelRouterProofs --------------------------
(***************************************************************************)
(* Proofs about ModelRouter, for any number of requests at once, of calls  *)
(* and of faults and any limit: no call to a provider goes unaccounted, a  *)
(* minute exceeds the limit by no more than the requests under way, and a  *)
(* request that comes after the revocation reaches no provider.            *)
(***************************************************************************)
EXTENDS ModelRouter, FiniteSetTheorems, TLAPS

USE RouterAssumption
-----------------------------------------------------------------------------
(* The inductive invariant.                                                 *)

Pcs == {"idle", "deleg", "check", "resolve", "call", "stream", "log", "flush"}
ReqRecs == [pc: Pcs, who: Callers, i: 1..2, status: Status, sent: BOOLEAN, val: Nat, late: BOOLEAN]
HistRecs == [due: Int, dropped: Int, off: Int, met: Nat, twice: BOOLEAN, minute: [Callers -> Nat]]
Typed ==
    /\ req \in [Slots -> ReqRecs] /\ gap \in Nat /\ rate \in [Callers -> Nat]
    /\ hist \in HistRecs

\* Of a request: the provider was called only where the row is still to be
\* written, it looks at a limit that is its own, and what began after the
\* revocation has not got past the delegation.
Placed(q) ==
    /\ q.sent => q.pc \in {"stream", "log"}
    /\ q.i = 1 \/ q.who = "child"
    /\ q.late => q.pc = "deleg" /\ d.revoked
AllPlaced == \A r \in Slots : Placed(req[r])

\* What a flush is to record falls short of the missed rows by no more than
\* those missed while it was under way; and while no two met, there is one at
\* most and what it read is still pending.
FlushesRecord ==
    /\ \A r \in Slots : req[r].pc = "flush" => hist.off - req[r].val <= hist.met
    /\ ~hist.twice =>
          /\ \A r \in Slots : req[r].pc = "flush" => req[r].val <= gap
          /\ \A r, o \in Slots : req[r].pc = "flush" /\ req[o].pc = "flush" => r = o

\* What the limit counts is no less than the calls of the minute, and a child's
\* calls are its parent's too: passing the last limit is passing both.
CountsCover ==
    /\ \A w \in Callers : hist.minute[w] <= rate[w]
    /\ hist.minute["child"] <= hist.minute["own"]

RouterInv ==
    /\ Typed /\ AllPlaced /\ CallsAreAccounted /\ GapsAddUp /\ FlushesRecord
    /\ CountsCover /\ RateIsBounded
-----------------------------------------------------------------------------
(* Sets of requests.                                                        *)

\* Past(w) of the model, as a condition on one request.
Passed(q, w) == w \in AlsoFor(q.who) /\ (q.sent \/ q.pc \in {"resolve", "call"})

\* Both sets of requests are finite, and no larger than the set of slots.
LEMMA SetsAreFinite ==
    /\ IsFiniteSet(Flying) /\ Cardinality(Flying) \in Nat
    /\ Cardinality(Slots) \in Nat
    /\ \A w : IsFiniteSet(Past(w)) /\ Cardinality(Past(w)) \in Nat /\ Cardinality(Past(w)) <= Cardinality(Slots)
  <1>1. Flying \in SUBSET Slots /\ \A w : Past(w) \in SUBSET Slots
    BY DEF Flying, Past
  <1>2. IsFiniteSet(Flying) /\ \A w : IsFiniteSet(Past(w)) /\ Cardinality(Past(w)) <= Cardinality(Slots)
    BY <1>1, FS_Subset
  <1> QED
    BY <1>2, FS_CardinalityType

\* After any step, too.
LEMMA SetsStayFinite ==
    /\ IsFiniteSet(Flying') /\ Cardinality(Flying') \in Nat
    /\ \A w \in Callers : IsFiniteSet(Past(w)') /\ Cardinality(Past(w)') \in Nat
                          /\ Cardinality(Past(w)') <= Cardinality(Slots)
  <1>1. Flying' \in SUBSET Slots /\ \A w \in Callers : Past(w)' \in SUBSET Slots
    BY DEF Flying, Past
  <1>2. IsFiniteSet(Flying') /\ \A w \in Callers : IsFiniteSet(Past(w)') /\ Cardinality(Past(w)') <= Cardinality(Slots)
    BY <1>1, FS_Subset
  <1> QED
    BY <1>2, FS_CardinalityType

\* One request changes, and what it says of the provider does not.
LEMMA FlyingStays ==
    ASSUME req \in [Slots -> ReqRecs], NEW r \in Slots, NEW q \in ReqRecs,
           req' = [req EXCEPT ![r] = q], q.sent = req[r].sent
    PROVE  Flying' = Flying
  BY DEF Flying

\* One request calls the provider.
LEMMA FlyingAdds ==
    ASSUME req \in [Slots -> ReqRecs], NEW r \in Slots, NEW q \in ReqRecs,
           req' = [req EXCEPT ![r] = q], q.sent, ~req[r].sent
    PROVE  Cardinality(Flying') = Cardinality(Flying) + 1
  <1>1. Flying' = Flying \cup {r} /\ r \notin Flying
    BY DEF Flying
  <1> QED
    BY <1>1, SetsAreFinite, FS_AddElement

\* One request is written down, whether or not it called the provider.
LEMMA FlyingDrops ==
    ASSUME req \in [Slots -> ReqRecs], NEW r \in Slots, NEW q \in ReqRecs,
           req' = [req EXCEPT ![r] = q], ~q.sent
    PROVE  Cardinality(Flying') = IF req[r].sent THEN Cardinality(Flying) - 1 ELSE Cardinality(Flying)
  <1>1. Flying' = Flying \ {r} /\ (r \in Flying <=> req[r].sent)
    BY DEF Flying
  <1> QED
    BY <1>1, SetsAreFinite, FS_RemoveElement

\* The requests past a limit, when one request changes.
LEMMA PastShrinks ==
    ASSUME req \in [Slots -> ReqRecs], NEW r \in Slots, NEW q \in ReqRecs, NEW w \in Callers,
           req' = [req EXCEPT ![r] = q], Passed(q, w) => Passed(req[r], w)
    PROVE  Cardinality(Past(w)') <= Cardinality(Past(w))
  <1>1. Past(w)' \in SUBSET Past(w)
    BY DEF Past, Passed
  <1> QED
    BY <1>1, SetsAreFinite, FS_Subset

\* A request that called the provider leaves.
LEMMA PastDrops ==
    ASSUME req \in [Slots -> ReqRecs], NEW r \in Slots, NEW q \in ReqRecs, NEW w \in Callers,
           req' = [req EXCEPT ![r] = q], Passed(req[r], w), ~Passed(q, w)
    PROVE  Cardinality(Past(w)') = Cardinality(Past(w)) - 1
  <1>1. Past(w)' = Past(w) \ {r} /\ r \in Past(w)
    BY DEF Past, Passed
  <1> QED
    BY <1>1, SetsAreFinite, FS_RemoveElement
-----------------------------------------------------------------------------
(* Records.                                                                 *)

\* A request that is not there.
LEMMA IdleTypes ==
    /\ Idle \in ReqRecs /\ ~Idle.sent /\ ~Idle.late /\ Idle.pc = "idle" /\ Idle.i = 1 /\ Placed(Idle)
    /\ \A w : ~Passed(Idle, w)
  <1>1. Idle \in ReqRecs /\ ~Idle.sent /\ ~Idle.late /\ Idle.pc = "idle" /\ Idle.i = 1
    BY DEF Idle, ReqRecs, Pcs, Callers, Status
  <1> QED
    BY <1>1 DEF Placed, Passed

\* A request that moves on.
LEMMA ReqSteps ==
    ASSUME NEW q \in ReqRecs, NEW pc \in Pcs, NEW status \in Status
    PROVE  /\ [q EXCEPT !.pc = pc] \in ReqRecs
           /\ [q EXCEPT !.pc = pc].pc = pc /\ [q EXCEPT !.pc = pc].sent = q.sent
           /\ [q EXCEPT !.pc = pc].who = q.who /\ [q EXCEPT !.pc = pc].i = q.i
           /\ [q EXCEPT !.pc = pc].late = q.late
           /\ [q EXCEPT !.pc = pc, !.status = status] \in ReqRecs
           /\ [q EXCEPT !.pc = pc, !.status = status].pc = pc
           /\ [q EXCEPT !.pc = pc, !.status = status].sent = q.sent
           /\ [q EXCEPT !.pc = pc, !.status = status].who = q.who
           /\ [q EXCEPT !.pc = pc, !.status = status].i = q.i
           /\ [q EXCEPT !.pc = pc, !.status = status].late = q.late
  BY DEF ReqRecs
-----------------------------------------------------------------------------
(* Steps that leave the books alone.                                        *)

\* A request moves; neither it nor the books change what is owed, and it passes
\* a limit only while the calls of the minute are below it.
LEMMA QuietStep ==
    ASSUME RouterInv, NEW r \in Slots, NEW q \in ReqRecs, req' = [req EXCEPT ![r] = q],
           UNCHANGED <<rate, gap, hist, d>>, q.sent = req[r].sent, Placed(q), q.pc # "flush",
           \A w \in Callers : Passed(q, w) => Passed(req[r], w) \/ hist.minute[w] < Rpm
    PROVE  RouterInv'
  <1>t. req \in [Slots -> ReqRecs] /\ hist.minute \in [Callers -> Nat]
    BY DEF RouterInv, Typed, HistRecs
  <1>1. Typed'
    BY DEF RouterInv, Typed
  <1>2. AllPlaced'
    BY <1>t DEF RouterInv, AllPlaced, Placed
  <1>3. CallsAreAccounted'
    BY <1>t, FlyingStays DEF RouterInv, CallsAreAccounted
  <1>4. GapsAddUp' /\ FlushesRecord' /\ CountsCover'
    BY <1>t DEF RouterInv, GapsAddUp, FlushesRecord, CountsCover
  <1>5. RateIsBounded'
    <2> SUFFICES ASSUME NEW w \in Callers
                 PROVE  hist.minute[w] + Cardinality(Past(w)') < Rpm + Cardinality(Slots)
      BY DEF RateIsBounded
    <2>1. hist.minute[w] + Cardinality(Past(w)) < Rpm + Cardinality(Slots) /\ hist.minute[w] \in Nat
      BY <1>t DEF RouterInv, RateIsBounded
    <2>2. CASE hist.minute[w] < Rpm
      BY <2>1, <2>2, SetsAreFinite, SetsStayFinite
    <2>3. CASE Passed(q, w) => Passed(req[r], w)
      <3>1. Cardinality(Past(w)') <= Cardinality(Past(w))
        BY <1>t, <2>3, PastShrinks
      <3> QED
        BY <2>1, <3>1, SetsAreFinite, SetsStayFinite
    <2> QED
      BY <2>2, <2>3
  <1> QED
    BY <1>1, <1>2, <1>3, <1>4, <1>5 DEF RouterInv

\* A request begins, or a call that was made elsewhere is reported.
LEMMA Begins == ASSUME RouterInv, NEW r \in Slots, NEW w \in Callers, Begin(r, w) \/ LogUsageEndpoint(r)
                PROVE  RouterInv'
  <1>t. req[r] \in ReqRecs /\ Placed(req[r])
    BY DEF RouterInv, Typed, AllPlaced
  <1>1. CASE Begin(r, w)
    <2> DEFINE late == w = "child" /\ d.revoked
               q == [Idle EXCEPT !.pc = AfterPolicy(w), !.who = w, !.late = late]
    <2>1. late \in BOOLEAN /\ AfterPolicy(w) \in Pcs
      BY DEF AfterPolicy, Pcs
    <2>2. late => AfterPolicy(w) = "deleg" /\ d.revoked
      BY DEF AfterPolicy
    <2>3. /\ req' = [req EXCEPT ![r] = q] /\ UNCHANGED <<rate, gap, hist, d>> /\ req[r].pc = "idle"
      BY <1>1 DEF Begin, Tokens, Books
    <2> HIDE DEF late
    <2>4. /\ q \in ReqRecs /\ q.pc = AfterPolicy(w) /\ q.who = w /\ q.late = late /\ q.i = 1
          /\ q.sent = Idle.sent
      BY <2>1, IdleTypes DEF ReqRecs
    <2> HIDE DEF q
    <2>5. ~q.sent /\ ~req[r].sent /\ q.pc \in {"deleg", "check"}
      BY <1>t, <2>3, <2>4, IdleTypes DEF Placed, AfterPolicy
    <2>6. q.sent = req[r].sent
      BY <1>t, <2>4, <2>5 DEF ReqRecs
    <2>7. Placed(q)
      BY <2>2, <2>4, <2>5 DEF Placed
    <2> QED
      BY <2>3, <2>4, <2>5, <2>6, <2>7, QuietStep DEF Passed
  <1>2. CASE LogUsageEndpoint(r)
    <2> DEFINE q == [Idle EXCEPT !.pc = "log", !.who = "internal", !.status = "counted"]
    <2>1. /\ req' = [req EXCEPT ![r] = q] /\ UNCHANGED <<rate, gap, hist, d>> /\ req[r].pc = "idle"
      BY <1>2 DEF LogUsageEndpoint, Tokens, Books
    <2>2. q \in ReqRecs /\ q.pc = "log" /\ q.late = Idle.late /\ q.i = 1 /\ q.sent = Idle.sent
      BY IdleTypes DEF ReqRecs, Pcs, Callers, Status
    <2> HIDE DEF q
    <2>3. ~q.sent /\ ~req[r].sent /\ ~q.late
      BY <1>t, <2>1, <2>2, IdleTypes DEF Placed
    <2>4. q.sent = req[r].sent
      BY <1>t, <2>2, <2>3 DEF ReqRecs
    <2>5. Placed(q)
      BY <2>2, <2>3 DEF Placed
    <2> QED
      BY <2>1, <2>2, <2>3, <2>4, <2>5, QuietStep DEF Passed
  <1> QED
    BY <1>1, <1>2

\* A request goes where it passes no limit.
LEMMA Turns ==
    ASSUME RouterInv, NEW r \in Slots, NEW q \in ReqRecs, req' = [req EXCEPT ![r] = q],
           UNCHANGED <<rate, gap, hist, d>>, q.sent = req[r].sent, q.who = req[r].who, ~q.late,
           q.i = 1 \/ q.who = "child",
           q.pc \in {"check", "log"}, q.sent => q.pc = "log"
    PROVE  RouterInv'
  <1>1. Placed(q)
    BY DEF Placed
  <1>2. \A w : Passed(q, w) => Passed(req[r], w)
    BY DEF Passed
  <1> QED
    BY <1>1, <1>2, QuietStep

\* A request is given up before the provider was called.
LEMMA GivesUp ==
    ASSUME RouterInv, NEW r \in Slots, req' = [req EXCEPT ![r] = Idle],
           UNCHANGED <<rate, gap, hist, d>>, ~req[r].sent
    PROVE  RouterInv'
  <1>1. req[r] \in ReqRecs
    BY DEF RouterInv, Typed
  <1>2. Idle.sent = req[r].sent
    BY <1>1, IdleTypes DEF ReqRecs
  <1> QED
    BY <1>1, <1>2, IdleTypes, QuietStep

\* The delegation is looked up, the credentials are, or a stream ends.
LEMMA Proceeds == ASSUME RouterInv, NEW r \in Slots, Delegation(r) \/ Resolve(r) \/ StreamEnds(r)
                  PROVE  RouterInv'
  <1> DEFINE q == req[r]
             a == [q EXCEPT !.pc = "check"]
             b == [q EXCEPT !.pc = "log", !.status = "counted"]
             c == [q EXCEPT !.pc = "call"]
             e == [q EXCEPT !.pc = "log", !.status = "other"]
  <1>q. q \in ReqRecs /\ Placed(q)
    BY DEF RouterInv, Typed, AllPlaced
  <1>p. /\ "check" \in Pcs /\ "log" \in Pcs /\ "call" \in Pcs
        /\ "counted" \in Status /\ "other" \in Status
    BY DEF Pcs, Status
  <1>a. /\ a \in ReqRecs /\ a.pc = "check" /\ a.sent = q.sent /\ a.who = q.who /\ a.i = q.i /\ a.late = q.late
    BY <1>p, <1>q, ReqSteps
  <1>b. /\ b \in ReqRecs /\ b.pc = "log" /\ b.sent = q.sent /\ b.who = q.who /\ b.i = q.i /\ b.late = q.late
    BY <1>p, <1>q DEF ReqRecs
  <1>c. /\ c \in ReqRecs /\ c.pc = "call" /\ c.sent = q.sent /\ c.who = q.who /\ c.i = q.i /\ c.late = q.late
    BY <1>p, <1>q, ReqSteps
  <1>e. /\ e \in ReqRecs /\ e.pc = "log" /\ e.sent = q.sent /\ e.who = q.who /\ e.i = q.i /\ e.late = q.late
    BY <1>p, <1>q DEF ReqRecs
  <1>1. CASE Delegation(r)
    <2>1. UNCHANGED <<rate, gap, hist, d>> /\ q.pc = "deleg"
      BY <1>1 DEF Delegation, Tokens, Books
    <2>2. \/ ~d.revoked /\ (req' = [req EXCEPT ![r] = a] \/ req' = [req EXCEPT ![r] = b])
          \/ req' = [req EXCEPT ![r] = Idle]
      BY <1>1 DEF Delegation, DelegationStands
    <2>3. ~q.sent /\ (q.i = 1 \/ q.who = "child") /\ (~d.revoked => ~q.late)
      BY <1>q, <2>1 DEF Placed
    <2> HIDE DEF q, a, b
    <2>4. CASE req' = [req EXCEPT ![r] = Idle]
      BY <2>1, <2>3, <2>4, GivesUp DEF q
    <2>5. CASE ~d.revoked /\ req' = [req EXCEPT ![r] = a]
      <3>1. ~a.sent /\ ~a.late /\ (a.i = 1 \/ a.who = "child") /\ a.sent = req[r].sent /\ a.who = req[r].who
        BY <1>a, <2>3, <2>5 DEF q
      <3> QED
        BY <1>a, <2>1, <2>5, <3>1, Turns
    <2>6. CASE ~d.revoked /\ req' = [req EXCEPT ![r] = b]
      <3>1. ~b.sent /\ ~b.late /\ (b.i = 1 \/ b.who = "child") /\ b.sent = req[r].sent /\ b.who = req[r].who
        BY <1>b, <2>3, <2>6 DEF q
      <3> QED
        BY <1>b, <2>1, <2>6, <3>1, Turns
    <2> QED
      BY <2>2, <2>4, <2>5, <2>6
  <1>2. CASE Resolve(r)
    <2>1. UNCHANGED <<rate, gap, hist, d>> /\ q.pc = "resolve"
      BY <1>2 DEF Resolve, Tokens, Books
    <2>2. req' = [req EXCEPT ![r] = c] \/ req' = [req EXCEPT ![r] = Idle]
      BY <1>2 DEF Resolve
    <2>3. ~q.sent /\ (q.i = 1 \/ q.who = "child") /\ ~q.late
      BY <1>q, <2>1 DEF Placed
    <2> HIDE DEF q, c
    <2>4. CASE req' = [req EXCEPT ![r] = Idle]
      BY <2>1, <2>3, <2>4, GivesUp DEF q
    <2>5. CASE req' = [req EXCEPT ![r] = c]
      <3>1. Placed(c) /\ c.sent = req[r].sent
        BY <1>c, <2>3 DEF Placed, q
      <3>2. \A w : Passed(c, w) => Passed(req[r], w)
        BY <1>c, <2>1 DEF Passed, q
      <3> QED
        BY <1>c, <2>1, <2>5, <3>1, <3>2, QuietStep
    <2> QED
      BY <2>2, <2>4, <2>5
  <1>3. CASE StreamEnds(r)
    <2>1. UNCHANGED <<rate, gap, hist, d>> /\ q.pc = "stream"
      BY <1>3 DEF StreamEnds, Tokens, Books
    <2>2. req' = [req EXCEPT ![r] = b] \/ req' = [req EXCEPT ![r] = e]
      BY <1>3 DEF StreamEnds, Shielded
    <2>3. (q.i = 1 \/ q.who = "child") /\ ~q.late
      BY <1>q, <2>1 DEF Placed
    <2> HIDE DEF q, b, e
    <2>4. CASE req' = [req EXCEPT ![r] = b]
      <3>1. ~b.late /\ (b.i = 1 \/ b.who = "child") /\ b.sent = req[r].sent /\ b.who = req[r].who
        BY <1>b, <2>3 DEF q
      <3> QED
        BY <1>b, <2>1, <2>4, <3>1, Turns
    <2>5. CASE req' = [req EXCEPT ![r] = e]
      <3>1. ~e.late /\ (e.i = 1 \/ e.who = "child") /\ e.sent = req[r].sent /\ e.who = req[r].who
        BY <1>e, <2>3 DEF q
      <3> QED
        BY <1>e, <2>1, <2>5, <3>1, Turns
    <2> QED
      BY <2>2, <2>4, <2>5
  <1> QED
    BY <1>1, <1>2, <1>3

\* The limits are looked at, one after the other.
LEMMA Checks == ASSUME RouterInv, NEW r \in Slots, Check(r) PROVE RouterInv'
  <1> DEFINE q == req[r]
             w0 == Limits(q.who)[q.i]
             pc == IF q.who = "internal" THEN "call" ELSE "resolve"
             a == [q EXCEPT !.i = q.i + 1]
             b == [q EXCEPT !.pc = pc]
             e == [q EXCEPT !.pc = "log", !.status = "other"]
  <1>q. q \in ReqRecs /\ Placed(q) /\ q.who \in Callers /\ q.i \in 1..2
    BY DEF RouterInv, Typed, AllPlaced, ReqRecs
  <1>1. UNCHANGED <<rate, gap, hist, d>> /\ q.pc = "check"
    BY DEF Check, Tokens, Books
  <1>2. \/ q.i < Len(Limits(q.who)) /\ req' = [req EXCEPT ![r] = a]
        \/ ~(q.i < Len(Limits(q.who))) /\ Below(rate[w0]) /\ req' = [req EXCEPT ![r] = b]
        \/ req' = [req EXCEPT ![r] = e]
    BY DEF Check
  <1>3. ~q.sent /\ (q.i = 1 \/ q.who = "child") /\ ~q.late
    BY <1>q, <1>1 DEF Placed
  <1>4. \/ q.who = "child" /\ Len(Limits(q.who)) = 2 /\ (q.i = 2 => w0 = "own")
        \/ q.who # "child" /\ Len(Limits(q.who)) = 1 /\ (q.i = 1 => w0 = q.who)
    BY DEF Limits
  <1> DEFINE n == Len(Limits(q.who))
  <1>n. /\ q.i = 1 \/ q.i = 2
        /\ \/ q.who = "child" /\ n = 2 /\ (q.i = 2 => w0 = "own")
           \/ q.who # "child" /\ n = 1 /\ (q.i = 1 => w0 = q.who)
    BY <1>q, <1>4
  <1> HIDE DEF w0, n
  <1>5. CASE q.i < Len(Limits(q.who)) /\ req' = [req EXCEPT ![r] = a]
    <2>1. q.i = 1 /\ q.who = "child"
      <3>1. q.i < n
        BY <1>5 DEF n
      <3> HIDE DEF q
      <3> QED
        BY <1>n, <3>1
    <2>2. /\ a \in ReqRecs /\ a.pc = q.pc /\ a.sent = q.sent /\ a.who = q.who /\ a.late = q.late
      BY <1>q, <2>1 DEF ReqRecs
    <2> HIDE DEF q, a
    <2>3. ~a.late /\ a.who = "child" /\ a.sent = req[r].sent /\ a.who = req[r].who /\ ~a.sent
      BY <1>3, <2>1, <2>2 DEF q
    <2> QED
      BY <1>1, <1>5, <2>2, <2>3, Turns
  <1>6. CASE ~(q.i < Len(Limits(q.who))) /\ Below(rate[w0]) /\ req' = [req EXCEPT ![r] = b]
    <2>1. pc \in Pcs /\ "counted" \in Status
      BY DEF Pcs, Status
    <2> HIDE DEF pc
    <2>2. b \in ReqRecs /\ b.pc = pc /\ b.sent = q.sent /\ b.who = q.who /\ b.late = q.late /\ b.i = q.i
      BY <1>q, <2>1, ReqSteps
    <2>3. pc \in {"call", "resolve"}
      BY DEF pc
    <2>4. \A w \in AlsoFor(q.who) : hist.minute[w] < Rpm
      <3>1. hist.minute \in [Callers -> Nat] /\ rate \in [Callers -> Nat] /\ CountsCover
        BY DEF RouterInv, Typed, HistRecs
      <3>2. \/ q.who = "child" /\ w0 = "own" /\ AlsoFor(q.who) = {"child", "own"}
            \/ w0 = q.who /\ AlsoFor(q.who) = {q.who}
        <4>1. ~(q.i < n)
          BY <1>6 DEF n
        <4> HIDE DEF q
        <4>2. \/ q.who = "child" /\ w0 = "own"
              \/ q.who # "child" /\ w0 = q.who
          BY <1>3, <1>n, <4>1
        <4> QED
          BY <4>2 DEF AlsoFor
      <3>3. w0 \in Callers /\ rate[w0] < Rpm /\ hist.minute[w0] <= rate[w0] /\ hist.minute["child"] <= hist.minute["own"]
        BY <1>q, <1>6, <3>1, <3>2 DEF Below, CountsCover, Callers
      <3>4. hist.minute[w0] \in Nat /\ rate[w0] \in Nat /\ hist.minute["child"] \in Nat /\ hist.minute["own"] \in Nat
        BY <3>1, <3>3 DEF Callers
      <3> HIDE DEF q
      <3>5. hist.minute[w0] < Rpm
        BY <3>3, <3>4
      <3> QED
        BY <3>2, <3>3, <3>4, <3>5
    <2> HIDE DEF b
    <2>5. Placed(b) /\ b.sent = req[r].sent
      BY <1>3, <2>2 DEF Placed
    <2>6. \A w \in Callers : Passed(b, w) => hist.minute[w] < Rpm
      BY <2>2, <2>4 DEF Passed
    <2>7. b.pc # "flush"
      BY <2>2, <2>3
    <2> QED
      BY <1>1, <1>6, <2>2, <2>5, <2>6, <2>7, QuietStep
  <1>7. CASE req' = [req EXCEPT ![r] = e]
    <2>1. "log" \in Pcs /\ "other" \in Status
      BY DEF Pcs, Status
    <2>2. e \in ReqRecs /\ e.pc = "log" /\ e.sent = q.sent /\ e.who = q.who /\ e.i = q.i /\ e.late = q.late
      BY <1>q, <2>1 DEF ReqRecs
    <2> HIDE DEF e
    <2> QED
      BY <1>1, <1>3, <1>7, <2>2, Turns
  <1> QED
    BY <1>2, <1>5, <1>6, <1>7
-----------------------------------------------------------------------------
(* Steps that keep the books.                                               *)

\* What a call adds to a count of calls, its own and its parent's.
Counts(f, q) == [w \in Callers |-> IF w \in AlsoFor(q.who) THEN f[w] + 1 ELSE f[w]]

\* The provider is called.
LEMMA CallsStep ==
    ASSUME RouterInv, NEW r \in Slots, NEW qs, Calls(r, qs),
           qs \subseteq Opened(req[r])
    PROVE  RouterInv'
  <1> DEFINE q == req[r]
             a == [q EXCEPT !.pc = "log", !.status = "counted", !.sent = TRUE]
             b == [q EXCEPT !.pc = "stream", !.sent = TRUE]
             h == [hist EXCEPT !.due = hist.due + 1]
  <1>q. q \in ReqRecs /\ Placed(q) /\ hist \in HistRecs /\ req \in [Slots -> ReqRecs]
    BY DEF RouterInv, Typed, AllPlaced
  <1>1. q.pc = "call" /\ UNCHANGED <<rate, gap, d>> /\ hist' = h
    BY DEF Calls, Tokens
  <1>2. ~q.sent /\ ~q.late
    BY <1>q, <1>1 DEF Placed
  <1>3. /\ a \in ReqRecs /\ a.pc = "log" /\ a.sent = TRUE /\ a.who = q.who /\ a.i = q.i /\ a.late = q.late
    BY <1>q DEF ReqRecs, Pcs, Status
  <1>4. /\ b \in ReqRecs /\ b.pc = "stream" /\ b.sent = TRUE /\ b.who = q.who /\ b.i = q.i /\ b.late = q.late
    BY <1>q DEF ReqRecs, Pcs, Status
  <1>5. req' = [req EXCEPT ![r] = a] \/ req' = [req EXCEPT ![r] = b]
    BY DEF Calls, Opened, Answered
  <1> HIDE DEF a, b
  <1>6. PICK c \in ReqRecs : /\ req' = [req EXCEPT ![r] = c] /\ c.sent = TRUE /\ c.pc \in {"log", "stream"}
                             /\ c.who = q.who /\ c.i = q.i /\ c.late = q.late
    BY <1>3, <1>4, <1>5
  <1>7. /\ h \in HistRecs /\ h.due = hist.due + 1 /\ h.dropped = hist.dropped /\ h.off = hist.off
        /\ h.met = hist.met /\ h.twice = hist.twice /\ h.minute = hist.minute
    BY <1>q DEF HistRecs
  <1> HIDE DEF h
  <1>8. Typed'
    BY <1>1, <1>6, <1>7 DEF RouterInv, Typed
  <1>9. Placed(c)
    BY <1>q, <1>2, <1>6 DEF Placed
  <1>10. AllPlaced'
    BY <1>q, <1>1, <1>6, <1>9 DEF RouterInv, AllPlaced, Placed
  <1>11. CallsAreAccounted'
    <2>1. Cardinality(Flying') = Cardinality(Flying) + 1
      BY <1>q, <1>2, <1>6, FlyingAdds
    <2>2. /\ hist.due = Cardinality(Flying) + hist.dropped /\ hist'.due = hist.due + 1
          /\ hist'.dropped = hist.dropped /\ hist.dropped \in Int
      BY <1>q, <1>1, <1>7 DEF RouterInv, CallsAreAccounted, HistRecs
    <2> QED
      BY <2>1, <2>2, SetsAreFinite DEF CallsAreAccounted
  <1>12. GapsAddUp' /\ CountsCover'
    BY <1>1, <1>7 DEF RouterInv, GapsAddUp, CountsCover
  <1>13. FlushesRecord'
    BY <1>q, <1>1, <1>6, <1>7 DEF RouterInv, FlushesRecord
  <1>14. RateIsBounded'
    <2> SUFFICES ASSUME NEW w \in Callers
                 PROVE  hist.minute[w] + Cardinality(Past(w)') < Rpm + Cardinality(Slots)
      BY <1>1, <1>7 DEF RateIsBounded
    <2>1. Passed(c, w) => Passed(q, w)
      BY <1>1, <1>6 DEF Passed
    <2>2. Cardinality(Past(w)') <= Cardinality(Past(w))
      BY <1>q, <1>6, <2>1, PastShrinks
    <2>3. hist.minute[w] + Cardinality(Past(w)) < Rpm + Cardinality(Slots) /\ hist.minute[w] \in Nat
      BY <1>q DEF RouterInv, RateIsBounded, HistRecs
    <2> QED
      BY <2>2, <2>3, SetsAreFinite, SetsStayFinite
  <1> QED
    BY <1>8, <1>10, <1>11, <1>12, <1>13, <1>14 DEF RouterInv

\* A request is over: its row was written, or missed, or the gap was flushed.
\* What is left to show is about the gap.
LEMMA Settles ==
    ASSUME RouterInv, NEW r \in Slots, NEW c \in ReqRecs, req' = [req EXCEPT ![r] = c],
           UNCHANGED d, ~c.sent, Placed(c), c.pc \in {"idle", "flush"},
           gap' \in Nat, hist' \in HistRecs,
           hist'.due - hist'.dropped = IF req[r].sent THEN hist.due - hist.dropped - 1 ELSE hist.due - hist.dropped,
           \/ rate' = rate /\ hist'.minute = hist.minute
           \/ rate' = Counts(rate, req[r]) /\ hist'.minute = hist.minute
           \/ rate' = Counts(rate, req[r]) /\ hist'.minute = Counts(hist.minute, req[r]) /\ req[r].sent,
           GapsAddUp', FlushesRecord'
    PROVE  RouterInv'
  <1> DEFINE q == req[r]
  <1>q. /\ req \in [Slots -> ReqRecs] /\ q \in ReqRecs /\ hist.minute \in [Callers -> Nat] /\ rate \in [Callers -> Nat]
        /\ hist'.minute \in [Callers -> Nat] /\ hist.due \in Int /\ hist.dropped \in Int
        /\ hist'.due \in Int /\ hist'.dropped \in Int
    BY DEF RouterInv, Typed, HistRecs
  <1>1. Typed'
    BY <1>q DEF RouterInv, Typed, Counts
  <1>2. AllPlaced'
    BY <1>q DEF RouterInv, AllPlaced, Placed
  <1>3. CallsAreAccounted'
    <2>1. Cardinality(Flying') = IF q.sent THEN Cardinality(Flying) - 1 ELSE Cardinality(Flying)
      BY <1>q, FlyingDrops
    <2>2. hist.due = Cardinality(Flying) + hist.dropped
      BY DEF RouterInv, CallsAreAccounted
    <2>3. hist'.due = Cardinality(Flying') + hist'.dropped
      BY <1>q, <2>1, <2>2, SetsAreFinite, SetsStayFinite
    <2> QED
      BY <2>3 DEF CallsAreAccounted
  <1>4. CountsCover'
    <2>1. CountsCover
      BY DEF RouterInv
    <2>2. \A w \in Callers : hist.minute[w] \in Nat /\ rate[w] \in Nat /\ hist.minute[w] <= rate[w]
      BY <1>q, <2>1 DEF CountsCover
    <2>3. hist.minute["child"] <= hist.minute["own"] /\ "child" \in Callers /\ "own" \in Callers
      BY <2>1 DEF CountsCover, Callers
    <2>4. "child" \in AlsoFor(q.who) => "own" \in AlsoFor(q.who)
      BY DEF AlsoFor
    <2>5. CASE hist'.minute = hist.minute
      BY <2>2, <2>3, <2>5 DEF CountsCover, Counts
    <2>6. CASE rate' = Counts(rate, q) /\ hist'.minute = Counts(hist.minute, q)
      <3>1. \A w \in Callers : hist'.minute[w] <= rate'[w]
        BY <2>2, <2>6 DEF Counts
      <3>2. hist'.minute["child"] <= hist'.minute["own"]
        BY <2>2, <2>3, <2>4, <2>6 DEF Counts
      <3> QED
        BY <3>1, <3>2 DEF CountsCover
    <2> QED
      BY <2>5, <2>6
  <1>5. RateIsBounded'
    <2> SUFFICES ASSUME NEW w \in Callers
                 PROVE  hist'.minute[w] + Cardinality(Past(w)') < Rpm + Cardinality(Slots)
      BY DEF RateIsBounded
    <2>1. ~Passed(c, w)
      BY DEF Passed
    <2>2. Cardinality(Past(w)') <= Cardinality(Past(w))
      BY <1>q, <2>1, PastShrinks
    <2>3. hist.minute[w] + Cardinality(Past(w)) < Rpm + Cardinality(Slots) /\ hist.minute[w] \in Nat
      BY <1>q DEF RouterInv, RateIsBounded
    <2>4. CASE hist'.minute[w] = hist.minute[w]
      BY <2>2, <2>3, <2>4, SetsAreFinite, SetsStayFinite
    <2>5. CASE hist'.minute[w] = hist.minute[w] + 1 /\ w \in AlsoFor(q.who) /\ q.sent
      <3>1. Passed(q, w)
        BY <2>5 DEF Passed
      <3>2. Cardinality(Past(w)') = Cardinality(Past(w)) - 1
        BY <1>q, <2>1, <3>1, PastDrops
      <3> QED
        BY <2>3, <2>5, <3>2, SetsAreFinite
    <2> QED
      BY <2>4, <2>5 DEF Counts
  <1> QED
    BY <1>1, <1>2, <1>3, <1>4, <1>5 DEF RouterInv

\* log_usage writes the row, and turns to a pending gap.
LEMMA LogsRow == ASSUME RouterInv, NEW r \in Slots, LogRow(r) PROVE RouterInv'
  <1> DEFINE q == req[r]
             twice == hist.twice \/ (gap # 0 /\ Others(r) # {})
             due == IF q.sent THEN hist.due - 1 ELSE hist.due
             minute == IF q.sent /\ q.status \in Counted THEN Counts(hist.minute, q) ELSE hist.minute
             h == [hist EXCEPT !.due = due, !.twice = twice, !.minute = minute]
             f == [Idle EXCEPT !.pc = "flush", !.val = gap]
  <1>q. /\ q \in ReqRecs /\ hist \in HistRecs /\ req \in [Slots -> ReqRecs] /\ gap \in Nat
        /\ hist.due \in Int /\ hist.dropped \in Int /\ hist.off \in Int /\ hist.met \in Nat
    BY DEF RouterInv, Typed, HistRecs
  <1>g. GapsAddUp /\ FlushesRecord
    BY DEF RouterInv
  <1>1. /\ q.pc = "log" /\ UNCHANGED <<gap, d>> /\ hist' = h
        /\ rate' = IF q.status \in Counted THEN Counts(rate, q) ELSE rate
        /\ req' = [req EXCEPT ![r] = IF gap = 0 THEN Idle ELSE f]
    BY DEF LogRow, Tokens, Counts
  <1>2. due \in Int /\ minute \in [Callers -> Nat] /\ twice \in BOOLEAN
    <2>1. hist.due \in Int /\ hist.minute \in [Callers -> Nat]
      BY <1>q DEF HistRecs
    <2>2. Counts(hist.minute, q) \in [Callers -> Nat]
      BY <2>1 DEF Counts
    <2>3. due \in Int /\ minute \in [Callers -> Nat]
      BY <2>1, <2>2
    <2> QED
      BY <2>3
  <1>m. (rate' = rate /\ minute = hist.minute) \/ (rate' = Counts(rate, q) /\ minute = hist.minute)
          \/ (rate' = Counts(rate, q) /\ minute = Counts(hist.minute, q) /\ q.sent)
    BY <1>1
  <1>c. ~twice => ~hist.twice /\ (gap = 0 \/ Others(r) = {})
    OBVIOUS
  <1> HIDE DEF minute, twice
  <1>3. /\ h \in HistRecs /\ h.due = due /\ h.dropped = hist.dropped /\ h.off = hist.off /\ h.met = hist.met
        /\ h.twice = twice /\ h.minute = minute
    BY <1>q, <1>2 DEF HistRecs
  <1> HIDE DEF h
  <1>4. f \in ReqRecs /\ f.pc = "flush" /\ f.sent = Idle.sent /\ f.late = Idle.late /\ f.i = 1 /\ f.val = gap
    BY <1>q, IdleTypes DEF ReqRecs, Pcs
  <1> HIDE DEF f
  <1>5. Placed(f) /\ ~f.sent
    BY <1>4, IdleTypes DEF Placed
  <1>6. GapsAddUp'
    BY <1>1, <1>3, <1>c, <1>g DEF GapsAddUp
  <1>7. FlushesRecord'
    <2>a. hist.off - gap <= hist.met /\ hist'.off = hist.off /\ hist'.met = hist.met /\ gap' = gap /\ hist'.twice = twice
      BY <1>1, <1>3, <1>g DEF GapsAddUp
    <2>b. \A o \in Slots : req[o].pc = "flush" => hist.off - req[o].val <= hist.met
      BY <1>g DEF FlushesRecord
    <2>1. \A o \in Slots : req'[o].pc = "flush" => hist.off - req'[o].val <= hist.met
      BY <1>q, <1>1, <1>4, <2>a, <2>b, IdleTypes
    <2>2. ASSUME ~twice
          PROVE  /\ \A o \in Slots : req'[o].pc = "flush" => req'[o].val <= gap
                 /\ \A o, p \in Slots : req'[o].pc = "flush" /\ req'[p].pc = "flush" => o = p
      <3>1. /\ \A o \in Slots : req[o].pc = "flush" => req[o].val <= gap
            /\ \A o, p \in Slots : req[o].pc = "flush" /\ req[p].pc = "flush" => o = p
        BY <1>c, <1>g, <2>2 DEF FlushesRecord
      <3>2. CASE gap = 0
        BY <1>q, <1>1, <3>1, <3>2, IdleTypes
      <3>3. CASE gap # 0
        <4>1. \A o \in Slots \ {r} : req[o].pc # "flush"
          BY <1>c, <2>2, <3>3 DEF Others
        <4> QED
          BY <1>q, <1>1, <1>4, <3>3, <4>1
      <3> QED
        BY <3>2, <3>3
    <2> QED
      BY <2>1, <2>2, <2>a DEF FlushesRecord
  <1>8. hist'.due - hist'.dropped = IF q.sent THEN hist.due - hist.dropped - 1 ELSE hist.due - hist.dropped
    BY <1>q, <1>1, <1>3
  <1>9. hist'.minute = minute
    BY <1>1, <1>3
  <1>10. CASE gap = 0
    <2>1. req' = [req EXCEPT ![r] = Idle] /\ gap' \in Nat /\ hist' \in HistRecs /\ d' = d
      BY <1>q, <1>1, <1>3, <1>10
    <2> QED
      BY <1>m, <1>6, <1>7, <1>8, <1>9, <2>1, IdleTypes, Settles
  <1>11. CASE gap # 0
    <2>1. req' = [req EXCEPT ![r] = f] /\ gap' \in Nat /\ hist' \in HistRecs /\ d' = d
      BY <1>q, <1>1, <1>3, <1>11
    <2> QED
      BY <1>m, <1>4, <1>5, <1>6, <1>7, <1>8, <1>9, <2>1, Settles
  <1> QED
    BY <1>10, <1>11

\* The row could not be written: the gap grows.
LEMMA LogsMiss == ASSUME RouterInv, NEW r \in Slots, LogFails(r) PROVE RouterInv'
  <1> DEFINE q == req[r]
             met == IF Others(r) # {} THEN hist.met + 1 ELSE hist.met
             due == IF q.sent THEN hist.due - 1 ELSE hist.due
             h == [hist EXCEPT !.off = hist.off + 1, !.due = due, !.met = met]
  <1>q. /\ q \in ReqRecs /\ hist \in HistRecs /\ req \in [Slots -> ReqRecs] /\ gap \in Nat
        /\ hist.due \in Int /\ hist.dropped \in Int /\ hist.off \in Int /\ hist.met \in Nat
    BY DEF RouterInv, Typed, HistRecs
  <1>g. GapsAddUp /\ FlushesRecord
    BY DEF RouterInv
  <1>1. /\ q.pc = "log" /\ UNCHANGED <<rate, d>> /\ hist' = h /\ gap' = gap + 1
        /\ req' = [req EXCEPT ![r] = Idle]
    BY DEF LogFails, Tokens, Missed
  <1>2. due \in Int /\ met \in Nat /\ met >= hist.met /\ (Others(r) # {} => met = hist.met + 1)
    BY <1>q
  <1>d. due = IF q.sent THEN hist.due - 1 ELSE hist.due
    OBVIOUS
  <1> HIDE DEF met, due
  <1>o. hist.off + 1 \in Int
    BY <1>q
  <1>3. /\ h \in HistRecs /\ h.due = due /\ h.dropped = hist.dropped /\ h.off = hist.off + 1 /\ h.met = met
        /\ h.twice = hist.twice /\ h.minute = hist.minute
    BY <1>q, <1>2, <1>o DEF HistRecs
  <1> HIDE DEF h
  <1>4. GapsAddUp'
    BY <1>q, <1>1, <1>2, <1>3, <1>g DEF GapsAddUp
  <1>5. FlushesRecord'
    <2>0. /\ hist'.off = hist.off + 1 /\ hist'.met = met /\ hist'.twice = hist.twice /\ gap' = gap + 1
      BY <1>1, <1>3
    <2>1. ASSUME NEW o \in Slots, req'[o].pc = "flush"
          PROVE  /\ req'[o] = req[o] /\ req[o].pc = "flush" /\ req[o].val \in Nat /\ met = hist.met + 1
      <3>1. o # r /\ req'[o] = req[o]
        BY <1>q, <1>1, <2>1, IdleTypes
      <3>2. req[o].val \in Nat
        BY <1>q DEF ReqRecs
      <3>3. o \in Others(r)
        BY <2>1, <3>1 DEF Others
      <3> QED
        BY <1>2, <2>1, <3>1, <3>2, <3>3
    <2>2. ASSUME NEW o \in Slots, req'[o].pc = "flush"
          PROVE  hist'.off - req'[o].val <= hist'.met
      <3>1. hist.off - req[o].val <= hist.met
        BY <1>g, <2>1, <2>2 DEF FlushesRecord
      <3> QED
        BY <1>q, <2>0, <2>1, <2>2, <3>1
    <2>3. ASSUME ~hist.twice, NEW o \in Slots, req'[o].pc = "flush"
          PROVE  req'[o].val <= gap'
      <3>1. req[o].val <= gap
        BY <1>g, <2>1, <2>3 DEF FlushesRecord
      <3> QED
        BY <1>q, <2>0, <2>1, <2>3, <3>1
    <2>4. ASSUME ~hist.twice, NEW o \in Slots, NEW p \in Slots, req'[o].pc = "flush", req'[p].pc = "flush"
          PROVE  o = p
      BY <1>g, <2>1, <2>4 DEF FlushesRecord
    <2> QED
      BY <2>0, <2>2, <2>3, <2>4 DEF FlushesRecord
  <1>6. hist'.minute = hist.minute /\ hist' \in HistRecs /\ gap' \in Nat
    BY <1>q, <1>1, <1>3
  <1>7. hist'.due - hist'.dropped = IF q.sent THEN hist.due - hist.dropped - 1 ELSE hist.due - hist.dropped
    BY <1>q, <1>1, <1>3, <1>d
  <1> QED
    BY <1>1, <1>4, <1>5, <1>6, <1>7, IdleTypes, Settles

\* The pool gives no connection: the call of the request is dropped.
LEMMA DropsCall == ASSUME RouterInv, NEW r \in Slots, NoConnection(r) PROVE RouterInv'
  <1> DEFINE q == req[r]
             dropped == IF q.sent THEN hist.dropped + 1 ELSE hist.dropped
             h == [hist EXCEPT !.dropped = dropped]
  <1>q. /\ q \in ReqRecs /\ hist \in HistRecs /\ req \in [Slots -> ReqRecs] /\ gap \in Nat
        /\ hist.due \in Int /\ hist.dropped \in Int
    BY DEF RouterInv, Typed, HistRecs
  <1>1. /\ q.pc = "log" /\ UNCHANGED <<rate, gap, d>> /\ hist' = h /\ req' = [req EXCEPT ![r] = Idle]
    BY DEF NoConnection, Tokens
  <1>2. dropped \in Int /\ dropped = IF q.sent THEN hist.dropped + 1 ELSE hist.dropped
    BY <1>q
  <1> HIDE DEF dropped
  <1>3. /\ h \in HistRecs /\ h.due = hist.due /\ h.dropped = dropped /\ h.off = hist.off /\ h.met = hist.met
        /\ h.twice = hist.twice /\ h.minute = hist.minute
    BY <1>q, <1>2 DEF HistRecs
  <1> HIDE DEF h
  <1>4. GapsAddUp'
    BY <1>1, <1>3 DEF RouterInv, GapsAddUp
  <1>5. FlushesRecord'
    BY <1>q, <1>1, <1>3, IdleTypes DEF RouterInv, FlushesRecord
  <1>6. hist'.due - hist'.dropped = IF q.sent THEN hist.due - hist.dropped - 1 ELSE hist.due - hist.dropped
    BY <1>q, <1>1, <1>2, <1>3
  <1>7. hist'.minute = hist.minute /\ hist' \in HistRecs /\ gap' \in Nat
    BY <1>q, <1>1, <1>3
  <1> QED
    BY <1>1, <1>4, <1>5, <1>6, <1>7, IdleTypes, Settles

\* flush_pending_gap records the gap it read, or leaves it.
LEMMA Flushes == ASSUME RouterInv, NEW r \in Slots, Flush(r) PROVE RouterInv'
  <1> DEFINE q == req[r]
             h == [hist EXCEPT !.off = hist.off - q.val]
  <1>q. /\ q \in ReqRecs /\ hist \in HistRecs /\ req \in [Slots -> ReqRecs] /\ gap \in Nat
        /\ hist.due \in Int /\ hist.dropped \in Int /\ hist.off \in Int /\ hist.met \in Nat
        /\ q.val \in Nat /\ Placed(q)
    BY DEF RouterInv, Typed, HistRecs, ReqRecs, AllPlaced
  <1>g. GapsAddUp /\ FlushesRecord
    BY DEF RouterInv
  <1>1. /\ q.pc = "flush" /\ UNCHANGED <<rate, d>> /\ req' = [req EXCEPT ![r] = Idle]
        /\ (gap' = 0 /\ hist' = h) \/ (gap' = gap /\ hist' = hist)
    BY DEF Flush, Tokens, Recorded
  <1>s. ~q.sent
    BY <1>q, <1>1 DEF Placed
  <1>2. /\ h \in HistRecs /\ h.due = hist.due /\ h.dropped = hist.dropped /\ h.off = hist.off - q.val
        /\ h.met = hist.met /\ h.twice = hist.twice /\ h.minute = hist.minute
    BY <1>q DEF HistRecs
  <1> HIDE DEF h
  <1>3. /\ hist'.twice = hist.twice /\ hist'.due = hist.due /\ hist'.dropped = hist.dropped
        /\ hist'.met = hist.met /\ hist'.minute = hist.minute /\ hist' \in HistRecs
    BY <1>q, <1>1, <1>2
  <1>v. hist.off - q.val <= hist.met /\ (~hist.twice => q.val <= gap /\ hist.off >= gap)
    BY <1>1, <1>g DEF FlushesRecord, GapsAddUp
  <1> HIDE DEF q
  <1>4. GapsAddUp'
    <2>1. CASE gap' = 0 /\ hist' = h
      <3>1. hist.off - q.val - 0 <= hist.met /\ (~hist.twice => hist.off - q.val >= 0)
        BY <1>q, <1>v
      <3> QED
        BY <1>q, <1>2, <2>1, <3>1 DEF GapsAddUp
    <2>2. CASE gap' = gap /\ hist' = hist
      BY <1>g, <2>2 DEF GapsAddUp
    <2> QED
      BY <1>1, <2>1, <2>2
  <1>5. FlushesRecord'
    <2>1. ASSUME NEW o \in Slots, req'[o].pc = "flush"
          PROVE  /\ req'[o] = req[o] /\ req[o].pc = "flush" /\ req[o].val \in Nat /\ o # r
      <3>1. o # r /\ req'[o] = req[o]
        BY <1>q, <1>1, <2>1, IdleTypes
      <3>2. req[o].val \in Nat
        BY <1>q DEF ReqRecs
      <3> QED
        BY <2>1, <3>1, <3>2
    <2>2. ASSUME NEW o \in Slots, req'[o].pc = "flush"
          PROVE  hist'.off - req'[o].val <= hist'.met
      <3>1. hist.off - req[o].val <= hist.met
        BY <1>g, <2>1, <2>2 DEF FlushesRecord
      <3>2. hist'.off \in Int /\ hist'.off <= hist.off
        BY <1>q, <1>1, <1>2
      <3> QED
        BY <1>q, <1>3, <2>1, <2>2, <3>1, <3>2
    <2>3. ASSUME ~hist.twice, NEW o \in Slots PROVE req'[o].pc # "flush"
      <3>1. req[o].pc = "flush" => o = r
        BY <1>g, <1>1, <2>3 DEF FlushesRecord, q
      <3> QED
        BY <2>1, <3>1
    <2> QED
      BY <1>3, <2>2, <2>3 DEF FlushesRecord
  <1>6. hist'.due - hist'.dropped = IF q.sent THEN hist.due - hist.dropped - 1 ELSE hist.due - hist.dropped
    BY <1>3, <1>s DEF q
  <1>7. gap' \in Nat
    BY <1>q, <1>1
  <1> QED
    BY <1>1, <1>3, <1>4, <1>5, <1>6, <1>7, IdleTypes, Settles DEF q

\* A minute is over.
LEMMA MinuteSteps == ASSUME RouterInv, MinutePasses PROVE RouterInv'
  <1> DEFINE zero == [w \in Callers |-> 0]
             h == [hist EXCEPT !.minute = zero]
  <1>1. rate' = zero /\ hist' = h /\ UNCHANGED <<req, gap, d>>
    BY DEF MinutePasses, Tokens
  <1>2. hist \in HistRecs /\ zero \in [Callers -> Nat]
    BY DEF RouterInv, Typed
  <1>3. /\ h \in HistRecs /\ h.due = hist.due /\ h.dropped = hist.dropped /\ h.off = hist.off
        /\ h.met = hist.met /\ h.twice = hist.twice /\ h.minute = zero
    BY <1>2 DEF HistRecs
  <1> HIDE DEF h
  <1>4. Typed' /\ AllPlaced' /\ GapsAddUp' /\ FlushesRecord'
    BY <1>1, <1>2, <1>3 DEF RouterInv, Typed, AllPlaced, Placed, GapsAddUp, FlushesRecord
  <1>5. CallsAreAccounted'
    <2>1. Flying' = Flying
      BY <1>1 DEF Flying
    <2> QED
      BY <1>1, <1>3, <2>1 DEF RouterInv, CallsAreAccounted
  <1>6. CountsCover'
    BY <1>1, <1>3 DEF CountsCover, Callers
  <1>7. RateIsBounded'
    <2> SUFFICES ASSUME NEW w \in Callers
                 PROVE  hist'.minute[w] + Cardinality(Past(w)') < Rpm + Cardinality(Slots)
      BY DEF RateIsBounded
    <2>1. hist'.minute[w] = 0
      BY <1>1, <1>3
    <2> QED
      BY <2>1, SetsAreFinite, SetsStayFinite
  <1> QED
    BY <1>4, <1>5, <1>6, <1>7 DEF RouterInv

\* Steps of the delegation, the denylist and the clock; nothing is un-revoked.
LEMMA TokenSteps ==
    ASSUME RouterInv, UNCHANGED <<req, rate, gap, hist>>, d.revoked => d'.revoked
    PROVE  RouterInv'
  <1>1. Typed' /\ AllPlaced' /\ GapsAddUp' /\ FlushesRecord' /\ CountsCover'
    BY DEF RouterInv, Typed, AllPlaced, Placed, GapsAddUp, FlushesRecord, CountsCover
  <1>2. Flying' = Flying /\ \A w \in Callers : Past(w)' = Past(w)
    BY DEF Flying, Past
  <1>3. CallsAreAccounted' /\ RateIsBounded'
    BY <1>2 DEF RouterInv, CallsAreAccounted, RateIsBounded
  <1> QED
    BY <1>1, <1>3 DEF RouterInv

\* The process ends, and with it the requests and the pending gap.
LEMMA Restarts == ASSUME RouterInv, Restart PROVE RouterInv'
  <1> DEFINE h == [hist EXCEPT !.due = 0, !.dropped = 0, !.off = 0, !.met = 0]
  <1>1. /\ req' = [r \in Slots |-> Idle] /\ gap' = 0 /\ hist' = h /\ rate' = rate
        /\ d' = [d EXCEPT !.denying = FALSE]
    BY DEF Restart
  <1>2. hist \in HistRecs /\ hist.minute \in [Callers -> Nat]
    BY DEF RouterInv, Typed, HistRecs
  <1>3. /\ h \in HistRecs /\ h.due = 0 /\ h.dropped = 0 /\ h.off = 0 /\ h.met = 0 /\ h.minute = hist.minute
    <2>1. ASSUME NEW n \in Int, NEW k \in Nat
          PROVE  /\ [hist EXCEPT !.due = n, !.dropped = n, !.off = n, !.met = k] \in HistRecs
                 /\ [hist EXCEPT !.due = n, !.dropped = n, !.off = n, !.met = k].due = n
                 /\ [hist EXCEPT !.due = n, !.dropped = n, !.off = n, !.met = k].dropped = n
                 /\ [hist EXCEPT !.due = n, !.dropped = n, !.off = n, !.met = k].off = n
                 /\ [hist EXCEPT !.due = n, !.dropped = n, !.off = n, !.met = k].met = k
                 /\ [hist EXCEPT !.due = n, !.dropped = n, !.off = n, !.met = k].minute = hist.minute
      BY <1>2 DEF HistRecs
    <2>2. 0 \in Int /\ 0 \in Nat
      OBVIOUS
    <2> QED
      BY <2>1, <2>2, Zenon
  <1> HIDE DEF h
  <1>4. Typed' /\ AllPlaced' /\ GapsAddUp' /\ FlushesRecord' /\ CountsCover'
    BY <1>1, <1>3, IdleTypes DEF RouterInv, Typed, AllPlaced, Placed, GapsAddUp, FlushesRecord, CountsCover
  <1>5. Flying' = {} /\ \A w \in Callers : Past(w)' = {}
    BY <1>1, IdleTypes DEF Flying, Past
  <1>6. CallsAreAccounted'
    BY <1>1, <1>3, <1>5, FS_EmptySet DEF CallsAreAccounted
  <1>7. RateIsBounded'
    <2> SUFFICES ASSUME NEW w \in Callers
                 PROVE  hist.minute[w] + Cardinality(Past(w)') < Rpm + Cardinality(Slots)
      BY <1>1, <1>3 DEF RateIsBounded
    <2>1. hist.minute[w] + Cardinality(Past(w)) < Rpm + Cardinality(Slots) /\ hist.minute[w] \in Nat
      BY <1>2 DEF RouterInv, RateIsBounded
    <2>2. Cardinality(Past(w)') = 0
      BY <1>5, FS_EmptySet
    <2> QED
      BY <2>1, <2>2, SetsAreFinite
  <1> QED
    BY <1>4, <1>6, <1>7 DEF RouterInv
-----------------------------------------------------------------------------
(* The theorems.                                                            *)

\* It holds at first.
LEMMA InitRouter == Init => RouterInv
  <1> SUFFICES ASSUME Init PROVE RouterInv
    OBVIOUS
  <1>1. /\ hist.due = 0 /\ hist.dropped = 0 /\ hist.off = 0 /\ hist.met = 0
        /\ hist.minute = [w \in Callers |-> 0] /\ hist \in HistRecs
    BY DEF Init, HistRecs
  <1>2. Typed /\ AllPlaced /\ GapsAddUp /\ FlushesRecord /\ CountsCover
    BY <1>1, IdleTypes DEF Init, Typed, AllPlaced, Placed, GapsAddUp, FlushesRecord, CountsCover, Callers
  <1>3. Flying = {} /\ \A w \in Callers : Past(w) = {}
    BY IdleTypes DEF Init, Flying, Past
  <1>4. CallsAreAccounted
    BY <1>1, <1>3, FS_EmptySet DEF CallsAreAccounted
  <1>5. RateIsBounded
    <2>1. Cardinality({}) = 0 /\ Cardinality(Slots) \in Nat /\ Cardinality(Slots) # 0
      BY FS_EmptySet, SetsAreFinite
    <2> QED
      BY <1>1, <1>3, <2>1 DEF RateIsBounded
  <1> QED
    BY <1>2, <1>4, <1>5 DEF RouterInv

\* And every step keeps it.
LEMMA NextRouter == RouterInv /\ [Next]_vars => RouterInv'
  <1> SUFFICES ASSUME RouterInv, [Next]_vars PROVE RouterInv'
    OBVIOUS
  <1>1. ASSUME NEW r \in Slots, NEW w \in Callers, Begin(r, w) PROVE RouterInv'
    BY <1>1, Begins
  <1>2. ASSUME NEW r \in Slots, Delegation(r) \/ Resolve(r) \/ StreamEnds(r) PROVE RouterInv'
    BY <1>2, Proceeds
  <1>3. ASSUME NEW r \in Slots, Check(r) PROVE RouterInv'
    BY <1>3, Checks
  <1>4. ASSUME NEW r \in Slots, ChatCompletions(r) \/ Embeddings(r) \/ InternalEmbeddings(r) PROVE RouterInv'
    <2>1. Answered(req[r]) \subseteq Opened(req[r])
      BY DEF Opened
    <2> QED
      BY <1>4, <2>1, CallsStep DEF ChatCompletions, Embeddings, InternalEmbeddings
  <1>5. ASSUME NEW r \in Slots, LogUsageEndpoint(r) PROVE RouterInv'
    <2>1. "own" \in Callers
      BY DEF Callers
    <2> QED
      BY <1>5, <2>1, Begins
  <1>6. ASSUME NEW r \in Slots, LogRow(r) \/ LogFails(r) \/ NoConnection(r) \/ Flush(r) PROVE RouterInv'
    BY <1>6, LogsRow, LogsMiss, DropsCall, Flushes
  <1>7. CASE MinutePasses
    BY <1>7, MinuteSteps
  <1>8. CASE DelegateInsert \/ DelegateSigned
    <2>1. UNCHANGED <<req, rate, gap, hist>> /\ \E pc : d' = [d EXCEPT !.pc = pc]
      BY <1>8 DEF DelegateInsert, DelegateSigned, Requests
    <2> QED
      BY <2>1, TokenSteps
  <1>9. CASE ParentRevoked \/ Expires \/ LoadRead \/ LoadApply
    BY <1>9, TokenSteps DEF ParentRevoked, Expires, LoadRead, LoadApply, Requests
  <1>12. CASE DelegateRevoke
    BY <1>12, TokenSteps DEF DelegateRevoke, Requests
  <1>13. CASE DelegateDeny
    <2>1. UNCHANGED <<req, rate, gap, hist>> /\ d' = [d EXCEPT !.denying = FALSE]
      BY <1>13 DEF DelegateDeny, Requests
    <2> QED
      BY <2>1, TokenSteps
  <1>10. CASE Restart
    BY <1>10, Restarts
  <1>11. CASE UNCHANGED vars
    BY <1>11, TokenSteps DEF vars
  <1> QED
    BY <1>1, <1>2, <1>3, <1>4, <1>5, <1>6, <1>7, <1>8, <1>9, <1>10, <1>11, <1>12, <1>13 DEF Next

\* Every call to a provider ends in a usage row or in the count of missed rows,
\* unless the pool had no connection for its row; what is pending and recorded
\* falls short of the missed rows by no more than those missed while a gap was
\* being recorded, and exceeds them only after two flushes met: however many
\* requests are under way, whichever writes fail and wherever the client leaves
\* (main.py, usage_gaps.py).
THEOREM NoCallGoesUnaccounted == Spec => []UsageIsAccounted
  <1>1. RouterInv => UsageIsAccounted
    BY DEF RouterInv, UsageIsAccounted
  <1> QED
    BY <1>1, InitRouter, NextRouter, PTL DEF Spec

\* For any limit and any number of requests at once, a minute sees no more
\* counted calls than the limit and one for each other request that was under
\* way when the limit was reached (limits.py).
THEOREM MinuteIsBounded == Spec => []RateIsBounded
  <1>1. RouterInv => RateIsBounded
    BY DEF RouterInv
  <1> QED
    BY <1>1, InitRouter, NextRouter, PTL DEF Spec

\* A request that comes after its delegation was revoked never gets past the
\* lookup of the delegation, whatever the denylist in memory says by then
\* (delegation.py, revocation.py).
THEOREM LateRequestsAreRefused == Spec => []RevokedIsRefused
  <1>1. RouterInv => RevokedIsRefused
    BY DEF RouterInv, AllPlaced, Placed, RevokedIsRefused
  <1> QED
    BY <1>1, InitRouter, NextRouter, PTL DEF Spec
=============================================================================
