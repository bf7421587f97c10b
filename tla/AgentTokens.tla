----------------------------- MODULE AgentTokens -----------------------------
(***************************************************************************)
(* The tokens one agent calls other services with, for one of two services *)
(* (aud): "router", the model router in services/ai, and "akm", the         *)
(* knowledge service.  Minted by the API when the agent starts, renewed by  *)
(* a thread of the agent's container (agentbox token_refresh.py), revoked   *)
(* by name (jti) when the agent stops or the token is replaced.             *)
(*                                                                         *)
(* Token n is the n-th one minted; its refresh secret is n too, and 0 is    *)
(* none.  A token is fresh, then near its end, then expired, older tokens   *)
(* first, all lifetimes being one hour.                                     *)
(***************************************************************************)
EXTENDS Naturals, FiniteSets

CONSTANTS
    Slots,       \* refresh requests in the API or the knowledge service at once
    MaxTokens,   \* bound: tokens minted
    MaxFailures  \* bound: failed calls, timeouts, crashes

ASSUME TokenAssumption ==
    Slots # {} /\ MaxTokens \in Nat /\ MaxFailures \in Nat

VARIABLES aud, row, box, h, st, age, deny, hist, failures
tokenVars == <<aud, row, box, h, st, age, deny, hist, failures>>
-----------------------------------------------------------------------------
Tok == 1..MaxTokens
None == 0
minted == Cardinality({n \in Tok : age[n] # "unborn"})
Ages == {"unborn", "fresh", "near", "expired"}
Expired(n) == n \in Tok /\ age[n] = "expired"

Rows == [status: {"stopped", "running"}, jti: 0..MaxTokens, sec: 0..MaxTokens,
         stored: SUBSET Tok]       \* agent_tokens of the knowledge service, unrevoked
Boxes == [on: BOOLEAN, tok: 0..MaxTokens, sec: 0..MaxTokens, ask: SUBSET Slots]
Handlers == [pc: {"idle", "check", "store", "revoke", "reply"}, tok: 0..MaxTokens, sec: 0..MaxTokens,
             old: 0..MaxTokens, new: 0..MaxTokens]
Stops == [pc: {"idle", "revoke", "remove", "write"}, jti: 0..MaxTokens, failed: BOOLEAN]

IdleHandler == [pc |-> "idle", tok |-> None, sec |-> None, old |-> None, new |-> None]
IdleStop == [pc |-> "idle", jti |-> None, failed |-> FALSE]

TokenTypeOK ==
    /\ aud \in {"router", "akm"} /\ row \in Rows /\ box \in Boxes
    /\ h \in [Slots -> Handlers] /\ st \in Stops /\ age \in [Tok -> Ages]
    /\ deny \in SUBSET Tok
    /\ hist \in [loose: SUBSET Tok, lost: BOOLEAN, crossed: BOOLEAN]
    /\ failures \in 0..MaxFailures

TokenInit ==
    /\ aud \in {"router", "akm"}
    /\ row = [status |-> "stopped", jti |-> None, sec |-> None, stored |-> {}]
    /\ box = [on |-> FALSE, tok |-> None, sec |-> None, ask |-> {}]
    /\ h = [s \in Slots |-> IdleHandler] /\ st = IdleStop
    /\ age = [n \in Tok |-> "unborn"]
    /\ deny = {}
    /\ hist = [loose |-> {}, lost |-> FALSE, crossed |-> FALSE]
    /\ failures = 0

Fault == failures < MaxFailures /\ failures' = failures + 1
Open == {s \in Slots : h[s].pc \in {"check", "store"}}
\* generateAgentModelRouterToken / generateAgentAkmToken: never stored as such
NextToken == minted + 1
Mint == /\ minted < MaxTokens /\ age' = [age EXCEPT ![NextToken] = "fresh"]
\* POST /internal/revoke
Denied(n) == deny \cup {n}
-----------------------------------------------------------------------------
(* Time.                                                                    *)

Rank == [unborn |-> 0, fresh |-> 1, near |-> 2, expired |-> 3]
Age(n) ==
    /\ age[n] \in {"fresh", "near"}
    /\ age' = [age EXCEPT ![n] = IF @ = "fresh" THEN "near" ELSE "expired"]
    /\ \A k \in 1..(n - 1) : Rank[age[k]] >= Rank[age'[n]]
    /\ UNCHANGED <<aud, row, box, h, st, deny, hist, failures>>
-----------------------------------------------------------------------------
(* Start and stop, as far as tokens go (AgentLifecycle has the rest).       *)

\* POST /agents/:id/start: the container gets the token and the secret; the row
\* gets their names, best effort, before the status
Start ==
    LET n == NextToken IN
    /\ row.status = "stopped" /\ ~box.on /\ st.pc = "idle" /\ Mint
    /\ box' = [on |-> TRUE, tok |-> n, sec |-> n, ask |-> {}]
    /\ \/ /\ row' = [row EXCEPT !.status = "running", !.jti = n, !.sec = IF aud = "router" THEN n ELSE None]
          /\ UNCHANGED failures
          /\ hist' = [hist EXCEPT !.crossed = @ \/ Open # {},
                                  !.loose = IF row.jti = None THEN @ ELSE @ \cup {row.jti}]
       \/ /\ row' = [row EXCEPT !.status = "running"]
          /\ Fault
          /\ hist' = [hist EXCEPT !.lost = TRUE, !.crossed = @ \/ Open # {}, !.loose = @ \cup {n}]
    /\ UNCHANGED <<aud, h, st, deny>>

StopsWith(n) == IF n = None THEN "remove" ELSE "revoke"
StopRead ==
    /\ row.status = "running" /\ st.pc = "idle"
    /\ st' = [pc |-> StopsWith(row.jti), jti |-> row.jti, failed |-> FALSE]
    /\ UNCHANGED <<aud, row, box, h, age, deny, hist, failures>>
StopRevoke ==
    /\ st.pc = "revoke"
    /\ \/ /\ deny' = Denied(st.jti) /\ row' = [row EXCEPT !.stored = {}]
          /\ st' = [st EXCEPT !.pc = "remove"] /\ UNCHANGED failures
       \/ Fault /\ st' = [st EXCEPT !.pc = "remove", !.failed = TRUE] /\ UNCHANGED <<row, deny>>
    /\ UNCHANGED <<aud, box, h, age, hist>>
StopRemove ==
    /\ st.pc = "remove"
    /\ box' = [on |-> FALSE, tok |-> None, sec |-> None, ask |-> {}]
    /\ st' = [st EXCEPT !.pc = "write"]
    /\ hist' = [hist EXCEPT !.lost = @ \/ box.ask # {}]
    /\ UNCHANGED <<aud, row, h, age, deny, failures>>
\* the names are forgotten unless the revocation failed
StopWrite ==
    /\ st.pc = "write"
    /\ row' = IF st.failed THEN [row EXCEPT !.status = "stopped"]
              ELSE [row EXCEPT !.status = "stopped", !.jti = None, !.sec = None]
    /\ st' = IdleStop
    /\ hist' = [hist EXCEPT !.crossed = @ \/ Open # {} \/ row.jti # st.jti]
    /\ UNCHANGED <<aud, box, h, age, deny, failures>>
-----------------------------------------------------------------------------
(* Renewal.                                                                 *)

FreeSlot == CHOOSE s \in Slots : \A o \in Slots : h[s].pc = "idle" \/ h[o].pc # "idle"
\* the loop of agentbox: once a minute, when the token is near its end
BoxAsks(s) ==
    /\ box.on /\ box.ask = {} /\ s = FreeSlot /\ h[s].pc = "idle"
    /\ age[box.tok] \in {"near", "expired"}
    /\ box' = [box EXCEPT !.ask = {s}]
    /\ h' = [h EXCEPT ![s] = [IdleHandler EXCEPT !.pc = "check", !.tok = box.tok, !.sec = box.sec]]
    /\ UNCHANGED <<aud, row, st, age, deny, hist, failures>>

\* the ten seconds are over: the answer will not be heard
BoxGivesUp ==
    /\ box.ask # {} /\ Fault
    /\ box' = [box EXCEPT !.ask = {}]
    /\ hist' = [hist EXCEPT !.lost = TRUE]
    /\ UNCHANGED <<aud, row, h, st, age, deny>>

\* router: SELECT by secret and status.  akm: a token that was not revoked, and
\* a secret of agent_tokens, which is taken out; its own expiry is looked at after
\* Mut: an expired token is refused (allowExpired is left out)
MutUnexpired(s) == ~Expired(h[s].tok) /\ row.status = "running" /\ row.sec = h[s].sec
MayRenew(s) == IF aud = "router" THEN row.status = "running" /\ row.sec = h[s].sec
               ELSE h[s].tok \notin deny /\ h[s].sec \in row.stored
RefreshCheck(s) ==
    /\ h[s].pc = "check"
    /\ h' = IF MayRenew(s) /\ ~(aud = "akm" /\ Expired(h[s].sec))
            THEN [h EXCEPT ![s].pc = "store", ![s].old = IF aud = "router" THEN row.jti ELSE None]
            ELSE [h EXCEPT ![s].pc = "reply"]
    /\ row' = IF MayRenew(s) THEN [row EXCEPT !.stored = @ \ {h[s].sec}] ELSE row
    /\ hist' = [hist EXCEPT !.crossed = @ \/ (MayRenew(s) /\ \E o \in Slots : h[o].pc = "store")]
    /\ UNCHANGED <<aud, box, st, age, deny, failures>>

\* a new token; router: the UPDATE WHERE id, whatever the row has become
RefreshStore(s) ==
    LET n == NextToken IN
    /\ h[s].pc = "store" /\ Mint
    /\ row' = IF aud = "router" THEN [row EXCEPT !.jti = n, !.sec = n]
              ELSE [row EXCEPT !.stored = @ \cup {n}]
    /\ h' = [h EXCEPT ![s].pc = IF h[s].old = None THEN "reply" ELSE "revoke", ![s].new = n]
    /\ hist' = [hist EXCEPT !.crossed = @ \/ st.pc # "idle"]
    /\ UNCHANGED <<aud, box, st, deny, failures>>

\* the replaced token, by name; a failure is only logged
\* Mut: the token that was just stored
MutRevokeNew(s) == h[s].new
Replaced(s) == h[s].old
RefreshRevoke(s) ==
    /\ h[s].pc = "revoke"
    /\ \/ deny' = Denied(Replaced(s)) /\ UNCHANGED <<hist, failures>>
       \/ Fault /\ hist' = [hist EXCEPT !.loose = @ \cup {Replaced(s)}] /\ UNCHANGED deny
    /\ h' = [h EXCEPT ![s].pc = "reply"]
    /\ UNCHANGED <<aud, row, box, st, age>>

Renewed(n) == [box EXCEPT !.tok = n, !.sec = n, !.ask = {}]
RefreshReply(s) ==
    /\ h[s].pc = "reply"
    /\ box' = IF box.ask # {s} THEN box
              ELSE IF h[s].new = None THEN [box EXCEPT !.ask = {}] ELSE Renewed(h[s].new)
    /\ h' = [h EXCEPT ![s] = IdleHandler]
    /\ UNCHANGED <<aud, row, st, age, deny, hist, failures>>

\* the API restarts, or a query of the handler fails, in the middle of one
RefreshDies(s) ==
    /\ h[s].pc \in {"check", "store", "revoke"} /\ Fault
    /\ h' = [h EXCEPT ![s] = IdleHandler]
    /\ box' = IF box.ask = {s} THEN [box EXCEPT !.ask = {}] ELSE box
    /\ hist' = [hist EXCEPT !.lost = @ \/ h[s].new # None,
                            !.loose = IF h[s].pc = "revoke" THEN @ \cup {h[s].old} ELSE @]
    /\ UNCHANGED <<aud, row, st, age, deny>>
-----------------------------------------------------------------------------
TokenNext ==
    \/ \E n \in Tok : Age(n)
    \/ Start \/ StopRead \/ StopRevoke \/ StopRemove \/ StopWrite
    \/ \E s \in Slots : BoxAsks(s) \/ RefreshCheck(s) \/ RefreshStore(s) \/ RefreshRevoke(s)
                        \/ RefreshReply(s) \/ RefreshDies(s)
    \/ BoxGivesUp

\* The loop of the container is a timer, and handlers go on once they are called.
TokenSpec == /\ TokenInit /\ [][TokenNext]_tokenVars
             /\ WF_tokenVars(\E s \in Slots : BoxAsks(s))
             /\ \A s \in Slots : WF_tokenVars(RefreshCheck(s)) /\ WF_tokenVars(RefreshStore(s))
                            /\ WF_tokenVars(RefreshRevoke(s)) /\ WF_tokenVars(RefreshReply(s))
-----------------------------------------------------------------------------
(* Properties.                                                              *)

Quiet == \A s \in Slots : h[s].pc \notin {"store", "revoke", "reply"}

\* model-router-refresh.ts, token_refresh.py: between renewals the row's secret
\* is the one its container holds, so that the next renewal is accepted; unless
\* an answer was lost or a renewal crossed a start, a stop or another renewal.
SecretsAgree ==
    (aud = "router" /\ row.status = "running" /\ st.pc = "idle" /\ Quiet /\ ~hist.lost /\ ~hist.crossed)
        => row.sec = box.sec

\* model-router-refresh.ts, routes/agents.ts: a token that is not expired is
\* named by the agent's row, or it is in the denylist, or a handler is about to
\* put it there, or that call failed; unless a renewal was crossed.
NamedOrDenied ==
    (aud = "router" /\ ~hist.crossed) =>
        \A n \in Tok : age[n] \in {"fresh", "near"} =>
            \/ n = row.jti \/ n \in deny \/ n \in hist.loose
            \/ \E s \in Slots : h[s].pc = "revoke" /\ h[s].old = n

\* model-router-refresh.ts: through renewals, starts, stops and lost answers the
\* row keeps track of the token and the secret that are in use (the parts above).
RowKeepsTrack == SecretsAgree /\ NamedOrDenied

\* token_refresh.py, model-router-refresh.ts: the token of a running agent is
\* renewed, even if it was let expire, unless an answer was lost or crossed.
RouterTokenIsRenewed ==
    (aud = "router" /\ box.on /\ Expired(box.tok)) ~>
        (~box.on \/ ~Expired(box.tok) \/ hist.lost \/ hist.crossed \/ st.pc # "idle" \/ minted = MaxTokens)
-----------------------------------------------------------------------------
(* What the repository says, and the code does not keep.                    *)

\* token_refresh.py: the loop for knowledge tokens "renews tokens before the 1h
\* expiry".
AkmTokenIsRenewed ==
    (aud = "akm" /\ box.on /\ age[box.tok] = "near") ~>
        (~box.on \/ age[box.tok] = "fresh" \/ hist.lost \/ hist.crossed \/ st.pc # "idle" \/ minted = MaxTokens)
=============================================================================
