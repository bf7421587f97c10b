------------------------------ MODULE Replies ------------------------------
(***************************************************************************)
(* What a chat thread promises to those who look at it, whatever handlers, *)
(* callbacks, retries, cancels, sweeps and restarts do underneath:         *)
(* messages appear one after the other; an agent is asked once about a     *)
(* message that is complete and that it did not write itself; a question   *)
(* that is open is answered, or given up, exactly once, and is not open    *)
(* for ever.  ChatReplies implements this.                                 *)
(***************************************************************************)
EXTENDS Naturals

CONSTANTS
    Agents,  \* those who may be asked
    User,    \* the author of the thread, not one of them
    Size     \* bound: messages of the thread

VARIABLES  \* of the message at each place
    st,      \* its state
    by,      \* its author
    to       \* the message it answers, or 0

thread == <<st, by, to>>

Places == 1..Size

Init == /\ st = [i \in Places |-> "none"]
        /\ by = [i \in Places |-> User]
        /\ to = [i \in Places |-> 0]
-----------------------------------------------------------------------------
\* the first free place
Free(i) == st[i] = "none" /\ \A j \in Places : j < i => st[j] # "none"

Say(i) ==
    /\ st' = [st EXCEPT ![i] = "complete"]
    /\ UNCHANGED <<by, to>>

Ask(i, r, a) ==
    /\ st[r] = "complete" /\ by[r] # a
    /\ ~\E j \in Places : to[j] = r /\ by[j] = a
    /\ st' = [st EXCEPT ![i] = "open"]
    /\ by' = [by EXCEPT ![i] = a]
    /\ to' = [to EXCEPT ![i] = r]

Opened == {i \in Places : st[i] = "open"}

Answer(i) ==
    /\ i \in Opened
    /\ st' = [st EXCEPT ![i] = "complete"]
    /\ UNCHANGED <<by, to>>

\* one or several questions at once
GiveUp(S) ==
    /\ S # {}
    /\ st' = [i \in Places |-> IF i \in S THEN "error" ELSE st[i]]
    /\ UNCHANGED <<by, to>>

End == (\E i \in Places : Answer(i)) \/ \E S \in SUBSET Opened : GiveUp(S)

Next ==
    \/ \E i \in Places :
          Free(i) /\ (Say(i) \/ \E r \in Places, a \in Agents : Ask(i, r, a))
    \/ End

\* A place is never used again, so an End that does not cease to come while
\* anything is open leaves nothing open.
Spec == Init /\ [][Next]_thread /\ WF_thread(End)
=============================================================================
