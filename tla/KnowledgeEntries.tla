-------------------------- MODULE KnowledgeEntries --------------------------
(***************************************************************************)
(* An agent's knowledge entry, services/knowledge: the row of               *)
(* knowledge_entries and the file that mirrors it, written one after the    *)
(* other (knowledge_store.py), and the reconciler, which brings the file    *)
(* after the row and quarantines what it cannot (reconciler.py).            *)
(*                                                                         *)
(* One path, today's journal, so that POST, PUT, DELETE and the journal all *)
(* meet.  An await is a step boundary; the file is written without one.  A  *)
(* body is the set of the writes it holds.                                  *)
(***************************************************************************)
EXTENDS Naturals, FiniteSets

CONSTANTS
    Writers,      \* requests at once
    MaxAttempts,  \* reconciler.py: 3
    MaxWrites,    \* bound: writes
    MaxFailures   \* bound: failed files and statements, restarts

ASSUME EntriesAssumption ==
    /\ Writers # {} /\ MaxAttempts \in Nat \ {0} /\ MaxWrites \in Nat /\ MaxFailures \in Nat

VARIABLES row, file, quarantine, req, rec, doubt, uses
entriesVars == <<row, file, quarantine, req, rec, doubt, uses>>
-----------------------------------------------------------------------------
Bodies == SUBSET (1..MaxWrites)
NoFile == {0}
Idle == [pc |-> "idle", body |-> {}, append |-> FALSE]
AtRest == [pc |-> "rest", body |-> {}, att |-> 0]

Entries == [status: {"none", "active", "archived"}, sync: {"pending", "synced", "error"},
            body: Bodies, att: 0..MaxAttempts]
Requests == [pc: {"idle", "read", "insert", "update", "write", "mark"},
             body: Bodies, append: BOOLEAN]
Passes == [pc: {"rest", "entry", "promote", "written", "set aside", "attempt", "disk", "rows"},
           body: Bodies, att: 0..MaxAttempts]
EntriesBounds == [writes: 0..MaxWrites, faults: 0..MaxFailures]

EntriesTypeOK ==
    /\ row \in Entries /\ file \in Bodies \cup {NoFile}
    /\ quarantine \in SUBSET {"entry", "orphan"}    \* the reasons
    /\ req \in [Writers -> Requests] /\ rec \in Passes /\ uses \in EntriesBounds
    /\ doubt \in BOOLEAN                       \* history: see Crossing and Lost

EntriesInit ==
    /\ row = [status |-> "none", sync |-> "pending", body |-> {}, att |-> 0]
    /\ file = NoFile /\ quarantine = {}
    /\ req = [w \in Writers |-> Idle] /\ rec = AtRest
    /\ doubt = FALSE
    /\ uses = [writes |-> 0, faults |-> 0]

Failure == uses.faults < MaxFailures /\ uses' = [uses EXCEPT !.faults = @ + 1]
-----------------------------------------------------------------------------
(* The routes.                                                              *)

\* POST and PUT of entries, an append to the journal
Request(w, pc) ==
    /\ req[w].pc = "idle" /\ uses.writes < MaxWrites
    /\ uses' = [uses EXCEPT !.writes = @ + 1]
    /\ req' = [req EXCEPT ![w] = [pc |-> pc, body |-> {uses'.writes}, append |-> pc = "read"]]
    /\ UNCHANGED <<row, file, quarantine, rec, doubt>>

\* append_journal: what is there with the new part after it, or a new entry
Appended(old, new) == old \cup new
JournalRead(w) ==
    /\ req[w].pc = "read"
    /\ req' = [req EXCEPT ![w] = IF row.status = "active"
                                 THEN [req[w] EXCEPT !.pc = "update", !.body = Appended(row.body, req[w].body)]
                                 ELSE [req[w] EXCEPT !.pc = "insert"]]
    /\ UNCHANGED <<row, file, quarantine, rec, doubt, uses>>

\* history: who is at the file of the row's body while another body takes its place
AtFile(w) == req[w].pc \in {"write", "mark"}
Crossing(w) == (\E o \in Writers \ {w} : AtFile(o)) \/ rec.pc \in {"entry", "promote", "written"}
\* Mut: a body is stored over a "synced" one
MutStays == row.sync
Unsynced == "pending"
Stored(w) ==
    /\ row' = [row EXCEPT !.status = "active", !.sync = Unsynced, !.body = req[w].body]
    /\ doubt' = Crossing(w)
    /\ req' = [req EXCEPT ![w].pc = "write"]
\* 409: the agent's save_knowledge then tries a PUT
Conflict(q) == {Idle} \cup IF q.append THEN {} ELSE {[q EXCEPT !.pc = "update"]}
\* UNIQUE (agent_id, path): an archived entry is still in the way
Insert(w) ==
    /\ req[w].pc = "insert"
    /\ \/ row.status = "none" /\ Stored(w)
       \/ row.status # "none" /\ req' \in {[req EXCEPT ![w] = q] : q \in Conflict(req[w])} /\ UNCHANGED <<row, doubt>>
    /\ UNCHANGED <<file, quarantine, rec, uses>>
Update(w) ==
    /\ req[w].pc = "update"
    /\ \/ row.status = "active" /\ Stored(w)
       \/ row.status # "active" /\ req' = [req EXCEPT ![w] = Idle] /\ UNCHANGED <<row, doubt>>
    /\ UNCHANGED <<file, quarantine, rec, uses>>

\* atomic_file_write, then sync_status; a failure leaves the row "pending".
\* history: a body is lost to its file if the one before it is left there
Lost(w) == req[w].pc = "write" /\ file # NoFile
WriteFailed(q) == Idle
Write(w) ==
    /\ req[w].pc = "write"
    /\ \/ file' = req[w].body /\ req' = [req EXCEPT ![w].pc = "mark"] /\ UNCHANGED <<doubt, uses>>
       \/ /\ Failure /\ req' = [req EXCEPT ![w] = WriteFailed(@)]
          /\ doubt' = (doubt \/ Lost(w)) /\ UNCHANGED file
    /\ UNCHANGED <<row, quarantine, rec>>
Mark(w) ==
    /\ req[w].pc = "mark"
    /\ \/ row' = [row EXCEPT !.sync = "synced"] /\ UNCHANGED uses
       \/ Failure /\ UNCHANGED row
    /\ req' = [req EXCEPT ![w] = Idle]
    /\ UNCHANGED <<file, quarantine, rec, doubt>>

\* DELETE: the row stays, and so does the file
Archive ==
    /\ row.status = "active"
    /\ row' = [row EXCEPT !.status = "archived"]
    /\ UNCHANGED <<file, quarantine, req, rec, doubt, uses>>
-----------------------------------------------------------------------------
(* reconcile: the pending entry, then the files of no entry.                *)

Pending ==
    /\ rec.pc = "rest"
    /\ rec' = IF row.status # "none" /\ row.sync = "pending"
              THEN [AtRest EXCEPT !.pc = "entry", !.body = row.body, !.att = row.att]
              ELSE [AtRest EXCEPT !.pc = "disk"]
    /\ doubt' = (doubt \/ (rec'.pc = "entry" /\ \E w \in Writers : req[w].pc = "write"))
    /\ UNCHANGED <<row, file, quarantine, req, uses>>
\* of a file that is there, any; of one that is not, what was read
Spent(att) == att >= MaxAttempts
Entry ==
    /\ rec.pc = "entry"
    /\ \/ /\ file # NoFile /\ rec' = [rec EXCEPT !.pc = "promote"]
          /\ UNCHANGED <<file, quarantine, uses>>
       \/ /\ file = NoFile /\ Spent(rec.att)
          /\ quarantine' = quarantine \cup {"entry"} /\ rec' = [rec EXCEPT !.pc = "set aside"]
          /\ UNCHANGED <<file, uses>>
       \/ /\ file = NoFile /\ ~Spent(rec.att)
          /\ \/ file' = rec.body /\ rec' = [rec EXCEPT !.pc = "written"] /\ UNCHANGED uses
             \/ Failure /\ rec' = [rec EXCEPT !.pc = "attempt"] /\ UNCHANGED file
          /\ UNCHANGED quarantine
    /\ UNCHANGED <<row, req, doubt>>
\* the row: "synced", "error" or one attempt more
\* Mut: a quarantined entry stays as it is
MutSetAside == row
SetAside == [row EXCEPT !.sync = "error"]
Concluded == CASE rec.pc \in {"promote", "written"} -> [row EXCEPT !.sync = "synced"]
               [] rec.pc = "set aside" -> SetAside
               [] rec.pc = "attempt" -> [row EXCEPT !.att = @ + 1]
Conclude ==
    /\ rec.pc \in {"promote", "written", "set aside", "attempt"}
    /\ row' = Concluded /\ rec' = [AtRest EXCEPT !.pc = "disk"]
    /\ UNCHANGED <<file, quarantine, req, doubt, uses>>
\* the statement after a retried write fails: that counts as a failed attempt
AttemptFails ==
    /\ rec.pc = "written" /\ Failure
    /\ rec' = [rec EXCEPT !.pc = "attempt"]
    /\ UNCHANGED <<row, file, quarantine, req, doubt>>

\* the disk first, then the rows: an entry that is being made is no orphan
\* Mut: the rows first
MutLook(k) == IF k = 1 THEN row.status = "none" ELSE file # NoFile
Look(k) == IF k = 1 THEN file # NoFile ELSE row.status = "none"
Disk ==
    /\ rec.pc = "disk"
    /\ rec' = IF Look(1) THEN [AtRest EXCEPT !.pc = "rows"] ELSE AtRest
    /\ UNCHANGED <<row, file, quarantine, req, doubt, uses>>
OrphanRows ==
    /\ rec.pc = "rows"
    /\ quarantine' = IF Look(2) /\ quarantine = {} THEN {"orphan"} ELSE quarantine
    /\ rec' = AtRest
    /\ UNCHANGED <<row, file, req, doubt, uses>>
\* a pass ends with the first statement that fails
PassFails ==
    /\ rec.pc # "rest" /\ Failure /\ rec' = AtRest
    /\ UNCHANGED <<row, file, quarantine, req, doubt>>
\* the service stops between any two steps, and starts
ServiceRestarts ==
    /\ Failure
    /\ req' = [w \in Writers |-> Idle] /\ rec' = AtRest
    /\ doubt' = (doubt \/ \E w \in Writers : Lost(w))
    /\ UNCHANGED <<row, file, quarantine>>
-----------------------------------------------------------------------------
Reconcile == Pending \/ Entry \/ Conclude \/ Disk \/ OrphanRows
EntriesNext ==
    \/ \E w \in Writers : \/ \E pc \in {"read", "insert", "update"} : Request(w, pc)
                          \/ JournalRead(w) \/ Insert(w) \/ Update(w) \/ Write(w) \/ Mark(w)
    \/ Archive \/ Reconcile \/ AttemptFails \/ PassFails \/ ServiceRestarts

\* _reconciler_loop is a timer.
EntriesSpec == EntriesInit /\ [][EntriesNext]_entriesVars /\ WF_entriesVars(Reconcile)
-----------------------------------------------------------------------------
(* Properties.                                                              *)

\* knowledge_store.py, reconciler.py: an entry says "synced" only if there is a
\* file, through failed writes, restarts and a reconciler at the same entry.
SyncedHasFile == row.sync = "synced" => file # NoFile

\* reconciler.py: the file of an entry is never quarantined as an orphan, also
\* when it is made between the reconciler's two lists.
NoFalseOrphan == "orphan" \notin quarantine

\* knowledge_store.py, reconciler.py: what says "synced" is what the file holds,
\* whichever of the two wrote it.  Not so of a body that was stored, or looked at
\* by the reconciler, while another was on its way to the file, nor of one whose
\* file was not written over an older one, which the reconciler then takes for
\* it; the next body that meets nobody mends both.
SyncedIsCurrent == row.sync = "synced" /\ ~doubt => file = row.body

\* knowledge_store.py, reconciler.py: the files mirror the entries (the three
\* parts above).
MirrorIsTrue == SyncedHasFile /\ NoFalseOrphan /\ SyncedIsCurrent

\* reconciler.py: an entry does not stay "pending": it is synced, or set aside
\* after its attempts.
PendingIsResolved == (row.status # "none" /\ row.sync = "pending") ~> row.sync # "pending"
=============================================================================
