-------------------------- MODULE ConnectionProofs --------------------------
(***************************************************************************)
(* Proofs about what is kept between the API and a running container.      *)
(*                                                                         *)
(* Relays, for any number of agents, attempts, connections and faults: a   *)
(* response that is gone owns no stream and no timer, a tool recorded as    *)
(* installed is in the container, a live terminal session is minded.        *)
(*                                                                         *)
(* AgentTokens, for any number of refresh requests, tokens and faults: the  *)
(* row has the container's secret and every live token can be revoked.      *)
(***************************************************************************)
EXTENDS Relays, AgentTokens, FiniteSetTheorems, TLAPS

USE RelayAssumption
-----------------------------------------------------------------------------
(* The inductive invariants.                                                *)

CmdStates == {"none", "tar", "cp", "copying", "rm", "ok", "bad"}
InstallPcs == {"none", "check", "script", "wait", "good", "bad"}

\* An attempt that has no command yet, and those after it, find their places empty.
Placed(pcs, tries, cmds) ==
    \A i \in Installers, n \in 1..Tries :
        \/ n < tries[i]
        \/ n = tries[i] /\ pcs[i] \notin {"check", "script"}
        \/ pcs[i] = "none"
        \/ cmds[<<i, n>>] = "none"
\* What was copied is there, and a partial copy is still being made or was cut off.
FilledOnce ==
    /\ x.row = "installed" => x.bin # "none"
    /\ \A i \in Installers : x.pc[i] = "good" => x.bin # "none"
    /\ \A c \in Commands : x.cmd[c] \in {"copying", "rm", "ok"} => x.bin # "none"
    /\ x.bin = "partial" => x.torn \/ \E c \in Commands : x.cmd[c] = "copying"
    /\ Placed(x.pc, x.try, x.cmd)
InstallInv == x \in Installs /\ FilledOnce

\* A response that is gone with its cleanup registered was cleaned up, and the
\* handler's own flag says so to whatever it still awaits.
CleanedUp(r) ==
    (r.res = "gone" /\ ~r.early) => LiveOf(r) = {} /\ ~r.timers /\ (r.closed \/ r.pc = "none")
LogInv == l \in Logs /\ CleanedUp(l)
\* Nothing goes on in a container for a response of kind "logs".
NoTails == kind = "logs" => l.tails = {}
-----------------------------------------------------------------------------
(* Installing a tool.                                                       *)

RowStates == {"none", "installing", "installed", "failed"}
Bins == {"none", "partial", "whole"}
InstallersPcs == [Installers -> InstallPcs]
InstallersTries == [Installers -> 1..Tries]
CommandsStates == [Commands -> CmdStates]

\* The parts of an installation record, and what it takes to be one.
LEMMA InstallParts ==
    ASSUME x \in Installs
    PROVE  /\ x.row \in RowStates /\ x.pc \in InstallersPcs /\ x.try \in InstallersTries
           /\ x.cmd \in CommandsStates /\ x.tmp \in BOOLEAN /\ x.bin \in Bins /\ x.torn \in BOOLEAN
           /\ x.lost \in BOOLEAN
  BY DEF Installs, RowStates, InstallPcs, CmdStates, Bins, InstallersPcs, InstallersTries, CommandsStates

\* The place of an attempt's command is empty until the attempt runs it.
LEMMA PlaceIsEmpty ==
    ASSUME InstallInv, NEW i \in Installers
    PROVE  /\ Current(i) \in Commands /\ x.try[i] \in 1..Tries /\ x.cmd[Current(i)] \in CmdStates
           /\ x.pc[i] \in {"check", "script"} => x.cmd[Current(i)] = "none"
           /\ x.pc[i] \in InstallPcs
  <1>1. /\ x.try[i] \in 1..Tries /\ x.pc[i] \in InstallPcs
        /\ \A c \in Commands : x.cmd[c] \in CmdStates
    BY InstallParts DEF InstallInv, InstallersTries, InstallersPcs, CommandsStates
  <1>2. x.pc[i] \in {"check", "script"} => x.cmd[<<i, x.try[i]>>] = "none"
    BY <1>1 DEF InstallInv, FilledOnce, Placed
  <1> QED BY <1>1, <1>2 DEF Current, Commands

\* What one installer may do: to the row, its place, its attempt and its command.
Moved(i, r, p, k, w, b) ==
    x' = [x EXCEPT !.row = r, !.pc[i] = p, !.try[i] = k, !.cmd[Current(i)] = w, !.lost = b]
\* The command it leaves, and the places of those that are still to come.
Forgets(i, w) == w = x.cmd[Current(i)] \/ (w \in {"none", "tar"} /\ x.cmd[Current(i)] # "copying")
Empties(i, p, k, w) ==
    \A n \in 1..Tries :
        \/ n < k
        \/ n = k /\ p \notin {"check", "script"}
        \/ p = "none"
        \/ (IF n = x.try[i] THEN w ELSE x.cmd[<<i, n>>]) = "none"

\* What installers and a crash may do together.
AllMoved(r, p, k, m, b) == x' = [x EXCEPT !.row = r, !.pc = p, !.try = k, !.cmd = m, !.lost = b]
CopiesStay(m) ==
    \A c \in Commands : m[c] = x.cmd[c] \/ (m[c] \in {"none", "tar"} /\ x.cmd[c] # "copying")
GoodAreFilled(p) == \A i \in Installers : p[i] = "good" => x.bin # "none"

\* Installers move on, commands are forgotten or begun: what was copied stays.
LEMMA InstallMoves ==
    ASSUME InstallInv, NEW r \in RowStates, NEW p \in InstallersPcs, NEW k \in InstallersTries,
           NEW m \in CommandsStates, NEW b \in BOOLEAN,
           AllMoved(r, p, k, m, b), GoodAreFilled(p), CopiesStay(m), Placed(p, k, m),
           r = "installed" => x.bin # "none"
    PROVE  InstallInv'
  <1>1. x \in Installs
    BY DEF InstallInv
  <1>2. /\ x' \in Installs /\ x'.row = r /\ x'.pc = p /\ x'.try = k /\ x'.cmd = m
        /\ x'.bin = x.bin /\ x'.torn = x.torn
    BY <1>1 DEF AllMoved, Installs, RowStates, InstallPcs, CmdStates, InstallersPcs, InstallersTries, CommandsStates
  <1>3. FilledOnce'
    BY <1>2 DEF InstallInv, FilledOnce, Placed, GoodAreFilled, CopiesStay
  <1> QED BY <1>2, <1>3 DEF InstallInv

\* One installer moves on, with the command of its attempt.
LEMMA InstallerMoves ==
    ASSUME InstallInv, NEW i \in Installers, NEW r \in RowStates, NEW p \in InstallPcs,
           NEW k \in 1..Tries, NEW s \in CmdStates, NEW b \in BOOLEAN,
           Moved(i, r, p, k, s, b), Forgets(i, s), Empties(i, p, k, s),
           r = "installed" \/ p = "good" => x.bin # "none"
    PROVE  InstallInv'
  <1>1. x \in Installs /\ x.pc \in InstallersPcs /\ x.try \in InstallersTries /\ x.cmd \in CommandsStates
    BY InstallParts DEF InstallInv
  <1>2. Current(i) \in Commands /\ Current(i) = <<i, x.try[i]>>
    BY PlaceIsEmpty DEF Current
  <1> DEFINE pcs == [x.pc EXCEPT ![i] = p]
             tries == [x.try EXCEPT ![i] = k]
             cmds == [x.cmd EXCEPT ![Current(i)] = s]
  <1>3. /\ pcs \in InstallersPcs /\ pcs[i] = p
        /\ \A j \in Installers \ {i} : pcs[j] = x.pc[j]
    BY <1>1 DEF InstallersPcs
  <1>4. /\ tries \in InstallersTries /\ tries[i] = k
        /\ \A j \in Installers \ {i} : tries[j] = x.try[j]
    BY <1>1 DEF InstallersTries
  <1>5. /\ cmds \in CommandsStates /\ cmds[Current(i)] = s
        /\ \A c \in Commands \ {Current(i)} : cmds[c] = x.cmd[c]
    BY <1>1, <1>2 DEF CommandsStates
  <1>6. AllMoved(r, pcs, tries, cmds, b)
    BY DEF Moved, AllMoved
  <1>7. ASSUME NEW j \in Installers, NEW n \in 1..Tries
        PROVE  <<j, n>> \in Commands /\ (<<j, n>> = Current(i) <=> j = i /\ n = x.try[i])
    BY <1>2 DEF Commands
  <1> HIDE DEF pcs, tries, cmds
  <1>8. Placed(pcs, tries, cmds)
    <2> SUFFICES ASSUME NEW j \in Installers, NEW n \in 1..Tries
                 PROVE  \/ n < tries[j]
                        \/ n = tries[j] /\ pcs[j] \notin {"check", "script"}
                        \/ pcs[j] = "none"
                        \/ cmds[<<j, n>>] = "none"
      BY DEF Placed
    <2>1. CASE j = i
      <3>1. cmds[<<i, n>>] = IF n = x.try[i] THEN s ELSE x.cmd[<<i, n>>]
        BY <1>5, <1>7
      <3> QED BY <1>3, <1>4, <2>1, <3>1 DEF Empties
    <2>2. CASE j # i
      <3>1. pcs[j] = x.pc[j] /\ tries[j] = x.try[j] /\ cmds[<<j, n>>] = x.cmd[<<j, n>>]
        BY <1>3, <1>4, <1>5, <1>7, <2>2
      <3> QED BY <3>1 DEF InstallInv, FilledOnce, Placed
    <2> QED BY <2>1, <2>2
  <1>9. GoodAreFilled(pcs)
    BY <1>3 DEF InstallInv, FilledOnce, GoodAreFilled
  <1>10. CopiesStay(cmds)
    BY <1>5 DEF Forgets, CopiesStay
  <1> QED BY <1>3, <1>4, <1>5, <1>6, <1>8, <1>9, <1>10, InstallMoves

\* An installer that goes on with its attempt finds the later places empty.
LEMMA LaterAreEmpty ==
    ASSUME InstallInv, NEW i \in Installers, x.pc[i] # "none"
    PROVE  /\ \A n \in 1..Tries : n <= x.try[i] \/ x.cmd[<<i, n>>] = "none"
           /\ \A p \in InstallPcs \ {"check", "script"}, w \in CmdStates : Empties(i, p, x.try[i], w)
           /\ \A p \in InstallPcs : Empties(i, p, x.try[i], "none")
           /\ Forgets(i, x.cmd[Current(i)])
  <1>1. x.try[i] \in 1..Tries /\ Tries \in Nat
    BY PlaceIsEmpty
  <1>2. ASSUME NEW n \in 1..Tries
        PROVE  n <= x.try[i] \/ x.cmd[<<i, n>>] = "none"
    <2>1. \/ n < x.try[i]
          \/ n = x.try[i]
          \/ x.cmd[<<i, n>>] = "none"
      BY DEF InstallInv, FilledOnce, Placed
    <2> QED BY <1>1, <2>1
  <1>3. \A n \in 1..Tries : n < x.try[i] \/ n = x.try[i] \/ x.cmd[<<i, n>>] = "none"
    BY <1>1, <1>2
  <1> QED BY <1>2, <1>3 DEF Empties, Forgets

\* What an attempt leaves of its command when it throws.
LEMMA UnheardKeeps ==
    ASSUME NEW w \in CmdStates
    PROVE  Unheard(w) \in CmdStates /\ (Unheard(w) = w \/ (Unheard(w) = "none" /\ w # "copying"))
  BY DEF Unheard, CmdStates

\* An attempt that failed.
LEMMA AttemptFailsKeeps ==
    ASSUME InstallInv, NEW i \in Installers, x.pc[i] # "none", AttemptFails(i)
    PROVE  InstallInv'
  <1> DEFINE s == Unheard(x.cmd[Current(i)])
  <1>1. /\ x \in Installs /\ x.row \in RowStates /\ x.lost \in BOOLEAN
        /\ x.try[i] \in 1..Tries /\ (x.row = "installed" => x.bin # "none")
    BY InstallParts, PlaceIsEmpty DEF InstallInv, FilledOnce
  <1>2. s \in CmdStates /\ Forgets(i, s)
    BY PlaceIsEmpty, UnheardKeeps DEF Forgets
  <1>3. Moved(i, x.row, "bad", x.try[i], s, x.lost)
    BY <1>1 DEF AttemptFails, Installs, Moved
  <1> HIDE DEF s
  <1>4. "bad" \in InstallPcs /\ "bad" \notin {"check", "script"}
    BY DEF InstallPcs
  <1>5. Empties(i, "bad", x.try[i], s)
    BY <1>2, <1>4, LaterAreEmpty
  <1> QED BY <1>1, <1>2, <1>3, <1>4, <1>5, InstallerMoves

\* A request begins: its earlier commands are all forgotten.
LEMMA BeginKeeps ==
    ASSUME InstallInv, NEW i \in Installers, InstallBegin(i)
    PROVE  InstallInv'
  <1>1. x \in Installs /\ \A n \in 1..Tries : x.cmd[<<i, n>>] = "none"
    BY DEF InstallInv, InstallBegin
  <1>2. x.cmd[Current(i)] = "none" /\ 1 \in 1..Tries
    BY <1>1, PlaceIsEmpty DEF Current
  <1>3. Moved(i, "installing", "check", 1, "none", FALSE)
    <2>1. x' = [x EXCEPT !.row = "installing", !.pc[i] = "check", !.try[i] = 1,
                         !.cmd[Current(i)] = x.cmd[Current(i)], !.lost = FALSE]
      BY <1>1 DEF InstallBegin, Installs
    <2> QED BY <1>2, <2>1 DEF Moved
  <1>4. "installing" \in RowStates /\ "check" \in InstallPcs /\ "none" \in CmdStates
    BY DEF RowStates, InstallPcs, CmdStates
  <1>5. Forgets(i, "none") /\ Empties(i, "check", 1, "none")
    BY <1>1, <1>2 DEF Forgets, Empties
  <1> QED BY <1>2, <1>3, <1>4, <1>5, InstallerMoves

\* A failure is recorded, or is not.
LEMMA FailedKeeps ==
    ASSUME InstallInv, NEW i \in Installers, InstallFailed(i)
    PROVE  InstallInv'
  <1> DEFINE s == x.cmd[Current(i)]
  <1>1. /\ x \in Installs /\ x.row \in RowStates /\ x.lost \in BOOLEAN /\ x.pc[i] = "bad"
        /\ x.try[i] \in 1..Tries /\ s \in CmdStates /\ (x.row = "installed" => x.bin # "none")
    BY InstallParts, PlaceIsEmpty DEF InstallInv, FilledOnce, InstallFailed
  <1>2. /\ \A n \in 1..Tries : n <= x.try[i] \/ x.cmd[<<i, n>>] = "none"
        /\ Forgets(i, s)
    BY <1>1, LaterAreEmpty
  <1>3. \A r \in {"installing", "failed"} : r \in RowStates
    BY DEF RowStates
  <1>4. \A p \in {"check", "none"} : p \in InstallPcs
    BY DEF InstallPcs
  <1>5. Empties(i, "none", x.try[i], s)
    BY DEF Empties
  <1>6. CASE x.try[i] < Tries /\ x' = [x EXCEPT !.row = "installing", !.pc[i] = "check", !.try[i] = @ + 1]
    <2>1. PICK k \in 1..Tries : k = x.try[i] + 1
      BY <1>1, <1>6
    <2>2. Moved(i, "installing", "check", k, s, x.lost)
      BY <1>1, <1>6, <2>1 DEF Installs, Moved
    <2> HIDE DEF s
    <2>3. \A n \in 1..Tries : n < k \/ (n # x.try[i] /\ x.cmd[<<i, n>>] = "none")
      BY <1>1, <1>2, <2>1
    <2>4. Empties(i, "check", k, s)
      BY <2>3 DEF Empties
    <2> QED BY <1>1, <1>2, <1>3, <1>4, <2>2, <2>4, InstallerMoves DEF s
  <1>7. CASE Done(i, "failed")
    <2>1. Moved(i, "failed", "none", x.try[i], s, x.lost)
      BY <1>1, <1>7 DEF Done, Installs, Moved
    <2> QED BY <1>1, <1>2, <1>3, <1>4, <1>5, <2>1, InstallerMoves
  <1>8. CASE x' = [x EXCEPT !.pc[i] = "none", !.lost = TRUE]
    <2>1. Moved(i, x.row, "none", x.try[i], s, TRUE)
      BY <1>1, <1>8 DEF Installs, Moved
    <2> QED BY <1>1, <1>2, <1>4, <1>5, <2>1, InstallerMoves
  <1> QED BY <1>6, <1>7, <1>8 DEF InstallFailed

\* The API dies: its installers are gone, and what they waited for is unheard.
LEMMA CrashKeeps ==
    ASSUME InstallInv, InstallerCrash
    PROVE  InstallInv'
  <1> DEFINE p == [i \in Installers |-> "none"]
             m == [c \in Commands |-> Unheard(x.cmd[c])]
  <1>1. /\ x \in Installs /\ x.row \in RowStates /\ x.cmd \in CommandsStates /\ x.try \in InstallersTries
        /\ x.row = "installed" => x.bin # "none"
    BY InstallParts DEF InstallInv, FilledOnce
  <1>2. p \in InstallersPcs /\ \A i \in Installers : p[i] = "none"
    BY DEF InstallersPcs, InstallPcs
  <1>3. \A c \in Commands : x.cmd[c] \in CmdStates
    BY <1>1 DEF CommandsStates
  <1>4. m \in CommandsStates /\ CopiesStay(m)
    BY <1>3, UnheardKeeps DEF CommandsStates, CopiesStay
  <1>5. AllMoved(x.row, p, x.try, m, TRUE)
    BY <1>1 DEF InstallerCrash, Installs, AllMoved
  <1> HIDE DEF p, m
  <1>6. Placed(p, x.try, m) /\ GoodAreFilled(p)
    BY <1>2 DEF Placed, GoodAreFilled
  <1> QED BY <1>1, <1>2, <1>4, <1>5, <1>6, InstallMoves

\* A command changes, and with it the files.
LEMMA CommandChanges ==
    ASSUME InstallInv, NEW c \in Commands, NEW s \in CmdStates, NEW m \in BOOLEAN, NEW b \in Bins,
           NEW u \in BOOLEAN, x.cmd[c] # "none",
           x' = [x EXCEPT !.cmd[c] = s, !.tmp = m, !.bin = b, !.torn = u],
           s \in {"copying", "rm", "ok"} => b # "none",
           x.bin # "none" => b # "none", x.torn => u,
           b = "partial" => s = "copying" \/ u \/ (x.bin = "partial" /\ x.cmd[c] # "copying")
    PROVE  InstallInv'
  <1>1. x \in Installs /\ x.cmd \in [Commands -> CmdStates]
    BY InstallParts DEF InstallInv, CommandsStates
  <1> DEFINE cmds == [x.cmd EXCEPT ![c] = s]
  <1>2. cmds \in [Commands -> CmdStates]
    BY <1>1
  <1>3. x' = [x EXCEPT !.cmd = cmds, !.tmp = m, !.bin = b, !.torn = u]
    OBVIOUS
  <1>4. cmds[c] = s /\ \A d \in Commands \ {c} : cmds[d] = x.cmd[d]
    BY <1>1
  <1> HIDE DEF cmds
  <1>5. /\ x' \in Installs /\ x'.row = x.row /\ x'.pc = x.pc /\ x'.try = x.try /\ x'.cmd = cmds
        /\ x'.bin = b /\ x'.torn = u
    BY <1>1, <1>2, <1>3 DEF Installs, CmdStates, Bins
  <1>6. \A i \in Installers, n \in 1..Tries : <<i, n>> \in Commands
    BY DEF Commands
  <1>7. FilledOnce'
    BY <1>1, <1>4, <1>5, <1>6 DEF InstallInv, FilledOnce, Placed
  <1> QED BY <1>5, <1>7 DEF InstallInv

\* The end of a command, heard or not.
LEMMA ResultKept ==
    ASSUME NEW c \in Commands, NEW w \in {"ok", "bad"}
    PROVE  Result(c, w) \in CmdStates /\ Result(c, w) \in {"none", w}
  BY DEF Result, CmdStates

\* A step of a command, in the order of the script; or it fails.
LEMMA CommandStepKeeps ==
    ASSUME InstallInv, NEW c \in Commands, CommandStep(c) \/ CommandFails(c)
    PROVE  InstallInv'
  <1>1. x \in Installs /\ x.cmd[c] \in CmdStates /\ x.tmp \in BOOLEAN /\ x.bin \in Bins /\ x.torn \in BOOLEAN
    BY InstallParts DEF InstallInv, CommandsStates
  <1>2. x.cmd[c] \in {"copying", "rm", "ok"} => x.bin # "none"
    BY DEF InstallInv, FilledOnce
  <1>3. CASE CommandStep(c)
    <2>1. CASE x.cmd[c] = "tar"
      <3>1. x' = [x EXCEPT !.cmd[c] = "cp", !.tmp = TRUE, !.bin = x.bin, !.torn = x.torn]
        BY <1>1, <1>3, <2>1 DEF CommandStep, Installs
      <3> QED BY <1>1, <2>1, <3>1, CommandChanges DEF CmdStates
    <2>2. CASE x.cmd[c] = "cp" /\ x.tmp
      <3>1. x' = [x EXCEPT !.cmd[c] = "copying", !.tmp = x.tmp, !.bin = "partial", !.torn = x.torn]
        BY <1>1, <1>3, <2>2 DEF CommandStep, Installs
      <3> QED BY <1>1, <2>2, <3>1, CommandChanges DEF CmdStates, Bins
    <2>3. CASE x.cmd[c] = "cp" /\ ~x.tmp
      <3>1. PICK s \in CmdStates : s = Result(c, "bad") /\ s \in {"none", "bad"}
        BY ResultKept
      <3>2. x' = [x EXCEPT !.cmd[c] = s, !.tmp = x.tmp, !.bin = x.bin, !.torn = x.torn]
        BY <1>1, <1>3, <2>3, <3>1 DEF CommandStep, Installs
      <3> QED BY <1>1, <2>3, <3>1, <3>2, CommandChanges
    <2>4. CASE x.cmd[c] = "copying"
      <3>1. x' = [x EXCEPT !.cmd[c] = "rm", !.tmp = x.tmp, !.bin = "whole", !.torn = x.torn]
        BY <1>1, <1>3, <2>4 DEF CommandStep, Installs
      <3> QED BY <1>1, <2>4, <3>1, CommandChanges DEF CmdStates, Bins
    <2>5. CASE x.cmd[c] = "rm"
      <3>1. PICK s \in CmdStates : s = Result(c, "ok") /\ s \in {"none", "ok"}
        BY ResultKept
      <3>2. x' = [x EXCEPT !.cmd[c] = s, !.tmp = FALSE, !.bin = x.bin, !.torn = x.torn]
        BY <1>1, <1>3, <2>5, <3>1 DEF CommandStep, Installs
      <3> QED BY <1>1, <1>2, <2>5, <3>1, <3>2, CommandChanges
    <2> QED BY <1>1, <1>3, <2>1, <2>2, <2>3, <2>4, <2>5 DEF CommandStep, CmdStates
  <1>4. CASE CommandFails(c)
    <2>1. PICK s \in CmdStates : s = Result(c, "bad") /\ s \in {"none", "bad"}
      BY ResultKept
    <2>2. PICK u \in BOOLEAN : u = (x.torn \/ x.cmd[c] = "copying")
      BY <1>1
    <2>3. x' = [x EXCEPT !.cmd[c] = s, !.tmp = x.tmp, !.bin = x.bin, !.torn = u]
      BY <1>1, <1>4, <2>1, <2>2 DEF CommandFails, Installs
    <2>4. x.cmd[c] # "none" /\ (x.torn => u) /\ (x.cmd[c] = "copying" => u)
      BY <1>4, <2>2 DEF CommandFails
    <2>5. s \notin {"copying", "rm", "ok"}
      BY <2>1
    <2> QED BY <1>1, <2>3, <2>4, <2>5, CommandChanges
  <1> QED BY <1>3, <1>4

\* The container stops: what was being copied is torn.
LEMMA StopKeeps ==
    ASSUME InstallInv, ContainerStops
    PROVE  InstallInv'
  <1>1. x \in Installs /\ x.cmd \in [Commands -> CmdStates] /\ x.torn \in BOOLEAN
    BY InstallParts DEF InstallInv, CommandsStates
  <1> DEFINE cmds == [c \in Commands |-> IF x.cmd[c] \in {"none", "ok"} THEN x.cmd[c] ELSE Result(c, "bad")]
             cut == x.torn \/ \E c \in Commands : x.cmd[c] = "copying"
  <1>2. cmds \in [Commands -> CmdStates] /\ cut \in BOOLEAN
    BY <1>1, ResultKept DEF CmdStates
  <1>3. x' = [x EXCEPT !.tmp = FALSE, !.cmd = cmds, !.torn = cut]
    BY DEF ContainerStops
  <1>4. /\ \A c \in Commands : cmds[c] \in {"copying", "rm", "ok"} => x.cmd[c] = "ok"
        /\ \A c \in Commands : x.cmd[c] = "none" => cmds[c] = "none"
    BY ResultKept
  <1>5. x.bin = "partial" => cut
    BY DEF InstallInv, FilledOnce
  <1> HIDE DEF cmds, cut
  <1>6. /\ x' \in Installs /\ x'.row = x.row /\ x'.pc = x.pc /\ x'.try = x.try /\ x'.cmd = cmds
        /\ x'.bin = x.bin /\ x'.torn = cut
    BY <1>1, <1>2, <1>3 DEF Installs, CmdStates
  <1>7. \A i \in Installers, n \in 1..Tries : <<i, n>> \in Commands
    BY DEF Commands
  <1>8. FilledOnce'
    BY <1>4, <1>5, <1>6, <1>7 DEF InstallInv, FilledOnce, Placed
  <1> QED BY <1>6, <1>8 DEF InstallInv

\* The steps of an installer.
LEMMA InstallStepsKeep ==
    ASSUME InstallInv, NEW i \in Installers, InstallSteps(i)
    PROVE  InstallInv'
  <1> DEFINE s == x.cmd[Current(i)]
  <1>1. /\ x \in Installs /\ x.row \in RowStates /\ x.lost \in BOOLEAN
        /\ x.try[i] \in 1..Tries /\ s \in CmdStates /\ (x.row = "installed" => x.bin # "none")
    BY InstallParts, PlaceIsEmpty DEF InstallInv, FilledOnce
  <1>2. /\ \A p \in {"none", "good", "script", "wait"} : p \in InstallPcs
        /\ "installed" \in RowStates /\ "none" \in CmdStates /\ "tar" \in CmdStates
        /\ \A p \in {"good", "wait"} : p \in InstallPcs \ {"check", "script"}
    BY DEF InstallPcs, RowStates, CmdStates
  <1>3. CASE InstallCheck(i)
    <2>1. CASE AttemptFails(i)
      BY <1>3, <2>1, AttemptFailsKeeps DEF InstallCheck
    <2>2. CASE x' = [x EXCEPT !.pc[i] = IF Runs THEN "good" ELSE "script"]
      <3>1. PICK p \in {"good", "script"} : p = (IF Runs THEN "good" ELSE "script")
        OBVIOUS
      <3>2. x.pc[i] # "none" /\ s = "none"
        BY <1>3, PlaceIsEmpty DEF InstallCheck
      <3>3. Moved(i, x.row, p, x.try[i], "none", x.lost)
        <4>1. x' = [x EXCEPT !.row = x.row, !.pc[i] = p, !.try[i] = x.try[i],
                             !.cmd[Current(i)] = x.cmd[Current(i)], !.lost = x.lost]
          BY <1>1, <2>2, <3>1 DEF Installs
        <4> QED BY <3>2, <4>1 DEF Moved
      <3>4. p = "good" => x.bin # "none"
        BY <3>1 DEF Runs
      <3>5. Empties(i, p, x.try[i], "none") /\ Forgets(i, "none")
        BY <1>2, <3>2, LaterAreEmpty
      <3> QED BY <1>1, <1>2, <3>1, <3>3, <3>4, <3>5, InstallerMoves
    <2> QED BY <1>3, <2>1, <2>2 DEF InstallCheck
  <1>4. CASE InstallScript(i)
    <2>1. Moved(i, x.row, "wait", x.try[i], "tar", x.lost)
      BY <1>1, <1>4 DEF InstallScript, Installs, Moved
    <2>2. x.pc[i] # "none" /\ s = "none"
      BY <1>4, PlaceIsEmpty DEF InstallScript
    <2>3. Empties(i, "wait", x.try[i], "tar") /\ Forgets(i, "tar")
      BY <1>2, <2>2, LaterAreEmpty DEF Forgets
    <2> QED BY <1>1, <1>2, <2>1, <2>3, InstallerMoves
  <1>5. CASE StreamEnds(i)
    <2>1. CASE ExitsWell(s)
      <3>1. x.bin # "none" /\ s = "ok" /\ x.pc[i] # "none"
        BY <1>5, <2>1, PlaceIsEmpty DEF StreamEnds, Waits, ExitsWell, InstallInv, FilledOnce
      <3>2. Moved(i, x.row, "good", x.try[i], "none", x.lost)
        <4>1. x' = [x EXCEPT !.pc[i] = "good", !.cmd[Current(i)] = "none"]
          BY <1>5, <2>1 DEF StreamEnds
        <4> QED BY <1>1, <4>1 DEF Installs, Moved
      <3>3. Empties(i, "good", x.try[i], "none") /\ Forgets(i, "none")
        BY <1>2, <3>1, LaterAreEmpty DEF Forgets
      <3> QED BY <1>1, <1>2, <3>1, <3>2, <3>3, InstallerMoves
    <2>2. CASE ~ExitsWell(s)
      BY <1>5, <2>2, AttemptFailsKeeps DEF StreamEnds, Waits
    <2> QED BY <2>1, <2>2
  <1>6. CASE CommandTimesOut(i)
    BY <1>6, AttemptFailsKeeps DEF CommandTimesOut, TimerArmed, Waits
  <1>7. CASE InstallDone(i)
    <2>1. CASE AttemptFails(i)
      BY <1>7, <2>1, AttemptFailsKeeps DEF InstallDone
    <2>2. CASE Done(i, "installed")
      <3>1. x.bin # "none" /\ x.pc[i] # "none"
        BY <1>7 DEF InstallDone, InstallInv, FilledOnce
      <3>2. Moved(i, "installed", "none", x.try[i], s, x.lost)
        BY <1>1, <2>2 DEF Done, Installs, Moved
      <3>3. Empties(i, "none", x.try[i], s) /\ Forgets(i, s)
        BY DEF Empties, Forgets
      <3> QED BY <1>1, <1>2, <3>1, <3>2, <3>3, InstallerMoves
    <2> QED BY <1>7, <2>1, <2>2 DEF InstallDone
  <1>8. CASE InstallFailed(i)
    BY <1>8, FailedKeeps
  <1> QED BY <1>3, <1>4, <1>5, <1>6, <1>7, <1>8 DEF InstallSteps
-----------------------------------------------------------------------------
(* Streams of a container's log.                                            *)

LogPcs == {"none", "lookup", "backfill", "exec", "live", "done"}
Results == {"open", "ended", "gone"}
Sources == [Agents -> Streams]

\* The parts of a stream's record.
LEMMA LogParts ==
    ASSUME NEW r \in Logs
    PROVE  /\ r.pc \in LogPcs /\ r.res \in Results /\ r.reg \in BOOLEAN /\ r.closed \in BOOLEAN
           /\ r.todo \in SUBSET Agents /\ r.src \in Sources /\ r.paused \in SUBSET Agents
           /\ r.waiting \in BOOLEAN /\ r.timers \in BOOLEAN /\ r.q \in 0..(Cap + 2)
           /\ r.over \in BOOLEAN /\ r.early \in BOOLEAN /\ r.tails \in SUBSET Agents
  BY DEF Logs, LogPcs, Results, Sources

\* What is destroyed is not live, and stays what it was otherwise.
LEMMA DestroyedIsDead ==
    ASSUME NEW r \in Logs
    PROVE  /\ Destroyed(r) \in Logs /\ LiveOf(Destroyed(r)) = {} /\ Destroyed(r).timers = r.timers
           /\ Destroyed(r).closed = r.closed /\ Destroyed(r).res = r.res /\ Destroyed(r).pc = r.pc
           /\ Destroyed(r).early = r.early /\ Destroyed(r).q = r.q
           /\ kind = "logs" => Destroyed(r).tails = r.tails
  <1> DEFINE s == [a \in Agents |-> IF r.src[a] = "live" THEN "dead" ELSE r.src[a]]
             w == r.tails \cup Left(LiveOf(r))
  <1>1. r.src \in Sources /\ r.tails \in SUBSET Agents
    BY LogParts
  <1>2. s \in Sources /\ \A a \in Agents : s[a] # "live"
    BY <1>1 DEF Sources, Streams
  <1>3. w \in SUBSET Agents /\ (kind = "logs" => w = r.tails)
    BY <1>1 DEF Left, LiveOf
  <1>4. [a \in Agents |-> IF r.src[a] = "live" THEN "dead" ELSE r.src[a]] = s
    OBVIOUS
  <1>5. Destroyed(r) = [r EXCEPT !.src = s, !.paused = {}, !.tails = w]
    BY <1>1 DEF Destroyed, Sources
  <1> HIDE DEF s, w
  <1> DEFINE o == [r EXCEPT !.src = s, !.paused = {}, !.tails = w]
  <1>6. /\ o \in Logs /\ o.src = s /\ o.timers = r.timers /\ o.closed = r.closed /\ o.res = r.res
        /\ o.pc = r.pc /\ o.early = r.early /\ o.q = r.q /\ o.tails = w
    BY <1>2, <1>3 DEF Logs, Sources
  <1> HIDE DEF o
  <1>7. Destroyed(r) = o
    BY <1>5 DEF o
  <1> QED BY <1>2, <1>3, <1>6, <1>7 DEF LiveOf

\* cleanup() leaves nothing behind.
LEMMA CleanupCleans ==
    ASSUME NEW r \in Logs
    PROVE  /\ Cleanup(r) \in Logs /\ LiveOf(Cleanup(r)) = {} /\ ~Cleanup(r).timers
           /\ Cleanup(r).closed /\ Cleanup(r).res = r.res /\ Cleanup(r).pc = r.pc
           /\ Cleanup(r).early = r.early /\ Cleanup(r).q = r.q
           /\ kind = "logs" => Cleanup(r).tails = r.tails
  <1> DEFINE d == Destroyed(r)
  <1>1. /\ d \in Logs /\ LiveOf(d) = {} /\ d.res = r.res /\ d.pc = r.pc
        /\ d.early = r.early /\ d.q = r.q /\ (kind = "logs" => d.tails = r.tails)
    BY DestroyedIsDead
  <1>2. Cleanup(r) = [d EXCEPT !.closed = TRUE, !.timers = FALSE]
    BY DEF Cleanup
  <1> HIDE DEF d
  <1> DEFINE o == [d EXCEPT !.closed = TRUE, !.timers = FALSE]
  <1>3. /\ o \in Logs /\ o.src = d.src /\ ~o.timers /\ o.closed /\ o.res = d.res /\ o.pc = d.pc
        /\ o.early = d.early /\ o.q = d.q /\ o.tails = d.tails
    BY <1>1 DEF Logs
  <1> HIDE DEF o
  <1>4. Cleanup(r) = o
    BY <1>2 DEF o
  <1> QED BY <1>1, <1>3, <1>4 DEF LiveOf

\* res.end(), once.
LEMMA EndResKeeps ==
    ASSUME NEW r \in Logs
    PROVE  /\ EndRes(r) \in Logs /\ EndRes(r).res = (IF r.res = "open" THEN "ended" ELSE r.res)
           /\ EndRes(r).src = r.src /\ EndRes(r).timers = r.timers /\ EndRes(r).closed = r.closed
           /\ EndRes(r).pc = r.pc /\ EndRes(r).early = r.early /\ EndRes(r).tails = r.tails
  BY DEF EndRes, Logs

\* The writer does not touch a response that is gone, and never makes one so.
LEMMA SseWriteKeeps ==
    ASSUME NEW r \in Logs
    PROVE  /\ SseWrite(r) \in Logs /\ (SseWrite(r).res = "gone" => SseWrite(r) = r)
           /\ kind = "logs" => SseWrite(r).tails = r.tails
  <1>1. CASE r.over \/ r.res # "open"
    BY <1>1 DEF SseWrite
  <1>2. CASE ~(r.over \/ r.res # "open") /\ r.q > Cap
    <2>1. PICK b \in BOOLEAN : b = (IF kind = "thread" THEN TRUE ELSE r.closed)
      BY LogParts
    <2> DEFINE c == Cleanup(r)
               o == [c EXCEPT !.closed = b, !.over = TRUE]
    <2>2. c \in Logs /\ c.res = "open" /\ (kind = "logs" => c.tails = r.tails)
      BY <1>2, CleanupCleans
    <2>3. SseWrite(r) = EndRes(o)
      BY <1>2, <2>1 DEF SseWrite, Overflow
    <2> HIDE DEF c
    <2>4. o \in Logs /\ o.res = "open" /\ o.tails = c.tails
      BY <2>1, <2>2 DEF Logs
    <2> HIDE DEF o
    <2> QED BY <2>2, <2>3, <2>4, EndResKeeps
  <1>3. CASE ~(r.over \/ r.res # "open") /\ ~(r.q > Cap)
    <2>1. PICK p \in SUBSET Agents : p = (IF r.q + 1 > High /\ ~r.waiting THEN LiveOf(r) ELSE r.paused)
      BY LogParts DEF LiveOf
    <2>2. PICK w \in BOOLEAN : w = (r.waiting \/ r.q + 1 > High)
      BY LogParts
    <2>3. PICK n \in 0..(Cap + 2) : n = r.q + 1
      BY <1>3, LogParts
    <2>4. SseWrite(r) = [r EXCEPT !.q = n, !.paused = p, !.waiting = w]
      BY <1>3, <2>1, <2>2, <2>3 DEF SseWrite
    <2> QED BY <1>3, <2>4 DEF Logs
  <1> QED BY <1>1, <1>2, <1>3

\* The end of the handler's awaits: it arms timers unless the response is closed.
LEMMA StartedKeeps ==
    ASSUME NEW r \in Logs
    PROVE  /\ Started(r) \in Logs /\ Started(r).res = r.res /\ Started(r).early = r.early
           /\ Started(r).tails = r.tails
  <1>1. PICK b \in BOOLEAN : b = (kind = "events" \/ (kind = "thread" /\ r.res = "open"))
    OBVIOUS
  <1>2. Started(r) = [r EXCEPT !.pc = "live", !.timers = b]
    BY <1>1 DEF Started
  <1> QED BY <1>2 DEF Logs

\* A response with an end to come, or whose handler came too late, owes nothing yet.
LEMMA NotGoneIsClean ==
    ASSUME NEW r \in Logs, r.res # "gone" \/ r.early
    PROVE  CleanedUp(r)
  BY DEF CleanedUp

\* The queries that come before the stream, and the stream itself or its failure:
\* after the client left, 'closed' keeps the handler from adopting what it opened.
LEMMA LogOpens ==
    ASSUME LogInv, \/ LogOpen \/ LogLookup \/ LogBackfill
                   \/ \E a \in Agents : LogExec(a) \/ LogExecFails(a)
    PROVE  LogInv'
  <1>0. l \in Logs /\ CleanedUp(l)
    BY DEF LogInv
  <1>1. CASE LogOpen
    <2>1. NewLog \in Logs
      BY DEF NewLog, Logs, Streams
    <2> HIDE DEF NewLog
    <2>2. l' = [NewLog EXCEPT !.pc = "lookup", !.res = "open", !.tails = l.tails] /\ l.tails \in SUBSET Agents
      BY <1>0, <1>1, LogParts DEF LogOpen
    <2>3. l' \in Logs /\ l'.res = "open"
      BY <2>1, <2>2 DEF Logs
    <2> QED BY <2>3, NotGoneIsClean DEF LogInv
  <1>2. CASE LogLookup
    <2>1. PICK A \in SUBSET Agents :
             l' = IF kind = "events" THEN [l EXCEPT !.pc = "backfill", !.todo = A]
                  ELSE Registers([l EXCEPT !.todo = A])
      BY <1>2 DEF LogLookup
    <2>2. /\ l' \in Logs /\ l'.res = l.res /\ l'.early = l.early /\ l'.src = l.src /\ l'.timers = l.timers
          /\ l'.closed = l.closed
      BY <1>0, <2>1 DEF Registers, Logs
    <2> QED BY <1>0, <1>2, <2>2 DEF LogLookup, LogInv, CleanedUp, LiveOf
  <1>3. CASE LogBackfill
    <2>1. PICK n \in 0..(Cap + 2) : n = (IF l.res = "open" /\ l.q <= Cap THEN l.q + 1 ELSE l.q)
      BY <1>0, LogParts
    <2>2. l' = [l EXCEPT !.q = n, !.reg = TRUE, !.pc = "exec"]
      BY <1>0, <1>3, <2>1 DEF LogBackfill, Registers, Logs
    <2>3. /\ l' \in Logs /\ l'.res = l.res /\ l'.early = l.early /\ l'.src = l.src /\ l'.timers = l.timers
          /\ l'.closed = l.closed
      BY <1>0, <2>2 DEF Logs
    <2> QED BY <1>0, <1>3, <2>3 DEF LogBackfill, LogInv, CleanedUp, LiveOf
  <1>4. ASSUME NEW a \in Agents, LogExec(a)
        PROVE  LogInv'
    <2> DEFINE s == [l.src EXCEPT ![a] = IF l.closed THEN "dead" ELSE "live"]
               out == [Adopt(l, a) EXCEPT !.todo = @ \ {a}]
    <2>1. s \in Sources /\ (l.closed => \A b \in Agents : s[b] = "live" => l.src[b] = "live")
      BY <1>0, LogParts DEF Sources, Streams
    <2>2. PICK w \in SUBSET Agents : Adopt(l, a) = [l EXCEPT !.src = s, !.tails = w]
      <3>1. l.tails \in SUBSET Agents /\ Left({a}) \in SUBSET Agents
        BY <1>0, LogParts DEF Left
      <3>2. l.tails \cup Left({a}) \in SUBSET Agents
        BY <3>1
      <3>3. CASE l.closed
        BY <3>2, <3>3 DEF Adopt
      <3>4. CASE ~l.closed
        <4>1. Adopt(l, a) = [l EXCEPT !.src = s, !.tails = l.tails]
          BY <1>0, <3>4 DEF Adopt, Logs
        <4> QED BY <3>1, <4>1
      <3> QED BY <3>3, <3>4
    <2>3. l.pc = "exec" /\ l' = IF l.closed THEN [out EXCEPT !.pc = "done", !.todo = {}]
                               ELSE IF out.todo = {} THEN Started(out) ELSE out
      BY <1>4 DEF LogExec
    <2> HIDE DEF s
    <2>4. /\ out \in Logs /\ out.res = l.res /\ out.early = l.early /\ out.src = s /\ out.timers = l.timers
          /\ out.closed = l.closed
      BY <1>0, <2>1, <2>2 DEF Logs, Sources
    <2> HIDE DEF out
    <2>5. CASE l.closed
      <3>1. /\ l' \in Logs /\ l'.res = l.res /\ l'.early = l.early /\ l'.src = s /\ l'.timers = l.timers
            /\ l'.closed = l.closed
        BY <2>3, <2>4, <2>5 DEF Logs
      <3> QED BY <1>0, <2>1, <2>5, <3>1 DEF LogInv, CleanedUp, LiveOf
    <2>6. CASE ~l.closed
      <3>1. l.res # "gone" \/ l.early
        BY <1>0, <2>3, <2>6 DEF CleanedUp
      <3>2. l' \in Logs /\ l'.res = l.res /\ l'.early = l.early
        BY <2>3, <2>4, <2>6, StartedKeeps
      <3> QED BY <3>1, <3>2, NotGoneIsClean DEF LogInv
    <2> QED BY <2>5, <2>6
  <1>5. ASSUME NEW a \in Agents, LogExecFails(a)
        PROVE  LogInv'
    <2> DEFINE out == [l EXCEPT !.todo = @ \ {a}]
    <2>1. l.pc = "exec" /\ l' = IF kind # "thread" THEN [EndRes(out) EXCEPT !.pc = "done"]
                                ELSE IF l.closed THEN [out EXCEPT !.pc = "done", !.todo = {}]
                                ELSE IF out.todo = {} THEN Started(out) ELSE out
      BY <1>5 DEF LogExecFails
    <2>2. /\ out \in Logs /\ out.res = l.res /\ out.early = l.early /\ out.src = l.src /\ out.timers = l.timers
          /\ out.closed = l.closed
      BY <1>0 DEF Logs
    <2> HIDE DEF out
    <2>3. CASE kind # "thread"
      <3> DEFINE e == EndRes(out)
      <3>1. /\ e \in Logs /\ e.res = (IF l.res = "open" THEN "ended" ELSE l.res) /\ e.src = l.src
            /\ e.timers = l.timers /\ e.closed = l.closed /\ e.early = l.early
        BY <2>2, EndResKeeps
      <3>2. l' = [e EXCEPT !.pc = "done"]
        BY <2>1, <2>3
      <3> HIDE DEF e
      <3>3. /\ l' \in Logs /\ l'.res = e.res /\ l'.early = l.early /\ l'.src = l.src /\ l'.timers = l.timers
            /\ l'.closed = l.closed
        BY <3>1, <3>2 DEF Logs
      <3> QED BY <1>0, <2>1, <3>1, <3>3 DEF LogInv, CleanedUp, LiveOf
    <2>4. CASE kind = "thread" /\ l.closed
      <3>1. /\ l' \in Logs /\ l'.res = l.res /\ l'.early = l.early /\ l'.src = l.src /\ l'.timers = l.timers
            /\ l'.closed = l.closed
        BY <2>1, <2>2, <2>4 DEF Logs
      <3> QED BY <1>0, <2>4, <3>1 DEF LogInv, CleanedUp, LiveOf
    <2>5. CASE kind = "thread" /\ ~l.closed
      <3>1. l.res # "gone" \/ l.early
        BY <1>0, <2>1, <2>5 DEF CleanedUp
      <3>2. l' \in Logs /\ l'.res = l.res /\ l'.early = l.early
        BY <2>1, <2>2, <2>5, StartedKeeps
      <3> QED BY <3>1, <3>2, NotGoneIsClean DEF LogInv
    <2> QED BY <2>3, <2>4, <2>5
  <1> QED BY <1>1, <1>2, <1>3, <1>4, <1>5

\* A stream that carries data, stops, is read by the client, or is left.
LEMMA LogGoesOn ==
    ASSUME LogInv, \/ LogTimer \/ LogRevoked \/ LogDeadline \/ LogRead \/ LogGone \/ LogLineTooLong
                   \/ \E a \in Agents : LogData(a) \/ LogStops(a) \/ TailStops(a)
    PROVE  LogInv'
  <1>0. l \in Logs /\ CleanedUp(l)
    BY DEF LogInv
  <1>1. CASE LogTimer \/ \E a \in Agents : LogData(a)
    <2>1. l' = SseWrite(l)
      BY <1>1 DEF LogTimer, LogData
    <2> QED BY <1>0, <2>1, SseWriteKeeps, NotGoneIsClean DEF LogInv
  <1>2. CASE LogRevoked
    <2> DEFINE e == EndRes(l)
    <2>1. e \in Logs /\ l' = Cleanup(e)
      BY <1>0, <1>2, EndResKeeps DEF LogRevoked
    <2> HIDE DEF e
    <2> QED BY <2>1, CleanupCleans DEF LogInv, CleanedUp
  <1>3. CASE LogDeadline
    <2>1. l' = EndRes(l) /\ l.res = "open"
      BY <1>3 DEF LogDeadline
    <2> QED BY <1>0, <2>1, EndResKeeps, NotGoneIsClean DEF LogInv
  <1>4. CASE LogRead
    <2>1. PICK n \in 0..(Cap + 2) : n = l.q - 1
      BY <1>0, <1>4, LogParts DEF LogRead
    <2> DEFINE r == [l EXCEPT !.q = n]
    <2>2. r \in Logs /\ r.res = l.res
      BY <1>0 DEF Logs
    <2>3. l.res # "gone" /\ l' = IF r.q = 0 THEN Drain(r) ELSE r
      BY <1>4, <2>1 DEF LogRead
    <2> HIDE DEF r
    <2>4. Drain(r) \in Logs /\ Drain(r).res = r.res
      BY <2>2 DEF Drain, Logs
    <2> QED BY <2>2, <2>3, <2>4, NotGoneIsClean DEF LogInv
  <1>5. CASE LogGone
    <2> DEFINE r == [l EXCEPT !.res = "gone", !.q = 0]
               c == Cleanup(r)
    <2>0. 0 \in 0..(Cap + 2)
      OBVIOUS
    <2>1. r \in Logs
      BY <1>0, <2>0 DEF Logs
    <2>2. l' = IF l.reg THEN [c EXCEPT !.pc = IF c.pc = "exec" THEN "exec" ELSE "done"]
               ELSE [r EXCEPT !.early = TRUE]
      BY <1>5 DEF LogGone
    <2>3. CASE l.reg
      <3>1. c \in Logs /\ LiveOf(c) = {} /\ ~c.timers /\ c.closed
        BY <2>1, CleanupCleans
      <3> HIDE DEF c
      <3>2. l' \in Logs /\ l'.src = c.src /\ l'.timers = c.timers /\ l'.closed = c.closed
        BY <2>2, <2>3, <3>1 DEF Logs
      <3> QED BY <3>1, <3>2 DEF LogInv, CleanedUp, LiveOf
    <2>4. CASE ~l.reg
      <3> HIDE DEF r
      <3>1. l' \in Logs /\ l'.early
        BY <2>1, <2>2, <2>4 DEF Logs
      <3> QED BY <3>1, NotGoneIsClean DEF LogInv
    <2> QED BY <2>3, <2>4
  <1>6. ASSUME NEW a \in Agents, LogStops(a)
        PROVE  LogInv'
    <2> DEFINE s == [l.src EXCEPT ![a] = "dead"]
               dead == [l EXCEPT !.src[a] = "dead", !.paused = @ \ {a}]
               still == [dead EXCEPT !.timers = FALSE]
    <2>1. s \in Sources /\ \A b \in Agents : s[b] = "live" => l.src[b] = "live"
      BY <1>0, LogParts DEF Sources, Streams
    <2>2. dead = [l EXCEPT !.src = s, !.paused = @ \ {a}]
      OBVIOUS
    <2>3. l' = IF kind = "thread" THEN SseWrite(dead) ELSE EndRes(still)
      BY <1>6 DEF LogStops
    <2> HIDE DEF s, dead
    <2>4. /\ dead \in Logs /\ dead.res = l.res /\ dead.early = l.early /\ dead.src = s
          /\ dead.timers = l.timers /\ dead.closed = l.closed /\ dead.pc = l.pc
      BY <1>0, <2>1, <2>2 DEF Logs, Sources
    <2>5. CASE kind = "thread"
      <3>1. CleanedUp(dead)
        BY <1>0, <2>1, <2>4 DEF CleanedUp, LiveOf
      <3> QED BY <2>3, <2>4, <2>5, <3>1, SseWriteKeeps, NotGoneIsClean DEF LogInv
    <2>6. CASE kind # "thread"
      <3>1. /\ still \in Logs /\ still.res = l.res /\ still.early = l.early /\ still.src = s
            /\ ~still.timers /\ still.closed = l.closed /\ still.pc = l.pc
        BY <2>4 DEF Logs
      <3> HIDE DEF still
      <3>2. /\ l' \in Logs /\ l'.res = (IF l.res = "open" THEN "ended" ELSE l.res) /\ l'.early = l.early
            /\ l'.src = s /\ ~l'.timers /\ l'.closed = l.closed /\ l'.pc = l.pc
        BY <2>3, <2>6, <3>1, EndResKeeps
      <3> QED BY <1>0, <2>1, <3>2 DEF LogInv, CleanedUp, LiveOf
    <2> QED BY <2>5, <2>6
  <1>7. CASE LogLineTooLong
    <2> DEFINE d == Destroyed(l)
               e == [d EXCEPT !.timers = FALSE]
    <2>1. d \in Logs /\ d.res = "open"
      BY <1>0, <1>7, DestroyedIsDead DEF LogLineTooLong
    <2>2. l' = EndRes(e)
      BY <1>7 DEF LogLineTooLong
    <2> HIDE DEF d
    <2>3. e \in Logs /\ e.res = "open"
      BY <2>1 DEF Logs
    <2> HIDE DEF e
    <2> QED BY <2>2, <2>3, EndResKeeps, NotGoneIsClean DEF LogInv
  <1>8. ASSUME NEW a \in Agents, TailStops(a)
        PROVE  LogInv'
    <2>1. PICK w \in SUBSET Agents : w = l.tails \ {a}
      BY <1>0, LogParts
    <2>2. l' = [l EXCEPT !.tails = w]
      BY <1>8, <2>1 DEF TailStops
    <2>3. /\ l' \in Logs /\ l'.res = l.res /\ l'.early = l.early /\ l'.src = l.src /\ l'.timers = l.timers
          /\ l'.closed = l.closed /\ l'.pc = l.pc
      BY <1>0, <2>2 DEF Logs
    <2> QED BY <1>0, <2>3 DEF LogInv, CleanedUp, LiveOf
  <1> QED BY <1>1, <1>2, <1>3, <1>4, <1>5, <1>6, <1>7, <1>8
-----------------------------------------------------------------------------
(* The theorems.                                                            *)

\* Both parts at the start.
LEMMA RelaysStart == Init => InstallInv /\ LogInv /\ NoTails
  <1> SUFFICES ASSUME Init PROVE InstallInv /\ LogInv /\ NoTails
    OBVIOUS
  <1>1. x = NewInstall /\ l = NewLog
    BY DEF Init
  <1>2. /\ [i \in Installers |-> "none"] \in [Installers -> InstallPcs]
        /\ [i \in Installers |-> 1] \in [Installers -> 1..Tries]
        /\ [c \in Commands |-> "none"] \in [Commands -> CmdStates]
    BY DEF InstallPcs, CmdStates
  <1>3. NewInstall \in Installs
    BY <1>2 DEF NewInstall, Installs, InstallPcs, CmdStates
  <1>4. \A i \in Installers, n \in 1..Tries : <<i, n>> \in Commands
    BY DEF Commands
  <1>5. FilledOnce
    BY <1>1, <1>4 DEF FilledOnce, Placed, NewInstall
  <1>6. NewLog \in Logs
    BY DEF NewLog, Logs, Streams
  <1>7. CleanedUp(NewLog)
    BY DEF CleanedUp, NewLog, LiveOf
  <1>8. NoTails
    BY <1>1 DEF NoTails, NewLog
  <1> QED BY <1>1, <1>3, <1>5, <1>6, <1>7, <1>8 DEF InstallInv, LogInv

\* Steps of a terminal session touch neither streams nor installations.
TerminalStep ==
    \/ Upgrade \/ RetryFails \/ AgentAnswers \/ PageLeaves \/ Shutdown \/ ProcessExits
    \/ ShellExits \/ HandlerEnds \/ Ended("4002") \/ Ended("4004")
    \/ \E s \in Sides : Message(s) \/ ResumeTimer(s) \/ PeerReads(s) \/ CloseCompletes(s) \/ PeerGone(s)
LogStep ==
    \/ LogOpen \/ LogLookup \/ LogBackfill \/ LogTimer \/ LogRevoked \/ LogDeadline \/ LogRead \/ LogGone
    \/ \E a \in Agents : LogExec(a) \/ LogExecFails(a) \/ LogData(a) \/ LogStops(a) \/ TailStops(a)
    \/ LogLineTooLong
InstallStep ==
    \/ \E i \in Installers : InstallBegin(i) \/ InstallSteps(i)
    \/ ContainerStops \/ InstallerCrash \/ \E c \in Commands : CommandStep(c) \/ CommandFails(c)

\* The kinds of steps, and what each leaves alone.
LEMMA StepsStayApart ==
    ASSUME Next
    PROVE  \/ TerminalStep /\ UNCHANGED <<kind, l, x>>
           \/ LogStep /\ UNCHANGED <<kind, t, x>>
           \/ InstallStep /\ UNCHANGED <<kind, t, l>>
  <1>1. CASE TerminalStep
    BY <1>1 DEF TerminalStep, Terminal, Upgrade, RetryFails, AgentAnswers, PageLeaves, Shutdown, ProcessExits,
        ShellExits, HandlerEnds, Ended, Message, ResumeTimer, PeerReads, CloseCompletes, PeerGone
  <1>2. CASE LogStep
    BY <1>2 DEF LogStep, Log, LogOpen, LogLookup, LogBackfill, LogTimer, LogRevoked, LogDeadline, LogRead,
        LogGone, LogExec, LogExecFails, LogData, LogStops, TailStops, LogLineTooLong
  <1>3. CASE InstallStep
    BY <1>3 DEF InstallStep, Install, InstallBegin, InstallSteps, InstallCheck, InstallScript, StreamEnds,
        CommandTimesOut, InstallDone, InstallFailed, ContainerStops, InstallerCrash, CommandStep, CommandFails
  <1>4. TerminalStep \/ LogStep \/ InstallStep
    BY DEF Next, TerminalStep, LogStep, InstallStep
  <1> QED BY <1>1, <1>2, <1>3, <1>4

\* Every step keeps the invariant of streams.
LEMMA LogInvKept == ASSUME LogInv, [Next]_vars PROVE LogInv'
  <1>1. CASE UNCHANGED l
    BY <1>1 DEF LogInv, CleanedUp, LiveOf
  <1>2. CASE LogStep
    BY <1>2, LogOpens, LogGoesOn DEF LogStep
  <1> QED BY <1>1, <1>2, StepsStayApart DEF vars

\* Every step keeps the invariant of installations.
LEMMA InstallInvKept == ASSUME InstallInv, [Next]_vars PROVE InstallInv'
  <1>1. CASE UNCHANGED x
    BY <1>1 DEF InstallInv, FilledOnce, Placed
  <1>2. CASE InstallStep
    BY <1>2, BeginKeeps, InstallStepsKeep, StopKeeps, CrashKeeps, CommandStepKeeps DEF InstallStep
  <1> QED BY <1>1, <1>2, StepsStayApart DEF vars

\* What a step of a log's own stream leaves in its container: nothing.
LEMMA NoTailsKept == ASSUME LogInv, NoTails, [Next]_vars PROVE NoTails'
  <1> SUFFICES ASSUME kind' = "logs" PROVE l'.tails = {}
    BY DEF NoTails
  <1>1. CASE UNCHANGED <<kind, l>>
    BY <1>1 DEF NoTails
  <1>2. CASE LogStep /\ UNCHANGED kind
    <2>0. l \in Logs /\ kind = "logs" /\ l.tails = {}
      BY <1>2 DEF LogInv, NoTails
    <2>1. CASE LogOpen
      BY <2>0, <2>1 DEF LogOpen, NewLog
    <2>2. CASE LogLookup \/ LogBackfill
      BY <2>0, <2>2 DEF LogLookup, LogBackfill, Registers, Logs
    <2>3. ASSUME NEW a \in Agents, LogExec(a) PROVE l'.tails = {}
      <3> DEFINE out == [Adopt(l, a) EXCEPT !.todo = @ \ {a}]
                 s == [l.src EXCEPT ![a] = IF l.closed THEN "dead" ELSE "live"]
      <3>1. Adopt(l, a) = [l EXCEPT !.src = s]
        BY <2>0 DEF Adopt, Left, Logs
      <3>2. s \in Sources
        BY <2>0, LogParts DEF Sources, Streams
      <3>3. l' = IF l.closed THEN [out EXCEPT !.pc = "done", !.todo = {}]
                 ELSE IF out.todo = {} THEN Started(out) ELSE out
        BY <2>3 DEF LogExec
      <3> HIDE DEF s
      <3>4. out \in Logs /\ out.tails = {}
        BY <2>0, <3>1, <3>2 DEF Logs, Sources
      <3> HIDE DEF out
      <3>5. [out EXCEPT !.pc = "done", !.todo = {}].tails = {}
        BY <3>4 DEF Logs
      <3> QED BY <3>3, <3>4, <3>5, StartedKeeps
    <2>4. ASSUME NEW a \in Agents, LogExecFails(a) PROVE l'.tails = {}
      <3> DEFINE out == [l EXCEPT !.todo = @ \ {a}]
                 e == EndRes(out)
      <3>1. out \in Logs /\ out.tails = {}
        BY <2>0 DEF Logs
      <3>2. l' = [e EXCEPT !.pc = "done"]
        BY <2>0, <2>4 DEF LogExecFails
      <3> HIDE DEF out
      <3>3. e \in Logs /\ e.tails = {}
        BY <3>1, EndResKeeps
      <3> QED BY <3>2, <3>3 DEF Logs
    <2>5. CASE LogTimer \/ \E a \in Agents : LogData(a)
      BY <2>0, <2>5, SseWriteKeeps DEF LogTimer, LogData
    <2>6. CASE LogDeadline
      BY <2>0, <2>6, EndResKeeps DEF LogDeadline
    <2>7. CASE LogRead
      BY <2>0, <2>7 DEF LogRead, Drain, Logs
    <2>8. CASE LogGone
      <3> DEFINE r == [l EXCEPT !.res = "gone", !.q = 0]
                 c == Cleanup(r)
      <3>1. r \in Logs /\ r.tails = {}
        <4>1. 0 \in 0..(Cap + 2)
          OBVIOUS
        <4> QED BY <2>0, <4>1 DEF Logs
      <3>2. l' = IF l.reg THEN [c EXCEPT !.pc = IF c.pc = "exec" THEN "exec" ELSE "done"]
                 ELSE [r EXCEPT !.early = TRUE]
        BY <2>8 DEF LogGone
      <3> HIDE DEF r
      <3>3. c \in Logs /\ c.tails = {}
        BY <2>0, <3>1, CleanupCleans
      <3> HIDE DEF c
      <3> QED BY <3>1, <3>2, <3>3 DEF Logs
    <2>9. ASSUME NEW a \in Agents, LogStops(a) PROVE l'.tails = {}
      <3> DEFINE s == [l.src EXCEPT ![a] = "dead"]
                 still == [l EXCEPT !.src = s, !.paused = @ \ {a}, !.timers = FALSE]
      <3>1. s \in Sources
        BY <2>0, LogParts DEF Sources, Streams
      <3>2. l' = EndRes(still)
        BY <2>0, <2>9 DEF LogStops
      <3> HIDE DEF s
      <3>3. still \in Logs /\ still.tails = {}
        BY <2>0, <3>1 DEF Logs, Sources
      <3> HIDE DEF still
      <3> QED BY <3>2, <3>3, EndResKeeps
    <2>10. CASE LogRevoked \/ LogLineTooLong \/ \E a \in Agents : TailStops(a)
      BY <2>0, <2>10 DEF LogRevoked, LogLineTooLong, TailStops
    <2> QED BY <1>2, <2>1, <2>2, <2>3, <2>4, <2>5, <2>6, <2>7, <2>8, <2>9, <2>10 DEF LogStep
  <1> QED BY <1>1, <1>2, StepsStayApart DEF vars

\* routes/agents.ts, routes/chat.ts: a response that is gone is fed by no stream
\* and no timer, unless the client left before the cleanup was registered; and of
\* a log, nothing goes on in the container.
THEOREM GoneResponseIsUnfed == Spec => []StreamIsOwned
  <1>1. Init => LogInv /\ NoTails
    BY RelaysStart
  <1>2. LogInv /\ NoTails /\ [Next]_vars => LogInv' /\ NoTails'
    BY LogInvKept, NoTailsKept
  <1>3. LogInv /\ NoTails => StreamIsOwned
    BY DEF LogInv, NoTails, CleanedUp, StreamIsOwned
  <1> QED BY <1>1, <1>2, <1>3, PTL DEF Spec

\* tool-installer.ts, docker.ts: a tool recorded as installed is in the container,
\* and whole unless a copy was cut off or goes on.
THEOREM RecordedToolIsThere == Spec => []InstalledIsThere
  <1>1. Init => InstallInv
    BY RelaysStart
  <1>2. InstallInv /\ [Next]_vars => InstallInv'
    BY InstallInvKept
  <1>3. InstallInv => InstalledIsThere
    <2> SUFFICES ASSUME InstallInv PROVE InstalledIsThere
      OBVIOUS
    <2>1. x.bin \in Bins
      BY InstallParts DEF InstallInv
    <2> QED BY <2>1 DEF InstallInv, FilledOnce, InstalledIsThere, Bins
  <1> QED BY <1>1, <1>2, <1>3, PTL DEF Spec
-----------------------------------------------------------------------------
(* Terminal sessions.                                                       *)

SideQueues == [Sides -> 0..(Cap + 1)]
SideSockets == [Sides -> Sockets]

\* A socket is paused exactly while a timer is there to resume it, a client that
\* is gone leaves neither timer nor pause, and a queue passes its cap once.
Minded(r) ==
    /\ r.hold = r.timer
    /\ r.sock["client"] = "closed" => ~r.armed /\ r.hold = {}
    /\ \A s \in Sides : r.q[s] > Cap => s \in r.over
TerminalIsMinded == Minded(t)
TerminalRec(r) == r \in Terminals /\ Minded(r)

\* The parts of a session's record.
LEMMA TerminalParts ==
    ASSUME NEW r \in Terminals
    PROVE  /\ r.sock \in SideSockets /\ r.q \in SideQueues /\ r.hold \in SUBSET Sides
           /\ r.timer \in SUBSET Sides /\ r.over \in SUBSET Sides /\ r.armed \in BOOLEAN
           /\ r.shell \in {"none", "alive", "dead"} /\ r.code \in Codes
           /\ r.page \in {"on", "retry", "stop"} /\ r.mounted \in BOOLEAN
           /\ r.retries \in 0..MaxRetries /\ r.early \in BOOLEAN
  BY DEF Terminals, SideSockets, SideQueues

\* A record with other sockets, none of them reopened after the client's end.
LEMMA SocketsChange ==
    ASSUME NEW r, TerminalRec(r), NEW s \in Sides, NEW w \in Sockets, w # "closed"
    PROVE  TerminalRec([r EXCEPT !.sock[s] = w])
  <1> DEFINE socks == [r.sock EXCEPT ![s] = w]
             o == [r EXCEPT !.sock = socks]
  <1>1. r \in Terminals /\ Minded(r) /\ r.sock \in SideSockets
    BY TerminalParts DEF TerminalRec
  <1>2. socks \in SideSockets /\ (socks["client"] = "closed" => r.sock["client"] = "closed")
    BY <1>1 DEF SideSockets, Sides
  <1> HIDE DEF socks
  <1>3. o \in Terminals /\ o.sock = socks /\ o.hold = r.hold /\ o.timer = r.timer /\ o.armed = r.armed /\ o.q = r.q /\ o.over = r.over
    BY <1>1, <1>2 DEF Terminals, SideSockets
  <1>4. Minded(o)
    BY <1>1, <1>2, <1>3 DEF Minded
  <1> QED BY <1>3, <1>4 DEF TerminalRec, socks

\* close() and its code.
LEMMA CloseKeeps ==
    ASSUME NEW r, TerminalRec(r), NEW s \in Sides
    PROVE  TerminalRec(Close(r, s)) /\ Close(r, s).hold = r.hold /\ Close(r, s).armed = r.armed
           /\ Close(r, s).timer = r.timer
           /\ (r.sock["client"] = "closed" => Close(r, s).sock["client"] = "closed")
  <1>1. TerminalRec([r EXCEPT !.sock[s] = "closing"])
    BY SocketsChange DEF Sockets
  <1>2. r \in Terminals /\ r.sock \in SideSockets
    BY TerminalParts DEF TerminalRec
  <1> QED BY <1>1, <1>2 DEF Close, IsOpen, Terminals, SideSockets, Sides

\* The client is closed with a code, if it is open.
LEMMA CloseClientKeeps ==
    ASSUME NEW r, TerminalRec(r), NEW w \in Codes
    PROVE  TerminalRec(CloseClient(r, w))
  <1> DEFINE c == Close(r, "client")
             o == [c EXCEPT !.code = w]
  <1>1. TerminalRec(c)
    BY CloseKeeps DEF Sides
  <1> HIDE DEF c
  <1>2. /\ o \in Terminals /\ o.sock = c.sock /\ o.hold = c.hold /\ o.timer = c.timer /\ o.armed = c.armed
        /\ o.q = c.q /\ o.over = c.over
    BY <1>1 DEF TerminalRec, Terminals
  <1>3. TerminalRec(o)
    BY <1>1, <1>2 DEF TerminalRec, Minded
  <1> HIDE DEF o
  <1>4. CloseClient(r, w) = o \/ CloseClient(r, w) = r
    BY DEF CloseClient, o, c
  <1> QED BY <1>3, <1>4

\* What cleanupAll needs of a record: its queues.
Queued(r) == r \in Terminals /\ \A s \in Sides : r.q[s] > Cap => s \in r.over

\* cleanupAll leaves no timer and no pause, whatever was there before.
LEMMA CleanupAllMinds ==
    ASSUME NEW r, Queued(r)
    PROVE  TerminalRec(CleanupAll(r))
  <1> DEFINE o == [r EXCEPT !.timer = {}, !.hold = {}, !.armed = FALSE]
             c == CloseClient(o, "plain")
             d == Close(c, "agent")
             e == d.early \/ r.sock["agent"] = "connecting"
             out == [d EXCEPT !.early = e]
  <1>1. /\ o \in Terminals /\ o.hold = {} /\ o.timer = {} /\ ~o.armed /\ o.q = r.q /\ o.over = r.over
    BY DEF Queued, Terminals
  <1>2. TerminalRec(o)
    BY <1>1 DEF Queued, TerminalRec, Minded
  <1>3. CleanupAll(r) = out
    <2>1. [StopPumps(r) EXCEPT !.armed = FALSE] = o
      BY DEF StopPumps, Queued, Terminals
    <2> QED BY <2>1 DEF CleanupAll
  <1> HIDE DEF o
  <1>4. TerminalRec(c)
    BY <1>2, CloseClientKeeps DEF Codes
  <1> HIDE DEF c
  <1>5. TerminalRec(d)
    BY <1>4, CloseKeeps DEF Sides
  <1> HIDE DEF d
  <1>6. e \in BOOLEAN
    BY <1>5, TerminalParts DEF TerminalRec
  <1> HIDE DEF e
  <1>7. /\ out \in Terminals /\ out.sock = d.sock /\ out.hold = d.hold /\ out.timer = d.timer
        /\ out.armed = d.armed /\ out.q = d.q /\ out.over = d.over
    BY <1>5, <1>6 DEF TerminalRec, Terminals
  <1> HIDE DEF out
  <1> QED BY <1>3, <1>5, <1>7 DEF TerminalRec, Minded

\* A message that is sent on: the queue is paused above its mark, and above its cap
\* the session ends.
LEMMA SentKeeps ==
    ASSUME NEW r, TerminalRec(r), NEW s \in Sides
    PROVE  TerminalRec(Sent(r, s))
  <1>1. CASE ~(IsOpen(r, s) /\ IsOpen(r, Other(s)) /\ s \notin r.over)
    BY <1>1 DEF Sent
  <1>2. CASE IsOpen(r, s) /\ IsOpen(r, Other(s)) /\ s \notin r.over
    <2> DEFINE qs == [r.q EXCEPT ![s] = r.q[s] + 1]
               o == [r EXCEPT !.q = qs]
    <2>1. r \in Terminals /\ Minded(r) /\ r.q \in SideQueues /\ r.sock["client"] # "closed"
      BY <1>2, TerminalParts DEF TerminalRec, IsOpen, Other, Sides
    <2>2. r.q[s] \in 0..Cap
      BY <1>2, <2>1 DEF Minded, SideQueues
    <2>3. qs \in SideQueues /\ qs[s] = r.q[s] + 1 /\ \A u \in Sides \ {s} : qs[u] = r.q[u]
      BY <2>1, <2>2 DEF SideQueues
    <2>4. Sent(r, s) = Marks(o, s)
      BY <1>2 DEF Sent
    <2> HIDE DEF qs
    <2>5. /\ o \in Terminals /\ o.q = qs /\ o.sock = r.sock /\ o.hold = r.hold /\ o.timer = r.timer
          /\ o.armed = r.armed /\ o.over = r.over
      BY <2>1, <2>3 DEF Terminals, SideQueues
    <2> HIDE DEF o
    <2>6. CASE o.q[s] > Cap
      <3> DEFINE v == [o EXCEPT !.over = @ \cup {s}, !.timer = @ \ {s}]
                 c == Close(v, "client")
                 w == CloseClient(v, "4003")
      <3>1. v \in Terminals /\ v.q = o.q /\ v.over = o.over \cup {s} /\ v.sock = o.sock
        BY <2>5 DEF Terminals
      <3>2. Queued(v)
        BY <2>1, <2>3, <2>5, <3>1 DEF Queued, Minded
      <3> HIDE DEF v
      <3>3. c = [v EXCEPT !.sock["client"] = "closing"] \/ c = v
        BY DEF Close
      <3>4. [v.sock EXCEPT !["client"] = "closing"] \in SideSockets
        BY <3>1, TerminalParts DEF SideSockets, Sockets
      <3>5. c \in Terminals /\ c.q = v.q /\ c.over = v.over
        BY <3>1, <3>3, <3>4 DEF Terminals, SideSockets
      <3>6. w = [c EXCEPT !.code = "4003"] \/ w = v
        BY DEF CloseClient
      <3> HIDE DEF c, w
      <3>7. Queued(w)
        BY <3>1, <3>2, <3>5, <3>6 DEF Queued, Terminals, Codes
      <3>8. Sent(r, s) = CleanupAll(w)
        BY <2>4, <2>6 DEF Marks, v, w
      <3> QED BY <3>7, <3>8, CleanupAllMinds
    <2>7. CASE ~(o.q[s] > Cap) /\ o.q[s] > High /\ s \notin o.hold
      <3> DEFINE v == [o EXCEPT !.hold = @ \cup {s}, !.timer = @ \cup {s}]
      <3>1. /\ v \in Terminals /\ v.q = qs /\ v.over = r.over /\ v.sock = r.sock /\ v.armed = r.armed
            /\ v.hold = r.hold \cup {s} /\ v.timer = r.timer \cup {s}
        BY <2>5 DEF Terminals
      <3>2. Sent(r, s) = v
        BY <2>4, <2>7 DEF Marks
      <3> HIDE DEF v
      <3> QED BY <2>1, <2>3, <2>5, <2>7, <3>1, <3>2 DEF TerminalRec, Minded
    <2>8. CASE ~(o.q[s] > Cap) /\ ~(o.q[s] > High /\ s \notin o.hold)
      <3>1. Sent(r, s) = o
        BY <2>4, <2>8 DEF Marks
      <3> QED BY <2>1, <2>3, <2>5, <2>8, <3>1 DEF TerminalRec, Minded
    <2> QED BY <2>6, <2>7, <2>8
  <1> QED BY <1>1, <1>2

\* What the page makes of a close.
LEMMA LearnsKeeps ==
    ASSUME NEW r, TerminalRec(r)
    PROVE  TerminalRec(Learns(r))
  <1>1. r \in Terminals /\ Minded(r) /\ r.retries \in 0..MaxRetries
    BY TerminalParts DEF TerminalRec
  <1>2. PICK n \in 0..MaxRetries : n = (IF r.retries < MaxRetries THEN r.retries + 1 ELSE r.retries)
    BY <1>1
  <1>3. \/ Learns(r) = [r EXCEPT !.page = "stop"]
        \/ Learns(r) = [r EXCEPT !.page = "retry", !.retries = n]
    BY <1>2 DEF Learns
  <1>4. /\ Learns(r) \in Terminals /\ Learns(r).sock = r.sock /\ Learns(r).hold = r.hold
        /\ Learns(r).timer = r.timer /\ Learns(r).armed = r.armed /\ Learns(r).q = r.q /\ Learns(r).over = r.over
    BY <1>1, <1>3 DEF Terminals
  <1> QED BY <1>1, <1>4 DEF TerminalRec, Minded

\* The record with a socket closed keeps its queues.
LEMMA ClosedIsQueued ==
    ASSUME NEW r, TerminalRec(r), NEW s \in Sides
    PROVE  Queued([r EXCEPT !.sock[s] = "closed"])
  <1> DEFINE socks == [r.sock EXCEPT ![s] = "closed"]
             o == [r EXCEPT !.sock = socks]
  <1>1. r \in Terminals /\ Minded(r) /\ socks \in SideSockets
    BY TerminalParts DEF TerminalRec, SideSockets, Sockets
  <1> HIDE DEF socks
  <1>2. o \in Terminals /\ o.q = r.q /\ o.over = r.over
    BY <1>1 DEF Terminals, SideSockets
  <1>3. Queued(o)
    BY <1>1, <1>2 DEF Minded, Queued
  <1> QED BY <1>3 DEF o, socks

\* A socket that closed, of either side.
LEMMA GoneKeeps ==
    ASSUME NEW r, TerminalRec(r), NEW s \in Sides
    PROVE  TerminalRec(Gone(r, s))
  <1> DEFINE o == CleanupAll([r EXCEPT !.sock[s] = "closed"])
  <1>1. TerminalRec(o)
    BY ClosedIsQueued, CleanupAllMinds
  <1>2. Gone(r, s) = IF s = "client" THEN Learns(o) ELSE o
    BY DEF Gone
  <1> HIDE DEF o
  <1> QED BY <1>1, <1>2, LearnsKeeps

\* A record that differs in nothing the invariant speaks of.
LEMMA SameMinded ==
    ASSUME NEW r, TerminalRec(r), NEW o \in Terminals,
           o.sock = r.sock, o.hold = r.hold, o.timer = r.timer, o.armed = r.armed, o.q = r.q, o.over = r.over
    PROVE  TerminalRec(o)
  BY DEF TerminalRec, Minded

\* The pumps of a session.
LEMMA PumpsKeep ==
    ASSUME TerminalRec(t), NEW s \in Sides, Message(s) \/ ResumeTimer(s) \/ PeerReads(s)
    PROVE  TerminalRec(t')
  <1>0. t \in Terminals /\ Minded(t) /\ t.q \in SideQueues
    BY TerminalParts DEF TerminalRec
  <1>1. CASE Message(s)
    <2>1. t' = Sent(t, s) \/ t' = Sent(Sent(t, s), s)
      BY <1>1 DEF Message
    <2>2. TerminalRec(Sent(t, s))
      BY SentKeeps
    <2>3. TerminalRec(Sent(Sent(t, s), s))
      BY <2>2, SentKeeps
    <2> QED BY <2>1, <2>2, <2>3
  <1>2. CASE ResumeTimer(s)
    <2>1. t' = [t EXCEPT !.hold = @ \ {s}, !.timer = @ \ {s}]
      BY <1>2 DEF ResumeTimer
    <2>2. /\ t' \in Terminals /\ t'.hold = t.hold \ {s} /\ t'.timer = t.timer \ {s} /\ t'.sock = t.sock
          /\ t'.armed = t.armed /\ t'.q = t.q /\ t'.over = t.over
      BY <1>0, <2>1 DEF Terminals
    <2> QED BY <1>0, <2>2 DEF TerminalRec, Minded
  <1>3. CASE PeerReads(s)
    <2> DEFINE qs == [t.q EXCEPT ![s] = t.q[s] - 1]
    <2>1. qs \in SideQueues /\ \A u \in Sides : qs[u] <= t.q[u]
      BY <1>0, <1>3 DEF PeerReads, SideQueues
    <2>2. t' = [t EXCEPT !.q = qs]
      BY <1>3 DEF PeerReads
    <2> HIDE DEF qs
    <2>3. /\ t' \in Terminals /\ t'.hold = t.hold /\ t'.timer = t.timer /\ t'.sock = t.sock
          /\ t'.armed = t.armed /\ t'.q = qs /\ t'.over = t.over
      BY <1>0, <2>1, <2>2 DEF Terminals, SideQueues
    <2>4. \A u \in Sides : qs[u] > Cap => t.q[u] > Cap
      BY <1>0, <2>1 DEF SideQueues
    <2> QED BY <1>0, <2>3, <2>4 DEF TerminalRec, Minded
  <1> QED BY <1>1, <1>2, <1>3

\* A session begins, or its agent answers.
LEMMA SessionOpens ==
    ASSUME TerminalRec(t), Upgrade \/ AgentAnswers
    PROVE  TerminalRec(t')
  <1>0. t \in Terminals /\ Minded(t) /\ t.mounted \in BOOLEAN
    BY TerminalParts DEF TerminalRec
  <1>1. CASE Upgrade
    <2> DEFINE socks == [s \in Sides |-> IF s = "client" THEN "open" ELSE "connecting"]
    <2>1. /\ socks \in SideSockets /\ socks["client"] = "open"
          /\ [s \in Sides |-> 0] \in SideQueues /\ [s \in Sides |-> "none"] \in SideSockets
      BY DEF SideSockets, Sockets, Sides, SideQueues
    <2>2. t' = [NewTerminal EXCEPT !.sock = socks, !.armed = TRUE, !.mounted = t.mounted]
      BY <1>1 DEF Upgrade
    <2>3. 0 \in 0..MaxRetries
      OBVIOUS
    <2> HIDE DEF socks
    <2>4. NewTerminal \in Terminals /\ NewTerminal.hold = {} /\ NewTerminal.timer = {}
          /\ NewTerminal.q = [s \in Sides |-> 0]
      BY <2>1, <2>3 DEF NewTerminal, Terminals, SideSockets, SideQueues, Codes
    <2> HIDE DEF NewTerminal
    <2>5. /\ t' \in Terminals /\ t'.hold = {} /\ t'.timer = {} /\ t'.sock = socks
          /\ t'.q = [s \in Sides |-> 0]
      BY <1>0, <2>1, <2>2, <2>4 DEF Terminals, SideSockets
    <2> QED BY <2>1, <2>5 DEF TerminalRec, Minded
  <1>2. CASE AgentAnswers
    <2>1. CASE t' = [t EXCEPT !.sock["agent"] = "open", !.shell = "alive"]
      <3> DEFINE o == [t EXCEPT !.sock["agent"] = "open"]
      <3>1. TerminalRec(o)
        BY SocketsChange DEF Sides, Sockets
      <3>2. t' = [o EXCEPT !.shell = "alive"]
        BY <2>1
      <3> HIDE DEF o
      <3>3. o \in Terminals
        BY <3>1 DEF TerminalRec
      <3>4. /\ t' \in Terminals /\ t'.sock = o.sock /\ t'.hold = o.hold /\ t'.timer = o.timer
            /\ t'.armed = o.armed /\ t'.q = o.q /\ t'.over = o.over
        BY <3>2, <3>3 DEF Terminals
      <3> QED BY <3>1, <3>4, SameMinded
    <2> DEFINE c == [t EXCEPT !.sock["agent"] = "closed"]
    <2>2. Queued(c)
      BY ClosedIsQueued DEF Sides
    <2>3. CASE t' = CloseClient(c, "1011")
      <3> DEFINE socks == [t.sock EXCEPT !["agent"] = "closed"]
      <3>1. socks \in SideSockets /\ socks["client"] = t.sock["client"]
        BY <1>0, TerminalParts DEF SideSockets, Sockets, Sides
      <3>2. c = [t EXCEPT !.sock = socks]
        OBVIOUS
      <3> HIDE DEF c, socks
      <3>3. /\ c \in Terminals /\ c.sock = socks /\ c.hold = t.hold /\ c.timer = t.timer
            /\ c.armed = t.armed /\ c.q = t.q /\ c.over = t.over
        BY <1>0, <3>1, <3>2 DEF Terminals, SideSockets
      <3>4. TerminalRec(c)
        BY <1>0, <3>1, <3>3 DEF TerminalRec, Minded
      <3> QED BY <2>3, <3>4, CloseClientKeeps DEF Codes
    <2>4. CASE t' = CleanupAll(c)
      <3> HIDE DEF c
      <3> QED BY <2>2, <2>4, CleanupAllMinds
    <2> QED BY <1>2, <2>1, <2>3, <2>4 DEF AgentAnswers
  <1> QED BY <1>1, <1>2

\* A session goes on or ends.
LEMMA SessionGoesOn ==
    ASSUME TerminalRec(t),
           \/ RetryFails \/ PageLeaves \/ Shutdown \/ ProcessExits \/ ShellExits \/ HandlerEnds
           \/ Ended("4002") \/ Ended("4004")
           \/ \E s \in Sides : CloseCompletes(s) \/ PeerGone(s)
    PROVE  TerminalRec(t')
  <1>0. t \in Terminals /\ Minded(t) /\ t.retries \in 0..MaxRetries
    BY TerminalParts DEF TerminalRec
  <1>1. CASE RetryFails
    <2>1. PICK n \in 0..MaxRetries : n = (IF t.retries < MaxRetries THEN t.retries + 1 ELSE t.retries)
      BY <1>0
    <2>2. PICK p \in {"retry", "stop"} : p = (IF t.retries < MaxRetries THEN "retry" ELSE "stop")
      OBVIOUS
    <2>3. t' = [t EXCEPT !.page = p, !.retries = n]
      BY <1>1, <2>1, <2>2 DEF RetryFails
    <2>4. /\ t' \in Terminals /\ t'.sock = t.sock /\ t'.hold = t.hold /\ t'.timer = t.timer
          /\ t'.armed = t.armed /\ t'.q = t.q /\ t'.over = t.over
      BY <1>0, <2>3 DEF Terminals
    <2> QED BY <2>4, SameMinded
  <1>2. CASE PageLeaves
    <2> DEFINE c == Close(t, "client")
    <2>1. \/ t' = [c EXCEPT !.mounted = FALSE, !.code = "plain"]
          \/ t' = [t EXCEPT !.mounted = FALSE]
      BY <1>2 DEF PageLeaves
    <2>2. TerminalRec(c)
      BY CloseKeeps DEF Sides
    <2> HIDE DEF c
    <2>3. PICK r \in {c, t} : \/ t' = [r EXCEPT !.mounted = FALSE, !.code = "plain"]
                              \/ t' = [r EXCEPT !.mounted = FALSE]
      BY <2>1
    <2>4. TerminalRec(r) /\ r \in Terminals
      BY <2>2, <2>3 DEF TerminalRec
    <2>5. /\ t' \in Terminals /\ t'.sock = r.sock /\ t'.hold = r.hold /\ t'.timer = r.timer
          /\ t'.armed = r.armed /\ t'.q = r.q /\ t'.over = r.over
      BY <2>3, <2>4 DEF Terminals, Codes
    <2> QED BY <2>4, <2>5, SameMinded
  <1>3. CASE Shutdown
    BY <1>3, CloseClientKeeps DEF Shutdown, Codes
  <1>4. CASE ProcessExits
    <2> DEFINE socks == [s \in Sides |-> "closed"]
    <2>1. PICK p \in {"on", "retry", "stop"} : p = (IF t.sock["client"] = "closed" THEN t.page ELSE "retry")
      BY <1>0, TerminalParts
    <2>2. socks \in SideSockets
      BY DEF SideSockets, Sockets
    <2>3. t' = [t EXCEPT !.sock = socks, !.armed = FALSE, !.timer = {}, !.hold = {}, !.page = p]
      BY <1>4, <2>1 DEF ProcessExits
    <2> HIDE DEF socks
    <2>4. /\ t' \in Terminals /\ t'.hold = {} /\ t'.timer = {} /\ ~t'.armed /\ t'.q = t.q /\ t'.over = t.over
      BY <1>0, <2>2, <2>3 DEF Terminals, SideSockets
    <2> QED BY <1>0, <2>4 DEF TerminalRec, Minded
  <1>5. CASE ShellExits \/ HandlerEnds
    <2>1. t' = [t EXCEPT !.shell = "dead"]
      BY <1>5 DEF ShellExits, HandlerEnds, Killed
    <2>2. /\ t' \in Terminals /\ t'.sock = t.sock /\ t'.hold = t.hold /\ t'.timer = t.timer
          /\ t'.armed = t.armed /\ t'.q = t.q /\ t'.over = t.over
      BY <1>0, <2>1 DEF Terminals
    <2> QED BY <2>2, SameMinded
  <1>6. ASSUME NEW w \in Codes, Ended(w)
        PROVE  TerminalRec(t')
    <2> DEFINE c == CloseClient(t, w)
    <2>1. TerminalRec(c)
      BY CloseClientKeeps
    <2>2. t' = CleanupAll(c)
      BY <1>6 DEF Ended
    <2> HIDE DEF c
    <2>3. Queued(c)
      BY <2>1 DEF TerminalRec, Minded, Queued
    <2> QED BY <2>2, <2>3, CleanupAllMinds
  <1>7. ASSUME NEW s \in Sides, CloseCompletes(s) \/ PeerGone(s)
        PROVE  TerminalRec(t')
    BY <1>7, GoneKeeps DEF CloseCompletes, PeerGone
  <1> QED BY <1>1, <1>2, <1>3, <1>4, <1>5, <1>6, <1>7 DEF Codes

\* The bounds on what is counted hold.
LEMMA UsedKept ==
    ASSUME used \in [conns: 0..MaxConns, faults: 0..MaxFaults], Next
    PROVE  used' \in [conns: 0..MaxConns, faults: 0..MaxFaults]
  <1>1. CASE CountFault
    <2>1. PICK n \in 0..MaxFaults : n = used.faults + 1
      BY <1>1 DEF CountFault
    <2>2. used' = [used EXCEPT !.faults = n]
      BY <1>1, <2>1 DEF CountFault
    <2> QED BY <2>2
  <1>2. CASE CountConn
    <2>1. PICK n \in 0..MaxConns : n = used.conns + 1
      BY <1>2 DEF CountConn
    <2>2. used' = [used EXCEPT !.conns = n]
      BY <1>2, <2>1 DEF CountConn
    <2> QED BY <2>2
  <1>3. CountFault \/ CountConn \/ used' = used
    <2>1. CASE TerminalStep
      BY <2>1 DEF TerminalStep, Upgrade, RetryFails, Refused, AgentAnswers, PageLeaves, Shutdown,
          ProcessExits, ShellExits, HandlerEnds, Ended, Message, ResumeTimer, PeerReads, CloseCompletes, PeerGone
    <2>2. CASE LogStep
      BY <2>2 DEF LogStep, LogOpen, LogLookup, LogBackfill, LogTimer, LogRevoked, LogDeadline, LogRead,
          LogGone, LogExec, LogExecFails, LogData, LogStops, TailStops, LogLineTooLong
    <2>3. CASE InstallStep
      BY <2>3 DEF InstallStep, InstallBegin, CountInstall, InstallSteps, InstallCheck, CountLost,
          InstallScript, StreamEnds, CommandTimesOut, InstallDone, InstallFailed, ContainerStops, InstallerCrash,
          CommandStep, CommandFails
    <2> QED BY <2>1, <2>2, <2>3 DEF Next, TerminalStep, LogStep, InstallStep
  <1> QED BY <1>1, <1>2, <1>3

\* relay-backpressure.ts, terminal-proxy.ts: every variable keeps its type, the
\* queues' bounds with it; a socket is paused exactly while a timer is there to
\* resume it, and once the client is gone nothing of its session is armed.
THEOREM SessionsAreMinded == Spec => [](TypeOK /\ TerminalIsMinded)
  <1> DEFINE Inv == TypeOK /\ TerminalIsMinded /\ InstallInv /\ LogInv
  <1>1. Init => Inv
    <2> SUFFICES ASSUME Init PROVE Inv
      OBVIOUS
    <2>1. t = NewTerminal /\ kind \in Kinds /\ used \in [conns: 0..MaxConns, faults: 0..MaxFaults]
      BY DEF Init
    <2>2. /\ [s \in Sides |-> 0] \in SideQueues /\ [s \in Sides |-> "none"] \in SideSockets
          /\ 0 \in 0..MaxRetries
      BY DEF SideSockets, Sockets, SideQueues
    <2>3. NewTerminal \in Terminals
      BY <2>2 DEF NewTerminal, Terminals, SideSockets, SideQueues, Codes
    <2>4. Minded(NewTerminal)
      BY DEF Minded, NewTerminal, Sides
    <2> QED BY <2>1, <2>3, <2>4, RelaysStart DEF TypeOK, TerminalIsMinded, InstallInv, LogInv
  <1>2. Inv /\ [Next]_vars => Inv'
    <2> SUFFICES ASSUME Inv, [Next]_vars PROVE Inv'
      OBVIOUS
    <2>1. InstallInv' /\ LogInv'
      BY InstallInvKept, LogInvKept
    <2>2. TerminalRec(t)
      BY DEF TypeOK, TerminalIsMinded, TerminalRec
    <2>3. CASE UNCHANGED vars
      BY <2>1, <2>3 DEF vars, TypeOK, TerminalIsMinded, Minded, InstallInv, LogInv
    <2>4. CASE Next
      <3>1. kind' \in Kinds /\ used' \in [conns: 0..MaxConns, faults: 0..MaxFaults]
        BY <2>4, StepsStayApart, UsedKept DEF TypeOK
      <3>2. CASE UNCHANGED t
        BY <2>1, <2>2, <3>1, <3>2 DEF TypeOK, TerminalIsMinded, TerminalRec, InstallInv, LogInv
      <3>3. CASE TerminalStep
        <4>1. TerminalRec(t')
          BY <2>2, <3>3, PumpsKeep, SessionOpens, SessionGoesOn DEF TerminalStep
        <4> QED BY <2>1, <3>1, <4>1 DEF TypeOK, TerminalIsMinded, TerminalRec, InstallInv, LogInv
      <3> QED BY <2>4, <3>2, <3>3, StepsStayApart
    <2> QED BY <2>3, <2>4
  <1> QED BY <1>1, <1>2, PTL DEF Spec
-----------------------------------------------------------------------------
(* Tokens: the inductive invariant.                                         *)

\* The tokens minted so far are 1, 2, ... up to some m.
MintedUpTo(m) == \A n \in Tok : age[n] # "unborn" <=> n <= m
MintedInOrder == \E m \in 0..MaxTokens : MintedUpTo(m)

\* What the phases of a stop and of a renewal carry.
PhasesCarry ==
    /\ st.pc = "revoke" => st.jti # None
    /\ st.pc \in {"remove", "write"} /\ ~st.failed => st.jti = None \/ st.jti \in deny
    /\ ~box.on => box.ask = {}
    /\ \A s \in Slots : /\ h[s].pc \in {"idle", "check", "store"} => h[s].new = None
                        /\ h[s].pc = "revoke" => h[s].old # None

\* While no answer was lost, the container waits for every handler that is busy:
\* there is one at most.
HeardOnly == ~hist.lost => \A s \in Slots : h[s].pc # "idle" => box.ask = {s}

\* While no renewal was crossed, the one that is about to store will replace the
\* token the row names, and no other one is about to.
ReplacesNamed ==
    (aud = "router" /\ ~hist.crossed) =>
        /\ \A s \in Slots : h[s].pc = "store" => h[s].old = row.jti
        /\ \A s, o \in Slots : h[s].pc = "store" /\ h[o].pc = "store" => s = o

\* The row's secret is the one of an answer under way, or else the container's.
Pending(s) == h[s].new # None
SecretFollows ==
    (aud = "router" /\ row.status = "running" /\ st.pc = "idle" /\ ~hist.lost /\ ~hist.crossed) =>
        /\ \A s \in Slots : Pending(s) => row.sec = h[s].new
        /\ (\A s \in Slots : ~Pending(s)) => row.sec = box.sec

TokenInv ==
    /\ TokenAssumption /\ TokenTypeOK /\ MintedInOrder /\ PhasesCarry /\ HeardOnly /\ ReplacesNamed
    /\ SecretFollows /\ NamedOrDenied
-----------------------------------------------------------------------------
(* Minting.                                                                 *)

\* The number of tokens minted is the last one's name.
LEMMA MintedIsLast ==
    ASSUME MaxTokens \in Nat, MintedInOrder
    PROVE  minted \in 0..MaxTokens /\ MintedUpTo(minted)
  <1>1. PICK m \in 0..MaxTokens : MintedUpTo(m)
    BY DEF MintedInOrder
  <1>2. {n \in Tok : age[n] # "unborn"} = 1..m
    BY <1>1 DEF MintedUpTo, Tok
  <1>3. Cardinality(1..m) = m
    <2>1. 1 \in Int /\ m \in Int /\ m \in Nat
      BY <1>1
    <2>2. Cardinality(1..m) = IF 1 > m THEN 0 ELSE m - 1 + 1
      BY <2>1, FS_Interval
    <2> QED BY <2>1, <2>2
  <1> QED BY <1>1, <1>2, <1>3 DEF minted

\* A token that is minted is new, and no other one changes.
LEMMA MintIsNew ==
    ASSUME MaxTokens \in Nat, MintedInOrder, age \in [Tok -> Ages], Mint
    PROVE  /\ NextToken \in Tok /\ NextToken # None /\ NextToken \in 0..MaxTokens
           /\ age' \in [Tok -> Ages] /\ age'[NextToken] = "fresh"
           /\ \A n \in Tok \ {NextToken} : age'[n] = age[n]
           /\ MintedInOrder'
  <1>1. PICK m \in 0..MaxTokens : m = minted /\ MintedUpTo(m)
    BY MintedIsLast
  <1>2. m + 1 \in Tok /\ m + 1 \in 0..MaxTokens /\ m + 1 # 0 /\ NextToken = m + 1
    BY <1>1 DEF Mint, Tok, NextToken
  <1>3. age' = [age EXCEPT ![m + 1] = "fresh"]
    BY <1>2 DEF Mint
  <1>4. age' \in [Tok -> Ages] /\ age'[m + 1] = "fresh" /\ \A n \in Tok \ {m + 1} : age'[n] = age[n]
    BY <1>2, <1>3 DEF Ages
  <1>5. MintedUpTo(m + 1)'
    <2>1. ASSUME NEW n \in Tok PROVE age'[n] # "unborn" <=> n <= m + 1
      BY <1>1, <1>2, <1>4, <2>1 DEF MintedUpTo, Tok
    <2> QED BY <2>1 DEF MintedUpTo, Tok
  <1> QED BY <1>2, <1>4, <1>5 DEF MintedInOrder, None
-----------------------------------------------------------------------------
(* The parts of the state.                                                  *)

Names == 0..MaxTokens
Hists == [loose: SUBSET Tok, lost: BOOLEAN, crossed: BOOLEAN]

\* The fields of the records.
LEMMA FieldsTyped ==
    ASSUME TokenTypeOK
    PROVE  /\ row.status \in {"stopped", "running"} /\ row.jti \in Names /\ row.sec \in Names
           /\ row.stored \in SUBSET Tok
           /\ box.on \in BOOLEAN /\ box.tok \in Names /\ box.sec \in Names /\ box.ask \in SUBSET Slots
           /\ st.pc \in {"idle", "revoke", "remove", "write"} /\ st.jti \in Names /\ st.failed \in BOOLEAN
           /\ hist.loose \in SUBSET Tok /\ hist.lost \in BOOLEAN /\ hist.crossed \in BOOLEAN
  BY DEF TokenTypeOK, Rows, Boxes, Stops, Names

\* The fields of a handler.
LEMMA HandlerTyped ==
    ASSUME TokenTypeOK, NEW s \in Slots
    PROVE  /\ h[s] \in Handlers
           /\ h[s].pc \in {"idle", "check", "store", "revoke", "reply"} /\ h[s].tok \in Names
           /\ h[s].sec \in Names /\ h[s].old \in Names /\ h[s].new \in Names
  <1>1. h[s] \in Handlers
    BY DEF TokenTypeOK
  <1> QED BY <1>1 DEF Handlers, Names

\* A handler is replaced by another record.
LEMMA HandlerSet ==
    ASSUME TokenTypeOK, NEW s \in Slots, NEW g \in Handlers, h' = [h EXCEPT ![s] = g]
    PROVE  h' \in [Slots -> Handlers] /\ h'[s] = g /\ \A o \in Slots \ {s} : h'[o] = h[o]
  BY DEF TokenTypeOK

\* What a name that is not none, names.
LEMMA NamedIsToken ==
    ASSUME MaxTokens \in Nat, NEW n \in Names, n # None
    PROVE  n \in Tok
  BY DEF Names, None, Tok

\* The record of a handler that does nothing.
LEMMA IdleTyped ==
    ASSUME MaxTokens \in Nat
    PROVE  IdleHandler \in Handlers /\ IdleHandler.pc = "idle" /\ IdleHandler.new = None /\ IdleStop \in Stops
           /\ IdleStop.pc = "idle"
  <1>1. None \in Names
    BY DEF None, Names
  <1> QED BY <1>1 DEF IdleHandler, Handlers, IdleStop, Stops, Names

\* Nothing to keep of an invariant whose variables stay.
LEMMA Stutters == ASSUME TokenInv, UNCHANGED tokenVars PROVE TokenInv'
  <1>1. TokenTypeOK' /\ TokenAssumption'
    BY DEF tokenVars, TokenInv, TokenTypeOK, TokenAssumption, Tok
  <1>2. MintedInOrder'
    BY DEF tokenVars, TokenInv, MintedInOrder, MintedUpTo, Tok
  <1>3. PhasesCarry' /\ HeardOnly' /\ ReplacesNamed'
    BY DEF tokenVars, TokenInv, PhasesCarry, HeardOnly, ReplacesNamed
  <1>4. SecretFollows' /\ NamedOrDenied'
    BY DEF tokenVars, TokenInv, SecretFollows, Pending, NamedOrDenied, Tok
  <1> QED BY <1>1, <1>2, <1>3, <1>4 DEF TokenInv
-----------------------------------------------------------------------------
(* Time, start and stop.                                                    *)

\* A token gets older: none is born, and those alive were alive before.
LEMMA AgeKeeps == ASSUME TokenInv, NEW n \in Tok, Age(n) PROVE TokenInv'
  <1>1. /\ age \in [Tok -> Ages] /\ age[n] \in {"fresh", "near"}
        /\ age' = [age EXCEPT ![n] = IF age[n] = "fresh" THEN "near" ELSE "expired"]
        /\ UNCHANGED <<aud, row, box, h, st, deny, hist, failures>>
    BY DEF TokenInv, TokenTypeOK, Age
  <1>2. PICK a \in {"near", "expired"} : a = (IF age[n] = "fresh" THEN "near" ELSE "expired")
    OBVIOUS
  <1>3. age' \in [Tok -> Ages] /\ age'[n] = a /\ \A k \in Tok \ {n} : age'[k] = age[k]
    BY <1>1, <1>2 DEF Ages
  <1>4. \A k \in Tok : /\ age'[k] # "unborn" <=> age[k] # "unborn"
                       /\ age'[k] \in {"fresh", "near"} => age[k] \in {"fresh", "near"}
    BY <1>1, <1>2, <1>3
  <1>5. MintedInOrder'
    BY <1>4 DEF TokenInv, MintedInOrder, MintedUpTo, Tok
  <1>6. TokenTypeOK' /\ TokenAssumption'
    BY <1>1, <1>3 DEF TokenInv, TokenTypeOK, TokenAssumption, Tok
  <1>7. PhasesCarry' /\ HeardOnly' /\ ReplacesNamed' /\ SecretFollows'
    BY <1>1 DEF TokenInv, PhasesCarry, HeardOnly, ReplacesNamed, SecretFollows, Pending
  <1>8. NamedOrDenied'
    BY <1>1, <1>4 DEF TokenInv, NamedOrDenied, Tok
  <1> QED BY <1>5, <1>6, <1>7, <1>8 DEF TokenInv

\* A start names its token in the row, or leaves it loose; no renewal is under way,
\* or it is crossed.
LEMMA StartKeeps == ASSUME TokenInv, Start PROVE TokenInv'
  <1>0. MaxTokens \in Nat /\ TokenTypeOK /\ MintedInOrder /\ Mint
    BY DEF TokenInv, TokenAssumption, Start
  <1> DEFINE n == NextToken
  <1>1. /\ n \in Tok /\ n # None /\ n \in Names /\ age' \in [Tok -> Ages] /\ age'[n] = "fresh"
        /\ \A k \in Tok \ {n} : age'[k] = age[k]
        /\ MintedInOrder'
    BY <1>0, MintIsNew DEF TokenTypeOK, Names
  <1>2. /\ row.status = "stopped" /\ ~box.on /\ st.pc = "idle"
        /\ box' = [on |-> TRUE, tok |-> n, sec |-> n, ask |-> {}]
        /\ UNCHANGED <<aud, h, st, deny>>
        /\ \/ /\ row' = [row EXCEPT !.status = "running", !.jti = n, !.sec = IF aud = "router" THEN n ELSE None]
              /\ UNCHANGED failures
              /\ hist' = [hist EXCEPT !.crossed = @ \/ Open # {},
                                      !.loose = IF row.jti = None THEN @ ELSE @ \cup {row.jti}]
           \/ /\ row' = [row EXCEPT !.status = "running"]
              /\ Fault
              /\ hist' = [hist EXCEPT !.lost = TRUE, !.crossed = @ \/ Open # {}, !.loose = @ \cup {n}]
    BY DEF Start
  <1> HIDE DEF n
  <1>3. box' \in Boxes /\ box'.on /\ box'.ask = {} /\ box'.sec = n
    BY <1>1, <1>2 DEF Boxes, Names
  <1>4. PICK c \in BOOLEAN : c = (hist.crossed \/ Open # {})
    BY <1>0, FieldsTyped
  <1>5. ~c => ~hist.crossed /\ \A s \in Slots : h[s].pc \notin {"check", "store"}
    BY <1>4 DEF Open
  <1>6. ~hist.lost => \A s \in Slots : h[s].pc = "idle"
    BY <1>2 DEF TokenInv, PhasesCarry, HeardOnly
  <1>7. PhasesCarry'
    BY <1>2, <1>3 DEF TokenInv, PhasesCarry
  <1>8. CASE /\ row' = [row EXCEPT !.status = "running", !.jti = n, !.sec = IF aud = "router" THEN n ELSE None]
             /\ UNCHANGED failures
             /\ hist' = [hist EXCEPT !.crossed = @ \/ Open # {},
                                     !.loose = IF row.jti = None THEN @ ELSE @ \cup {row.jti}]
    <2>1. PICK w \in Names : w = (IF aud = "router" THEN n ELSE None)
      BY <1>0, <1>1 DEF None, Names
    <2>2. PICK o \in SUBSET Tok : o = (IF row.jti = None THEN hist.loose ELSE hist.loose \cup {row.jti})
      BY <1>0, FieldsTyped, NamedIsToken
    <2>3. row' = [row EXCEPT !.status = "running", !.jti = n, !.sec = w]
      BY <1>8, <2>1
    <2>4. hist' = [hist EXCEPT !.crossed = c, !.loose = o]
      BY <1>4, <1>8, <2>2
    <2>5. row' \in Rows /\ row'.status = "running" /\ row'.jti = n /\ row'.sec = w
      BY <1>0, <1>1, <2>1, <2>3 DEF TokenTypeOK, Rows, Names
    <2>6. hist' \in Hists /\ hist'.crossed = c /\ hist'.loose = o /\ hist'.lost = hist.lost
      BY <1>0, <2>4 DEF TokenTypeOK, Hists
    <2>7. TokenTypeOK' /\ TokenAssumption'
      BY <1>1, <1>2, <1>3, <1>8, <2>5, <2>6 DEF TokenInv, TokenTypeOK, TokenAssumption, Tok, Hists
    <2>8. HeardOnly'
      BY <1>2, <1>6, <2>6 DEF HeardOnly
    <2>9. ReplacesNamed'
      BY <1>2, <1>5, <2>6 DEF ReplacesNamed
    <2>10. SecretFollows'
      BY <1>2, <1>3, <1>6, <2>1, <2>5, <2>6 DEF SecretFollows, Pending, TokenInv, PhasesCarry
    <2>11. NamedOrDenied'
      <3> SUFFICES ASSUME aud = "router", ~c, NEW k \in Tok, age'[k] \in {"fresh", "near"}
                   PROVE  \/ k = n \/ k \in deny \/ k \in o
                          \/ \E s \in Slots : h[s].pc = "revoke" /\ h[s].old = k
        BY <1>2, <2>5, <2>6 DEF NamedOrDenied, Tok
      <3>1. k = n \/ age[k] \in {"fresh", "near"}
        BY <1>1
      <3>2. k = None => k \notin Tok
        BY DEF None, Tok
      <3> QED BY <1>5, <2>2, <3>1, <3>2 DEF TokenInv, NamedOrDenied
    <2> QED BY <1>1, <1>7, <2>7, <2>8, <2>9, <2>10, <2>11 DEF TokenInv
  <1>9. CASE /\ row' = [row EXCEPT !.status = "running"]
             /\ Fault
             /\ hist' = [hist EXCEPT !.lost = TRUE, !.crossed = @ \/ Open # {}, !.loose = @ \cup {n}]
    <2>1. row' \in Rows /\ row'.jti = row.jti
      BY <1>0, <1>9 DEF TokenTypeOK, Rows
    <2>2. hist' = [hist EXCEPT !.lost = TRUE, !.crossed = c, !.loose = @ \cup {n}]
      BY <1>4, <1>9
    <2>3. hist' \in Hists /\ hist'.crossed = c /\ hist'.loose = hist.loose \cup {n} /\ hist'.lost
      BY <1>0, <1>1, <2>2 DEF TokenTypeOK, Hists
    <2>4. failures' \in 0..MaxFailures
      BY <1>0, <1>9 DEF TokenTypeOK, Fault, TokenInv, TokenAssumption
    <2>5. TokenTypeOK' /\ TokenAssumption'
      BY <1>1, <1>2, <1>3, <2>1, <2>3, <2>4 DEF TokenInv, TokenTypeOK, TokenAssumption, Tok, Hists
    <2>6. HeardOnly' /\ SecretFollows'
      BY <2>3 DEF HeardOnly, SecretFollows
    <2>7. ReplacesNamed'
      BY <1>2, <1>5, <2>3 DEF ReplacesNamed
    <2>8. NamedOrDenied'
      <3> SUFFICES ASSUME aud = "router", ~c, NEW k \in Tok, age'[k] \in {"fresh", "near"}
                   PROVE  \/ k = row.jti \/ k \in deny \/ k \in hist.loose \cup {n}
                          \/ \E s \in Slots : h[s].pc = "revoke" /\ h[s].old = k
        BY <1>2, <2>1, <2>3 DEF NamedOrDenied, Tok
      <3>1. k = n \/ age[k] \in {"fresh", "near"}
        BY <1>1
      <3> QED BY <1>5, <3>1 DEF TokenInv, NamedOrDenied
    <2> QED BY <1>1, <1>7, <2>5, <2>6, <2>7, <2>8 DEF TokenInv
  <1> QED BY <1>2, <1>8, <1>9

\* A stop reads the name it will revoke.
LEMMA StopReadKeeps == ASSUME TokenInv, StopRead PROVE TokenInv'
  <1>0. TokenTypeOK /\ MaxTokens \in Nat
    BY DEF TokenInv, TokenAssumption
  <1>1. /\ st.pc = "idle" /\ st' = [pc |-> StopsWith(row.jti), jti |-> row.jti, failed |-> FALSE]
        /\ UNCHANGED <<aud, row, box, h, age, deny, hist, failures>>
    BY DEF StopRead
  <1>2. /\ st' \in Stops /\ st'.jti = row.jti /\ st'.pc = StopsWith(row.jti) /\ st'.pc # "idle"
        /\ st'.pc # "write"
    BY <1>0, <1>1, FieldsTyped DEF Stops, StopsWith, Names
  <1>3. TokenTypeOK' /\ TokenAssumption' /\ MintedInOrder'
    BY <1>1, <1>2 DEF TokenInv, TokenTypeOK, TokenAssumption, MintedInOrder, MintedUpTo, Tok
  <1>4. PhasesCarry' /\ HeardOnly' /\ ReplacesNamed'
    BY <1>1, <1>2 DEF TokenInv, PhasesCarry, StopsWith, HeardOnly, ReplacesNamed
  <1>6. NamedOrDenied'
    BY <1>1 DEF TokenInv, NamedOrDenied, Tok
  <1>5. SecretFollows'
    BY <1>2 DEF SecretFollows
  <1> QED BY <1>3, <1>4, <1>5, <1>6 DEF TokenInv

\* The name it read goes to the denylist, or the call fails.
LEMMA StopRevokeKeeps == ASSUME TokenInv, StopRevoke PROVE TokenInv'
  <1>0. TokenTypeOK /\ MaxTokens \in Nat
    BY DEF TokenInv, TokenAssumption
  <1>1. st.pc = "revoke" /\ st \in Stops /\ UNCHANGED <<aud, box, h, age, hist>>
    BY <1>0 DEF StopRevoke, TokenTypeOK
  <1>2. st.jti \in Tok
    BY <1>0, <1>1, FieldsTyped, NamedIsToken DEF TokenInv, PhasesCarry
  <1>3. /\ row' \in Rows /\ row'.jti = row.jti /\ row'.sec = row.sec
        /\ deny' \in SUBSET Tok /\ deny \subseteq deny' /\ failures' \in 0..MaxFailures
        /\ st' \in Stops /\ st'.pc = "remove" /\ st'.jti = st.jti
        /\ st'.failed \/ st.jti \in deny'
    <2>1. CASE /\ deny' = Denied(st.jti) /\ row' = [row EXCEPT !.stored = {}]
               /\ st' = [st EXCEPT !.pc = "remove"] /\ UNCHANGED failures
      BY <1>0, <1>1, <1>2, <2>1 DEF Denied, TokenTypeOK, Rows, Stops
    <2>2. CASE Fault /\ st' = [st EXCEPT !.pc = "remove", !.failed = TRUE] /\ UNCHANGED <<row, deny>>
      <3>1. failures' \in 0..MaxFailures
        BY <1>0, <2>2 DEF TokenTypeOK, Fault, TokenInv, TokenAssumption
      <3> QED BY <1>0, <1>1, <2>2, <3>1 DEF TokenTypeOK, Stops
    <2> QED BY <2>1, <2>2 DEF StopRevoke
  <1>4. TokenTypeOK' /\ TokenAssumption' /\ MintedInOrder' /\ HeardOnly'
    BY <1>1, <1>3 DEF TokenInv, TokenTypeOK, TokenAssumption, MintedInOrder, MintedUpTo, Tok, HeardOnly
  <1>5. PhasesCarry' /\ SecretFollows' /\ ReplacesNamed'
    BY <1>1, <1>3 DEF TokenInv, PhasesCarry, SecretFollows, ReplacesNamed
  <1>6. NamedOrDenied'
    BY <1>1, <1>3 DEF TokenInv, NamedOrDenied, Tok
  <1> QED BY <1>4, <1>5, <1>6 DEF TokenInv

\* The container is removed, and with it the answer it may wait for.
LEMMA StopRemoveKeeps == ASSUME TokenInv, StopRemove PROVE TokenInv'
  <1>0. TokenTypeOK /\ MaxTokens \in Nat
    BY DEF TokenInv, TokenAssumption
  <1>1. /\ st.pc = "remove" /\ box' = [on |-> FALSE, tok |-> None, sec |-> None, ask |-> {}]
        /\ st' = [st EXCEPT !.pc = "write"] /\ st \in Stops
        /\ UNCHANGED <<aud, row, h, age, deny, failures>>
    BY <1>0 DEF StopRemove, TokenTypeOK
  <1>2. PICK b \in BOOLEAN : b = (hist.lost \/ box.ask # {})
    BY <1>0, FieldsTyped
  <1>3. hist' = [hist EXCEPT !.lost = b]
    BY <1>2 DEF StopRemove
  <1>4. /\ hist' \in Hists /\ hist'.lost = b /\ hist'.crossed = hist.crossed /\ hist'.loose = hist.loose
    BY <1>0, <1>3 DEF TokenTypeOK, Hists
  <1>5. st' \in Stops /\ st'.pc = "write" /\ st'.jti = st.jti /\ st'.failed = st.failed
    BY <1>1 DEF Stops
  <1>6. box' \in Boxes /\ box'.ask = {}
    BY <1>0, <1>1 DEF Boxes, None
  <1>7. TokenTypeOK' /\ TokenAssumption' /\ MintedInOrder'
    BY <1>1, <1>4, <1>5, <1>6 DEF TokenInv, TokenTypeOK, TokenAssumption, MintedInOrder, MintedUpTo, Tok, Hists
  <1>8. PhasesCarry' /\ ReplacesNamed'
    BY <1>1, <1>4, <1>5, <1>6 DEF TokenInv, PhasesCarry, ReplacesNamed
  <1>9. HeardOnly'
    BY <1>1, <1>2, <1>4 DEF TokenInv, HeardOnly
  <1>10. SecretFollows'
    BY <1>5 DEF SecretFollows
  <1>11. NamedOrDenied'
    BY <1>1, <1>4 DEF TokenInv, NamedOrDenied, Tok
  <1> QED BY <1>7, <1>8, <1>9, <1>10, <1>11 DEF TokenInv

\* The stop is written: what it forgets is what it revoked, or it was crossed.
LEMMA StopWriteKeeps == ASSUME TokenInv, StopWrite PROVE TokenInv'
  <1>0. TokenTypeOK /\ MaxTokens \in Nat
    BY DEF TokenInv, TokenAssumption
  <1>1. /\ st.pc = "write" /\ st' = IdleStop /\ UNCHANGED <<aud, box, h, age, deny, failures>>
        /\ row' = IF st.failed THEN [row EXCEPT !.status = "stopped"]
                  ELSE [row EXCEPT !.status = "stopped", !.jti = None, !.sec = None]
    BY DEF StopWrite
  <1>2. PICK c \in BOOLEAN : c = (hist.crossed \/ Open # {} \/ row.jti # st.jti)
    BY <1>0, FieldsTyped
  <1>3. hist' = [hist EXCEPT !.crossed = c]
    BY <1>2 DEF StopWrite
  <1>4. hist' \in Hists /\ hist'.crossed = c /\ hist'.lost = hist.lost /\ hist'.loose = hist.loose
    BY <1>0, <1>3 DEF TokenTypeOK, Hists
  <1>5. None \in Names
    BY <1>0 DEF None, Names
  <1>6. row' \in Rows /\ row'.status = "stopped" /\ (st.failed => row'.jti = row.jti)
    BY <1>0, <1>1, <1>5 DEF TokenTypeOK, Rows, Names
  <1>7. st' \in Stops /\ st'.pc = "idle"
    BY <1>0, <1>1, IdleTyped
  <1>8. TokenTypeOK' /\ TokenAssumption' /\ MintedInOrder'
    BY <1>1, <1>4, <1>6, <1>7 DEF TokenInv, TokenTypeOK, TokenAssumption, MintedInOrder, MintedUpTo, Tok, Hists
  <1>9. PhasesCarry' /\ HeardOnly' /\ SecretFollows'
    BY <1>1, <1>4, <1>6, <1>7 DEF TokenInv, PhasesCarry, HeardOnly, SecretFollows
  <1>10. ~c => ~hist.crossed /\ row.jti = st.jti /\ \A s \in Slots : h[s].pc # "store"
    BY <1>2 DEF Open
  <1>11. ReplacesNamed'
    BY <1>1, <1>4, <1>10 DEF ReplacesNamed
  <1>12. NamedOrDenied'
    <2> SUFFICES ASSUME aud = "router", ~c, NEW k \in Tok, age[k] \in {"fresh", "near"}
                 PROVE  \/ k = row'.jti \/ k \in deny \/ k \in hist.loose
                        \/ \E s \in Slots : h[s].pc = "revoke" /\ h[s].old = k
      BY <1>1, <1>4 DEF NamedOrDenied, Tok
    <2>1. \/ k = row.jti \/ k \in deny \/ k \in hist.loose
          \/ \E s \in Slots : h[s].pc = "revoke" /\ h[s].old = k
      BY <1>10 DEF TokenInv, NamedOrDenied
    <2>2. k # None
      BY DEF None, Tok
    <2>3. st.failed \/ st.jti = None \/ st.jti \in deny
      BY <1>1 DEF TokenInv, PhasesCarry
    <2> QED BY <1>6, <1>10, <2>1, <2>2, <2>3
  <1> QED BY <1>8, <1>9, <1>11, <1>12 DEF TokenInv
-----------------------------------------------------------------------------
(* Renewal.                                                                 *)

\* The container asks: it waited for no other answer, and waits for this one.
LEMMA BoxAsksKeeps == ASSUME TokenInv, NEW s \in Slots, BoxAsks(s) PROVE TokenInv'
  <1>0. TokenTypeOK /\ MaxTokens \in Nat
    BY DEF TokenInv, TokenAssumption
  <1> DEFINE g == [IdleHandler EXCEPT !.pc = "check", !.tok = box.tok, !.sec = box.sec]
  <1>1. /\ box.on /\ box.ask = {} /\ h[s].pc = "idle"
        /\ box' = [box EXCEPT !.ask = {s}] /\ h' = [h EXCEPT ![s] = g]
        /\ UNCHANGED <<aud, row, st, age, deny, hist, failures>>
    BY DEF BoxAsks
  <1>2. g \in Handlers /\ g.pc = "check" /\ g.new = None
    BY <1>0, IdleTyped, FieldsTyped DEF Handlers, Names
  <1> HIDE DEF g
  <1>3. h' \in [Slots -> Handlers] /\ h'[s] = g /\ \A o \in Slots \ {s} : h'[o] = h[o]
    BY <1>0, <1>1, <1>2, HandlerSet
  <1>4. box' \in Boxes /\ box'.on = box.on /\ box'.ask = {s} /\ box'.sec = box.sec
    BY <1>0, <1>1 DEF TokenTypeOK, Boxes
  <1>5. TokenTypeOK' /\ TokenAssumption' /\ MintedInOrder'
    BY <1>1, <1>3, <1>4 DEF TokenInv, TokenTypeOK, TokenAssumption, MintedInOrder, MintedUpTo, Tok
  <1>6. PhasesCarry' /\ ReplacesNamed'
    BY <1>1, <1>2, <1>3, <1>4 DEF TokenInv, PhasesCarry, ReplacesNamed
  <1>7. HeardOnly'
    BY <1>1, <1>3, <1>4 DEF TokenInv, HeardOnly
  <1>8. h[s].new = None
    BY <1>1 DEF TokenInv, PhasesCarry
  <1>9. SecretFollows'
    BY <1>1, <1>2, <1>3, <1>4, <1>8 DEF TokenInv, SecretFollows, Pending
  <1>10. NamedOrDenied'
    BY <1>1, <1>2, <1>3 DEF TokenInv, NamedOrDenied, Tok
  <1> QED BY <1>5, <1>6, <1>7, <1>9, <1>10 DEF TokenInv

\* The container gives up: an answer may be lost.
LEMMA BoxGivesUpKeeps == ASSUME TokenInv, BoxGivesUp PROVE TokenInv'
  <1>0. TokenTypeOK /\ MaxTokens \in Nat /\ MaxFailures \in Nat
    BY DEF TokenInv, TokenAssumption
  <1>1. /\ box' = [box EXCEPT !.ask = {}] /\ hist' = [hist EXCEPT !.lost = TRUE]
        /\ UNCHANGED <<aud, row, h, st, age, deny>> /\ failures' \in 0..MaxFailures
    BY <1>0 DEF BoxGivesUp, Fault, TokenTypeOK
  <1>2. box' \in Boxes /\ box'.on = box.on /\ box'.ask = {}
    BY <1>0, <1>1 DEF TokenTypeOK, Boxes
  <1>3. hist' \in Hists /\ hist'.lost /\ hist'.crossed = hist.crossed /\ hist'.loose = hist.loose
    BY <1>0, <1>1 DEF TokenTypeOK, Hists
  <1>4. TokenTypeOK' /\ TokenAssumption' /\ MintedInOrder'
    BY <1>1, <1>2, <1>3 DEF TokenInv, TokenTypeOK, TokenAssumption, MintedInOrder, MintedUpTo, Tok, Hists
  <1>5. PhasesCarry' /\ ReplacesNamed' /\ HeardOnly' /\ SecretFollows'
    BY <1>1, <1>2, <1>3 DEF TokenInv, PhasesCarry, ReplacesNamed, HeardOnly, SecretFollows
  <1>6. NamedOrDenied'
    BY <1>1, <1>3 DEF TokenInv, NamedOrDenied, Tok
  <1> QED BY <1>4, <1>5, <1>6 DEF TokenInv

\* A renewal is accepted, with the name it will replace, or refused.
LEMMA RefreshCheckKeeps == ASSUME TokenInv, NEW s \in Slots, RefreshCheck(s) PROVE TokenInv'
  <1>0. TokenTypeOK /\ MaxTokens \in Nat
    BY DEF TokenInv, TokenAssumption
  <1>1. h[s].pc = "check" /\ h[s].new = None /\ UNCHANGED <<aud, box, st, age, deny, failures>>
    BY DEF RefreshCheck, TokenInv, PhasesCarry
  <1>2. PICK c \in BOOLEAN : c = (hist.crossed \/ (MayRenew(s) /\ \E o \in Slots : h[o].pc = "store"))
    BY <1>0, FieldsTyped
  <1>3. hist' = [hist EXCEPT !.crossed = c]
    BY <1>2 DEF RefreshCheck
  <1>4. hist' \in Hists /\ hist'.crossed = c /\ hist'.lost = hist.lost /\ hist'.loose = hist.loose
    BY <1>0, <1>3 DEF TokenTypeOK, Hists
  <1>5. row' = [row EXCEPT !.stored = @ \ {h[s].sec}] \/ row' = row
    BY DEF RefreshCheck
  <1>6. row' \in Rows /\ row'.status = row.status /\ row'.jti = row.jti /\ row'.sec = row.sec
    BY <1>0, <1>5 DEF TokenTypeOK, Rows
  <1>7. PICK k \in Names : k = (IF aud = "router" THEN row.jti ELSE None)
    BY <1>0, FieldsTyped DEF None, Names
  <1>8. PICK g \in Handlers : /\ h' = [h EXCEPT ![s] = g] /\ g.new = None
                              /\ g.pc = "reply" \/ (g.pc = "store" /\ g.old = k /\ MayRenew(s))
    <2>1. h[s] \in Handlers
      BY <1>0 DEF TokenTypeOK
    <2>2. CASE MayRenew(s) /\ ~(aud = "akm" /\ Expired(h[s].sec))
      <3> DEFINE g == [h[s] EXCEPT !.pc = "store", !.old = k]
      <3>1. g \in Handlers /\ g.new = None /\ g.pc = "store" /\ g.old = k
        BY <1>1, <2>1 DEF Handlers, Names
      <3>2. h' = [h EXCEPT ![s] = g]
        BY <1>0, <1>7, <2>2 DEF RefreshCheck, TokenTypeOK
      <3> QED BY <2>2, <3>1, <3>2
    <2>3. CASE ~(MayRenew(s) /\ ~(aud = "akm" /\ Expired(h[s].sec)))
      <3> DEFINE g == [h[s] EXCEPT !.pc = "reply"]
      <3>1. g \in Handlers /\ g.new = None /\ g.pc = "reply"
        BY <1>1, <2>1 DEF Handlers
      <3>2. h' = [h EXCEPT ![s] = g]
        BY <2>3 DEF RefreshCheck
      <3> QED BY <3>1, <3>2
    <2> QED BY <2>2, <2>3
  <1>9. h' \in [Slots -> Handlers] /\ h'[s] = g /\ \A o \in Slots \ {s} : h'[o] = h[o]
    BY <1>0, <1>8, HandlerSet
  <1>10. TokenTypeOK' /\ TokenAssumption' /\ MintedInOrder'
    BY <1>1, <1>4, <1>6, <1>9 DEF TokenInv, TokenTypeOK, TokenAssumption, MintedInOrder, MintedUpTo, Tok, Hists
  <1>11. PhasesCarry' /\ HeardOnly'
    BY <1>1, <1>4, <1>6, <1>8, <1>9 DEF TokenInv, PhasesCarry, HeardOnly
  <1>12. ReplacesNamed'
    <2> SUFFICES ASSUME aud = "router", ~c
                 PROVE  /\ \A o \in Slots : h'[o].pc = "store" => h'[o].old = row.jti
                        /\ \A o, p \in Slots : h'[o].pc = "store" /\ h'[p].pc = "store" => o = p
      BY <1>1, <1>4, <1>6 DEF ReplacesNamed
    <2>1. ~hist.crossed /\ (g.pc = "store" => \A o \in Slots : h[o].pc # "store")
      BY <1>2, <1>8
    <2> QED BY <1>7, <1>8, <1>9, <2>1 DEF TokenInv, ReplacesNamed
  <1>13. SecretFollows'
    <2>1. c \/ ~hist.crossed
      BY <1>2
    <2> QED BY <1>1, <1>4, <1>6, <1>8, <1>9, <2>1 DEF TokenInv, SecretFollows, Pending
  <1>14. NamedOrDenied'
    <2>1. c \/ ~hist.crossed
      BY <1>2
    <2>2. \A o \in Slots : h[o].pc = "revoke" => o # s /\ h'[o] = h[o]
      BY <1>1, <1>9
    <2> QED BY <1>1, <1>4, <1>6, <2>1, <2>2 DEF TokenInv, NamedOrDenied, Tok
  <1> QED BY <1>10, <1>11, <1>12, <1>13, <1>14 DEF TokenInv

\* A renewal stores its token: the one it replaces is the one the row named.
LEMMA RefreshStoreKeeps == ASSUME TokenInv, NEW s \in Slots, RefreshStore(s) PROVE TokenInv'
  <1>0. MaxTokens \in Nat /\ TokenTypeOK /\ MintedInOrder /\ Mint
    BY DEF TokenInv, TokenAssumption, RefreshStore
  <1> DEFINE n == NextToken
             g == [h[s] EXCEPT !.pc = IF h[s].old = None THEN "reply" ELSE "revoke", !.new = n]
  <1>1. /\ n \in Tok /\ n # None /\ n \in Names /\ age' \in [Tok -> Ages] /\ age'[n] = "fresh"
        /\ \A k \in Tok \ {n} : age'[k] = age[k]
        /\ MintedInOrder'
    BY <1>0, MintIsNew DEF TokenTypeOK, Names
  <1>2. /\ h[s].pc = "store" /\ h[s] \in Handlers /\ UNCHANGED <<aud, box, st, deny, failures>>
        /\ row' = IF aud = "router" THEN [row EXCEPT !.jti = n, !.sec = n]
                  ELSE [row EXCEPT !.stored = @ \cup {n}]
        /\ h' = [h EXCEPT ![s] = g]
    BY <1>0 DEF RefreshStore, TokenTypeOK
  <1> HIDE DEF n
  <1>3. PICK p \in {"reply", "revoke"} : p = (IF h[s].old = None THEN "reply" ELSE "revoke")
    OBVIOUS
  <1>4. g \in Handlers /\ g.new = n /\ g.old = h[s].old /\ g.pc = p
    BY <1>1, <1>2, <1>3 DEF Handlers, Names
  <1> HIDE DEF g
  <1>5. h' \in [Slots -> Handlers] /\ h'[s] = g /\ \A o \in Slots \ {s} : h'[o] = h[o]
    BY <1>0, <1>2, <1>4, HandlerSet
  <1>6. PICK c \in BOOLEAN : c = (hist.crossed \/ st.pc # "idle")
    BY <1>0, FieldsTyped
  <1>7. hist' = [hist EXCEPT !.crossed = c]
    BY <1>6 DEF RefreshStore
  <1>8. hist' \in Hists /\ hist'.crossed = c /\ hist'.lost = hist.lost /\ hist'.loose = hist.loose
    BY <1>0, <1>7 DEF TokenTypeOK, Hists
  <1>9. /\ row' \in Rows /\ row'.status = row.status
        /\ aud = "router" => row'.jti = n /\ row'.sec = n
    BY <1>0, <1>1, <1>2 DEF TokenTypeOK, Rows, Names
  <1>10. TokenTypeOK' /\ TokenAssumption'
    BY <1>1, <1>2, <1>5, <1>8, <1>9 DEF TokenInv, TokenTypeOK, TokenAssumption, Tok, Hists
  <1>11. PhasesCarry' /\ HeardOnly'
    BY <1>2, <1>3, <1>4, <1>5, <1>8 DEF TokenInv, PhasesCarry, HeardOnly
  <1>12. c \/ ~hist.crossed
    BY <1>6
  <1>13. aud = "router" /\ ~hist.crossed => h[s].old = row.jti /\ \A o \in Slots \ {s} : h[o].pc # "store"
    BY <1>2 DEF TokenInv, ReplacesNamed
  <1>14. ReplacesNamed'
    BY <1>2, <1>3, <1>4, <1>5, <1>8, <1>12, <1>13 DEF ReplacesNamed
  <1>15. SecretFollows'
    <2>1. ~hist.lost => \A o \in Slots \ {s} : h[o].pc = "idle" /\ h[o].new = None
      BY <1>2 DEF TokenInv, HeardOnly, PhasesCarry
    <2> QED BY <1>1, <1>2, <1>4, <1>5, <1>8, <1>9, <2>1 DEF SecretFollows, Pending
  <1>16. NamedOrDenied'
    <2> SUFFICES ASSUME aud = "router", ~c, NEW k \in Tok, age'[k] \in {"fresh", "near"}
                 PROVE  \/ k = n \/ k \in deny \/ k \in hist.loose
                        \/ \E o \in Slots : h'[o].pc = "revoke" /\ h'[o].old = k
      BY <1>2, <1>8, <1>9 DEF NamedOrDenied, Tok
    <2>1. CASE k = n
      BY <2>1
    <2>2. CASE k # n
      <3>1. age[k] \in {"fresh", "near"} /\ k # None
        BY <1>1, <2>2 DEF None, Tok
      <3>2. CASE k = row.jti
        <4>1. h'[s].pc = "revoke" /\ h'[s].old = k
          BY <1>3, <1>4, <1>5, <1>12, <1>13, <3>1, <3>2
        <4> QED BY <4>1
      <3>3. CASE k \in deny \/ k \in hist.loose
        BY <3>3
      <3>4. ASSUME NEW o \in Slots, h[o].pc = "revoke", h[o].old = k
            PROVE  h'[o].pc = "revoke" /\ h'[o].old = k
        BY <1>2, <1>5, <3>4
      <3> QED BY <1>12, <3>1, <3>2, <3>3, <3>4 DEF TokenInv, NamedOrDenied
    <2> QED BY <2>1, <2>2
  <1> QED BY <1>1, <1>10, <1>11, <1>14, <1>15, <1>16 DEF TokenInv

\* The replaced token goes to the denylist, or is loose.
LEMMA RefreshRevokeKeeps == ASSUME TokenInv, NEW s \in Slots, RefreshRevoke(s) PROVE TokenInv'
  <1>0. TokenTypeOK /\ MaxTokens \in Nat /\ MaxFailures \in Nat
    BY DEF TokenInv, TokenAssumption
  <1> DEFINE g == [h[s] EXCEPT !.pc = "reply"]
             b == h[s].old
  <1>1. h[s].pc = "revoke" /\ h' = [h EXCEPT ![s] = g] /\ UNCHANGED <<aud, row, box, st, age>>
    BY DEF RefreshRevoke
  <1>2. b \in Tok
    BY <1>0, <1>1, HandlerTyped, NamedIsToken DEF TokenInv, PhasesCarry
  <1>3. g \in Handlers /\ g.pc = "reply" /\ g.new = h[s].new
    BY <1>0, HandlerTyped DEF Handlers
  <1>4. /\ hist' \in Hists /\ hist'.lost = hist.lost /\ hist'.crossed = hist.crossed
        /\ hist.loose \subseteq hist'.loose /\ deny' \in SUBSET Tok /\ deny \subseteq deny'
        /\ b \in hist'.loose \cup deny' /\ failures' \in 0..MaxFailures
    <2>1. CASE deny' = Denied(b) /\ UNCHANGED <<hist, failures>>
      BY <1>0, <1>2, <2>1 DEF Denied, TokenTypeOK, Hists
    <2>2. CASE Fault /\ hist' = [hist EXCEPT !.loose = @ \cup {b}] /\ UNCHANGED deny
      <3>1. failures' \in 0..MaxFailures
        BY <1>0, <2>2 DEF Fault, TokenTypeOK
      <3> HIDE DEF b
      <3>2. hist' \in Hists /\ hist'.loose = hist.loose \cup {b} /\ hist'.lost = hist.lost /\ hist'.crossed = hist.crossed
        BY <1>0, <1>2, <2>2 DEF TokenTypeOK, Hists
      <3> QED BY <1>0, <2>2, <3>1, <3>2 DEF TokenTypeOK
    <2> QED BY <2>1, <2>2 DEF RefreshRevoke, Replaced
  <1> HIDE DEF g
  <1>5. h' \in [Slots -> Handlers] /\ h'[s] = g /\ \A o \in Slots \ {s} : h'[o] = h[o]
    BY <1>0, <1>1, <1>3, HandlerSet
  <1>6. TokenTypeOK' /\ TokenAssumption' /\ MintedInOrder'
    BY <1>1, <1>4, <1>5 DEF TokenInv, TokenTypeOK, TokenAssumption, MintedInOrder, MintedUpTo, Tok, Hists
  <1>7. PhasesCarry' /\ HeardOnly' /\ ReplacesNamed'
    BY <1>1, <1>3, <1>4, <1>5 DEF TokenInv, PhasesCarry, HeardOnly, ReplacesNamed
  <1>8. \A o \in Slots : h'[o].new = h[o].new
    BY <1>3, <1>5
  <1>9. SecretFollows'
    BY <1>1, <1>4, <1>8 DEF TokenInv, SecretFollows, Pending
  <1>10. NamedOrDenied'
    <2> SUFFICES ASSUME aud = "router", ~hist.crossed, NEW k \in Tok, age[k] \in {"fresh", "near"}
                 PROVE  \/ k = row.jti \/ k \in deny' \/ k \in hist'.loose
                        \/ \E o \in Slots : h'[o].pc = "revoke" /\ h'[o].old = k
      BY <1>1, <1>4 DEF NamedOrDenied, Tok
    <2>1. ASSUME NEW o \in Slots, h[o].pc = "revoke", h[o].old = k
          PROVE  k = b \/ (h'[o].pc = "revoke" /\ h'[o].old = k)
      BY <1>5, <2>1
    <2> QED BY <1>4, <2>1 DEF TokenInv, NamedOrDenied
  <1> QED BY <1>6, <1>7, <1>9, <1>10 DEF TokenInv

\* The answer is heard, if the container still waits for it.
LEMMA RefreshReplyKeeps == ASSUME TokenInv, NEW s \in Slots, RefreshReply(s) PROVE TokenInv'
  <1>0. TokenTypeOK /\ MaxTokens \in Nat
    BY DEF TokenInv, TokenAssumption
  <1>1. /\ h[s].pc = "reply" /\ h' = [h EXCEPT ![s] = IdleHandler]
        /\ UNCHANGED <<aud, row, st, age, deny, hist, failures>>
        /\ box' = IF box.ask # {s} THEN box
                  ELSE IF h[s].new = None THEN [box EXCEPT !.ask = {}] ELSE Renewed(h[s].new)
    BY DEF RefreshReply
  <1>2. h' \in [Slots -> Handlers] /\ h'[s] = IdleHandler /\ \A o \in Slots \ {s} : h'[o] = h[o]
    BY <1>0, <1>1, IdleTyped, HandlerSet
  <1>3. PICK k \in Names : k = h[s].new
    BY <1>0, HandlerTyped
  <1>4. /\ box' \in Boxes /\ box'.on = box.on
        /\ box'.ask = (IF box.ask = {s} THEN {} ELSE box.ask)
        /\ box.ask = {s} => box'.sec = IF k = None THEN box.sec ELSE k
    BY <1>0, <1>1, <1>3 DEF TokenTypeOK, Boxes, Renewed, Names
  <1>5. TokenTypeOK' /\ TokenAssumption' /\ MintedInOrder'
    BY <1>1, <1>2, <1>4 DEF TokenInv, TokenTypeOK, TokenAssumption, MintedInOrder, MintedUpTo, Tok
  <1>6. PhasesCarry' /\ ReplacesNamed'
    <2>1. h'[s].pc = "idle" /\ h'[s].new = None
      BY <1>0, <1>2, IdleTyped
    <2> QED BY <1>1, <1>2, <1>4, <2>1 DEF TokenInv, PhasesCarry, ReplacesNamed
  <1>7. ~hist.lost => box.ask = {s} /\ \A o \in Slots \ {s} : h[o].pc = "idle" /\ h[o].new = None
    BY <1>1 DEF TokenInv, HeardOnly, PhasesCarry
  <1>8. \A o \in Slots : ~hist.lost => h'[o].pc = "idle" /\ h'[o].new = None
    BY <1>0, <1>2, <1>7, IdleTyped
  <1>9. HeardOnly'
    BY <1>1, <1>8 DEF HeardOnly
  <1>10. SecretFollows'
    <2> SUFFICES ASSUME aud = "router", row.status = "running", st.pc = "idle", ~hist.lost, ~hist.crossed
                 PROVE  row.sec = box'.sec
      BY <1>1, <1>8 DEF SecretFollows, Pending
    <2> QED BY <1>3, <1>4, <1>7 DEF TokenInv, SecretFollows, Pending
  <1>11. NamedOrDenied'
    <2>1. \A o \in Slots : h[o].pc = "revoke" => h'[o] = h[o]
      BY <1>1, <1>2
    <2> QED BY <1>1, <2>1 DEF TokenInv, NamedOrDenied, Tok
  <1> QED BY <1>5, <1>6, <1>9, <1>10, <1>11 DEF TokenInv

\* A renewal that dies answers nothing, and what it was to revoke is loose.
LEMMA RefreshDiesKeeps == ASSUME TokenInv, NEW s \in Slots, RefreshDies(s) PROVE TokenInv'
  <1>0. TokenTypeOK /\ MaxTokens \in Nat /\ MaxFailures \in Nat
    BY DEF TokenInv, TokenAssumption
  <1>1. /\ h' = [h EXCEPT ![s] = IdleHandler] /\ UNCHANGED <<aud, row, st, age, deny>>
        /\ box' = IF box.ask = {s} THEN [box EXCEPT !.ask = {}] ELSE box
        /\ h[s].pc # "idle"
    BY DEF RefreshDies
  <1>2. h' \in [Slots -> Handlers] /\ h'[s] = IdleHandler /\ \A o \in Slots \ {s} : h'[o] = h[o]
    BY <1>0, <1>1, IdleTyped, HandlerSet
  <1>3. PICK b \in BOOLEAN : b = (hist.lost \/ h[s].new # None)
    BY <1>0, FieldsTyped
  <1>4. h[s].pc = "revoke" => h[s].old \in Tok
    BY <1>0, HandlerTyped, NamedIsToken DEF TokenInv, PhasesCarry
  <1>5. PICK o \in SUBSET Tok : o = (IF h[s].pc = "revoke" THEN hist.loose \cup {h[s].old} ELSE hist.loose)
    BY <1>0, <1>4, FieldsTyped
  <1>6. hist' = [hist EXCEPT !.lost = b, !.loose = o]
    BY <1>3, <1>5 DEF RefreshDies
  <1>7. hist' \in Hists /\ hist'.lost = b /\ hist'.loose = o /\ hist'.crossed = hist.crossed
    BY <1>0, <1>6 DEF TokenTypeOK, Hists
  <1>8. failures' \in 0..MaxFailures
    BY <1>0 DEF RefreshDies, Fault, TokenTypeOK
  <1>9. /\ box' \in Boxes /\ box'.on = box.on /\ box'.sec = box.sec
        /\ box'.ask = (IF box.ask = {s} THEN {} ELSE box.ask)
    BY <1>0, <1>1 DEF TokenTypeOK, Boxes
  <1>10. TokenTypeOK' /\ TokenAssumption' /\ MintedInOrder'
    BY <1>1, <1>2, <1>7, <1>8, <1>9 DEF TokenInv, TokenTypeOK, TokenAssumption, MintedInOrder, MintedUpTo, Tok, Hists
  <1>11. h'[s].pc = "idle" /\ h'[s].new = None
    BY <1>0, <1>2, IdleTyped
  <1>12. PhasesCarry' /\ ReplacesNamed'
    BY <1>1, <1>2, <1>7, <1>9, <1>11 DEF TokenInv, PhasesCarry, ReplacesNamed
  <1>13. ~hist.lost => \A p \in Slots \ {s} : h[p].pc = "idle" /\ h[p].new = None
    BY <1>1 DEF TokenInv, HeardOnly, PhasesCarry
  <1>14. ~b => ~hist.lost /\ h[s].new = None
    BY <1>3
  <1>15. HeardOnly'
    BY <1>2, <1>7, <1>11, <1>13, <1>14 DEF HeardOnly
  <1>16. SecretFollows'
    BY <1>1, <1>2, <1>7, <1>9, <1>11, <1>13, <1>14 DEF TokenInv, SecretFollows, Pending
  <1>17. NamedOrDenied'
    <2> SUFFICES ASSUME aud = "router", ~hist.crossed, NEW k \in Tok, age[k] \in {"fresh", "near"}
                 PROVE  \/ k = row.jti \/ k \in deny \/ k \in o
                        \/ \E p \in Slots : h'[p].pc = "revoke" /\ h'[p].old = k
      BY <1>1, <1>7 DEF NamedOrDenied, Tok
    <2>1. ASSUME NEW p \in Slots, h[p].pc = "revoke", h[p].old = k
          PROVE  k \in o \/ (h'[p].pc = "revoke" /\ h'[p].old = k)
      BY <1>2, <1>5, <2>1
    <2> QED BY <1>5, <2>1 DEF TokenInv, NamedOrDenied
  <1> QED BY <1>10, <1>12, <1>15, <1>16, <1>17 DEF TokenInv
-----------------------------------------------------------------------------
(* The theorem.                                                             *)

\* The invariant at the start.
LEMMA TokensStart == ASSUME TokenAssumption, TokenInit PROVE TokenInv
  <1>1. MaxTokens \in Nat /\ MaxFailures \in Nat
    BY DEF TokenAssumption
  <1>2. None \in Names /\ 0 \in 0..MaxFailures
    BY <1>1 DEF None, Names
  <1>3. IdleHandler \in Handlers /\ IdleHandler.pc = "idle" /\ IdleHandler.new = None /\ IdleStop \in Stops
        /\ IdleStop.pc = "idle"
    BY <1>1, IdleTyped
  <1>4. TokenTypeOK
    <2>1. row \in Rows /\ box \in Boxes
      BY <1>2 DEF TokenInit, Rows, Boxes, Names
    <2>2. h \in [Slots -> Handlers] /\ st \in Stops
      BY <1>3 DEF TokenInit
    <2>3. age \in [Tok -> Ages] /\ deny \in SUBSET Tok /\ failures \in 0..MaxFailures /\ aud \in {"router", "akm"}
          /\ hist \in [loose: SUBSET Tok, lost: BOOLEAN, crossed: BOOLEAN]
      BY <1>2 DEF TokenInit, Ages
    <2> QED BY <2>1, <2>2, <2>3 DEF TokenTypeOK
  <1>5. MintedInOrder
    <2>1. 0 \in 0..MaxTokens /\ \A n \in Tok : ~(n <= 0)
      BY <1>1 DEF Tok
    <2>2. MintedUpTo(0)
      BY <2>1 DEF TokenInit, MintedUpTo
    <2> QED BY <2>1, <2>2 DEF MintedInOrder
  <1>6. PhasesCarry /\ HeardOnly /\ ReplacesNamed /\ SecretFollows
    BY <1>3 DEF TokenInit, PhasesCarry, HeardOnly, ReplacesNamed, SecretFollows
  <1>7. NamedOrDenied
    BY DEF TokenInit, NamedOrDenied
  <1> QED BY <1>4, <1>5, <1>6, <1>7 DEF TokenInv

\* Every step keeps the invariant.
LEMMA TokenInvKept == ASSUME TokenInv, [TokenNext]_tokenVars PROVE TokenInv'
  <1>1. CASE TokenNext
    BY <1>1, AgeKeeps, StartKeeps, StopReadKeeps, StopRevokeKeeps, StopRemoveKeeps, StopWriteKeeps,
       BoxAsksKeeps, BoxGivesUpKeeps, RefreshCheckKeeps, RefreshStoreKeeps, RefreshRevokeKeeps,
       RefreshReplyKeeps, RefreshDiesKeeps DEF TokenNext
  <1> QED BY <1>1, Stutters

\* What is kept is what is promised.
LEMMA TokenInvSuffices == ASSUME TokenInv PROVE TokenTypeOK /\ RowKeepsTrack
  <1>1. SecretsAgree
    <2> SUFFICES ASSUME aud = "router", row.status = "running", st.pc = "idle", Quiet, ~hist.lost, ~hist.crossed
                 PROVE  row.sec = box.sec
      BY DEF SecretsAgree
    <2>1. \A s \in Slots : h[s].pc \in {"idle", "check"}
      BY HandlerTyped DEF Quiet, TokenInv
    <2>2. \A s \in Slots : ~Pending(s)
      BY <2>1 DEF TokenInv, PhasesCarry, Pending
    <2> QED BY <2>2 DEF TokenInv, SecretFollows
  <1> QED BY <1>1 DEF TokenInv, RowKeepsTrack

\* model-router-refresh.ts, routes/agents.ts, token_refresh.py: the row's secret is
\* the one its container holds, and a token that is not expired is named by the row,
\* denied, about to be, or loose; unless a renewal was crossed or an answer lost.
THEOREM TokensStayTracked == TokenSpec => [](TokenTypeOK /\ RowKeepsTrack)
  <1>1. TokenInit => TokenInv
    BY TokensStart, TokenAssumption
  <1>2. TokenInv /\ [TokenNext]_tokenVars => TokenInv'
    BY TokenInvKept
  <1>3. TokenInv => TokenTypeOK /\ RowKeepsTrack
    BY TokenInvSuffices
  <1> QED BY <1>1, <1>2, <1>3, PTL DEF TokenSpec
=============================================================================
