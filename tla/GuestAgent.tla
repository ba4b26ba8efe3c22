----------------------------- MODULE GuestAgent -----------------------------
(***************************************************************************)
(* Running a command in the guest: the control server's "NOVM RUN"         *)
(* connections (control/server.go, guest.go) and the agent that serves     *)
(* them (noguest/main.go, noguest/rpc).  The agent starts processes, a     *)
(* goroutine that every start launches reaps them, and Wait tells the      *)
(* connection how one ended.                                               *)
(*                                                                         *)
(* A run is one connection and the process it starts.  Pids are the        *)
(* kernel's, which gives one out again once its process has been reaped.   *)
(* Process.close locks the process and calls setExitcode, which locks it   *)
(* again and waits for itself for ever; clearStale calls it with           *)
(* server.mutex held, which is held for single steps otherwise.            *)
(***************************************************************************)
EXTENDS Naturals, FiniteSets

CONSTANTS
  Runs,      \* connections that run a command
  Pids,
  Codes,     \* exit codes
  Boot,      \* the reaper that the agent starts with
  None

ASSUME RunsAssumption == IsFiniteSet(Runs) /\ Boot \notin Runs /\ None \notin Runs \cup Pids
ASSUME NoneIsNoResult == None \notin Codes /\ None \notin {"ok", "error"}

Reapers == Runs \cup {Boot}

VARIABLES
  control,  \* Control: init's progress, client_res, client_once and client_err
  opened,   \* VirtioConsoleDevice.Opened: until then its locks are held
  guest,    \* main of the agent, up to rpc.Run
  run,      \* where the handler of a connection, or the call it makes, is
  on,       \* the process that its call of Wait waits for
  child,    \* the kernel's view of the process
  pid,
  status,   \* how it ended: a code, or None for a signal
  active,   \* Server.active
  proc,     \* Process: exited, exitcode
  waiting,  \* Server.waiting
  reaper,   \* the goroutines in Server.wait: the run reaped, the process found
  locked,   \* processes whose close waits for itself
  stuck,    \* server.mutex is held by such a close
  lost, left \* ghosts, see WaitReturns

boot    == <<control, opened, guest>>
runs    == <<run, on>>
kernel  == <<child, pid, status>>
server  == <<active, proc, waiting, locked, stuck>>
ghosts  == <<lost, left>>
vars    == <<boot, runs, kernel, server, reaper, ghosts>>

Idle == [pc |-> "none", of |-> None, to |-> None, last |-> FALSE]

\* A machine that is restored is taken for synchronised: restart waits for
\* the handshake before it saves (main.go:315).
Init ==
  /\ \/ /\ control = [init |-> "read", res |-> None, once |-> "new", err |-> None]
        /\ guest = "start" /\ opened = FALSE
     \/ /\ control = [init |-> "sent", res |-> "ok", once |-> "new", err |-> None]
        /\ guest = "okay" /\ opened = TRUE
  /\ run = [r \in Runs |-> "idle"]
  /\ on = [r \in Runs |-> None]
  /\ child = [r \in Runs |-> "none"]
  /\ pid = [r \in Runs |-> None]
  /\ status = [r \in Runs |-> None]
  /\ active = [p \in Pids |-> None]
  /\ proc = [r \in Runs |-> [exited |-> FALSE, code |-> None]]
  /\ waiting = FALSE
  /\ reaper = [g \in Reapers |-> Idle]
  /\ locked = {}
  /\ stuck = FALSE
  /\ lost = {}
  /\ left = {}

-----------------------------------------------------------------------------
(* The handshake: a status byte from the agent, a command byte to it.      *)

\* The guest's driver says that the port is ready, and the console lets reads
\* and writes through.
PortReady ==
  /\ ~opened
  /\ opened' = TRUE
  /\ UNCHANGED <<control, guest, runs, kernel, server, reaper, ghosts>>

\* noguest opens the console, mounts devpts and writes its status; without
\* them it ends, and nothing is ever written.
GuestStatus ==
  /\ guest = "start" /\ opened
  /\ guest' \in {"okay", "dead"}
  /\ UNCHANGED <<control, opened, runs, kernel, server, reaper, ghosts>>

\* Control.init reads the status.  A byte that something else in the guest has
\* written is an error, and ends it; an empty buffer is neither a status nor an
\* error, and it goes on whatever the agent is doing.
InitRead ==
  /\ control.init = "read" /\ opened
  /\ \/ guest = "okay" /\ control' = [control EXCEPT !.init = "write"]
     \/ control' = [control EXCEPT !.init = "failed", !.res = "error"]
     \/ control' = [control EXCEPT !.init = "write"]
  /\ UNCHANGED <<opened, guest, runs, kernel, server, reaper, ghosts>>

\* Faulty variant: the result is there before the command has been written.
InitWriteLate ==
  /\ control.init = "write" /\ control.res = None
  /\ control' = [control EXCEPT !.res = "ok"]
  /\ UNCHANGED <<opened, guest, runs, kernel, server, reaper, ghosts>>

\* It writes the command into a buffer of the guest's.
InitWrite ==
  /\ control.init = "write"
  /\ control' = [control EXCEPT !.init = "sent", !.res = "ok"]
  /\ UNCHANGED <<opened, guest, runs, kernel, server, reaper, ghosts>>

\* The agent reads the command and runs its server: in place, or beside the
\* real init.
GuestServe ==
  /\ guest = "okay" /\ control.init = "sent"
  /\ guest' = "serving"
  /\ reaper' = [reaper EXCEPT ![Boot].pc = "enter"]
  /\ UNCHANGED <<control, opened, runs, kernel, server, ghosts>>

\* Control.Ready: the first caller takes the result from the channel, and the
\* others wait for it in Once.Do.
Ready(r) ==
  /\ run[r] = "idle"
  /\ IF control.once = "done" THEN UNCHANGED control
     ELSE /\ control.res # None
          /\ control' = [control EXCEPT !.once = "done", !.err = control.res, !.res = None]
  /\ run' = [run EXCEPT ![r] = IF control'.err = "ok" THEN "start" ELSE "refused"]
  /\ UNCHANGED <<opened, guest, on, kernel, server, reaper, ghosts>>

-----------------------------------------------------------------------------
(* Server.Start.                                                           *)

Alive(r) == child[r] \in {"running", "zombie"}

\* No command, no binary, or no terminal or pipe: Start returns an error.
StartFails(r) ==
  /\ run[r] = "start" /\ guest = "serving"
  /\ run' = [run EXCEPT ![r] = "refused"]
  /\ UNCHANGED <<boot, on, kernel, server, reaper, ghosts>>

StartProcess(r, p) ==
  /\ run[r] = "start" /\ guest = "serving"
  /\ \A q \in Runs : Alive(q) => pid[q] # p
  /\ run' = [run EXCEPT ![r] = "register"]
  /\ child' = [child EXCEPT ![r] = "running"]
  /\ pid' = [pid EXCEPT ![r] = p]
  /\ UNCHANGED <<boot, on, status, server, reaper, ghosts>>

\* The process is entered.  One that has the pid already is closed, and the
\* call never returns.
Register(r) ==
  LET old == active[pid[r]] IN
  /\ run[r] = "register" /\ ~stuck
  /\ active' = [active EXCEPT ![pid[r]] = r]
  /\ IF old # None
     THEN /\ run' = [run EXCEPT ![r] = "hung"]
          /\ locked' = locked \cup {old}
          /\ UNCHANGED reaper
     ELSE /\ run' = [run EXCEPT ![r] = "started"]
          /\ reaper' = [reaper EXCEPT ![r].pc = "enter"]
          /\ UNCHANGED locked
  /\ UNCHANGED <<boot, on, kernel, proc, waiting, stuck, ghosts>>

-----------------------------------------------------------------------------
(* The process, and Server.wait.                                           *)

\* It exits with a code, or is killed; then its pipes are closed.
Exits(r) ==
  /\ child[r] = "running"
  /\ child' = [child EXCEPT ![r] = "zombie"]
  /\ \E s \in Codes \cup {None} : status' = [status EXCEPT ![r] = s]
  /\ UNCHANGED <<boot, runs, pid, server, reaper, ghosts>>

Enter(g) ==
  /\ reaper[g].pc = "enter" /\ ~stuck
  /\ waiting' = TRUE
  /\ reaper' = [reaper EXCEPT ![g].pc = IF waiting THEN "done" ELSE "wait4"]
  /\ UNCHANGED <<boot, runs, kernel, active, proc, locked, stuck, ghosts>>

\* Wait4 gives a zombie, or ECHILD if there is no child at all.
Wait4(g) ==
  /\ reaper[g].pc = "wait4"
  /\ \/ \E r \in Runs :
          /\ child[r] = "zombie"
          /\ child' = [child EXCEPT ![r] = "reaped"]
          /\ reaper' = [reaper EXCEPT ![g] = [@ EXCEPT !.pc = "got", !.of = r]]
     \/ /\ \A r \in Runs : ~Alive(r)
        /\ reaper' = [reaper EXCEPT ![g].pc = "echild"]
        /\ UNCHANGED child
  /\ UNCHANGED <<boot, runs, pid, status, server, ghosts>>

\* Faulty variant: there is no last run.
EchildEnds(g) ==
  /\ reaper[g].pc = "echild" /\ ~stuck
  /\ waiting' = FALSE
  /\ reaper' = [reaper EXCEPT ![g].pc = "done"]
  /\ UNCHANGED <<boot, runs, kernel, active, proc, locked, stuck, ghosts>>

\* No children: waiting is taken back, and Wait4 called once more.
Echild(g) ==
  /\ reaper[g].pc = "echild" /\ ~stuck
  /\ waiting' = FALSE
  /\ reaper' = IF waiting THEN [reaper EXCEPT ![g] = [@ EXCEPT !.pc = "wait4", !.last = TRUE]]
               ELSE [reaper EXCEPT ![g].pc = "done"]
  /\ UNCHANGED <<boot, runs, kernel, active, proc, locked, stuck, ghosts>>

\* Faulty variant: a process that was killed has an exit code too.
ExitedAny(r) == TRUE

\* WaitStatus.Exited.
Exited(r) == status[r] # None

\* After a last run's child the goroutine ends, whoever else is alive.
After(g) ==
  /\ reaper' = [reaper EXCEPT ![g] =
                  [Idle EXCEPT !.pc = IF reaper[g].last THEN "done" ELSE "wait4",
                               !.last = reaper[g].last]]
  /\ left' = IF reaper[g].last THEN left \cup {q \in Runs : Alive(q)} ELSE left

\* The process that has the pid is looked up, and ...
Lookup(g) ==
  LET r == reaper[g].of IN
  /\ reaper[g].pc = "got" /\ (Exited(r) => ~stuck)
  /\ IF Exited(r) /\ active[pid[r]] # None
     THEN /\ reaper' = [reaper EXCEPT ![g] = [@ EXCEPT !.pc = "set", !.to = active[pid[r]]]]
          /\ UNCHANGED left
     ELSE After(g)
  /\ lost' = IF active[pid[r]] # r THEN lost \cup {r} ELSE lost
  /\ UNCHANGED <<boot, runs, kernel, server>>

\* ... told the code.
SetExitcode(g) ==
  /\ reaper[g].pc = "set" /\ reaper[g].to \notin locked
  /\ proc' = [proc EXCEPT ![reaper[g].to] = [exited |-> TRUE, code |-> status[reaper[g].of]]]
  /\ After(g)
  /\ UNCHANGED <<boot, runs, kernel, active, waiting, locked, stuck, lost>>

\* clearStale finds a process to close: one that ran for more than a minute,
\* whenever it ended.
ClearStale(p) ==
  LET old == active[p] IN
  /\ ~stuck
  /\ old # None /\ proc[old].exited
  /\ active' = [active EXCEPT ![p] = None]
  /\ locked' = locked \cup {old}
  /\ stuck' = TRUE
  /\ UNCHANGED <<boot, runs, kernel, proc, waiting, reaper, ghosts>>

-----------------------------------------------------------------------------
(* The connection: it waits, and reads until the output ends.              *)

\* Server.Wait looks the pid up; a process that is not there has code -1.
WaitCall(r) ==
  LET p == active[pid[r]] IN
  /\ run[r] = "started" /\ ~stuck
  /\ run' = [run EXCEPT ![r] = IF p = None THEN "drain" ELSE "wait"]
  /\ on' = [on EXCEPT ![r] = p]
  /\ UNCHANGED <<boot, kernel, server, reaper, ghosts>>

\* Process.wait: the connection is told the code.
WaitReturn(r) ==
  /\ run[r] = "wait"
  /\ proc[on[r]].exited /\ on[r] \notin locked
  /\ run' = [run EXCEPT ![r] = "drain"]
  /\ UNCHANGED <<boot, on, kernel, server, reaper, ghosts>>

\* And it has read what there was: a Read that found a process under the pid
\* fails once that process has closed its output.  A Read that finds none
\* returns nothing and no error, and one that waits for the server's mutex does
\* not return: then the loop does not end, so nothing makes this happen.
Close(r) ==
  /\ run[r] = "drain"
  /\ \E q \in Runs : /\ pid[q] = pid[r] /\ run[q] # "register"
                     /\ child[q] \in {"zombie", "reaped"}
  /\ run' = [run EXCEPT ![r] = "closed"]
  /\ UNCHANGED <<boot, on, kernel, server, reaper, ghosts>>

\* Or the client has hung up, and what was read cannot be sent to it.
HangUp(r) ==
  /\ run[r] = "drain"
  /\ run' = [run EXCEPT ![r] = "closed"]
  /\ UNCHANGED <<boot, on, kernel, server, reaper, ghosts>>

-----------------------------------------------------------------------------
Handshake == InitRead \/ InitWrite \/ GuestServe
Reap(g)   == Enter(g) \/ Wait4(g) \/ Echild(g) \/ Lookup(g) \/ SetExitcode(g)
Serve(r)  == Register(r) \/ WaitCall(r) \/ WaitReturn(r)

Next ==
  \/ PortReady \/ GuestStatus \/ Handshake
  \/ \E r \in Runs : Ready(r) \/ StartFails(r) \/ Exits(r) \/ Serve(r) \/ Close(r) \/ HangUp(r)
  \/ \E r \in Runs, p \in Pids : StartProcess(r, p)
  \/ \E g \in Reapers : Reap(g)
  \/ \E p \in Pids : ClearStale(p)

Spec == Init /\ [][Next]_vars

\* Goroutines go on; processes end when they like.
FairSpec ==
  /\ Spec
  /\ WF_vars(Handshake)
  /\ \A r \in Runs : WF_vars(Serve(r))
  /\ \A g \in Reapers : WF_vars(Reap(g))

-----------------------------------------------------------------------------
(* Properties.                                                             *)

\* A process that is marked as exited has exited and has been reaped, with the
\* code it is said to have, if its pid has not been given out twice: a reaper
\* between Wait4 and the lookup (server.go:151) then finds the other process.
CodeIsTrue ==
  \A r \in Runs :
    proc[r].exited /\ (\A q \in Runs \ {r} : pid[q] # pid[r]) =>
      child[r] = "reaped" /\ status[r] # None /\ proc[r].code = status[r]

\* A reaper that waits for the lock of a process whose close waits for itself.
ReaperHangs == \E g \in Reapers : reaper[g].pc = "set" /\ reaper[g].to \in locked

\* A connection that waits for a process that has exited is told so.  What
\* keeps it from being told is one of these: the process was killed
\* (server.go:150 looks at exits only); its exit was looked up before Start
\* had entered it (start.go:223), or its pid has another process; a last run
\* ended with another child while it was alive (server.go:156); a close waits
\* for itself with its lock, the reaper's or the server's (server.go:73).  The
\* race of one start with a reaper that finds no children is not among them.
WaitReturns ==
  \A r \in Runs :
    (run[r] = "wait" /\ child[r] \in {"zombie", "reaped"} /\ status[r] # None) ~>
      (run[r] # "wait" \/ r \in lost \cup left \cup locked \/ on[r] # r \/ ReaperHangs \/ stuck)

\* No run is started before the agent has been sent the command to serve,
\* whichever of the handlers takes the result (guest.go:73); and when one is
\* refused by the handshake then all of them are.
ReadyAgrees ==
  /\ \A r \in Runs : run[r] \notin {"idle", "refused"} => control.init = "sent"
  /\ control.err = "error" => \A r \in Runs : run[r] \in {"idle", "refused"}

=============================================================================
