------------------------- MODULE GuestAgentProofs -------------------------
(***************************************************************************)
(* Proofs about the guest agent, for any number of connections, pids and   *)
(* exit codes.                                                             *)
(***************************************************************************)
EXTENDS GuestAgent, TLAPS

\* Reapers' records.
ReaperRecords ==
  [pc : {"none", "enter", "wait4", "got", "set", "echild", "done"},
   of : Runs \cup {None}, to : Runs \cup {None}, last : BOOLEAN]

\* The types, as far as the arguments below need them.
TypeInv ==
  /\ run \in [Runs -> {"idle", "start", "refused", "register", "started", "hung",
                       "wait", "drain", "closed"}]
  /\ control \in [init : {"read", "write", "failed", "sent"}, res : {None, "ok", "error"},
                  once : {"new", "done"}, err : {None, "ok", "error"}]
  /\ child \in [Runs -> {"none", "running", "zombie", "reaped"}]
  /\ pid \in [Runs -> Pids \cup {None}]
  /\ status \in [Runs -> Codes \cup {None}]
  /\ active \in [Pids -> Runs \cup {None}]
  /\ proc \in [Runs -> [exited : BOOLEAN, code : Codes \cup {None}]]
  /\ reaper \in [Reapers -> ReaperRecords]

\* A run has a process, and its pid, once its start has got one, and never
\* another.
StartedInv ==
  \A r \in Runs :
    IF run[r] \in {"idle", "start", "refused"}
    THEN child[r] = "none" /\ pid[r] = None
    ELSE child[r] # "none" /\ pid[r] \in Pids

\* Processes are entered under their pid.
ActiveInv == \A p \in Pids : active[p] # None => pid[active[p]] = p

\* A reaper that has had a child from Wait4 knows one that will not change any
\* more, and sets the code of one that has, or had, the same pid.
ReaperInv ==
  \A g \in Reapers :
    /\ reaper[g].pc \in {"got", "set"} =>
         reaper[g].of \in Runs /\ child[reaper[g].of] = "reaped"
    /\ reaper[g].pc = "set" =>
         /\ reaper[g].to \in Runs
         /\ pid[reaper[g].to] = pid[reaper[g].of]
         /\ status[reaper[g].of] # None

\* Only processes that were started are marked.
ExitedInv == \A r \in Runs : proc[r].exited => pid[r] \in Pids

\* The result of the handshake is made once, and taken once; where it is "ok"
\* the agent has been sent the command.
ReadyInv ==
  /\ control.init \in {"read", "write"} => control.res = None /\ control.once = "new"
  /\ control.once = "new" => control.err = None
  /\ control.res = "ok" \/ control.err = "ok" => control.init = "sent"
  /\ \A r \in Runs : run[r] \notin {"idle", "refused"} => control.err = "ok"

\* The inductive invariant.
IInv ==
  /\ TypeInv /\ StartedInv /\ ActiveInv /\ ReaperInv /\ ExitedInv
  /\ CodeIsTrue /\ ReadyInv

-----------------------------------------------------------------------------
\* The initial states, of a fresh machine and of a restored one.
LEMMA InitInv == Init => IInv
<1> SUFFICES ASSUME Init PROVE IInv
  OBVIOUS
<1>1. Idle \in ReaperRecords /\ Idle.pc = "none"
  BY DEF Idle, ReaperRecords
<1>2. control \in [init : {"read", "write", "failed", "sent"}, res : {None, "ok", "error"},
                   once : {"new", "done"}, err : {None, "ok", "error"}]
  BY DEF Init
<1>3. TypeInv
  BY <1>1, <1>2 DEF Init, TypeInv
<1>4. ReadyInv
  BY NoneIsNoResult DEF Init, ReadyInv
<1> QED
  BY <1>1, <1>3, <1>4
     DEF Init, IInv, StartedInv, ActiveInv, ReaperInv, ExitedInv, CodeIsTrue

\* The types are kept.
LEMMA TypeStep == IInv /\ [Next]_vars => TypeInv'
<1> SUFFICES ASSUME IInv, [Next]_vars PROVE TypeInv'
  OBVIOUS
<1> USE DEF boot, runs, kernel, server, ghosts
<1>t. TypeInv /\ ReaperInv /\ StartedInv
  BY DEF IInv
<1>i. Idle \in ReaperRecords
  BY DEF Idle, ReaperRecords
<1>r. reaper \in [Reapers -> ReaperRecords]
  BY <1>t DEF TypeInv
<1>p. ASSUME NEW g \in Reapers, NEW p \in {"enter", "wait4", "echild", "done"}
      PROVE  [reaper[g] EXCEPT !.pc = p] \in ReaperRecords
  <2> reaper[g] \in ReaperRecords
    BY <1>r
  <2> QED
    BY DEF ReaperRecords
<1>a. ASSUME NEW g \in Reapers, After(g) PROVE reaper' \in [Reapers -> ReaperRecords]
  <2>1. [Idle EXCEPT !.pc = IF reaper[g].last THEN "done" ELSE "wait4",
                     !.last = reaper[g].last] \in ReaperRecords
    BY <1>t, <1>i DEF TypeInv, ReaperRecords
  <2> QED
    BY <1>a, <1>t, <2>1 DEF After, TypeInv
<1>1. CASE PortReady \/ GuestStatus \/ InitRead \/ InitWrite
  BY <1>1, <1>t DEF PortReady, GuestStatus, InitRead, InitWrite, TypeInv
<1>2. CASE GuestServe
  BY <1>2, <1>t DEF GuestServe, TypeInv, Reapers, ReaperRecords
<1>3. ASSUME NEW r \in Runs, Ready(r) PROVE TypeInv'
  <2>1. control' \in [init : {"read", "write", "failed", "sent"}, res : {None, "ok", "error"},
                      once : {"new", "done"}, err : {None, "ok", "error"}]
    BY <1>3, <1>t DEF Ready, TypeInv
  <2> QED
    BY <1>3, <1>t, <2>1 DEF Ready, TypeInv
<1>4. ASSUME NEW r \in Runs, StartFails(r) \/ Exits(r) \/ WaitCall(r) \/ WaitReturn(r) \/ Close(r) \/ HangUp(r)
      PROVE  TypeInv'
  <2>1. CASE StartFails(r) \/ WaitReturn(r) \/ Close(r) \/ HangUp(r)
    BY <2>1, <1>t DEF StartFails, WaitReturn, Close, HangUp, TypeInv
  <2>2. CASE Exits(r)
    BY <2>2, <1>t DEF Exits, TypeInv
  <2>3. CASE WaitCall(r)
    BY <2>3, <1>t DEF WaitCall, TypeInv
  <2> QED
    BY <1>4, <2>1, <2>2, <2>3
<1>5. ASSUME NEW r \in Runs, NEW p \in Pids, StartProcess(r, p) PROVE TypeInv'
  BY <1>5, <1>t DEF StartProcess, TypeInv
<1>6. ASSUME NEW r \in Runs, Register(r) PROVE TypeInv'
  <2>1. pid[r] \in Pids
    BY <1>6, <1>t DEF Register, StartedInv
  <2>2. reaper' \in [Reapers -> ReaperRecords]
    <3>1. r \in Reapers
      BY DEF Reapers
    <3> QED
      BY <1>6, <1>r, <1>p, <3>1 DEF Register
  <2> QED
    BY <1>6, <1>t, <2>1, <2>2 DEF Register, TypeInv
<1>7. ASSUME NEW g \in Reapers, Enter(g) PROVE TypeInv'
  <2>1. reaper' \in [Reapers -> ReaperRecords]
    BY <1>7, <1>r, <1>p DEF Enter
  <2> QED
    BY <1>7, <1>t, <2>1 DEF Enter, TypeInv
<1>8. ASSUME NEW g \in Reapers, Wait4(g) PROVE TypeInv'
  <2>1. reaper' \in [Reapers -> ReaperRecords]
    <3>1. ASSUME NEW r \in Runs PROVE [reaper[g] EXCEPT !.pc = "got", !.of = r] \in ReaperRecords
      <4> reaper[g] \in ReaperRecords
        BY <1>r
      <4> QED
        BY DEF ReaperRecords
    <3> QED
      BY <1>8, <1>r, <3>1, <1>p DEF Wait4
  <2> QED
    BY <1>8, <1>t, <2>1 DEF Wait4, TypeInv
<1>9. ASSUME NEW g \in Reapers, Echild(g) PROVE TypeInv'
  <2>2. ASSUME NEW b \in BOOLEAN PROVE [reaper[g] EXCEPT !.pc = "wait4", !.last = b] \in ReaperRecords
    <3> reaper[g] \in ReaperRecords
      BY <1>r
    <3> QED
      BY DEF ReaperRecords
  <2>3. reaper' \in [Reapers -> ReaperRecords]
    BY <1>9, <1>r, <1>p, <2>2 DEF Echild
  <2> QED
    BY <1>9, <1>t, <2>3 DEF Echild, TypeInv
<1>10. ASSUME NEW g \in Reapers, Lookup(g) PROVE TypeInv'
  <2> DEFINE r == reaper[g].of
  <2>1. r \in Runs /\ pid[r] \in Pids
    BY <1>10, <1>t DEF Lookup, ReaperInv, StartedInv, TypeInv
  <2>2. [reaper[g] EXCEPT !.pc = "set", !.to = active[pid[r]]] \in ReaperRecords
    <3>1. reaper[g] \in ReaperRecords /\ active[pid[r]] \in Runs \cup {None}
      BY <1>r, <1>t, <2>1 DEF TypeInv
    <3> QED
      BY <3>1 DEF ReaperRecords
  <2>3. reaper' \in [Reapers -> ReaperRecords]
    BY <1>10, <1>t, <1>a, <2>2 DEF Lookup, TypeInv
  <2> QED
    BY <1>10, <1>t, <2>3 DEF Lookup, TypeInv
<1>11. ASSUME NEW g \in Reapers, SetExitcode(g) PROVE TypeInv'
  <2>1. reaper' \in [Reapers -> ReaperRecords]
    BY <1>11, <1>a DEF SetExitcode
  <2>2. status[reaper[g].of] \in Codes \cup {None}
    BY <1>11, <1>t DEF SetExitcode, ReaperInv, TypeInv
  <2>3. [exited |-> TRUE, code |-> status[reaper[g].of]] \in [exited : BOOLEAN, code : Codes \cup {None}]
    BY <2>2
  <2> QED
    BY <1>11, <1>t, <2>1, <2>3 DEF SetExitcode, TypeInv
<1>12. ASSUME NEW p \in Pids, ClearStale(p) PROVE TypeInv'
  BY <1>12, <1>t DEF ClearStale, TypeInv
<1>13. CASE UNCHANGED vars
  BY <1>13, <1>t DEF vars, TypeInv
<1> QED
  BY <1>1, <1>2, <1>3, <1>4, <1>5, <1>6, <1>7, <1>8, <1>9, <1>10, <1>11, <1>12, <1>13
     DEF Next, Handshake, Serve, Reap

\* The handshake's invariant is kept.
LEMMA ReadyStep == IInv /\ [Next]_vars => ReadyInv'
<1> SUFFICES ASSUME IInv, [Next]_vars PROVE ReadyInv'
  OBVIOUS
<1> USE DEF boot, runs, kernel, server, ghosts
<1>t. TypeInv /\ ReadyInv
  BY DEF IInv
<1>a. ASSUME UNCHANGED <<control, guest>>,
             \A r \in Runs : run'[r] = run[r] \/ run'[r] = "refused" \/ run[r] \notin {"idle", "refused"}
      PROVE  ReadyInv'
  BY <1>a, <1>t DEF ReadyInv
<1>1. CASE PortReady
  BY <1>1, <1>a DEF PortReady
<1>2. CASE GuestStatus \/ GuestServe
  BY <1>2, <1>t DEF GuestStatus, GuestServe, ReadyInv
<1>3. CASE InitRead
  BY <1>3, <1>t, NoneIsNoResult DEF InitRead, ReadyInv, TypeInv
<1>4. CASE InitWrite
  BY <1>4, <1>t, NoneIsNoResult DEF InitWrite, ReadyInv, TypeInv
<1>5. ASSUME NEW r \in Runs, Ready(r) PROVE ReadyInv'
  <2>1. CASE control.once = "done"
    <3>1. control' = control /\ guest' = guest
      BY <1>5, <2>1 DEF Ready
    <3>2. ASSUME NEW q \in Runs, run'[q] \notin {"idle", "refused"} PROVE control.err = "ok"
      BY <1>5, <1>t, <3>1, <3>2 DEF Ready, ReadyInv, TypeInv
    <3> QED
      BY <3>1, <3>2, <1>t DEF ReadyInv
  <2>2. CASE control.once # "done"
    <3>1. /\ control.res # None /\ control.once = "new" /\ control.init \in {"failed", "sent"}
          /\ control' = [control EXCEPT !.once = "done", !.err = control.res, !.res = None]
          /\ guest' = guest
      BY <1>5, <2>2, <1>t DEF Ready, ReadyInv, TypeInv
    <3>2. control'.init = control.init /\ control'.once = "done" /\ control'.err = control.res /\ control'.res = None
      BY <3>1, <1>t DEF TypeInv
    <3>3. ASSUME NEW q \in Runs, run'[q] \notin {"idle", "refused"} PROVE control'.err = "ok"
      <4>1. CASE q = r
        BY <1>5, <3>3, <4>1, <1>t DEF Ready, TypeInv
      <4>2. CASE q # r
        BY <1>5, <3>3, <4>2, <1>t, <3>1, NoneIsNoResult DEF Ready, ReadyInv, TypeInv
      <4> QED
        BY <4>1, <4>2
    <3> QED
      BY <3>1, <3>2, <3>3, <1>t, NoneIsNoResult DEF ReadyInv
  <2> QED
    BY <2>1, <2>2
<1>6. ASSUME NEW r \in Runs, StartFails(r) \/ Exits(r) \/ Serve(r) \/ Close(r) \/ HangUp(r) PROVE ReadyInv'
  BY <1>6, <1>a, <1>t
     DEF StartFails, Exits, Serve, Register, WaitCall, WaitReturn, Close, HangUp, TypeInv
<1>7. ASSUME NEW r \in Runs, NEW p \in Pids, StartProcess(r, p) PROVE ReadyInv'
  BY <1>7, <1>a, <1>t DEF StartProcess, TypeInv
<1>8. ASSUME NEW g \in Reapers, Reap(g) PROVE ReadyInv'
  BY <1>8, <1>a DEF Reap, Enter, Wait4, Echild, Lookup, SetExitcode, After
<1>9. ASSUME NEW p \in Pids, ClearStale(p) PROVE ReadyInv'
  BY <1>9, <1>a DEF ClearStale
<1>10. CASE UNCHANGED vars
  BY <1>10, <1>a DEF vars
<1> QED
  BY <1>1, <1>2, <1>3, <1>4, <1>5, <1>6, <1>7, <1>8, <1>9, <1>10 DEF Next, Handshake


\* What is known of processes is kept: pids are given once, exits are reaped
\* once, and a code goes to the process entered under the reaped one's pid.
LEMMA ProcessStep ==
  IInv /\ [Next]_vars => StartedInv' /\ ActiveInv' /\ ReaperInv' /\ ExitedInv' /\ CodeIsTrue'
<1> DEFINE Goal == StartedInv /\ ActiveInv /\ ReaperInv /\ ExitedInv /\ CodeIsTrue
<1> SUFFICES ASSUME IInv, [Next]_vars PROVE Goal'
  OBVIOUS
<1> USE DEF boot, runs, kernel, server, ghosts
<1>t. TypeInv /\ StartedInv /\ ActiveInv /\ ReaperInv /\ ExitedInv /\ CodeIsTrue
  BY DEF IInv
<1>r. reaper \in [Reapers -> ReaperRecords]
  BY <1>t DEF TypeInv
\* Connections come and go.
<1>a. ASSUME UNCHANGED <<kernel, active, proc>>,
             \A r \in Runs : (run'[r] \in {"idle", "start", "refused"}) = (run[r] \in {"idle", "start", "refused"}),
             \A g \in Reapers : reaper'[g] = reaper[g] \/ reaper'[g].pc \notin {"got", "set"}
      PROVE  Goal'
  <2>1. StartedInv'
    BY <1>a, <1>t DEF StartedInv
  <2>2. ReaperInv'
    BY <1>a, <1>t DEF ReaperInv
  <2> QED
    BY <1>a, <1>t, <2>1, <2>2 DEF ActiveInv, ExitedInv, CodeIsTrue
<1>p. ASSUME NEW g \in Reapers, NEW p \in {"enter", "wait4", "echild", "done"}
      PROVE  [reaper[g] EXCEPT !.pc = p].pc = p
  <2> reaper[g] \in ReaperRecords
    BY <1>r
  <2> QED
    BY DEF ReaperRecords
<1>1. CASE PortReady \/ GuestStatus \/ InitRead \/ InitWrite
  BY <1>1, <1>a DEF PortReady, GuestStatus, InitRead, InitWrite
<1>2. CASE GuestServe
  <2>1. Boot \in Reapers
    BY DEF Reapers
  <2>2. \A g \in Reapers : reaper'[g] = reaper[g] \/ reaper'[g].pc \notin {"got", "set"}
    BY <1>2, <1>r, <1>p, <2>1 DEF GuestServe
  <2> QED
    BY <1>2, <1>a, <2>2 DEF GuestServe
<1>3. ASSUME NEW r \in Runs, Ready(r) \/ StartFails(r) \/ WaitCall(r) \/ WaitReturn(r) \/ Close(r) \/ HangUp(r) PROVE Goal'
  <2>1. \A q \in Runs : (run'[q] \in {"idle", "start", "refused"}) = (run[q] \in {"idle", "start", "refused"})
    BY <1>3, <1>t DEF Ready, StartFails, WaitCall, WaitReturn, Close, HangUp, TypeInv
  <2> QED
    BY <1>3, <1>a, <2>1 DEF Ready, StartFails, WaitCall, WaitReturn, Close, HangUp
<1>4. ASSUME NEW r \in Runs, Exits(r) PROVE Goal'
  <2>1. /\ \A q \in Runs : child'[q] = IF q = r THEN "zombie" ELSE child[q]
        /\ \A q \in Runs : q # r => status'[q] = status[q]
        /\ child[r] = "running"
    BY <1>4, <1>t DEF Exits, TypeInv
  <2>2. UNCHANGED <<run, pid, active, proc, reaper>>
    BY <1>4 DEF Exits
  <2>3. StartedInv' /\ ActiveInv' /\ ExitedInv'
    BY <2>1, <2>2, <1>t DEF StartedInv, ActiveInv, ExitedInv
  <2>4. ReaperInv'
    BY <2>1, <2>2, <1>t DEF ReaperInv
  <2>5. CodeIsTrue'
    BY <2>1, <2>2, <1>t DEF CodeIsTrue
  <2> QED
    BY <2>3, <2>4, <2>5
<1>5. ASSUME NEW r \in Runs, NEW p \in Pids, StartProcess(r, p) PROVE Goal'
  <2>1. /\ \A q \in Runs : child'[q] = IF q = r THEN "running" ELSE child[q]
        /\ \A q \in Runs : pid'[q] = IF q = r THEN p ELSE pid[q]
        /\ \A q \in Runs : run'[q] = IF q = r THEN "register" ELSE run[q]
        /\ child[r] = "none" /\ pid[r] = None /\ None \notin Pids
    BY <1>5, <1>t, RunsAssumption DEF StartProcess, TypeInv, StartedInv
  <2>2. UNCHANGED <<active, proc, reaper, status>>
    BY <1>5 DEF StartProcess
  <2>3. StartedInv' /\ ExitedInv'
    BY <2>1, <2>2, <1>t DEF StartedInv, ExitedInv
  <2>4. ActiveInv'
    BY <2>1, <2>2, <1>t DEF ActiveInv, TypeInv
  <2>5. ReaperInv'
    <3> SUFFICES ASSUME NEW g \in Reapers, reaper[g].pc \in {"got", "set"}
        PROVE  /\ reaper[g].of \in Runs /\ child'[reaper[g].of] = "reaped"
               /\ reaper[g].pc = "set" =>
                    /\ reaper[g].to \in Runs
                    /\ pid'[reaper[g].to] = pid'[reaper[g].of]
                    /\ status[reaper[g].of] # None
      BY <2>2 DEF ReaperInv
    <3>1. reaper[g].of \in Runs /\ child[reaper[g].of] = "reaped" /\ reaper[g].of # r
      BY <1>t, <2>1 DEF ReaperInv
    <3>2. pid[reaper[g].of] \in Pids
      BY <3>1, <1>t DEF StartedInv
    <3> QED
      BY <3>1, <3>2, <2>1, <1>t DEF ReaperInv
  <2>6. CodeIsTrue'
    <3> SUFFICES ASSUME NEW q \in Runs, proc[q].exited, \A o \in Runs \ {q} : pid'[o] # pid'[q]
        PROVE  child'[q] = "reaped" /\ status[q] # None /\ proc[q].code = status[q]
      BY <2>2 DEF CodeIsTrue
    <3>1. pid[q] \in Pids /\ q # r
      BY <1>t, <2>1 DEF ExitedInv
    <3>2. \A o \in Runs \ {q} : pid[o] # pid[q]
      BY <3>1, <2>1
    <3> QED
      BY <3>1, <3>2, <2>1, <1>t DEF CodeIsTrue
  <2> QED
    BY <2>3, <2>4, <2>5, <2>6
<1>6. ASSUME NEW r \in Runs, Register(r) PROVE Goal'
  <2>1. pid[r] \in Pids /\ run[r] = "register"
    BY <1>6, <1>t DEF Register, StartedInv
  <2>2. \A q \in Runs : run'[q] = run[q] \/ (q = r /\ run'[q] \in {"hung", "started"})
    BY <1>6, <1>t DEF Register, TypeInv
  <2>3. UNCHANGED <<kernel, proc>>
    BY <1>6 DEF Register
  <2>4. \A g \in Reapers : reaper'[g] = reaper[g] \/ reaper'[g].pc = "enter"
    <3>1. r \in Reapers
      BY DEF Reapers
    <3> QED
      BY <1>6, <1>r, <1>p, <3>1 DEF Register
  <2>5. StartedInv'
    BY <2>1, <2>2, <2>3, <1>t DEF StartedInv
  <2>6. ActiveInv'
    BY <1>6, <2>1, <2>3, <1>t DEF Register, ActiveInv, TypeInv
  <2>7. ReaperInv'
    BY <2>3, <2>4, <1>t DEF ReaperInv
  <2> QED
    BY <2>3, <2>5, <2>6, <2>7, <1>t DEF ExitedInv, CodeIsTrue
<1>7. ASSUME NEW g \in Reapers, Enter(g) PROVE Goal'
  <2>1. \A h \in Reapers : reaper'[h] = reaper[h] \/ reaper'[h].pc \notin {"got", "set"}
    BY <1>7, <1>r, <1>p DEF Enter
  <2> QED
    BY <1>7, <1>a, <2>1 DEF Enter
<1>8. ASSUME NEW g \in Reapers, Wait4(g) PROVE Goal'
  <2>1. ASSUME NEW r \in Runs, child[r] = "zombie", child' = [child EXCEPT ![r] = "reaped"],
               reaper' = [reaper EXCEPT ![g] = [@ EXCEPT !.pc = "got", !.of = r]]
        PROVE  Goal'
    <3>0. reaper[g] \in ReaperRecords
      BY <1>r
    <3>1. reaper'[g].pc = "got" /\ reaper'[g].of = r /\ \A h \in Reapers : h # g => reaper'[h] = reaper[h]
      <4> DEFINE q == [reaper[g] EXCEPT !.pc = "got", !.of = r]
      <4>1. q.pc = "got" /\ q.of = r
        BY <3>0 DEF ReaperRecords
      <4> HIDE DEF q
      <4>2. reaper' = [reaper EXCEPT ![g] = q]
        BY <2>1 DEF q
      <4> QED
        BY <4>1, <4>2, <1>r
    <3>2. \A q \in Runs : child'[q] = IF q = r THEN "reaped" ELSE child[q]
      BY <2>1, <1>t DEF TypeInv
    <3>3. UNCHANGED <<run, pid, status, active, proc>>
      BY <1>8 DEF Wait4
    <3>4. StartedInv' /\ ActiveInv' /\ ExitedInv'
      BY <2>1, <3>2, <3>3, <1>t DEF StartedInv, ActiveInv, ExitedInv
    <3>5. ReaperInv'
      BY <3>1, <3>2, <3>3, <1>t DEF ReaperInv
    <3>6. CodeIsTrue'
      BY <2>1, <3>2, <3>3, <1>t DEF CodeIsTrue
    <3> QED
      BY <3>4, <3>5, <3>6
  <2>2. CASE reaper' = [reaper EXCEPT ![g].pc = "echild"] /\ UNCHANGED child
    <3>1. \A h \in Reapers : reaper'[h] = reaper[h] \/ reaper'[h].pc \notin {"got", "set"}
      BY <2>2, <1>r, <1>p
    <3> QED
      BY <1>8, <2>2, <1>a, <3>1 DEF Wait4
  <2> QED
    BY <1>8, <2>1, <2>2 DEF Wait4
<1>9. ASSUME NEW g \in Reapers, Echild(g) PROVE Goal'
  <2>0. reaper[g] \in ReaperRecords
    BY <1>r
  <2>1. [reaper[g] EXCEPT !.pc = "wait4", !.last = TRUE].pc = "wait4"
    BY <2>0 DEF ReaperRecords
  <2>2. \A h \in Reapers : reaper'[h] = reaper[h] \/ reaper'[h].pc \notin {"got", "set"}
    BY <1>9, <1>r, <1>p, <2>1 DEF Echild
  <2> QED
    BY <1>9, <1>a, <2>2 DEF Echild
<1>10. ASSUME NEW g \in Reapers, After(g)
       PROVE  \A h \in Reapers : reaper'[h] = reaper[h] \/ reaper'[h].pc \notin {"got", "set"}
  <2> DEFINE q == [Idle EXCEPT !.pc = IF reaper[g].last THEN "done" ELSE "wait4", !.last = reaper[g].last]
  <2>0. Idle \in ReaperRecords
    BY DEF Idle, ReaperRecords
  <2>1. q.pc \in {"done", "wait4"}
    BY <2>0 DEF ReaperRecords
  <2>2. reaper' = [reaper EXCEPT ![g] = q]
    BY <1>10 DEF After
  <2> HIDE DEF q
  <2> QED
    BY <2>1, <2>2, <1>r
<1>11. ASSUME NEW g \in Reapers, Lookup(g) PROVE Goal'
  <2> DEFINE r == reaper[g].of
  <2>0. UNCHANGED <<run, kernel, active, proc>> /\ reaper[g] \in ReaperRecords
    BY <1>11, <1>r DEF Lookup
  <2>1. CASE Exited(r) /\ active[pid[r]] # None
    <3> DEFINE q == [reaper[g] EXCEPT !.pc = "set", !.to = active[pid[r]]]
    <3>1. reaper' = [reaper EXCEPT ![g] = q]
      BY <1>11, <2>1 DEF Lookup
    <3>2. q.pc = "set" /\ q.of = r /\ q.to = active[pid[r]]
      BY <2>0 DEF ReaperRecords
    <3>3. r \in Runs /\ child[r] = "reaped" /\ pid[r] \in Pids /\ status[r] # None
      BY <1>11, <2>1, <1>t DEF Lookup, ReaperInv, StartedInv, Exited
    <3>4. active[pid[r]] \in Runs /\ pid[active[pid[r]]] = pid[r]
      BY <2>1, <3>3, <1>t DEF TypeInv, ActiveInv
    <3> HIDE DEF q
    <3>5. reaper'[g] = q /\ \A h \in Reapers : h # g => reaper'[h] = reaper[h]
      BY <3>1, <1>r
    <3>6. ReaperInv'
      BY <3>2, <3>3, <3>4, <3>5, <2>0, <1>t DEF ReaperInv
    <3> QED
      BY <2>0, <3>6, <1>t DEF StartedInv, ActiveInv, ExitedInv, CodeIsTrue
  <2>2. CASE ~(Exited(r) /\ active[pid[r]] # None)
    <3>1. After(g)
      BY <1>11, <2>2 DEF Lookup
    <3> QED
      BY <3>1, <2>0, <1>a, <1>10
  <2> QED
    BY <2>1, <2>2
<1>12. ASSUME NEW g \in Reapers, SetExitcode(g) PROVE Goal'
  <2> DEFINE of == reaper[g].of
             to == reaper[g].to
  <2>1. /\ of \in Runs /\ child[of] = "reaped" /\ to \in Runs
        /\ pid[to] = pid[of] /\ status[of] # None
    BY <1>12, <1>t DEF SetExitcode, ReaperInv
  <2>2. UNCHANGED <<run, kernel, active>>
        /\ \A h \in Reapers : reaper'[h] = reaper[h] \/ reaper'[h].pc \notin {"got", "set"}
    BY <1>12, <1>10 DEF SetExitcode
  <2>3. StartedInv' /\ ActiveInv' /\ ReaperInv'
    BY <2>2, <1>t DEF StartedInv, ActiveInv, ReaperInv
  <2>4. /\ proc'[to] = [exited |-> TRUE, code |-> status[of]]
        /\ \A q \in Runs : q # to => proc'[q] = proc[q]
    BY <1>12, <2>1, <1>t DEF SetExitcode, TypeInv
  <2>5. pid[of] \in Pids
    BY <2>1, <1>t DEF StartedInv
  <2>6. ExitedInv'
    BY <2>1, <2>2, <2>4, <2>5, <1>t DEF ExitedInv
  <2>7. CodeIsTrue'
    <3> SUFFICES ASSUME NEW q \in Runs, proc'[q].exited, \A o \in Runs \ {q} : pid[o] # pid[q]
        PROVE  child[q] = "reaped" /\ status[q] # None /\ proc'[q].code = status[q]
      BY <2>2 DEF CodeIsTrue
    <3>1. CASE q # to
      BY <3>1, <2>4, <1>t DEF CodeIsTrue
    <3>2. CASE q = to
      <4>1. of = to
        BY <3>2, <2>1
      <4> QED
        BY <3>2, <4>1, <2>1, <2>4
    <3> QED
      BY <3>1, <3>2
  <2> QED
    BY <2>3, <2>6, <2>7
<1>13. ASSUME NEW p \in Pids, ClearStale(p) PROVE Goal'
  <2>1. UNCHANGED <<run, kernel, proc, reaper>>
    BY <1>13 DEF ClearStale
  <2>2. ActiveInv'
    BY <1>13, <1>t DEF ClearStale, ActiveInv, TypeInv
  <2> QED
    BY <2>1, <2>2, <1>t DEF StartedInv, ReaperInv, ExitedInv, CodeIsTrue
<1>14. CASE UNCHANGED vars
  BY <1>14, <1>a DEF vars
<1> HIDE DEF Goal
<1> QED
  BY <1>1, <1>2, <1>3, <1>4, <1>5, <1>6, <1>7, <1>8, <1>9, <1>11, <1>12, <1>13, <1>14
     DEF Next, Handshake, Serve, Reap

-----------------------------------------------------------------------------
\* The inductive invariant: pids are given to a run once, processes are
\* entered under theirs, and a reaper's child has ended for good; and the
\* result of the handshake is made and taken once.
THEOREM Invariance == Spec => []IInv
<1>1. Init => IInv
  BY InitInv
<1>2. IInv /\ [Next]_vars => IInv'
  BY TypeStep, ReadyStep, ProcessStep DEF IInv
<1> QED
  BY <1>1, <1>2, PTL DEF Spec

\* A process marked as exited has exited with the code it is said to have
\* (server.go:151), however reapers, starts and exits interleave, unless the
\* kernel has given its pid out twice.
THEOREM ExitCodesTrue == Spec => []CodeIsTrue
<1>1. IInv => CodeIsTrue
  BY DEF IInv
<1> QED
  BY <1>1, Invariance, PTL

\* No connection gets past the handshake before the agent was sent the command,
\* and a failed handshake refuses them all (guest.go:73).
THEOREM HandshakeAgrees == Spec => []ReadyAgrees
<1>1. IInv => ReadyAgrees
  BY DEF IInv, ReadyInv, ReadyAgrees
<1> QED
  BY <1>1, Invariance, PTL

=============================================================================
