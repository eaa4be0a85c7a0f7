-------------------------- MODULE BotProcess_proofs --------------------------
(***************************************************************************)
(* For any number of chats, of button presses, of webhook requests and of  *)
(* sessions: a chat has one goroutine and the table of tasks knows it, the *)
(* shutdown waits for the webhook's handlers or for its window, and the    *)
(* sessions of the process are those of PollerSessions.                    *)
(***************************************************************************)
EXTENDS BotProcess, TLAPS

\* The ids above the counter are still to be given out.
FreshIds == \A i \in TaskId : i > nextTaskID => ~Alive(i)

\* Only a session that is done says farewell.
FarewellIsDone == \A i \in TaskId : task[i].step = "farewell" => task[i].done

\* The listener is open only before the shutdown.
ListensServing == listening => phase = "serving"

Goroutine == [chat : Chats, done : BOOLEAN, step : {"none", "select", "poll", "farewell"}]

SessionInv == OnePollerPerChat /\ FreshIds /\ FarewellIsDone
ShutdownInv == ListensServing /\ HandlersFinishFirst

IInv == TypeOK /\ SessionInv /\ ShutdownInv

-----------------------------------------------------------------------------
(* What a step leaves alone *)

\* The chat of an unused slot is a chat.
LEMMA AnyChatType == AnyChat \in Chats
BY ChatsAssumption DEF AnyChat

\* The invariants about sessions only read the goroutines and their table.
LEMMA SessionsAlone == ASSUME SessionInv, UNCHANGED sessionVars PROVE SessionInv'
BY DEF SessionInv, OnePollerPerChat, FreshIds, FarewellIsDone, Alive, sessionVars

\* The invariants about the shutdown only read the variables of main.
LEMMA MainAlone == ASSUME ShutdownInv, UNCHANGED mainVars PROVE ShutdownInv'
BY DEF ShutdownInv, ListensServing, HandlersFinishFirst, mainVars

\* A goroutine whose context or place in the loop changes is a goroutine.
LEMMA GoroutineMoves ==
  ASSUME NEW g \in Goroutine, NEW b \in BOOLEAN,
         NEW to \in {"none", "select", "poll", "farewell"}
  PROVE  [g EXCEPT !.done = b] \in Goroutine /\ [g EXCEPT !.step = to] \in Goroutine
BY DEF Goroutine

-----------------------------------------------------------------------------
(* One lemma per action *)

\* A process that is not there has no goroutine, no table and no request.
LEMMA DownPreserves == ASSUME Down PROVE IInv'
<1>1. TypeOK'
  BY AnyChatType DEF Down, TypeOK, NoPress, NoGoroutine, NoTask
<1>2. SessionInv'
  <2>1. \A i \in TaskId : i # NoTask
    BY MaxTasksAssumption DEF TaskId, NoTask
  <2>2. \A i \in TaskId : task[i]'.step = "none"
    BY DEF Down, NoGoroutine
  <2> QED BY <2>1, <2>2 DEF Down, SessionInv, OnePollerPerChat, FreshIds, FarewellIsDone, Alive
<1>3. ShutdownInv'
  BY DEF Down, ShutdownInv, ListensServing, HandlersFinishFirst
<1> QED BY <1>1, <1>2, <1>3 DEF IInv

\* The steps of main up to StopAll move main alone.
LEMMA MainPreserves ==
  ASSUME IInv,
         Start \/ Signal \/ ServerFails \/ BeginShutdown \/ ShutdownReturns
         \/ CancelWorker \/ StopBot
  PROVE  IInv'
<1> USE DEF IInv
<1>1. UNCHANGED <<press, sessionVars>>
  BY DEF Start, Signal, ServerFails, BeginShutdown, ShutdownReturns, CancelWorker, StopBot
<1>2. TypeOK'
  BY <1>1 DEF Start, Signal, ServerFails, BeginShutdown, ShutdownReturns, CancelWorker,
              StopBot, TypeOK, sessionVars
<1>3. SessionInv'
  BY <1>1, SessionsAlone
<1>4. ShutdownInv'
  <2>1. CASE ShutdownReturns
    BY <2>1, Zenon DEF ShutdownReturns, ShutdownInv, ListensServing, HandlersFinishFirst
  <2>2. CASE CancelWorker \/ StopBot
    BY <2>2 DEF CancelWorker, StopBot, ShutdownInv, ListensServing, HandlersFinishFirst
  <2>3. CASE Start \/ Signal \/ ServerFails \/ BeginShutdown
    BY <2>3 DEF Start, Signal, ServerFails, BeginShutdown, ShutdownInv, ListensServing,
                HandlersFinishFirst
  <2> QED BY <2>1, <2>2, <2>3
<1> QED BY <1>2, <1>3, <1>4

\* StopAll ends contexts: no goroutine and no entry of the table goes.
LEMMA StopAllPreserves == ASSUME IInv, StopAll PROVE IInv'
<1> USE DEF IInv, StopAll
<1>1. \A i \in TaskId : /\ task[i]'.chat = task[i].chat /\ task[i]'.step = task[i].step
                        /\ task[i].done => task[i]'.done
  BY DEF TypeOK
<1>2. TypeOK'
  <2>1. \A i \in TaskId : (task[i].done \/ \E c \in Chats : tasks[c] = i) \in BOOLEAN
    BY DEF TypeOK
  <2>2. task \in [TaskId -> Goroutine]
    BY DEF TypeOK, Goroutine
  <2>3. task' \in [TaskId -> Goroutine]
    BY <2>1, <2>2, GoroutineMoves
  <2> QED BY <2>3 DEF TypeOK, Goroutine
<1>3. SessionInv'
  <2>1. tasks' = tasks /\ nextTaskID' = nextTaskID
    OBVIOUS
  <2>2. OnePollerPerChat' /\ FreshIds'
    BY <1>1, <2>1 DEF SessionInv, OnePollerPerChat, FreshIds, Alive
  <2>3. FarewellIsDone'
    BY <1>1 DEF SessionInv, FarewellIsDone
  <2> QED BY <2>2, <2>3 DEF SessionInv
<1>4. ShutdownInv'
  BY DEF ShutdownInv, ListensServing, HandlersFinishFirst
<1> QED BY <1>2, <1>3, <1>4

\* Requests come in while the listener is open, and go; the worker's job too.
LEMMA ServersPreserve ==
  ASSUME IInv, WorkerStep \/ \E r \in Requests : RequestArrives(r) \/ RequestDone(r)
  PROVE  IInv'
<1> USE DEF IInv, WorkerStep, RequestArrives, RequestDone
<1>1. UNCHANGED sessionVars
  OBVIOUS
<1>2. TypeOK'
  BY <1>1 DEF TypeOK, sessionVars
<1>3. SessionInv'
  BY <1>1, SessionsAlone
<1>4. ShutdownInv'
  BY DEF ShutdownInv, ListensServing, HandlersFinishFirst
<1> QED BY <1>2, <1>3, <1>4

\* A press waits on its way to Schedule and touches no session.
LEMMA PressPreserves ==
  ASSUME IInv, NEW p \in Presses, SaveDuration(p) \/ \E c \in Chats : Press(p, c)
  PROVE  IInv'
<1> USE DEF IInv, SaveDuration, Press
<1>1. UNCHANGED <<mainVars, sessionVars>>
  OBVIOUS
<1>2. TypeOK'
  BY <1>1 DEF TypeOK, mainVars, sessionVars
<1> QED BY <1>1, <1>2, SessionsAlone, MainAlone

\* Schedule gives a chat without a task the next id, which no goroutine has.
LEMMA SchedulePreserves == ASSUME IInv, NEW p \in Presses, Schedule(p) PROVE IInv'
<1> USE DEF IInv
<1> DEFINE c == press[p].chat
           i == nextTaskID + 1
<1>1. UNCHANGED mainVars
  BY DEF Schedule
<1>2. c \in Chats
  BY DEF TypeOK
<1>3. press' \in [Presses -> [chat : Chats, step : {"none", "save", "schedule"}]]
  BY AnyChatType DEF Schedule, TypeOK, NoPress
<1>4. CASE UNCHANGED sessionVars
  <2>1. TypeOK'
    BY <1>1, <1>3, <1>4 DEF TypeOK, mainVars, sessionVars
  <2> QED BY <1>1, <1>4, <2>1, SessionsAlone, MainAlone
<1>5. CASE ~UNCHANGED sessionVars
  <2>1. /\ NewTask(c) /\ nextTaskID' = i
        /\ tasks' = [tasks EXCEPT ![c] = i]
        /\ task' = [task EXCEPT ![i] = [chat |-> c, step |-> "select", done |-> FALSE]]
    BY <1>5 DEF Schedule
  <2>2. i \in TaskId /\ i # NoTask /\ i > nextTaskID
    BY <2>1, MaxTasksAssumption DEF NewTask, TypeOK, TaskId, NoTask
  <2>3. ~Alive(i) /\ \A d \in Chats : tasks[d] # i
    BY <2>2 DEF SessionInv, FreshIds, OnePollerPerChat
  <2>4. /\ task'[i] = [chat |-> c, step |-> "select", done |-> FALSE]
        /\ \A j \in TaskId : j # i => task'[j] = task[j]
        /\ tasks'[c] = i
        /\ \A d \in Chats : d # c => tasks'[d] = tasks[d]
    BY <2>1, <2>2, <1>2 DEF TypeOK
  <2>5. TypeOK'
    BY <1>1, <1>2, <1>3, <2>1, <2>2 DEF TypeOK, mainVars
  <2>6. OnePollerPerChat'
    <3>1. NoTask \notin TaskId
      BY MaxTasksAssumption DEF NoTask, TaskId
    <3> QED
      BY <2>1, <2>2, <2>3, <2>4, <3>1 DEF NewTask, SessionInv, OnePollerPerChat, Alive
  <2>7. FreshIds'
    <3> SUFFICES ASSUME NEW j \in TaskId, j > nextTaskID' PROVE ~Alive(j)'
      BY DEF FreshIds
    <3>1. j > nextTaskID /\ j # i
      BY <2>1 DEF TypeOK, TaskId, NoTask
    <3> QED BY <3>1, <2>4 DEF SessionInv, FreshIds, Alive
  <2>8. FarewellIsDone'
    BY <2>4 DEF SessionInv, FarewellIsDone
  <2> QED BY <1>1, <2>5, <2>6, <2>7, <2>8, MainAlone DEF SessionInv
<1> QED BY <1>4, <1>5

\* A goroutine that stays keeps its chat.
LEMMA SessionMovePreserves ==
  ASSUME IInv, NEW i \in TaskId, Poll(i) \/ PollEnds(i) \/ SessionDone(i) \/ Timeout(i)
  PROVE  IInv'
<1> USE DEF IInv, Poll, PollEnds, SessionDone, Timeout, Step
<1>1. UNCHANGED <<mainVars, press, tasks, nextTaskID>>
  OBVIOUS
<1>2. \A j \in TaskId : task'[j].chat = task[j].chat /\ (Alive(j)' <=> Alive(j))
  BY DEF TypeOK, Alive
<1>3. TypeOK'
  <2>1. task \in [TaskId -> Goroutine]
    BY DEF TypeOK, Goroutine
  <2>2. task' = [task EXCEPT ![i] = task'[i]] /\ task'[i] \in Goroutine
    BY <2>1, GoroutineMoves
  <2>3. task' \in [TaskId -> Goroutine]
    BY <2>1, <2>2
  <2> QED BY <1>1, <2>3 DEF TypeOK, mainVars, Goroutine
<1>4. OnePollerPerChat' /\ FreshIds'
  BY <1>1, <1>2 DEF SessionInv, OnePollerPerChat, FreshIds
<1>5. FarewellIsDone'
  BY DEF TypeOK, SessionInv, FarewellIsDone
<1> QED BY <1>1, <1>3, <1>4, <1>5, MainAlone DEF SessionInv

\* The deferred function takes the goroutine's own entry out of the table.
LEMMA RemoveTaskPreserves == ASSUME IInv, NEW i \in TaskId, RemoveTask(i) PROVE IInv'
<1> USE DEF IInv
<1> DEFINE c == task[i].chat
<1>1. /\ task[i].step = "farewell" /\ c \in Chats
      /\ UNCHANGED <<mainVars, press, nextTaskID>>
  BY DEF RemoveTask, TypeOK
<1>2. tasks[c] = i
  BY <1>1 DEF SessionInv, OnePollerPerChat, Alive
<1>3. tasks' = [tasks EXCEPT ![c] = NoTask] /\ task' = [task EXCEPT ![i] = NoGoroutine(AnyChat)]
  BY <1>1, <1>2 DEF RemoveTask, TypeOK
<1>4. TypeOK'
  BY <1>1, <1>3, AnyChatType DEF TypeOK, mainVars, NoGoroutine
<1>5. /\ ~Alive(i)' /\ \A j \in TaskId : j # i => task'[j] = task[j]
      /\ tasks'[c] = NoTask
      /\ \A d \in Chats : d # c => tasks'[d] = tasks[d]
  BY <1>1, <1>3 DEF TypeOK, Alive, NoGoroutine
<1>6. NoTask \notin TaskId
  BY MaxTasksAssumption DEF NoTask, TaskId
<1>7. OnePollerPerChat'
  BY <1>1, <1>2, <1>5, <1>6 DEF SessionInv, OnePollerPerChat, Alive
<1>8. FreshIds' /\ FarewellIsDone'
  BY <1>1, <1>5 DEF SessionInv, FreshIds, FarewellIsDone, Alive
<1> QED BY <1>1, <1>4, <1>7, <1>8, MainAlone DEF SessionInv

-----------------------------------------------------------------------------
(* The invariants *)

\* There is no process at the start.
LEMMA Initially == Init => IInv
<1> SUFFICES ASSUME Init PROVE IInv
  OBVIOUS
<1>1. TypeOK
  BY AnyChatType DEF Init, TypeOK, NoPress, NoGoroutine, NoTask
<1>2. SessionInv
  <2>1. \A i \in TaskId : i # NoTask
    BY MaxTasksAssumption DEF TaskId, NoTask
  <2>2. \A i \in TaskId : task[i].step = "none"
    BY DEF Init, NoGoroutine
  <2> QED BY <2>1, <2>2 DEF Init, SessionInv, OnePollerPerChat, FreshIds, FarewellIsDone, Alive
<1>3. ShutdownInv
  BY DEF Init, ShutdownInv, ListensServing, HandlersFinishFirst
<1> QED BY <1>1, <1>2, <1>3 DEF IInv

\* Every step keeps the invariants.
LEMMA StepPreserves == IInv /\ [Next]_vars => IInv'
<1> SUFFICES ASSUME IInv, [Next]_vars PROVE IInv'
  OBVIOUS
<1>1. CASE UNCHANGED vars
  <2>1. TypeOK'
    BY <1>1 DEF IInv, TypeOK, vars, mainVars, sessionVars
  <2> QED BY <1>1, <2>1, SessionsAlone, MainAlone DEF IInv, vars
<1>2. CASE Exit \/ Crash
  BY <1>2, DownPreserves DEF Exit, Crash
<1>3. CASE StopAll
  BY <1>3, StopAllPreserves
<1>4. CASE Start \/ Signal \/ ServerFails \/ BeginShutdown \/ ShutdownReturns
           \/ CancelWorker \/ StopBot
  BY <1>4, MainPreserves
<1>5. CASE WorkerStep \/ \E r \in Requests : RequestArrives(r) \/ RequestDone(r)
  BY <1>5, ServersPreserve
<1>6. CASE \E p \in Presses : PressStep(p) \/ \E c \in Chats : Press(p, c)
  BY <1>6, PressPreserves, SchedulePreserves DEF PressStep
<1>7. CASE \E i \in TaskId : Session(i) \/ Timeout(i)
  BY <1>7, SessionMovePreserves, RemoveTaskPreserves DEF Session
<1> QED BY <1>1, <1>2, <1>3, <1>4, <1>5, <1>6, <1>7 DEF Next, Main

\* The invariants hold in every state of a behaviour.
LEMMA Invariance == Spec => []IInv
BY Initially, StepPreserves, PTL DEF Spec

\* Every variable keeps its type.
THEOREM TypeCorrect == Spec => []TypeOK
<1>1. IInv => TypeOK
  BY DEF IInv
<1> QED BY <1>1, Invariance, PTL

\* Whatever presses, sessions, shutdowns and crashes interleave, the goroutines of
\* the sessions are exactly the entries of the table, one for each chat.
THEOREM OneGoroutine == Spec => []OnePollerPerChat
<1>1. IInv => OnePollerPerChat
  BY DEF IInv, SessionInv
<1> QED BY <1>1, Invariance, PTL

\* A webhook request is in its handler after Shutdown only when the window is over.
THEOREM DrainedOrOver == Spec => []HandlersFinishFirst
<1>1. IInv => HandlersFinishFirst
  BY DEF IInv, ShutdownInv
<1> QED BY <1>1, Invariance, PTL

-----------------------------------------------------------------------------
(* The refinement of PollerSessions *)

\* A step that changes the session of one chat alone.
LEMMA OneSessionMoves ==
  ASSUME NEW c \in Chats, NEW from, NEW to,
         SessionOf(c) = from, SessionOf(c)' = to,
         \A d \in Chats : d # c => SessionOf(d)' = SessionOf(d)
  PROVE  Sessions!Moves(c, from, to)
<1> HIDE DEF SessionOf
<1> QED BY DEF Sessions!Moves

\* A process that is not there has no session.
LEMMA DownIsCrash == ASSUME Down PROVE Sessions!Crash
BY DEF Down, Sessions!Crash, SessionOf

\* Steps that leave the goroutines and the table alone leave the sessions alone.
LEMMA SessionsStutter ==
  ASSUME UNCHANGED sessionVars PROVE UNCHANGED [c \in Chats |-> SessionOf(c)]
BY DEF sessionVars, SessionOf

\* StopAll is StopAll.
LEMMA StopAllSteps == ASSUME IInv, StopAll PROVE Sessions!StopAll
<1> SUFFICES ASSUME NEW c \in Chats
             PROVE  SessionOf(c)' = IF SessionOf(c) = "running" THEN "done" ELSE SessionOf(c)
  BY DEF Sessions!StopAll
<1>1. CASE tasks[c] = NoTask
  BY <1>1 DEF StopAll, SessionOf
<1>2. CASE tasks[c] # NoTask
  <2>1. tasks[c] \in TaskId /\ tasks'[c] = tasks[c]
    BY <1>2 DEF IInv, TypeOK, StopAll
  <2>2. task'[tasks[c]].done
    BY <2>1 DEF StopAll, IInv, TypeOK
  <2> QED BY <1>2, <2>1, <2>2 DEF SessionOf
<1> QED BY <1>1, <1>2

\* Schedule starts a session for a chat that has none, or changes nothing.
LEMMA ScheduleSteps ==
  ASSUME IInv, NEW p \in Presses, Schedule(p)
  PROVE  (\E c \in Chats : Sessions!Schedule(c)) \/ UNCHANGED [c \in Chats |-> SessionOf(c)]
<1> PICK c \in Chats : c = press[p].chat
  BY DEF IInv, TypeOK
<1> PICK i : i = nextTaskID + 1
  OBVIOUS
<1>1. CASE UNCHANGED sessionVars
  BY <1>1, SessionsStutter
<1>2. CASE ~UNCHANGED sessionVars
  <2>1. /\ NewTask(c)
        /\ tasks' = [tasks EXCEPT ![c] = i]
        /\ task' = [task EXCEPT ![i] = [chat |-> c, step |-> "select", done |-> FALSE]]
    BY <1>2 DEF Schedule
  <2>2. i \in TaskId /\ i # NoTask /\ i > nextTaskID /\ c \in Chats
    BY <2>1, MaxTasksAssumption DEF NewTask, IInv, TypeOK, TaskId, NoTask
  <2>3. SessionOf(c) = "none" /\ SessionOf(c)' = "running"
    <3>1. tasks'[c] = i /\ ~task'[i].done
      BY <2>1, <2>2 DEF IInv, TypeOK
    <3> QED BY <2>1, <2>2, <3>1 DEF NewTask, SessionOf
  <2>4. ASSUME NEW d \in Chats, d # c PROVE SessionOf(d)' = SessionOf(d)
    <3>1. tasks'[d] = tasks[d] /\ tasks[d] # i /\ tasks[d] \in TaskId \cup {NoTask}
      BY <2>1, <2>2, <2>4 DEF IInv, TypeOK, SessionInv, FreshIds, OnePollerPerChat
    <3>2. tasks[d] # NoTask => task'[tasks[d]] = task[tasks[d]]
      BY <3>1, <2>1, <2>2 DEF IInv, TypeOK
    <3> QED BY <3>1, <3>2 DEF SessionOf
  <2>5. Sessions!Schedule(c)
    BY <2>2, <2>3, <2>4, OneSessionMoves DEF Sessions!Schedule
  <2> QED BY <2>2, <2>5
<1> QED BY <1>1, <1>2

\* A goroutine that goes through its loop leaves its chat's session as it is.
LEMMA LoopStutters ==
  ASSUME IInv, NEW i \in TaskId, Poll(i) \/ PollEnds(i) \/ SessionDone(i)
  PROVE  UNCHANGED [c \in Chats |-> SessionOf(c)]
<1>1. tasks' = tasks /\ \A j \in TaskId : task'[j].done = task[j].done
  BY DEF Poll, PollEnds, SessionDone, Step, IInv, TypeOK
<1> QED BY <1>1 DEF SessionOf, IInv, TypeOK

\* The deadline ends the session of the goroutine's chat, if nothing has before.
LEMMA TimeoutSteps ==
  ASSUME IInv, NEW i \in TaskId, Timeout(i)
  PROVE  (\E c \in Chats : Sessions!SessionEnds(c)) \/ UNCHANGED [c \in Chats |-> SessionOf(c)]
<1> PICK c \in Chats : c = task[i].chat
  BY DEF IInv, TypeOK
<1>1. c \in Chats /\ tasks[c] = i /\ i # NoTask
  BY MaxTasksAssumption DEF Timeout, IInv, TypeOK, SessionInv, OnePollerPerChat, Alive,
                            TaskId, NoTask
<1>2. tasks' = tasks /\ task'[i].done = TRUE /\ \A j \in TaskId : j # i => task'[j] = task[j]
  BY DEF Timeout, IInv, TypeOK
<1>3. SessionOf(c)' = "done" /\ SessionOf(c) \in {"running", "done"}
  BY <1>1, <1>2 DEF SessionOf
<1>4. ASSUME NEW d \in Chats, d # c PROVE SessionOf(d)' = SessionOf(d)
  <2>1. tasks[d] # i /\ tasks[d] \in TaskId \cup {NoTask}
    BY <1>4 DEF IInv, TypeOK, SessionInv, OnePollerPerChat
  <2> QED BY <2>1, <1>2 DEF SessionOf
<1>5. CASE SessionOf(c) = "running"
  BY <1>1, <1>3, <1>4, <1>5, OneSessionMoves DEF Sessions!SessionEnds
<1>6. CASE SessionOf(c) = "done"
  BY <1>1, <1>3, <1>4, <1>6
<1> QED BY <1>3, <1>5, <1>6

\* A goroutine that goes ends a session that was done.
LEMMA RemoveTaskSteps ==
  ASSUME IInv, NEW i \in TaskId, RemoveTask(i)
  PROVE  \E c \in Chats : Sessions!TaskRemoved(c)
<1> PICK c \in Chats : c = task[i].chat
  BY DEF IInv, TypeOK
<1>1. c \in Chats /\ tasks[c] = i /\ i # NoTask /\ task[i].done
  BY MaxTasksAssumption DEF RemoveTask, IInv, TypeOK, SessionInv, OnePollerPerChat,
                            FarewellIsDone, Alive, TaskId, NoTask
<1>2. /\ tasks' = [tasks EXCEPT ![c] = NoTask]
      /\ \A j \in TaskId : j # i => task'[j] = task[j]
  BY <1>1 DEF RemoveTask, IInv, TypeOK
<1>3. SessionOf(c) = "done" /\ SessionOf(c)' = "none"
  BY <1>1, <1>2 DEF SessionOf, IInv, TypeOK
<1>4. ASSUME NEW d \in Chats, d # c PROVE SessionOf(d)' = SessionOf(d)
  <2>1. tasks'[d] = tasks[d] /\ tasks[d] # i /\ tasks[d] \in TaskId \cup {NoTask}
    BY <1>1, <1>2, <1>4 DEF IInv, TypeOK, SessionInv, OnePollerPerChat
  <2> QED BY <2>1, <1>2 DEF SessionOf
<1> QED BY <1>1, <1>3, <1>4, OneSessionMoves DEF Sessions!TaskRemoved

\* Every step of the process is a step of PollerSessions, or changes no session.
LEMMA StepRefines ==
  IInv /\ [Next]_vars => [Sessions!Next]_([c \in Chats |-> SessionOf(c)])
<1> SUFFICES ASSUME IInv, [Next]_vars
             PROVE  Sessions!Next \/ UNCHANGED [c \in Chats |-> SessionOf(c)]
  OBVIOUS
<1>1. CASE UNCHANGED sessionVars
  BY <1>1, SessionsStutter
<1>2. CASE Exit \/ Crash
  BY <1>2, DownIsCrash DEF Exit, Crash, Sessions!Next
<1>3. CASE StopAll
  BY <1>3, StopAllSteps DEF Sessions!Next
<1>4. CASE \E p \in Presses : Schedule(p)
  BY <1>4, ScheduleSteps DEF Sessions!Next
<1>5. CASE \E i \in TaskId : Session(i) \/ Timeout(i)
  BY <1>5, LoopStutters, TimeoutSteps, RemoveTaskSteps DEF Session, Sessions!Next
<1> QED
  BY <1>1, <1>2, <1>3, <1>4, <1>5
     DEF Next, Main, PressStep, vars, Start, Signal, ServerFails, BeginShutdown,
         ShutdownReturns, CancelWorker, StopBot, WorkerStep, RequestArrives, RequestDone,
         SaveDuration, Press

\* No chat has a session at the start.
LEMMA InitRefines == Init => Sessions!Init
BY DEF Init, Sessions!Init, SessionOf

\* Buttons, goroutines, deadlines, the table and the shutdown amount to the
\* sessions that TaskManager takes for granted.
THEOREM SessionsRefined == Spec => ImplementsSessions
BY Invariance, InitRefines, StepRefines, PTL DEF Spec, ImplementsSessions, Sessions!Spec
=============================================================================
