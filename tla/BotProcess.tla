----------------------------- MODULE BotProcess -----------------------------
(***************************************************************************)
(* The process of cmd/mtg-bot: main with its start and its shutdown, the   *)
(* webhook server, the worker, the Telegram handlers of the duration       *)
(* buttons, and the session goroutines of TaskManager.Schedule with the    *)
(* table of tasks they share.  What a webhook request, a job and a poll do *)
(* is in the other modules; here they are in flight or not.                *)
(***************************************************************************)
EXTENDS Integers

CONSTANTS
  Chats,
  Presses,    \* button presses that may be handled at the same time
  Requests,   \* webhook requests that may be handled at the same time
  MaxTasks    \* bound on the sessions one process schedules

ASSUME MaxTasksAssumption == MaxTasks \in Nat
ASSUME ChatsAssumption == Chats # {}

TaskId == 1..MaxTasks
NoTask == 0

VARIABLES
  phase,      \* of main; "down" while there is no process
  cause,      \* what main's select received: nothing yet, a signal, a server error
  listening,  \* the webhook server takes connections
  handling,   \* webhook requests in their handler
  windowOver, \* Shutdown gave up after its ten seconds
  worker,     \* the provider-mark worker: off, between two jobs, or in one
  polling,    \* the bot takes updates from Telegram
  press,      \* each press's handler: [chat, step]
  tasks,      \* TaskManager.tasks: chat -> the id of its task
  nextTaskID,
  task        \* each session goroutine: [chat, step, done], done being its context

mainVars    == <<phase, cause, listening, handling, windowOver, worker, polling>>
sessionVars == <<tasks, nextTaskID, task>>
vars        == <<mainVars, press, sessionVars>>

NoPress(c)     == [chat |-> c, step |-> "none"]
NoGoroutine(c) == [chat |-> c, step |-> "none", done |-> FALSE]
AnyChat        == CHOOSE c \in Chats : TRUE

\* No process: what main.go and runtime.go keep is memory only.
Down ==
  /\ phase' = "down" /\ cause' = "none"
  /\ listening' = FALSE /\ handling' = {} /\ windowOver' = FALSE
  /\ worker' = "off" /\ polling' = FALSE
  /\ press' = [p \in Presses |-> NoPress(AnyChat)]
  /\ tasks' = [c \in Chats |-> NoTask] /\ nextTaskID' = NoTask
  /\ task' = [i \in TaskId |-> NoGoroutine(AnyChat)]

Init ==
  /\ phase = "down" /\ cause = "none"
  /\ listening = FALSE /\ handling = {} /\ windowOver = FALSE
  /\ worker = "off" /\ polling = FALSE
  /\ press = [p \in Presses |-> NoPress(AnyChat)]
  /\ tasks = [c \in Chats |-> NoTask] /\ nextTaskID = NoTask
  /\ task = [i \in TaskId |-> NoGoroutine(AnyChat)]

-----------------------------------------------------------------------------
(* main *)

Start ==
  /\ phase = "down"
  /\ phase' = "serving"
  /\ listening' = TRUE /\ worker' = "idle" /\ polling' = TRUE
  /\ UNCHANGED <<cause, handling, windowOver, press, sessionVars>>

Signal ==
  /\ phase = "serving" /\ cause = "none"
  /\ cause' = "signal"
  /\ UNCHANGED <<phase, listening, handling, windowOver, worker, polling, press, sessionVars>>

\* ListenAndServe returns an error, and webhookErrCh carries it to main.
ServerFails ==
  /\ listening
  /\ listening' = FALSE
  /\ cause' = IF cause = "none" THEN "server" ELSE cause
  /\ UNCHANGED <<phase, handling, windowOver, worker, polling, press, sessionVars>>

\* Mutant: the listener stays open while the handlers are waited for.
BeginShutdownListening ==
  /\ phase = "serving" /\ cause # "none"
  /\ phase' = "draining"
  /\ UNCHANGED <<cause, listening, handling, windowOver, worker, polling, press, sessionVars>>

\* webhookServer.Shutdown closes the listener ...
BeginShutdown ==
  /\ phase = "serving" /\ cause # "none"
  /\ phase' = "draining"
  /\ listening' = FALSE
  /\ UNCHANGED <<cause, handling, windowOver, worker, polling, press, sessionVars>>

\* Mutant: Shutdown is given no deadline.
ShutdownReturnsDrained ==
  /\ phase = "draining"
  /\ handling = {}
  /\ phase' = "drained"
  /\ UNCHANGED <<cause, listening, handling, windowOver, worker, polling, press, sessionVars>>

\* ... and returns when no request is in a handler, or when ten seconds are over.
ShutdownReturns ==
  /\ phase = "draining"
  /\ windowOver' = (handling # {})
  /\ phase' = "drained"
  /\ UNCHANGED <<cause, listening, handling, worker, polling, press, sessionVars>>

\* cancelWorker and cancelCache; what the worker has in hand goes on.
CancelWorker ==
  /\ phase = "drained"
  /\ phase' = "worker_cancelled"
  /\ UNCHANGED <<cause, listening, handling, windowOver, worker, polling, press, sessionVars>>

\* b.Stop: no more updates; handlers that run go on.
StopBot ==
  /\ phase = "worker_cancelled"
  /\ polling' = FALSE
  /\ phase' = "bot_stopped"
  /\ UNCHANGED <<cause, listening, handling, windowOver, worker, press, sessionVars>>

\* Cancels the context of every task, and leaves the table to the goroutines.
StopAll ==
  /\ phase = "bot_stopped"
  /\ task' = [i \in TaskId |->
                [task[i] EXCEPT !.done = @ \/ \E c \in Chats : tasks[c] = i]]
  /\ phase' = "stopped"
  /\ UNCHANGED <<cause, listening, handling, windowOver, worker, polling, press,
                 tasks, nextTaskID>>

\* main returns, and with it the process ends, whatever its goroutines do.
Exit == phase = "stopped" /\ Down

Crash == phase # "down" /\ Down

-----------------------------------------------------------------------------
(* The webhook server and the worker *)

RequestArrives(r) ==
  /\ listening /\ r \notin handling
  /\ handling' = handling \cup {r}
  /\ UNCHANGED <<phase, cause, listening, windowOver, worker, polling, press, sessionVars>>

RequestDone(r) ==
  /\ r \in handling
  /\ handling' = handling \ {r}
  /\ UNCHANGED <<phase, cause, listening, windowOver, worker, polling, press, sessionVars>>

WorkerCancelled == phase \in {"worker_cancelled", "bot_stopped", "stopped"}

\* Run: look at the context, take a job, process it; a Dequeue whose context is
\* done returns an error, and so does Run.
WorkerStep ==
  /\ \/ worker = "idle" /\ ~WorkerCancelled /\ worker' = "busy"
     \/ worker = "idle" /\ WorkerCancelled /\ worker' = "off"
     \/ worker = "busy" /\ worker' = "idle"
  /\ UNCHANGED <<phase, cause, listening, handling, windowOver, polling, press, sessionVars>>

-----------------------------------------------------------------------------
(* The duration buttons: telebot runs each handler on a goroutine of its own. *)

Press(p, c) ==
  /\ polling /\ press[p].step = "none"
  /\ press' = [press EXCEPT ![p] = [chat |-> c, step |-> "save"]]
  /\ UNCHANGED <<mainVars, sessionVars>>

\* SetSelectedDuration, whose error is only logged, and the edit of the message.
SaveDuration(p) ==
  /\ press[p].step = "save"
  /\ press' = [press EXCEPT ![p].step = "schedule"]
  /\ UNCHANGED <<mainVars, sessionVars>>

\* Mutant: a chat that has a task is not turned away.
NewTaskAlways(c) == nextTaskID < MaxTasks

NewTask(c) == tasks[c] = NoTask /\ nextTaskID < MaxTasks

\* Schedule, under the manager's lock: a chat with a task keeps it.
Schedule(p) ==
  LET c == press[p].chat
      i == nextTaskID + 1
  IN /\ press[p].step = "schedule"
     /\ press' = [press EXCEPT ![p] = NoPress(AnyChat)]
     /\ \/ /\ NewTask(c)
           /\ nextTaskID' = i
           /\ tasks' = [tasks EXCEPT ![c] = i]
           /\ task' = [task EXCEPT ![i] = [chat |-> c, step |-> "select", done |-> FALSE]]
        \/ tasks[c] # NoTask /\ UNCHANGED sessionVars
     /\ UNCHANGED mainVars

-----------------------------------------------------------------------------
(* The goroutine of a session *)

Step(i, from, to) ==
  /\ task[i].step = from
  /\ task' = [task EXCEPT ![i].step = to]
  /\ UNCHANGED <<mainVars, press, tasks, nextTaskID>>

\* Select picks either of two channels that are ready: a session that is done may
\* still poll.
Poll(i)     == Step(i, "select", "poll")

\* Mutant: a poll that fails ends the goroutine past its deferred function.
PollEndsForGood(i) == Step(i, "poll", "returned")

PollEnds(i) == Step(i, "poll", "select")

\* Mutant: the loop may leave whether or not the context is done.
SessionDoneEarly(i) == Step(i, "select", "farewell")

\* ctx.Done: the message to the chat is sent before the task leaves the table.
SessionDone(i) == task[i].done /\ Step(i, "select", "farewell")

\* Mutant: the deferred function forgets the table.
RemoveGoroutineOnly(i) ==
  /\ task[i].step = "farewell"
  /\ task' = [task EXCEPT ![i] = NoGoroutine(AnyChat)]
  /\ UNCHANGED <<mainVars, press, tasks, nextTaskID>>

RemoveTask(i) ==
  /\ task[i].step = "farewell"
  /\ tasks' = [tasks EXCEPT ![task[i].chat] = IF @ = i THEN NoTask ELSE @]
  /\ task' = [task EXCEPT ![i] = NoGoroutine(AnyChat)]
  /\ UNCHANGED <<mainVars, press, nextTaskID>>

\* The context's deadline, the selected duration after Schedule.
Timeout(i) ==
  /\ task[i].step # "none"
  /\ task' = [task EXCEPT ![i].done = TRUE]
  /\ UNCHANGED <<mainVars, press, tasks, nextTaskID>>

-----------------------------------------------------------------------------

Main == BeginShutdown \/ ShutdownReturns \/ CancelWorker \/ StopBot \/ StopAll \/ Exit

PressStep(p) == SaveDuration(p) \/ Schedule(p)

Session(i) == Poll(i) \/ PollEnds(i) \/ SessionDone(i) \/ RemoveTask(i)

Next ==
  \/ Start \/ Signal \/ ServerFails \/ Main \/ Crash \/ WorkerStep
  \/ \E r \in Requests : RequestArrives(r) \/ RequestDone(r)
  \/ \E p \in Presses : PressStep(p) \/ \E c \in Chats : Press(p, c)
  \/ \E i \in TaskId : Session(i) \/ Timeout(i)

Spec == Init /\ [][Next]_vars

\* Fairness: main does not stop on its way out (every call on it returns), a
\* goroutine that can take a step takes it, and time passes.  A select that meets
\* both of its channels ready again and again takes either in the end, as Go
\* chooses at random.
Fairness ==
  /\ WF_vars(Main)
  /\ \A i \in TaskId :
       /\ WF_vars(Session(i)) /\ SF_vars(SessionDone(i))
       /\ WF_vars(task[i].done = FALSE /\ Timeout(i))

FairSpec == Spec /\ Fairness

-----------------------------------------------------------------------------
(* Properties *)

TypeOK ==
  /\ phase \in {"down", "serving", "draining", "drained", "worker_cancelled",
                "bot_stopped", "stopped"}
  /\ cause \in {"none", "signal", "server"}
  /\ listening \in BOOLEAN /\ windowOver \in BOOLEAN /\ polling \in BOOLEAN
  /\ handling \subseteq Requests
  /\ worker \in {"off", "idle", "busy"}
  /\ press \in [Presses -> [chat : Chats, step : {"none", "save", "schedule"}]]
  /\ tasks \in [Chats -> TaskId \cup {NoTask}]
  /\ nextTaskID \in TaskId \cup {NoTask}
  /\ task \in [TaskId -> [chat : Chats, done : BOOLEAN,
                          step : {"none", "select", "poll", "farewell"}]]

Alive(i) == task[i].step # "none"

\* The goroutines that run are those of the table, one for each chat: two presses
\* of a button, a press that meets the end of a session, and a press that outlives
\* StopAll never leave a chat with two pollers, or with a goroutine that nothing
\* can cancel.
OnePollerPerChat ==
  \A i \in TaskId, c \in Chats : (Alive(i) /\ task[i].chat = c) <=> tasks[c] = i

\* Once the worker is being cancelled no webhook request is in its handler, unless
\* the ten seconds ran out on it: a handler that has verified a transfer still
\* finds the process it needs, and Paystack gets its answer.
HandlersFinishFirst ==
  phase \in {"drained", "worker_cancelled", "bot_stopped", "stopped"} /\ handling # {}
    => windowOver

\* The session of a chat as TaskManager sees it.
SessionOf(c) ==
  IF tasks[c] = NoTask THEN "none"
  ELSE IF task[tasks[c]].done THEN "done" ELSE "running"

Sessions == INSTANCE PollerSessions WITH session <- [c \in Chats |-> SessionOf(c)]

\* Sessions behave as TaskManager has them: a second Schedule never restarts one,
\* and a chat has its session until its context is done and its goroutine gone.
ImplementsSessions == Sessions!Spec

\* Main comes to its end once a signal or the server's error has reached it,
\* whatever the handlers do.
ShutdownEnds == cause # "none" ~> phase = "down"

\* A chat's session ends and frees the chat for the next one, in a poll, a
\* farewell message or a shutdown.
ChatIsFreed == \A c \in Chats : tasks[c] # NoTask ~> tasks[c] = NoTask

InFlight == handling # {} \/ worker = "busy" \/ \E i \in TaskId : task[i].step = "poll"

\* What src/README.md:59 says of a shutdown: it drains the work in flight, within
\* the window of ten seconds.
ShutdownDrains == [][Exit => ~InFlight \/ windowOver]_vars
=============================================================================
