--------------------------- MODULE PollerSessions ---------------------------
(***************************************************************************)
(* What TaskManager takes a chat's session to be: Schedule, SessionEnds,   *)
(* TaskRemoved and Crash of that module as far as `session' goes.          *)
(* BotProcess shows that buttons, goroutines, deadlines, the task table    *)
(* and the shutdown of the process amount to this.                         *)
(***************************************************************************)
CONSTANT Chats
VARIABLE session

Init == session = [c \in Chats |-> "none"]

Moves(c, from, to) == session[c] = from /\ session' = [session EXCEPT ![c] = to]

Schedule(c)    == Moves(c, "none", "running")
SessionEnds(c) == Moves(c, "running", "done")
TaskRemoved(c) == Moves(c, "done", "none")
Crash          == session' = [c \in Chats |-> "none"]

\* StopAll ends the sessions of all chats under the manager's lock; TaskManager has
\* it as one SessionEnds after another.
StopAll == session' = [c \in Chats |-> IF session[c] = "running" THEN "done" ELSE session[c]]

Next ==
  \/ \E c \in Chats : Schedule(c) \/ SessionEnds(c) \/ TaskRemoved(c)
  \/ StopAll \/ Crash

Spec == Init /\ [][Next]_session
=============================================================================
