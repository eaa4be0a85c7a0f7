\* Two chats, two presses and one webhook request at a time, two sessions in a
\* process's life.
SPECIFICATION FairSpec
CONSTANTS
  Chats = {c1, c2}
  Presses = {p1, p2}
  Requests = {q1}
  MaxTasks = 2
INVARIANTS TypeOK OnePollerPerChat HandlersFinishFirst
PROPERTIES ImplementsSessions ShutdownEnds ChatIsFreed
