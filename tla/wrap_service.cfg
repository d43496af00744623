SPECIFICATION FairSpec
CONSTANTS
    c1 = c1
    c2 = c2
    c3 = c3
    Clients <- MCClients
    Backlog = 3
    OneShots <- Both
INVARIANTS OwnSockets HeldUntilNext
PROPERTIES Answered
\* every client connects once
CHECK_DEADLOCK FALSE
