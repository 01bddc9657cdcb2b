------------------------------ MODULE MCClient ------------------------------
EXTENDS ClientLoop

None == [loop |-> "setup", resize |-> 0, key |-> 0, open |-> 0, other |-> 0, exit |-> 0, break |-> 0,
         restart |-> 0, redial |-> 0, connect |-> 0, detach |-> 0, check |-> 0, upgrade |-> 0]

\* Tabs come and go while the connection breaks, the server restarts, the
\* window changes or the client moves to another server; in a client that
\* has closed its session, dialogs ask while the connection breaks or while
\* it moves to another server.
MCStarts == {
    [None EXCEPT !.resize = 1, !.key = 1, !.open = 1, !.other = 1],
    [None EXCEPT !.key = 1, !.open = 1, !.exit = 1, !.break = 1],
    [None EXCEPT !.open = 1, !.other = 1, !.restart = 1],
    [None EXCEPT !.loop = "overlay", !.open = 1, !.connect = 2, !.resize = 1, !.detach = 1],
    [None EXCEPT !.loop = "run", !.check = 1, !.upgrade = 1, !.break = 1, !.redial = 1],
    [None EXCEPT !.loop = "run", !.upgrade = 1, !.connect = 1]}
=============================================================================
