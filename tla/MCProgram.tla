----------------------------- MODULE MCProgram -----------------------------
EXTENDS Program

Load == [connected |-> TRUE, init |-> {}, commands |-> {}, keys |-> 0, server |-> 0,
         signal |-> FALSE, resize |-> FALSE, quit |-> FALSE]
MCMessages == {"none", "size", "key", "log", "dialed", "check", "a", "b", "c", "d", "clip", "connect", "boom", "quit", "hint"}
MCLoads == {
    \* sequences and batches, and the user who quits meanwhile
    [Load EXCEPT !.commands = {Sequence(Leaf("a"), Leaf("b")), Sequence(Batch(Leaf("c"), Leaf("clip")), Leaf("d"))},
                 !.keys = 1, !.quit = TRUE],
    \* two keys whose commands take their time
    [Load EXCEPT !.commands = {Leaf("connect"), Leaf("a")}, !.keys = 2, !.resize = TRUE],
    \* panics and the end, and the log
    [Load EXCEPT !.commands = {Leaf("boom"), Batch(Leaf("boom"), Leaf("a")), Leaf("quit")}, !.keys = 1, !.server = 2],
    \* the way up, with the tip Init may return
    [Load EXCEPT !.init = Leaf("hint"), !.signal = TRUE, !.resize = TRUE],
    \* the server, and a signal
    [Load EXCEPT !.signal = TRUE, !.server = 2],
    \* without a connection
    [Load EXCEPT !.connected = FALSE, !.commands = {Leaf("connect")}, !.keys = 1,
                 !.signal = TRUE, !.quit = TRUE, !.server = 1]}
=============================================================================
