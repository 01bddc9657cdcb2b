----------------------------- MODULE MCTreeSync -----------------------------
(* Small instances of TreeSync for TLC.                                     *)
EXTENDS TreeSync, TLC
CONSTANTS c1, c2, r1, r2, s1, s2, p1, p2

\* A narrow writeCh, reconnects and a server replacement; a writeCh that
\* never fills, two regions and frames in between; a session and a program
\* with a "/" in their names beside ones without.
MCSetups == {
    [writeCap |-> 2, conns |-> {c1, c2}, regions |-> {r1},
     sessions |-> {s1}, programs |-> {p1},
     versions |-> 3, epochs |-> 1, frames |-> 0, resyncs |-> 1],
    [writeCap |-> 7, conns |-> {c1}, regions |-> {r1, r2},
     sessions |-> {s1}, programs |-> {p1},
     versions |-> 4, epochs |-> 0, frames |-> 1, resyncs |-> 1],
    [writeCap |-> 3, conns |-> {c1, c2}, regions |-> {r1, r2},
     sessions |-> {s1, s2}, programs |-> {p1, p2},
     versions |-> 3, epochs |-> 0, frames |-> 0, resyncs |-> 1]}
=============================================================================
