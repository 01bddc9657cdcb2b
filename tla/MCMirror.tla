------------------------------ MODULE MCMirror ------------------------------
EXTENDS Mirror

MCHeights == {1, 2}
MCPrograms == {"print", "bell", "clear", "syncOn", "syncOff"}

\* A frame of another region waits at the head of the queue, and by itself
\* until the viewer is subscribed again.
OtherFirst ==
    \A i \in DOMAIN link.down :
        link.down[i].kind = "other" => i = 1 /\ (link.on \/ Len(link.down) = 1)
=============================================================================
