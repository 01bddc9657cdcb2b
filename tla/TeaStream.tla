----------------------------- MODULE TeaStream -----------------------------
(* TerminalReader.StreamEvents by itself: a terminal that writes a text in *)
(* pieces of any size, the goroutine that reads them, the timer, and the   *)
(* events it sends.                                                        *)
EXTENDS TeaReader

CONSTANTS
    Inputs,     \* what the terminal writes: sequences of units
    ChunkMax    \* units of one read

VARIABLES
    input,   \* what the terminal writes in this behaviour
    left,    \* what of it has not been read
    rd,      \* the reader
    seen,    \* the events it has sent
    late     \* the timer has fired

streamVars == <<input, left, rd, seen, late>>

Numbered(s) == [k \in 1..Len(s) |-> [i |-> k, c |-> s[k]]]
StreamInit == /\ input \in Inputs /\ left = Numbered(input)
              /\ rd = NewReader /\ seen = <<>> /\ late = FALSE

StreamRead ==
    /\ left # <<>>
    /\ \E n \in 1..ChunkMax :
        /\ n <= Len(left)
        /\ \E done \in {ReadBytes(rd, SubSeq(left, 1, n))} : rd' = done.r /\ seen' = seen \o done.out
        /\ left' = Drop(left, n)
    /\ UNCHANGED <<input, late>>

StreamTimer ==
    /\ rd.armed
    /\ \E done \in {TimerFires(rd)} : rd' = done.r /\ seen' = seen \o done.out
    /\ late' = TRUE
    /\ UNCHANGED <<input, left>>

StreamNext == StreamRead \/ StreamTimer

-----------------------------------------------------------------------------
(* Inputs whose bytes mean the same wherever a read ends. Not so: the      *)
(* mouse reports of X10, strings that ESC \ ends, an ESC before another     *)
(* sequence, a mode report (CSI 2 $ is a key), the cursor's place.         *)
Follows(s, t) == \E k \in 0..(Len(s) - Len(t)) : SubSeq(s, k + 1, k + Len(t)) = t
Steady(s) == \A t \in {<<"ESC", "\\">>, <<"[", "M">>, <<"$">>, <<"R">>} \union {<<"ESC", "ESC", c>> : c \in {"[", "]", "O", "P", "_", "^", "X"}} :
                 ~Follows(s, t)
\* A key that is pasted and comes alone is taken for a key: the table is asked first.
KeyInPaste(s) == \E k \in 1..Len(s) : s[k] = "ESC" /\ \E n \in 3..6 : k + n - 1 <= Len(s) /\ InTable(SubSeq(s, k, k + n - 1))
                     /\ \E j \in 1..k : s[j] = "200"

AtOnce(s) == ScanFrom([r |-> [NewReader EXCEPT !.buf = Numbered(s)], out |-> <<>>, more |-> TRUE], FALSE)

(* The events do not depend on how the terminal's bytes were cut into      *)
(* reads, as long as the rest of a sequence comes in time: scanEvents      *)
(* keeps a piece until it is whole.                                        *)
CutsDoNotMatter ==
    ~late /\ left = <<>> /\ Steady(input) /\ ~KeyInPaste(input) =>
        \E W \in {AtOnce(input)} : seen = W.out /\ rd.buf = W.r.buf /\ rd.open = W.r.open /\ rd.paste = W.r.paste

=============================================================================
