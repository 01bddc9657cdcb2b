------------------------------ MODULE PtyStream ------------------------------
(***************************************************************************)
(* What a program writes on its way to the emulator's parser, cut wherever *)
(* reads cut it.  On the server readLoop passes only whole sequences on    *)
(* and carries the rest to its next read (sequenceSafe); the nx2 apps feed *)
(* the chunks of the wire as they come.                                    *)
(*                                                                         *)
(* Whole sequences are found with DecodeSequence of the ansi library,      *)
(* which is a parser of its own and not the one that interprets them.      *)
(***************************************************************************)
EXTENDS Stream

CONSTANTS
    Alphabets,     \* sets of words (sequences of bytes) a program writes
    InputMax,      \* how many bytes of each alphabet it writes
    ReadMax,       \* how many bytes one read may return
    MaxCarry       \* the bytes readLoop can carry
Byte == UNION {UNION {{w[i] : i \in DOMAIN w} : w \in a} : a \in Alphabets}
ASSUME PtyStreamAssumption ==
    /\ \A a \in Alphabets : a \subseteq Seq(Byte) /\ InputMax[a] \in Nat
    /\ ReadMax \in Nat /\ MaxCarry \in Nat

VARIABLES
    alphabet,      \* the words of this behaviour
    input,         \* all the program has written
    kernel,        \* what of it has not been read
    route,         \* "server" or "nx2"
    carry,         \* readLoop's carry
    parser,        \* the Stream
    ended          \* the program has ended and readLoop with it
ptyVars == <<alphabet, input, kernel, route, carry, parser, ended>>

-----------------------------------------------------------------------------
(* ansi.DecodeSequence on bytes: the length of the first sequence, and     *)
(* whether it is complete                                                  *)

C1 == {"CSI", "OSC", "DCS", "SOS", "PM", "APC", "IND", "NEL", "RI", "HTS", "ST"}
C0 == {"BEL", "BS", "HT", "LF", "CR", "CAN", "SUB", "ESC", "NUL", "SO", "SI"}
Parameters == DOMAIN Digit \union {";", ":", "<", "=", ">", "?"}
High == C1 \union {"u1", "u2"}
\* One byte of a sequence that began in an earlier one; done is its length.
Decode(acc, buf, i) ==
    LET b == buf[i]
        go(state) == [acc EXCEPT !.state = state]
        end(n)    == [acc EXCEPT !.state = "done", !.n = n]
        isOSC == acc.kind = "]"
    IN  CASE acc.state = "done" -> acc
          [] acc.state = "escape" ->
               CASE b \in {"[", "P"} -> [go("params") EXCEPT !.kind = b]
                 [] b \in {"]", "X", "^", "_"} -> [go("string") EXCEPT !.kind = b]
                 [] b \in Intermediates -> acc
                 [] b \in C0 \union High -> end(i - 1)
                 [] OTHER -> end(i)
          [] acc.state = "params" /\ b \in Parameters -> acc
          [] acc.state \in {"params", "inter"} /\ b \in Intermediates -> go("inter")
          [] acc.state \in {"params", "inter"}
             /\ b \in C0 \union High \union (IF acc.state = "inter" THEN Parameters ELSE {}) ->
               end(i - 1)
          [] acc.state \in {"params", "inter"} /\ b \notin C0 \union High \union Parameters
                                              \union Intermediates ->
               IF acc.kind = "P" THEN go("string") ELSE end(i)
          [] acc.state = "string" ->
               CASE b = "BEL" /\ isOSC -> end(i)
                 [] b \in {"CAN", "SUB"} -> end(i - 1)
                 [] b = "ST" -> end(i)
                 [] b = "ESC" -> IF i < Len(buf) /\ buf[i + 1] = "\\" THEN end(i + 1)
                                 ELSE end(i - 1)
                 [] OTHER -> acc
DecodeSequence(buf) ==
    LET first == Head(buf)
        start(state, kind) ==
            FoldLeft(LAMBDA acc, i : IF i = 1 THEN acc ELSE Decode(acc, buf, i),
                     [state |-> state, kind |-> kind, n |-> Len(buf)],
                     [i \in DOMAIN buf |-> i])
        one(n) == [state |-> "done", kind |-> None, n |-> n]
    IN  CASE first = "ESC" -> start("escape", None)
          [] first = "CSI" -> start("params", "[")
          [] first = "DCS" -> start("params", "P")
          [] first = "OSC" -> start("string", "]")
          [] first \in {"SOS", "PM", "APC"} -> start("string", "_")
          [] first = "u1" -> one(IF Len(buf) > 1 /\ buf[2] = "u2" THEN 2 ELSE 1)
          [] OTHER -> one(1)

-----------------------------------------------------------------------------
(* sequenceSafe                                                            *)

ValidUTF8(buf) ==
    \A i \in DOMAIN buf :
        /\ buf[i] \notin C1
        /\ buf[i] = "u1" => i < Len(buf) /\ buf[i + 1] = "u2"
        /\ buf[i] = "u2" => i > 1 /\ buf[i - 1] = "u1"
\* The end of the last whole sequence before the first incomplete one.
WholeEnd(buf) ==
    FoldLeft(LAMBDA acc, i :
                 IF acc.stop \/ acc.end >= Len(buf) THEN acc
                 ELSE LET d == DecodeSequence(SubSeq(buf, acc.end + 1, Len(buf)))
                      IN  IF d.state = "done" /\ d.n > 0 THEN [acc EXCEPT !.end = @ + d.n]
                          ELSE [acc EXCEPT !.stop = TRUE],
             [end |-> 0, stop |-> FALSE], [i \in DOMAIN buf |-> i]).end
SafeEnd(buf) == LET ends == {k \in 0 .. WholeEnd(buf) : ValidUTF8(SubSeq(buf, 1, k))}
                IN  CHOOSE k \in ends : \A j \in ends : j <= k
SequenceSafe(buf) ==
    LET rest == SubSeq(buf, SafeEnd(buf) + 1, Len(buf))
    IN  IF Len(rest) > MaxCarry THEN [safe |-> buf, carry |-> <<>>]
        ELSE [safe |-> SubSeq(buf, 1, SafeEnd(buf)), carry |-> rest]

-----------------------------------------------------------------------------
(* Behaviour                                                               *)

PtyInit ==
    /\ alphabet \in Alphabets
    /\ input = <<>> /\ kernel = <<>> /\ carry = <<>> /\ ended = FALSE
    /\ route \in {"server", "nx2"}
    /\ parser = NewStream(route = "nx2")

\* Reads take any part of what is there, so it is enough that all writes come first.
Write(word) ==
    /\ Len(input) + Len(word) <= InputMax[alphabet] /\ kernel = input /\ ~ended
    /\ input' = input \o word
    /\ kernel' = kernel \o word
    /\ UNCHANGED <<alphabet, route, carry, parser, ended>>

\* readLoop takes the first n bytes that are there; only a safe prefix is fed.
ReadServer(n) ==
    /\ route = "server" /\ n <= Len(kernel)
    /\ LET cut == SequenceSafe(carry \o SubSeq(kernel, 1, n))
       IN  /\ carry' = cut.carry
           /\ parser' = IF cut.safe = <<>> THEN parser ELSE FeedBytes(parser, cut.safe)
    /\ kernel' = SubSeq(kernel, n + 1, Len(kernel))
    /\ UNCHANGED <<alphabet, input, route, ended>>
ReadNx2(n) ==
    /\ route = "nx2" /\ n <= Len(kernel)
    /\ parser' = FeedBytes(parser, SubSeq(kernel, 1, n))
    /\ kernel' = SubSeq(kernel, n + 1, Len(kernel))
    /\ UNCHANGED <<alphabet, input, route, carry, ended>>

\* The program ends: readLoop returns, and its carry with it.
ProgramEnds ==
    /\ ~ended /\ kernel = <<>>
    /\ ended' = TRUE /\ carry' = <<>>
    /\ UNCHANGED <<alphabet, input, kernel, route, parser>>

PtyNext ==
    \/ \E w \in alphabet : Write(w)
    \/ \E n \in 1 .. ReadMax : ReadServer(n)
    \/ \E n \in 1 .. ReadMax : ReadNx2(n)
    \/ ProgramEnds
PtySpec == PtyInit /\ [][PtyNext]_ptyVars

-----------------------------------------------------------------------------
(* Properties                                                              *)

\* The calls, one after the other, a run of text counting rune by rune.
DrawRune(calls, ch) == Append(calls, <<"Draw", <<ch>>>>)
AddCall(calls, e)   == IF e[1] = "Draw" THEN FoldLeft(DrawRune, calls, e[2]) ELSE Append(calls, e)
AddCalls(calls, es) == FoldLeft(AddCall, calls, es)
Calls(out)          == FoldLeft(AddCalls, <<>>, out)
\* What the parser makes of the same bytes in one piece.
InOnePiece == FeedBytes(NewStream(route = "nx2"), input)

\* Where readLoop does not help: the nx2 apps have none, and its carry has a limit.
Unguarded == route = "nx2" \/ Len(input) > MaxCarry
\* DecodeSequence ends a control sequence where the parser goes on with it.
DecodedApart(i) == \/ input[i] \in DOMAIN Control
                   \/ input[i] \in Intermediates \ {"'"} /\ input[i + 1] \in Parameters
CutAtQuote == \E j \in DOMAIN input :
    input[j] = "'" /\ (Unguarded \/ \E i \in 1 .. j - 1 : DecodedApart(i))
Pair(i, x, y) == i + 1 \in DOMAIN input /\ input[i] = x /\ input[i + 1] = y
CutAtRune == Unguarded /\ \E i, j \in DOMAIN input :
    i < j /\ Pair(i, "%", "@") /\ Pair(j, "u1", "u2")

\* Where output is cut makes no difference to what the emulator is told
\* (pendingBytes, carry, the state kept between calls of FeedBytes).  Two cuts
\* do.  A "'" at the end of a chunk is taken for HPA (stream.go:264): readLoop
\* carries it on, unless DecodeSequence has lost the parser's control sequence.
\* And a rune is decoded whole with UTF-8 off too, but not kept (stream.go:236).
ChunksDoNotMatter ==
    kernel = <<>> /\ carry = <<>> /\ ~ended /\ ~CutAtQuote /\ ~CutAtRune
        => Calls(parser.out) = Calls(InOnePiece.out)

=============================================================================
