------------------------------- MODULE Input -------------------------------
(* The way of what the user types: the goroutine that reads the terminal   *)
(* and splits its bytes into whole sequences (rawio.go), the event loop    *)
(* that sends them to a region, to a command or to the layer that has the  *)
(* keyboard (mainlayer.go), the session that knows the visible tab, and    *)
(* the reader bubbletea has at the end of a pipe.                          *)
EXTENDS Keys, TeaReader

CONSTANTS
    Texts,        \* what the terminal may send: sequences of [c, p]; p: inside a paste
    ReadMax,      \* bytes of one read
    QueueMax,     \* bound: what waits between two goroutines
    MaxTimeouts   \* bound: how often the escape time runs out

VARIABLES
    text,      \* what the terminal sends in this behaviour
    pos,       \* how much of it has been read
    ch,        \* InputLoop: chunks on their way to the parser
    pending,   \* InputParser.Run: the tail that is no whole sequence
    timeouts,
    rawCh,     \* messages for the event loop
    pipe,      \* bytes for bubbletea's reader
    tea,       \* bubbletea's reader
    msgs,      \* p.Msgs(): the events it found and has to send
    step,      \* stepFocusSequence: "no", it waits for a message, or for the "rest" of them
    token,     \* the places of the token it wrote last
    hurried,   \* more was written before the reader was done with that
    ui,        \* the model and its session, see NewUI
    log,       \* what became of each byte, in order
    mixed      \* a command and the keys after it came in one message

vars == <<text, pos, ch, pending, timeouts, rawCh, pipe, tea, msgs, step, token, hurried, ui, log, mixed>>

Tabs == {"tab1", "tab2"}
\* chord: the keys since the prefix, with their bytes. acks: the sync markers to acknowledge.
NewUI == [commandMode |-> FALSE, chord |-> <<>>, pasting |-> FALSE, layer |-> FALSE,
          focusBuf |-> <<>>, tab |-> "tab1", acks |-> <<>>]

Init ==
    /\ text \in Texts
    /\ pos = 0 /\ ch = <<>> /\ pending = <<>> /\ timeouts = 0
    /\ rawCh = <<>> /\ pipe = <<>> /\ tea = NewReader /\ msgs = <<>> /\ step = "no" /\ token = <<>> /\ hurried = FALSE
    /\ ui = NewUI /\ log = <<>> /\ mixed = FALSE

Byte(i) == [i |-> i, c |-> text[i].c]
Bytes(i, j) == [k \in 1..(j - i + 1) |-> Byte(i + k - 1)]
To(where, s) == [k \in 1..Len(s) |-> [to |-> where, i |-> s[k].i]]

\* The same bytes as bubbletea's reader takes them apart.
UnitsOf(c) == CASE c = "E" -> <<"ESC">> [] c = "p" -> <<"^b">> [] c = "200~" -> <<"200", "~">> [] c = "201~" -> <<"201", "~">>
                [] c = "m" -> <<"<", "0", ";", "1", ";", "1", "M">> [] c = "k" -> <<"98", ";", "5", "u">>
                [] c = "?c" -> <<"?", "1", "c">> [] OTHER -> <<c>>
Expand(s) == FlattenSeq([k \in 1..Len(s) |->
                [j \in 1..Len(UnitsOf(s[k].c)) |->
                    [c |-> UnitsOf(s[k].c)[j], i |-> IF j = Len(UnitsOf(s[k].c)) THEN s[k].i ELSE 0]]])

-----------------------------------------------------------------------------
(* rawio.go: InputLoop and InputParser.Run.                                *)

Read ==
    /\ pos < Len(text) /\ Len(ch) < QueueMax
    /\ \E n \in 1..ReadMax :
        /\ pos + n <= Len(text)
        /\ ch' = Append(ch, Bytes(pos + 1, pos + n))
        /\ pos' = pos + n
    /\ UNCHANGED <<text, pending, timeouts, rawCh, pipe, tea, msgs, step, token, hurried, ui, log, mixed>>

\* filterCapabilityResponses: what the terminal answered bubbletea goes through the pipe.
Capabilities(s) == FlattenSeq(SelectSeq(Tokens(s), IsCapabilityResponse))
UserInput(s) == FlattenSeq(SelectSeq(Tokens(s), LAMBDA t : ~IsCapabilityResponse(t)))

\* The function InputLoop gives the parser as Send.
SendParsed(s) ==
    /\ pipe' = pipe \o Expand(Capabilities(s))
    /\ log' = log \o To("pipe", Capabilities(s))
    /\ rawCh' = IF UserInput(s) = <<>> THEN rawCh ELSE Append(rawCh, UserInput(s))
    /\ hurried' = (hurried \/ (Capabilities(s) # <<>> /\ step = "waits"))

\* A fault: the tail is overwritten by the next chunk.
ParseForgets ==
    /\ ch # <<>> /\ Len(rawCh) < QueueMax
    /\ SendParsed(SubSeq(Head(ch), 1, SplitComplete(Head(ch))))
    /\ pending' = From(Head(ch), SplitComplete(Head(ch)) + 1)
    /\ ch' = Tail(ch)
    /\ UNCHANGED <<text, pos, timeouts, tea, msgs, step, token, ui, mixed>>

Parse ==
    /\ ch # <<>> /\ Len(rawCh) < QueueMax
    /\ \E s \in {pending \o Head(ch)} :
        /\ SendParsed(SubSeq(s, 1, SplitComplete(s)))
        /\ pending' = From(s, SplitComplete(s) + 1)
    /\ ch' = Tail(ch)
    /\ UNCHANGED <<text, pos, timeouts, tea, msgs, step, token, ui, mixed>>

\* EscTimeout: nothing more came, the tail is sent as it is. At the end of
\* the terminal the loop does the same.
ParseTimeout ==
    /\ pending # <<>> /\ ch = <<>> /\ Len(rawCh) < QueueMax
    /\ \/ timeouts < MaxTimeouts /\ timeouts' = timeouts + 1
       \/ pos = Len(text) /\ UNCHANGED timeouts
    /\ SendParsed(pending)
    /\ pending' = <<>>
    /\ UNCHANGED <<text, pos, ch, tea, msgs, step, token, ui, mixed>>

-----------------------------------------------------------------------------
(* The event loop. It runs one message to its end, with the commands that  *)
(* come of it: R is [ui, log, mixed], a command is one of                  *)
(*   [kind: "next" | "palette" | "push", bytes: the chord],                *)
(*   [kind: "raw", bytes], [kind: "batch", cmds].                          *)
Cmd(kind, s) == [kind |-> kind, bytes |-> s, cmds |-> <<>>]

\* tea.Batch: no command, the one there is, or a message with all of them.
Batch(cmds) == IF Len(cmds) <= 1 THEN cmds ELSE <<[kind |-> "batch", bytes |-> <<>>, cmds |-> cmds]>>

Logged(R, where, s) == [R EXCEPT !.log = @ \o To(where, s)]
\* sendRawToServer: to the region of the visible tab.
SendRaw(R, s) == Logged(R, R.ui.tab, s)

\* SessionLayer.handleRawInput. The reports of the mouse follow all of the rest.
RECURSIVE RawTokens(_, _, _, _)
RawTokens(R, toks, rest, cmds) ==
    IF toks = <<>> THEN [R |-> SendRaw(R, rest), cmds |-> cmds]
    ELSE IF IsMouse(Head(toks)) THEN RawTokens(R, Tail(toks), rest, cmds)
    ELSE IF IsAlways(Head(toks))
         THEN RawTokens([SendRaw(R, rest) EXCEPT !.mixed = @ \/ Len(toks) > 1], Tail(toks), <<>>,
                        Append(cmds, Cmd("next", Head(toks))))
    ELSE RawTokens(R, Tail(toks), rest \o Head(toks), cmds)

HandleRawInput(R, s) ==
    LET done == RawTokens(R, Tokens(s), <<>>, <<>>)
    IN  [R |-> Logged(done.R, "mouse", FlattenSeq(SelectSeq(Tokens(s), IsMouse))),
         cmds |-> Batch(done.cmds)]

\* resendRemainder
Resend(s) == IF s = <<>> THEN <<>> ELSE <<Cmd("raw", s)>>

ExitCommandMode(R) == [R EXCEPT !.ui.commandMode = FALSE, !.ui.chord = <<>>]

RECURSIVE HandleCommandInput(_, _)
HandleCommandInput(R, s) ==
    IF s = <<>> THEN [R |-> R, cmds |-> <<>>]
    ELSE LET t == Token(s)
             chord == R.ui.chord \o t
             keys == Classes(chord)
         IN  IF ChordKey(t) = "" \/ (~Bound(keys) /\ ~MayGrow(keys))
             THEN [R |-> Logged(ExitCommandMode(R), "drop", chord), cmds |-> Resend(Rest(s))]
             ELSE IF Bound(keys) /\ ~MayGrow(keys)
             THEN [R |-> [ExitCommandMode(R) EXCEPT
                              !.mixed = @ \/ (CommandOf(keys) = "palette" /\ Rest(s) # <<>>)],
                   cmds |-> Batch(<<Cmd(CommandOf(keys), chord)>> \o Resend(Rest(s)))]
             ELSE HandleCommandInput([R EXCEPT !.ui.chord = chord], Rest(s))

\* interpretInput. What the bytes before the prefix key command is not executed: the call drops it.
CommandBytes(cmds) == FlattenSeq([k \in 1..Len(cmds) |-> cmds[k].bytes \o FlattenSeq([j \in 1..Len(cmds[k].cmds) |-> cmds[k].cmds[j].bytes])])
InterpretInput(R, s) ==
    LET norm == NormalizeKittyKeys(s)
        at == IndexByte(norm)
        before == HandleRawInput(R, SubSeq(norm, 1, at - 1))
        entered == [Logged(Logged(before.R, "discarded", CommandBytes(before.cmds)), "key", <<norm[at]>>) EXCEPT
                        !.ui.commandMode = TRUE, !.ui.chord = <<>>]
    IN  IF at = 0 THEN HandleRawInput(R, norm)
        ELSE HandleCommandInput(entered, From(norm, at + 1))

\* A fault: the paste is over with the message.
PasteContentOnce(R, s) == [SendRaw(R, s) EXCEPT !.ui.pasting = FALSE]
\* A message that does not end the paste.
PasteContent(R, s) == SendRaw(R, s)

\* routeSessionInput: the content of a paste goes to the region as it is.
RECURSIVE RouteSessionInput(_, _, _)
RouteSessionInput(R, s, cmds) ==
    LET end == IndexOf(s, "201~")
        start == IndexOf(s, "200~")
        typed == InterpretInput(R, SubSeq(s, 1, start - 1))
        inPaste(Q) == [Q EXCEPT !.ui.pasting = TRUE]
    IN  IF s = <<>> THEN [R |-> R, cmds |-> Batch(cmds)]
        ELSE IF R.ui.pasting /\ end = 0 THEN [R |-> PasteContent(R, s), cmds |-> Batch(cmds)]
        ELSE IF R.ui.pasting
        THEN RouteSessionInput([Logged(SendRaw(R, SubSeq(s, 1, end - 1)), "mark", SubSeq(s, end, end + 2))
                                    EXCEPT !.ui.pasting = FALSE],
                               From(s, end + 3), cmds)
        ELSE IF start = 0
        THEN LET all == InterpretInput(R, s)
             IN  [R |-> all.R, cmds |-> Batch(cmds \o all.cmds)]
        ELSE RouteSessionInput(
                inPaste(Logged([typed.R EXCEPT !.mixed = @ \/ typed.cmds # <<>>],
                               "mark", SubSeq(s, start, start + 2))),
                From(s, start + 3), cmds \o typed.cmds)

\* processRawInput; needsFocusRouting is ui.layer.
ProcessRawInput(R0, raw) ==
    LET marks == SelectSeq(Tokens(raw), IsSync)
        s == FlattenSeq(SelectSeq(Tokens(raw), LAMBDA t : ~IsSync(t)))
        R == [R0 EXCEPT !.ui.acks = @ \o FlattenSeq(marks)]
    IN  IF s = <<>> THEN [R |-> R, cmds |-> <<>>]
        ELSE IF R.ui.commandMode THEN HandleCommandInput(R, NormalizeKittyKeys(s))
        ELSE IF R.ui.layer THEN [R |-> [R EXCEPT !.ui.focusBuf = @ \o s], cmds |-> <<>>]
        ELSE RouteSessionInput(R, s, <<>>)

OtherTab(t) == CHOOSE u \in Tabs : u # t

\* execCmdSync: the commands of a batch join the end of the queue.
RECURSIVE ExecCmdSync(_, _)
ExecCmdSync(R, queue) ==
    IF queue = <<>> THEN R
    ELSE LET c == Head(queue)
             ran(Q, kind) == Logged(Q, kind, c.bytes)
         IN  CASE c.kind = "batch"   -> ExecCmdSync(R, Tail(queue) \o c.cmds)
               [] c.kind = "raw"     -> LET done == ProcessRawInput(R, c.bytes)
                                        IN  ExecCmdSync(done.R, Tail(queue) \o done.cmds)
               [] c.kind = "next"    -> ExecCmdSync(ran([R EXCEPT !.ui.tab = OtherTab(@)], "next"), Tail(queue))
               [] c.kind = "palette" -> ExecCmdSync(R, Append(Tail(queue), Cmd("push", c.bytes)))
               [] c.kind = "push"    -> ExecCmdSync(ran([R EXCEPT !.ui.layer = TRUE], "palette"), Tail(queue))

Exec(done) == ExecCmdSync(done.R, done.cmds)

\* flushPendingSyncAcks, after the frame.
\* A fault: acknowledged while keys wait for the layer.
FlushedEagerly(R) == [Logged(R, "ack", R.ui.acks) EXCEPT !.ui.acks = <<>>]
Flushed(R) == IF R.ui.focusBuf # <<>> THEN R
              ELSE [Logged(R, "ack", R.ui.acks) EXCEPT !.ui.acks = <<>>]

Now == [ui |-> ui, log |-> log, mixed |-> mixed]
Become(R) == ui' = R.ui /\ log' = R.log /\ mixed' = R.mixed

\* A fault: new input is taken before the keys that wait for the layer.
RawInputEager ==
    /\ rawCh # <<>> /\ msgs = <<>> /\ step = "no"
    /\ Become(Flushed(Exec(ProcessRawInput([Now EXCEPT !.ui.layer = @ /\ ui.focusBuf = <<>>], Head(rawCh)))))
    /\ rawCh' = Tail(rawCh)
    /\ UNCHANGED <<text, pos, ch, pending, timeouts, pipe, tea, msgs, step, token, hurried>>

\* Run, the case of rawCh: taken only when bubbletea has nothing and no token waits.
RawInput ==
    /\ rawCh # <<>> /\ msgs = <<>> /\ step = "no" /\ ui.focusBuf = <<>>
    /\ Become(Flushed(Exec(ProcessRawInput(Now, Head(rawCh)))))
    /\ rawCh' = Tail(rawCh)
    /\ UNCHANGED <<text, pos, ch, pending, timeouts, pipe, tea, msgs, step, token, hurried>>

\* stepFocusSequence, up to the write of a token.
StepFocus ==
    /\ ui.focusBuf # <<>> /\ msgs = <<>> /\ step = "no"
    /\ IF ui.layer
       THEN /\ pipe' = pipe \o Expand(Token(ui.focusBuf))
            /\ ui' = [ui EXCEPT !.focusBuf = Rest(@)]
            /\ step' = "waits" /\ token' = [k \in 1..Len(Token(ui.focusBuf)) |-> ui.focusBuf[k].i]
            /\ UNCHANGED <<log, mixed>>
       ELSE /\ Become(Flushed(Exec(ProcessRawInput([Now EXCEPT !.ui.focusBuf = <<>>], ui.focusBuf))))
            /\ UNCHANGED <<pipe, step, token>>
    /\ UNCHANGED <<text, pos, ch, pending, timeouts, rawCh, tea, msgs, hurried>>

\* focusStepTimeout, 200 ms: the reader has read the token and given up on the rest of an escape.
FocusStepTimeout == pipe = <<>> /\ tea.buf = <<>>

\* One message was handled, whatever it was, and for 1 ms no other came; or the time is up.
StepDone ==
    /\ msgs = <<>>
    /\ \/ step = "rest" /\ hurried' = (hurried \/ pipe # <<>> \/ tea.buf # <<>>)
       \/ step = "waits" /\ FocusStepTimeout /\ UNCHANGED hurried
    /\ step' = "no"
    /\ Become(Flushed(Now))
    /\ UNCHANGED <<text, pos, ch, pending, timeouts, rawCh, pipe, tea, msgs, token>>

-----------------------------------------------------------------------------
(* bubbletea's reader at the end of the pipe, and the layer that has the   *)
(* keyboard. The reader has no time to read while it sends.                *)
TeaStep(done) == tea' = done.r /\ msgs' = done.out

TeaRead ==
    /\ pipe # <<>> /\ msgs = <<>>
    /\ \E done \in {ReadBytes(tea, pipe)} : TeaStep(done)
    /\ pipe' = <<>>
    /\ UNCHANGED <<text, pos, ch, pending, timeouts, rawCh, step, token, hurried, ui, log, mixed>>

TeaTimer ==
    /\ tea.armed /\ msgs = <<>>
    /\ \E done \in {TimerFires(tea)} : TeaStep(done)
    /\ UNCHANGED <<text, pos, ch, pending, timeouts, rawCh, pipe, step, token, hurried, ui, log, mixed>>

\* CommandPaletteLayer.handleKey: the escape key closes it, other keys it keeps. A key that
\* finds no layer is absorbed by the session.
HandleMsg ==
    /\ msgs # <<>>
    /\ LET m == Head(msgs)
           where == IF m.ev.kind = "report" THEN "report" ELSE IF ui.layer THEN "layer" ELSE "absorbed"
           new == SelectSeq(m.is, LAMBDA i : ~\E k \in 1..Len(log) : log[k].i = i)
       IN  /\ log' = log \o [k \in 1..Len(new) |-> [to |-> where, i |-> new[k]]]
           /\ ui' = [ui EXCEPT !.layer = @ /\ m.ev # Key("escape", {})]
    /\ msgs' = Tail(msgs)
    /\ step' = IF step = "waits" THEN "rest" ELSE step
    /\ UNCHANGED <<text, pos, ch, pending, timeouts, rawCh, pipe, tea, token, hurried, mixed>>

Next == \/ Read \/ Parse \/ ParseTimeout \/ RawInput \/ StepFocus \/ StepDone
        \/ TeaRead \/ TeaTimer \/ HandleMsg

Spec == Init /\ [][Next]_vars

-----------------------------------------------------------------------------
Region(e) == e.to \in Tabs
Quiet == /\ pos = Len(text) /\ ch = <<>> /\ pending = <<>> /\ rawCh = <<>>
         /\ pipe = <<>> /\ tea.buf = <<>> /\ msgs = <<>> /\ step = "no" /\ ui.focusBuf = <<>>
Pasted(i) == text[i].p

(* No byte is lost or doubled between the terminal and where it ends:      *)
(* InputParser and its tail, handleCommandInput and the remainder it       *)
(* resends, the focus buffer, bubbletea's reader. Not counted: a chord     *)
(* that is still open, a paste that is not over, the marker of a kitty     *)
(* key, whose last byte stands for the three, what merged in bubbletea's   *)
(* reader (hurried), and, when the escape time cut the end of a paste, the *)
(* reports of the mouse and the markers that come while it stays open.     *)
NothingLost ==
    Quiet =>
        \A i \in 1..Len(text) :
            LET n == Cardinality({k \in 1..Len(log) : log[k].i = i})
                gone == {"k"} \union IF timeouts > 0 THEN {"m", "200~"} ELSE {}
                kitty == \E j \in i..(i + 2) : j <= Len(text) /\ text[j].c \in gone
            IN  n = 1 \/ (n = 0 /\ (hurried \/ kitty \/ i \in Range(Places(ui.chord \o tea.paste))))

\* What is typed for a region or a layer.
Keyed(e) == Region(e) \/ e.to = "layer"

(* What is typed for the regions and the layers reaches them in the order  *)
(* it was typed.                                                           *)
InOrder ==
    mixed \/ \A k \in 1..Len(log) : Keyed(log[k]) =>
                \A j \in 1..(k - 1) : Keyed(log[j]) => log[j].i < log[k].i

\* Both markers were seen as markers: the escape time cut none, no layer had the keyboard.
Marked == \A i \in 1..Len(text) : text[i].c \in {"200~", "201~"} =>
              \A e \in Range(log) : e.i = i => e.to = "mark"
\* The prefix key was not the last key before the paste.
NoOpenChord == ~\E i \in 1..(Len(text) - 3) : text[i].c = "p" /\ text[i + 3].c = "200~"
(* The content of a paste reaches the region as it is, and is never taken  *)
(* for a command or a key (rawio.go:267-270), when its markers were seen   *)
(* and it does not come in the middle of a chord; reports of the terminal  *)
(* are taken out of it (filterCapabilityResponses).                        *)
PasteLiteral ==
    Marked /\ NoOpenChord /\ ~mixed =>
        \A e \in Range(log) : Pasted(e.i) => Region(e) \/ e.to = "pipe"

(* The harness is told that its marker was passed only when all that was   *)
(* typed before it has been dealt with.                                    *)
AckAfterInput ==
    \A k \in 1..Len(log) : (log[k].to = "ack" /\ text[log[k].i].c = "s") =>
        \A i \in 1..(log[k].i - 3) :
            \/ \E j \in 1..k : log[j].i = i
            \/ \E j \in i..(i + 2) : j <= Len(text) /\ text[j].c = "k"
            \/ i \in Range(Places(ui.chord \o tea.paste)) \/ hurried
=============================================================================
