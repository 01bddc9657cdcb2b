----------------------------- MODULE TeaReader -----------------------------
(* The reader of bubbletea's input (ultraviolet, terminal_reader.go): it   *)
(* keeps the bytes that are no whole event yet, waits for the rest of an   *)
(* escape for a time, and collects the content of a paste. A byte is       *)
(* [i, c]: c its unit for TeaDecoder, i the place of the input it is the   *)
(* last byte of, 0 when more of it follows.                                *)
(*                                                                         *)
(* The reader is a record:                                                 *)
(*   buf    bytes read and not taken by an event                           *)
(*   open   a paste has begun, paste its content                           *)
(*   armed  the timer runs                                                 *)
EXTENDS TeaDecoder, SequencesExt

NewReader == [buf |-> <<>>, open |-> FALSE, paste |-> <<>>, armed |-> FALSE]

Units(s) == [k \in 1..Len(s) |-> s[k].c]
\* The places that s holds, in order.
Places(s) == LET ends == SelectSeq(s, LAMBDA b : b.i # 0) IN [k \in 1..Len(ends) |-> ends[k].i]
\* An event for the loop, and the places of the bytes it came from.
Sent(ev, s) == [ev |-> ev, is |-> Places(s)]
PasteSent(s) == [ev |-> Event("paste", "", {}), is |-> Places(s)]

\* A MultiEvent is a key and the report of the cursor.
Events(ev, s) == IF ev.kind = "multi" THEN <<Sent(Key(ev.code, ev.mods), s), Sent(Report("cursorPosition"), <<>>)>>
                 ELSE <<Sent(ev, s)>>

Drop(s, n) == SubSeq(s, n + 1, Len(s))
\* "\x1b" and one more byte may be the start of something longer.
HasToWait(s, d, expired) == s[1].c = "ESC" /\ d.n <= 2 /\ ~expired

-----------------------------------------------------------------------------
(* eventScanner.scanEvents. W is [r: the reader, out: events, more: FALSE  *)
(* when what is left has to wait].                                         *)

\* Inside a paste: only its end, and what may become it, are looked at.
PasteStep(W, d, expired) ==
    LET s == W.r.buf
        piece == SubSeq(s, 1, d.n)
        skip == [W EXCEPT !.r.buf = Drop(s, d.n)]
    IN  IF d.ev.kind = "text" THEN [skip EXCEPT !.r.paste = @ \o piece]
        ELSE IF d.ev.kind = "key"
        THEN IF HasToWait(s, d, expired) THEN [W EXCEPT !.more = FALSE] ELSE [skip EXCEPT !.r.paste = @ \o piece]
        ELSE IF d.ev.kind = "unknown" /\ ~expired THEN [W EXCEPT !.more = FALSE]
        ELSE skip

\* A fault: what is not understood is passed on at once.
KeyStepImpatient(W, d, expired) ==
    LET s == W.r.buf
    IN  [W EXCEPT !.r.buf = Drop(s, d.n), !.out = IF d.ev.kind = "ignored" THEN @ ELSE @ \o Events(d.ev, SubSeq(s, 1, d.n)),
                  !.r.open = @ \/ d.ev.kind = "pasteStart"]

\* Outside of a paste. An end without a beginning is an empty paste.
KeyStep(W, d, expired) ==
    LET s == W.r.buf
        piece == SubSeq(s, 1, d.n)
        skip == [W EXCEPT !.r.buf = Drop(s, d.n)]
    IN  IF d.ev.kind = "ignored" THEN skip
        ELSE IF d.ev.kind = "unknown"
        THEN IF ~expired THEN [W EXCEPT !.more = FALSE]
             ELSE IF InTable(Units(piece)) THEN [skip EXCEPT !.out = Append(@, Sent(TableKey(Units(piece)), piece)), !.more = FALSE]
             ELSE [skip EXCEPT !.out = Append(@, Sent(Unknown, piece))]
        ELSE IF HasToWait(s, d, expired) THEN [W EXCEPT !.more = FALSE]
        ELSE [skip EXCEPT !.out = @ \o Events(d.ev, piece), !.r.open = @ \/ d.ev.kind = "pasteStart"]

PasteEnds(W, d) ==
    [W EXCEPT !.r.buf = Drop(@, d.n), !.r.open = FALSE, !.r.paste = <<>>,
              !.out = @ \o <<PasteSent(W.r.paste), Sent(d.ev, SubSeq(W.r.buf, 1, d.n))>>]

RECURSIVE ScanFrom(_, _)
ScanFrom(W, expired) ==
    IF W.r.buf = <<>> \/ ~W.more THEN W
    ELSE LET d == Decode(Units(W.r.buf))
         IN  ScanFrom(IF d.ev.kind = "pasteEnd" THEN PasteEnds(W, d)
                      ELSE IF W.r.open THEN PasteStep(W, d, expired)
                      ELSE KeyStep(W, d, expired), expired)

\* The table is asked first, for all of the buffer at once, and also inside a paste.
Scan(r, expired) ==
    IF Len(r.buf) > 2 /\ r.buf[1].c = "ESC" /\ InTable(Units(r.buf))
    THEN [r |-> [r EXCEPT !.buf = <<>>], out |-> <<Sent(TableKey(Units(r.buf)), r.buf)>>]
    ELSE LET W == ScanFrom([r |-> r, out |-> <<>>, more |-> TRUE], expired)
         IN  [r |-> W.r, out |-> W.out]

-----------------------------------------------------------------------------
(* StreamEvents, its two cases: bytes were read, and the timer fired. The  *)
(* timer runs as long as bytes wait.                                       *)
Timed(done) == [done EXCEPT !.r.armed = done.r.buf # <<>>]
ReadBytes(r, s) == Timed(Scan([r EXCEPT !.buf = @ \o s], FALSE))
TimerFires(r) == Timed(Scan(r, TRUE))
=============================================================================
