----------------------------- MODULE TeaDecoder -----------------------------
(* How the reader of bubbletea splits bytes into events (ultraviolet,      *)
(* decoder.go and key_table.go): Decode gives the first event of a buffer  *)
(* and how much of the buffer it takes.                                    *)
(*                                                                         *)
(* A buffer is a sequence of units: a byte by its name ("ESC", "BEL",      *)
(* "CAN", "DEL", "TAB", "CR", "^b"), a printable byte as itself, a number  *)
(* of a parameter list, "data" for the content of a string, and "u1" "u2"  *)
(* for the two bytes of a character. The one-byte forms of the introducers *)
(* and the sequences of the Windows console are left out.                  *)
EXTENDS Integers, Sequences, FiniteSets, TLC

Num == "0" :> 0 @@ "1" :> 1 @@ "2" :> 2 @@ "3" :> 3 @@ "4" :> 4 @@ "5" :> 5 @@ "6" :> 6 @@ "8" :> 8
       @@ "10" :> 10 @@ "27" :> 27 @@ "32" :> 32 @@ "48" :> 48 @@ "52" :> 52 @@ "64" :> 64 @@ "97" :> 97
       @@ "98" :> 98 @@ "200" :> 200 @@ "201" :> 201 @@ "997" :> 997 @@ "57352" :> 57352
Numbers == DOMAIN Num
Upper == {"A", "B", "C", "D", "F", "H", "I", "M", "O", "P", "R", "S", "X", "Z"}
Lower == {"a", "b", "c", "m", "n", "p", "r", "t", "u", "w", "x", "y"}
ParamPrefixes == {"<", ">", "?"}
ParamBytes == Numbers \union ParamPrefixes \union {";", ":"}
Intermediates == {"$", "!", "+"}
Finals == Upper \union Lower \union {"~", "^", "@", "_", "[", "]", "\\", "|"}

-----------------------------------------------------------------------------
(* Events.                                                                 *)
Event(kind, code, mods) == [kind |-> kind, code |-> code, mods |-> mods]
Key(code, mods) == Event("key", code, mods)
Text(c) == Event("text", c, {})
Unknown == Event("unknown", "", {})      \* UnknownEvent: not whole, or not understood
Ignored == Event("ignored", "", {})
Report(name) == Event("report", name, {})  \* what a terminal answers, and what is only passed on
Found(n, ev) == [n |-> n, ev |-> ev]

IsKey(ev) == ev.kind \in {"key", "text"}
With(ev, mods) == Key(ev.code, ev.mods \union mods)

\* KeyMod(m - 1), the bits of a modifier parameter.
Bit(n, b) == (n \div b) % 2 = 1
ModsOf(m) == {x \in {"shift", "alt", "ctrl", "meta"} :
                 m > 0 /\ Bit(m - 1, CASE x = "shift" -> 1 [] x = "alt" -> 2 [] x = "ctrl" -> 4 [] x = "meta" -> 8)}

\* The first place from i on whose unit is not in S.
Stop(b, i, S) == LET out == {k \in i..Len(b) : b[k] \notin S}
                 IN  IF out = {} THEN Len(b) + 1 ELSE CHOOSE k \in out : \A j \in out : k <= j

-----------------------------------------------------------------------------
(* Parameter lists: [v: the value, -1 when there is none; more: a ':'      *)
(* follows]. The array starts as zeros, so a first value that is missing   *)
(* is 0.                                                                   *)
RECURSIVE ParamsFrom(_, _)
ParamsFrom(s, p) ==
    IF s = <<>> THEN <<p>>
    ELSE IF s[1] \in Numbers THEN ParamsFrom(Tail(s), [p EXCEPT !.v = Num[s[1]]])
    ELSE IF s[1] \in {";", ":"} THEN <<[p EXCEPT !.more = s[1] = ":"]>> \o ParamsFrom(Tail(s), [v |-> -1, more |-> FALSE])
    ELSE ParamsFrom(Tail(s), p)
Params(s) == IF s = <<>> THEN <<>> ELSE ParamsFrom(s, [v |-> 0, more |-> FALSE])
Param(ps, k, default) == IF k <= Len(ps) /\ ps[k].v # -1 THEN ps[k].v ELSE default

\* The parameter with sub parameters: its i-th part's k-th number.
Part(ps, j) == Cardinality({l \in 1..(j - 1) : ~ps[l].more})
Place(ps, j) == Cardinality({l \in 1..(j - 1) : Part(ps, l) = Part(ps, j)})
SubParam(ps, i, k, default) ==
    LET at == {j \in 1..Len(ps) : Part(ps, j) = i /\ Place(ps, j) = k}
    IN  IF at = {} THEN default ELSE Param(ps, CHOOSE j \in at : TRUE, default)

-----------------------------------------------------------------------------
(* Mouse reports.                                                          *)
IsWheel(b) == Bit(b, 64) /\ ~Bit(b, 128)
ButtonMods(b) == {m \in {"shift", "alt", "ctrl"} :
                     Bit(b, CASE m = "shift" -> 4 [] m = "alt" -> 8 [] m = "ctrl" -> 16)}
IsMotion(b) == Bit(b, 32) /\ ~IsWheel(b)
Mouse(b, release) ==
    Event(IF IsWheel(b) THEN "wheel" ELSE IF IsMotion(b) THEN "motion" ELSE IF release THEN "release" ELSE "click",
          "mouse", ButtonMods(b))

\* X10: the release is a button of its own.
X10Mouse(b) == Mouse(b, b % 4 = 3 /\ ~Bit(b, 64) /\ ~Bit(b, 128))

-----------------------------------------------------------------------------
(* Keys with modifiers.                                                    *)
CursorKeys == "A" :> "up" @@ "B" :> "down" @@ "C" :> "right" @@ "D" :> "left" @@ "F" :> "end" @@ "H" :> "home"
              @@ "P" :> "f1" @@ "R" :> "f3" @@ "S" :> "f4" @@ "Z" :> "tab"
              @@ "a" :> "up" @@ "b" :> "down" @@ "c" :> "right"
CursorFinals == {"A", "B", "C", "D", "F", "H", "P", "R", "S", "Z", "a", "b", "c"}
ImpliedMods(f) == IF f \in {"Z", "a", "b", "c"} THEN {"shift"} ELSE {}
TildeKeys == 1 :> "home" @@ 2 :> "insert" @@ 3 :> "delete" @@ 4 :> "end" @@ 5 :> "pgup" @@ 6 :> "pgdown" @@ 8 :> "end"
             @@ 32 :> "f18"
C0Keys == 27 :> "escape" @@ 57352 :> "up"
CodeOf(n) == IF n \in DOMAIN C0Keys THEN C0Keys[n]
             ELSE IF n = 97 THEN "a" ELSE IF n = 98 THEN "b" ELSE ToString(n)

\* parseKittyKeyboardExt: the third parameter is the event type.
KittyExt(ps, ev) ==
    IF Len(ps) > 2 /\ Param(ps, 1, 1) = 1 /\ ps[2].more /\ Param(ps, 3, 1) = 3
    THEN [ev EXCEPT !.kind = "keyup"] ELSE ev

\* parseKittyKeyboard; kind is the event type, 3 for a release.
KittyKey(kind, code, mods, text) ==
    Event(IF kind = 3 THEN "keyup" ELSE IF text # 0 \/ (code \in {"a", "b"} /\ mods \subseteq {"shift"}) THEN "text" ELSE "key",
          code, mods)
Kitty(ps) == KittyKey(SubParam(ps, 1, 1, 1), CodeOf(SubParam(ps, 0, 0, 1)), ModsOf(SubParam(ps, 1, 0, 1)), SubParam(ps, 2, 0, 0))

\* parseXTermModifyOtherKeys: CSI 27 ; modifiers ; code ~
ModifyOtherKeys(ps) == KittyKey(1, CodeOf(Param(ps, 3, 1)), ModsOf(Param(ps, 2, 1)), 0)

-----------------------------------------------------------------------------
(* parseCsi. The event of a whole sequence, "unknownCsi" when it has none. *)
NoEvent == Report("unknownCsi")

CsiReport(cmd, ps) ==
    CASE cmd \in {<<"?", "$", "y">>, <<"", "$", "y">>} /\ Len(ps) >= 2 /\ Param(ps, 1, -1) # -1 -> Report("modeReport")
      [] cmd = <<"?", "", "c">>                            -> Report("deviceAttributes")
      [] cmd = <<"?", "", "u">>                            -> Report("keyboardEnhancements")
      [] cmd = <<"?", "", "R">> /\ Len(ps) >= 2            -> Report("cursorPosition")
      [] cmd = <<"?", "", "n">> /\ Param(ps, 1, -1) = 997 /\ Param(ps, 2, -1) \in {1, 2} -> Report("colorScheme")
      [] cmd = <<">", "", "c">>                            -> Report("deviceAttributes")
      [] cmd = <<">", "", "m">> /\ Param(ps, 1, 0) = 4 /\ Param(ps, 2, -1) # -1 -> Report("modifyOtherKeys")
      [] cmd \in {<<"<", "", "m">>, <<"<", "", "M">>} /\ Len(ps) = 3 -> Mouse(Param(ps, 1, 0), cmd[3] = "m")
      [] cmd = <<"", "", "I">>                             -> Report("focus")
      [] cmd = <<"", "", "O">>                             -> Report("blur")
      [] cmd = <<"", "", "t">> /\ Len(ps) >= 1             ->
             Report(IF <<Param(ps, 1, 0), Len(ps)>> \in {<<8, 3>>, <<48, 5>>} THEN "windowSize" ELSE "windowOp")
      [] OTHER                                             -> NoEvent

\* A report of the cursor looks like a key: then it is both.
CursorOrKey(ps) ==
    IF Len(ps) = 2 /\ Param(ps, 1, 1) = 1 THEN Event("multi", "f3", ModsOf(Param(ps, 2, 1)))
    ELSE IF Len(ps) = 2 THEN Report("cursorPosition")
    ELSE IF Len(ps) = 0 THEN Key("f3", {}) ELSE NoEvent

ParamMods(ps) == IF Len(ps) > 1 THEN ModsOf(Param(ps, 2, 1)) ELSE {}
CursorKey(f, ps) ==
    IF (Len(ps) > 2 /\ ~ps[2].more) \/ Param(ps, 1, 1) # 1 THEN NoEvent
    ELSE KittyExt(ps, Key(CursorKeys[f], ImpliedMods(f) \union ParamMods(ps)))

TildeMods(f) == CASE f = "~" -> {} [] f = "^" -> {"ctrl"} [] f = "@" -> {"shift", "ctrl"}
Tilde(f, p, ps) ==
    IF f = "~" /\ p = 27 THEN IF Len(ps) = 3 THEN ModifyOtherKeys(ps) ELSE NoEvent
    ELSE IF f = "~" /\ p \in {200, 201} THEN Event(IF p = 200 THEN "pasteStart" ELSE "pasteEnd", "", {})
    ELSE IF p \notin DOMAIN TildeKeys THEN NoEvent
    ELSE KittyExt(IF f = "~" THEN ps ELSE <<>>, Key(TildeKeys[p], TildeMods(f) \union ParamMods(ps)))
TildeKey(f, ps) == IF Len(ps) = 0 THEN NoEvent ELSE Tilde(f, Param(ps, 1, 0), ps)

\* The three bytes after CSI M belong to it; when they are not there the introducer is alone.
CsiMouse(b, f) == IF f + 3 > Len(b) THEN Found(f, NoEvent)
                  ELSE Found(f + 3, X10Mouse(IF b[f + 1] \in Numbers THEN Num[b[f + 1]] ELSE 0))

\* URxvt: CSI number $ is the key with shift.
CsiShifted(b, f, cmd, ps, key) ==
    Found(f - 1, IF cmd[1] = "" /\ cmd[2] = "$" /\ IsKey(key) THEN With(key, {"shift"}) ELSE Unknown)
CsiEvent(b, f, cmd, ps) ==
    IF cmd[3] \notin Finals THEN CsiShifted(b, f, cmd, ps, TildeKey("~", ps))
    ELSE IF cmd = <<"", "", "M">> THEN CsiMouse(b, f)
    ELSE Found(f, IF cmd = <<"", "", "R">> THEN CursorOrKey(ps)
                  ELSE IF cmd[1] = "" /\ cmd[2] = "" /\ cmd[3] \in CursorFinals THEN CursorKey(cmd[3], ps)
                  ELSE IF cmd \in {<<"", "", "~">>, <<"", "", "^">>, <<"", "", "@">>} THEN TildeKey(cmd[3], ps)
                  ELSE IF cmd = <<"", "", "u">> /\ Len(ps) > 0 THEN Kitty(ps)
                  ELSE CsiReport(cmd, ps))

\* The prefix, the last intermediate byte and the final byte, "" for one that is not there.
Cmd3(b, p, f) == <<IF b[3] \in ParamPrefixes THEN b[3] ELSE "", IF f > p THEN b[f - 1] ELSE "",
                   IF f <= Len(b) THEN b[f] ELSE "">>
\* The parameters end before p, the intermediate bytes before f.
CsiFrom(b, p, f) == CsiEvent(b, f, Cmd3(b, p, f), Params(SubSeq(b, 3, p - 1)))
CsiParams(b, p) == CsiFrom(b, p, Stop(b, p, Intermediates))
ParseCsi(b) == IF Len(b) = 2 THEN Found(2, Key("[", {"alt"})) ELSE CsiParams(b, Stop(b, 3, ParamBytes))

-----------------------------------------------------------------------------
(* The other introducers.                                                  *)
Ss3Keys == "A" :> "up" @@ "B" :> "down" @@ "F" :> "end" @@ "H" :> "home" @@ "P" :> "f1" @@ "S" :> "f4"
           @@ "M" :> "kpenter" @@ "X" :> "kpequal" @@ "p" :> "kp0" @@ "a" :> "up" @@ "b" :> "down"
Ss3From(b, g) ==
    IF g > Len(b) \/ b[g] \in {"ESC", "BEL", "CAN", "DEL", "TAB", "CR", "^b", " ", "u1", "u2"}
    THEN Found(g - 1, Unknown)
    ELSE IF b[g] \notin DOMAIN Ss3Keys THEN Found(g, Report("unknownSs3"))
    ELSE Found(g, Key(Ss3Keys[b[g]], (IF g > 3 THEN ModsOf(Num[b[g - 1]]) ELSE {})
                                     \union IF b[g] \in {"a", "b"} THEN {"ctrl"} ELSE {}))
ParseSs3(b) == IF Len(b) = 2 THEN Found(2, Key("o", {"shift", "alt"})) ELSE Ss3From(b, Stop(b, 3, Numbers))

\* The string ends at e; n counts its terminator. An ESC that no '\' follows cancels it.
EndAt(b, e) == [e |-> e, n |-> IF e < Len(b) /\ b[e] = "ESC" /\ b[e + 1] = "\\" THEN e + 1 ELSE e]
StringEnd(b, i, ends) == EndAt(b, Stop(b, i, {x \in {b[k] : k \in 1..Len(b)} : x \notin ends}))
Cancelled(b, end) == b[end.e] = "CAN" \/ (b[end.e] = "ESC" /\ end.n = end.e)

\* The data begins at start, 0 when there is no ';'; the command is before c.
OscFrom(b, c, start, end) ==
    IF end.e > Len(b) THEN Found(Len(b), Unknown)
    ELSE IF Cancelled(b, end)
    THEN IF b[end.e] = "ESC" /\ (c = 3 \/ (start = 0 /\ end.e = 3)) THEN Found(2, Key("]", {"alt"}))
         ELSE Found(end.n, Ignored)
    ELSE IF end.e <= start THEN Found(end.n, Unknown)
    ELSE Found(end.n, Report(IF b[c - 1] = "10" THEN "color" ELSE IF b[c - 1] = "52" THEN "clipboard" ELSE "unknownOsc"))
OscData(b, c, start) == OscFrom(b, c, start, StringEnd(b, IF start = 0 THEN c ELSE start, {"BEL", "ESC", "CAN"}))
OscCmd(b, c) == OscData(b, c, IF c <= Len(b) /\ b[c] = ";" THEN c + 1 ELSE 0)
ParseOsc(b) == IF Len(b) = 2 THEN Found(2, Key("]", {"alt"})) ELSE OscCmd(b, Stop(b, 3, Numbers))

\* parseStTerminated: APC, PM and SOS.
IntroKey(c) == IF c = "X" THEN Key("x", {"shift", "alt"}) ELSE Key(c, {"alt"})
StringFrom(b, end) ==
    IF end.e > Len(b) THEN Found(Len(b), Unknown)
    ELSE IF Cancelled(b, end)
    THEN IF b[end.e] = "ESC" /\ end.e = 3 THEN Found(2, IntroKey(b[2])) ELSE Found(end.n, Ignored)
    ELSE Found(end.n, Report("string"))
ParseString(b) == IF Len(b) = 2 THEN Found(2, IntroKey(b[2])) ELSE StringFrom(b, StringEnd(b, 3, {"ESC", "CAN"}))

\* A DCS has no cancelled form: any ESC ends it.
DcsReport(cmd, ps) ==
    CASE cmd = <<"", "+", "r">> /\ Param(ps, 1, 0) = 1 -> Report("capability")
      [] cmd = <<">", "", "|">> -> Report("terminalVersion")
      [] cmd = <<"", "!", "|">> -> Report("tertiaryAttributes")
      [] OTHER -> Report("unknownDcs")
DcsFrom(b, f, cmd, ps, end) ==
    IF cmd[3] \notin Finals THEN Found(f - 1, Unknown)
    ELSE IF end.e > Len(b) THEN Found(Len(b), Unknown)
    ELSE Found(end.n, DcsReport(cmd, ps))
DcsBody(b, p, f) == DcsFrom(b, f, Cmd3(b, p, f), Params(SubSeq(b, 3, p - 1)), StringEnd(b, f + 1, {"ESC"}))
DcsParams(b, p) == DcsBody(b, p, Stop(b, p, Intermediates))
ParseDcs(b) == IF Len(b) = 2 THEN Found(2, Key("p", {"shift", "alt"})) ELSE DcsParams(b, Stop(b, 3, ParamBytes))

-----------------------------------------------------------------------------
(* parseControl and parseUtf8.                                             *)
Controls == "TAB" :> Key("tab", {}) @@ "CR" :> Key("enter", {}) @@ "DEL" :> Key("backspace", {})
            @@ "BEL" :> Key("g", {"ctrl"}) @@ "CAN" :> Key("x", {"ctrl"}) @@ "^b" :> Key("b", {"ctrl"})
            @@ " " :> Text(" ")
ParseUtf8(b) ==
    IF b[1] = "u1" THEN IF Len(b) > 1 /\ b[2] = "u2" THEN Found(2, Text("u")) ELSE Found(1, Unknown)
    ELSE IF b[1] = "u2" THEN Found(1, Unknown)
    ELSE Found(1, IF b[1] \in Upper THEN Event("text", b[1], {"shift"}) ELSE Text(b[1]))

RECURSIVE Decode(_)
\* Decode, behind an ESC that introduces nothing: the key with alt, or the escape key alone.
AltKey(d) == IF IsKey(d.ev) THEN Found(d.n + 1, With(d.ev, {"alt"})) ELSE Found(1, Key("escape", {}))
Decode(b) ==
    IF b[1] = "ESC"
    THEN IF Len(b) = 1 THEN Found(1, Key("escape", {}))
         ELSE CASE b[2] = "O" -> ParseSs3(b)
                [] b[2] = "P" -> ParseDcs(b)
                [] b[2] = "[" -> ParseCsi(b)
                [] b[2] = "]" -> ParseOsc(b)
                [] b[2] \in {"_", "^", "X"} -> ParseString(b)
                [] OTHER -> AltKey(Decode(Tail(b)))
    ELSE IF b[1] \in DOMAIN Controls THEN Found(1, Controls[b[1]])
    ELSE ParseUtf8(b)

-----------------------------------------------------------------------------
(* buildKeysTable: the sequences of keys the reader knows by heart.        *)
TildeNumbers == {"1", "2", "3", "4", "5", "6", "8", "32"}
\* An ESC before one of these adds alt.
PlainKeys == {<<"ESC", "[", f>> : f \in DOMAIN CursorKeys} \union {<<"ESC", "O", f>> : f \in {"A", "B", "F", "H", "P", "S", "a", "b"}}
             \union {<<"ESC", "[", n, f>> : n \in TildeNumbers, f \in {"~", "$", "^", "@"}}
PlainKey(s) ==
    IF s[2] = "O" THEN Key(Ss3Keys[s[3]], IF s[3] \in {"a", "b"} THEN {"ctrl"} ELSE {})
    ELSE IF Len(s) = 3 THEN Key(CursorKeys[s[3]], ImpliedMods(s[3]))
    ELSE Key(TildeKeys[Num[s[3]]], CASE s[4] = "~" -> {} [] s[4] = "$" -> {"shift"} [] s[4] = "^" -> {"ctrl"}
                                     [] s[4] = "@" -> {"shift", "ctrl"})
ModNumbers == {"2", "3", "5", "6"}
ModifiedKeys == {<<"ESC", "[", "1", ";", m, f>> : m \in ModNumbers, f \in {"A", "B", "C", "D", "F", "H", "P", "R", "S"}}
                \union {<<"ESC", "O", m, f>> : m \in ModNumbers, f \in {"M", "X", "p"}}
                \union {<<"ESC", "[", n, ";", m, "~">> : n \in TildeNumbers, m \in ModNumbers}
ModifiedKey(s) ==
    IF s[2] = "O" THEN Key(Ss3Keys[s[4]], ModsOf(Num[s[3]]))
    ELSE Key(IF s[6] = "~" THEN TildeKeys[Num[s[3]]] ELSE CursorKeys[s[6]], ModsOf(Num[s[5]]))

InTable(b) == b \in PlainKeys \/ b \in ModifiedKeys \/ (Len(b) > 1 /\ b[1] = "ESC" /\ Tail(b) \in PlainKeys)
TableKey(b) == IF b \in PlainKeys THEN PlainKey(b)
               ELSE IF b \in ModifiedKeys THEN ModifiedKey(b)
               ELSE With(PlainKey(Tail(b)), {"alt"})
=============================================================================
