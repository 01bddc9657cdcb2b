-------------------------------- MODULE Stream --------------------------------
(***************************************************************************)
(* The emulator's parser (pkg/te/stream.go) as operators on a record.  The *)
(* bytes a program writes become calls of the listener: events             *)
(* <<method, arguments>>, the ones History!Perform takes.                  *)
(*                                                                         *)
(* A byte is a token named for what it is: "ESC", "BEL", "[", "1", a final *)
(* letter.  "u1" "u2" are the two bytes of one multibyte rune, which is    *)
(* "u"; "u1" without "u2" is invalid UTF-8 and "u2" alone a Latin-1        *)
(* character.  A digit token may stand for a run of digits (OSC codes).    *)
(***************************************************************************)
EXTENDS Integers, SequencesExt

None == "none"
ParamMax == 9999

NewStream(full) ==
    [state |-> "ground", params |-> <<>>, cur |-> <<>>, private |-> FALSE,
     prefix |-> None, inter |-> None, quote |-> FALSE, esc |-> FALSE, str |-> <<>>,
     slot |-> None, utf8 |-> TRUE, eight |-> FALSE, pending |-> <<>>, text |-> <<>>,
     full |-> full,      \* the listener has the optional methods (Screen, not EventProxy)
     out |-> <<>>]       \* the calls made so far, in groups

EmitAll(st, es) == [st EXCEPT !.out = Append(@, es)]
Emit(st, e)     == EmitAll(st, <<e>>)
To(st, state) == [st EXCEPT !.state = state]
Flush(st) == IF st.text = <<>> THEN st
             ELSE [Emit(st, <<"Draw", st.text>>) EXCEPT !.text = <<>>]
ResetCSI(st) ==
    [st EXCEPT !.params = <<>>, !.cur = <<>>, !.private = FALSE,
               !.prefix = None, !.inter = None, !.quote = FALSE]

-----------------------------------------------------------------------------
(* Characters                                                              *)

Digit == [d \in {"0", "1", "2", "3", "4", "7", "8", "52", "104"} |->
    CASE d = "0" -> 0 [] d = "1" -> 1 [] d = "2" -> 2 [] d = "3" -> 3 [] d = "4" -> 4
      [] d = "7" -> 7 [] d = "8" -> 8 [] d = "52" -> 52 [] OTHER -> 104]
Intermediates == {" ", "!", "\"", "#", "$", "%", "(", ")", "'"}
Control == [BEL |-> "Bell", BS |-> "Backspace", HT |-> "Tab", LF |-> "LineFeed",
            CR |-> "CarriageReturn"]
Ground ==
    [BEL |-> "Bell", BS |-> "Backspace", HT |-> "Tab", LF |-> "LineFeed",
     CR |-> "CarriageReturn", SO |-> "ShiftOut", SI |-> "ShiftIn", IND |-> "Index",
     HTS |-> "SetTabStop", SPA |-> "StartProtectedArea", EPA |-> "EndProtectedArea",
     RI |-> "ReverseIndex", DECID |-> "ReportDeviceAttributes"]
\* Both the byte after ESC and the 8-bit control open the same sequences.
Opener == [ESC |-> "escape", DCS |-> "dcs", SOS |-> "sos", CSI |-> "csi", OSC |-> "osc",
           PM |-> "pm", APC |-> "apc"]
EscapeOpener == [ch \in {"[", "]", "P", "_", "^", "X", "#", " ", "%", "(", ")"} |->
    CASE ch = "[" -> "csi" [] ch = "]" -> "osc" [] ch = "P" -> "dcs" [] ch = "_" -> "apc"
      [] ch = "^" -> "pm" [] ch = "X" -> "sos" [] ch = "#" -> "sharp" [] ch = " " -> "space"
      [] ch = "%" -> "percent" [] OTHER -> "charset"]
EscapeFinal == [ch \in {"c", "D", "M", "H", "V", "W", "7", "8", "6", "9", "Z"} |->
    CASE ch = "c" -> "Reset" [] ch = "D" -> "Index" [] ch = "M" -> "ReverseIndex"
      [] ch = "H" -> "SetTabStop" [] ch = "V" -> "StartProtectedArea"
      [] ch = "W" -> "EndProtectedArea" [] ch = "7" -> "SaveCursorDEC"
      [] ch = "8" -> "RestoreCursorDEC" [] ch = "6" -> "BackIndex" [] ch = "9" -> "ForwardIndex"
      [] OTHER -> "ReportDeviceAttributes"]
IsPlainText(ch) ==
    ch \notin DOMAIN Ground \union DOMAIN Opener \union {"NEL", "NUL", "DEL"}

-----------------------------------------------------------------------------
(* Control sequences                                                       *)

\* appendParam: the digits before a colon, clamped.
FirstColon(cur) == SelectInSeq(cur, LAMBDA ch : ch = ":")
Before(cur) == IF FirstColon(cur) = 0 THEN cur ELSE SubSeq(cur, 1, FirstColon(cur) - 1)
After(cur)  == SubSeq(cur, FirstColon(cur) + 1, Len(cur))
Value(cur) ==
    FoldLeft(LAMBDA v, d : IF v * 10 + Digit[d] > ParamMax THEN ParamMax
                           ELSE v * 10 + Digit[d], 0, cur)
AppendParam(st) ==
    [st EXCEPT !.params = Append(@, [v |-> Value(Before(st.cur)), raw |-> st.cur]),
               !.cur = <<>>]
Values(params) == [i \in DOMAIN params |-> params[i].v]
Param(p, i, default) == IF i \in DOMAIN p /\ p[i] /= 0 THEN p[i] ELSE default

\* expandSGRParams: 4:n is an underline style (5 at most); of other groups the
\* leading value counts here (the colours 38, 48 and 58 are data).
SGRCode(param) ==
    IF FirstColon(param.raw) = 0 \/ param.v /= 4 THEN param.v
    ELSE <<"underline", IF Value(Before(After(param.raw))) > 5 THEN 5
                        ELSE Value(Before(After(param.raw)))>>
ExpandSGR(params) == [i \in DOMAIN params |-> SGRCode(params[i])]

PlainFinal == ("@" :> "InsertCharacters") @@ ("A" :> "CursorUp") @@ ("B" :> "CursorDown")
    @@ ("C" :> "CursorForward") @@ ("D" :> "CursorBack") @@ ("E" :> "CursorDown1")
    @@ ("F" :> "CursorUp1") @@ ("G" :> "CursorToColumn") @@ ("H" :> "CursorPosition")
    @@ ("L" :> "InsertLines") @@ ("M" :> "DeleteLines") @@ ("P" :> "DeleteCharacters")
    @@ ("X" :> "EraseCharacters") @@ ("I" :> "CursorForwardTab") @@ ("S" :> "ScrollUp")
    @@ ("T" :> "ScrollDown") @@ ("b" :> "RepeatLast") @@ ("a" :> "CursorForward")
    @@ ("`" :> "CursorToColumnAbsolute") @@ ("d" :> "CursorToLine") @@ ("e" :> "CursorDown")
    @@ ("g" :> "ClearTabStop") @@ ("u" :> "RestoreCursorDEC")
    @@ ("'" :> "CursorToColumnAbsolute")
ModeFinal == [h |-> "SetMode", l |-> "ResetMode"]
ReportFinal == [c |-> "ReportDeviceAttributes", n |-> "ReportDeviceStatus"]
\* <<intermediate, final>>; the rectangles and reports share the "$".
InterFinal == (<<"\"", "p">> :> "SetConformance") @@ (<<"\"", "q">> :> "SetCharacterProtection")
    @@ (<<"$", "p">> :> "ReportMode") @@ (<<"!", "p">> :> "SoftReset")
    @@ (<<"'", "}">> :> "InsertColumns") @@ (<<"'", "~">> :> "DeleteColumns")
    @@ (<<"$", "z">> :> "EraseRectangle") @@ (<<"$", "{">> :> "SelectiveEraseRectangle")
    @@ (<<"$", "x">> :> "FillRectangle") @@ (<<"$", "v">> :> "CopyRectangle")
    @@ (<<"$", "y">> :> "ReportMode")
OptionalFinal == (<<" ", "q">> :> "SetCursorStyle") @@ (<<"$", "}">> :> "SetActiveStatusDisplay")

\* "<", "=" and ">" are understood before few finals only.
Understood(st, f) ==
    st.prefix \in {"<", "=", ">"} => st.prefix = ">" /\ f \in {"c", "t", "T", "q"}
\* The calls a complete control sequence makes; the switch goes by the final
\* before it looks at prefix or intermediate.
SwitchCalls(st, f) ==
    LET p == Values(st.params)
    IN  CASE f \in DOMAIN PlainFinal -> << <<PlainFinal[f]>> \o p >>
          [] f \in DOMAIN ModeFinal  -> << <<ModeFinal[f], st.private, p>> >>
          [] f \in DOMAIN ReportFinal -> << <<ReportFinal[f], Param(p, 1, 0), st.private>> >>
          [] f = "J" -> CASE Param(p, 1, 0) = 3 /\ ~st.private -> <<>>
                          [] st.private /\ st.full ->
                                 << <<"EraseInDisplaySelective", Param(p, 1, 0)>> >>
                          [] OTHER -> << <<"EraseInDisplay", Param(p, 1, 0), st.private>> >>
          [] f = "K" -> << <<"EraseInLine", Param(p, 1, 0), st.private>> >>
          [] f = "Z" -> IF Len(p) <= 1 THEN << <<"CursorBackTab">> \o p >>
                        ELSE << <<"Debug">> >>
          [] f = "m" -> << <<"SelectGraphicRendition", ExpandSGR(st.params), st.private>> >>
          [] f = "r" -> IF st.private THEN << <<"RestoreModes", p>> >>
                        ELSE << <<"SetMargins">> \o p >>
          [] f = "s" -> CASE st.private  -> << <<"SaveModes", p>> >>
                          [] ~st.private /\ Len(p) >= 2 ->
                                 << <<"SetLeftRightMargins", p[1], p[2]>> >>
                          \* without effect while DECLRMM is set, if the listener can tell
                          [] OTHER -> << <<"SaveCursorDEC", st.full>> >>
SwitchFinals == DOMAIN PlainFinal \union DOMAIN ModeFinal \union DOMAIN ReportFinal
                \union {"J", "K", "Z", "m", "r", "s"}
DefaultCalls(st, f) ==
    LET p == Values(st.params)
        k == <<st.inter, f>>
    IN  CASE st.prefix = ">" /\ f = "t" -> << <<"SetTitleMode", p, FALSE>> >>
          [] st.prefix = ">" /\ f = "q" -> << <<"ReportTerminalVersion">> >>
          [] st.prefix /= ">" /\ f = "t" -> << <<"WindowOp", p>> >>
          [] k \in DOMAIN InterFinal /\ f /= "t" -> << <<InterFinal[k]>> \o p >>
          [] k \in DOMAIN OptionalFinal -> IF st.full THEN << <<OptionalFinal[k]>> \o p >>
                                           ELSE <<>>
          [] OTHER -> << <<"Debug">> >>
DispatchCSI(st, f) ==
    CASE ~Understood(st, f) -> st
      [] Understood(st, f) /\ f \in SwitchFinals -> EmitAll(st, SwitchCalls(st, f))
      [] OTHER -> EmitAll(st, DefaultCalls(st, f))

HandleGround(st, ch) ==
    CASE ch \in DOMAIN Ground -> Emit(st, <<Ground[ch]>>)
      [] ch = "NEL" -> EmitAll(st, << <<"LineFeed">>, <<"CarriageReturn">> >>)
      [] ch = "CSI" -> To(ResetCSI(st), "csi")
      [] ch \in {"DCS", "OSC"} -> [To(st, Opener[ch]) EXCEPT !.str = <<>>, !.esc = FALSE]
      [] ch \in {"ESC", "SOS", "PM", "APC"} -> To(st, Opener[ch])
      [] ch \in {"NUL", "DEL"} -> st
      [] OTHER -> Emit(st, <<"Draw", <<ch>>>>)
HandleEscape(st0, ch) ==
    LET st == To(st0, "ground")
    IN  CASE ch = "[" -> To(ResetCSI(st), "csi")
          [] ch \in {"]", "P"} -> [To(st, EscapeOpener[ch]) EXCEPT !.str = <<>>, !.esc = FALSE]
          [] ch \in {"_", "^", "X"} -> [To(st, EscapeOpener[ch]) EXCEPT !.esc = FALSE]
          [] ch \in {"#", " "} -> To(st, EscapeOpener[ch])
          [] ch \in {"%", "(", ")"} -> [To(st, EscapeOpener[ch]) EXCEPT !.slot = ch, !.cur = <<>>]
          [] ch \in DOMAIN EscapeFinal -> Emit(st, <<EscapeFinal[ch]>>)
          [] ch = "E" -> EmitAll(st, << <<"LineFeed">>, <<"CarriageReturn">> >>)
          [] OTHER -> st
\* A pending "'" is the final of HPA unless "}" or "~" makes it an intermediate.
HandleCSI(st, ch) ==
    CASE st.quote /\ ch \in {"}", "~"} ->
           ResetCSI(DispatchCSI(To([st EXCEPT !.quote = FALSE], "ground"), ch))
      [] st.quote /\ ch \notin {"}", "~"} ->
           HandleGround(ResetCSI(DispatchCSI(To([st EXCEPT !.quote = FALSE], "ground"), "'")), ch)
      [] OTHER ->
           CASE ch = "ESC" -> To(ResetCSI(st), "escape")
             [] ch = "?" -> [st EXCEPT !.private = TRUE, !.prefix = ch]
             [] ch \in {"<", "=", ">"} -> [st EXCEPT !.prefix = ch]
             [] ch = "'" -> [AppendParam(st) EXCEPT !.inter = ch, !.quote = TRUE]
             [] ch \in Intermediates \ {"'"} -> [st EXCEPT !.inter = ch]
             [] ch \in DOMAIN Digit \union {":"} -> [st EXCEPT !.cur = Append(@, ch)]
             [] ch = ";" -> AppendParam(st)
             [] ch \in DOMAIN Control -> Emit(st, <<Control[ch]>>)
             [] OTHER -> DispatchCSI(To(AppendParam(st), "ground"), ch)

-----------------------------------------------------------------------------
(* Strings: OSC, DCS, and the ones that are only skipped                   *)

Chunks(str) ==                      \* strings.Split(payload, ";")
    FoldLeft(LAMBDA parts, ch : IF ch = ";" THEN Append(parts, <<>>)
                                ELSE Append(Front(parts), Append(Last(parts), ch)),
             <<<<>>>>, str)
IsNumber(part) == part /= <<>> /\ \A i \in DOMAIN part : part[i] \in DOMAIN Digit
\* OSC 4: pairs of an index and a colour or a "?".
ColorCalls(parts) ==
    LET pairs == {i \in DOMAIN parts : i % 2 = 0 /\ i + 1 \in DOMAIN parts
                                       /\ IsNumber(parts[i])}
        call(i) == IF parts[i + 1] = <<"?">> THEN <<"QueryColor", Value(parts[i])>>
                   ELSE <<"SetColor", Value(parts[i]), parts[i + 1]>>
    IN  [k \in 1 .. Cardinality(pairs) |-> call(SetToSortSeq(pairs, <)[k])]
SelectionCalls(parts) ==
    LET given == Len(parts) > 1 /\ parts[2] \notin {<<>>, <<"?">>}
        sel   == IF given THEN parts[2] ELSE <<"s0">>
    IN  CASE Len(parts) = 2 /\ parts[2] = <<"?">> -> << <<"QuerySelectionData", sel>> >>
          [] Len(parts) > 2 /\ parts[3] = <<"?">> -> << <<"QuerySelectionData", sel>> >>
          [] Len(parts) > 2 /\ parts[3] /= <<"?">> -> << <<"SetSelectionData", sel, parts[3]>> >>
          [] OTHER -> <<>>
ResetColorCalls(parts) ==
    CASE Len(parts) = 1 \/ parts[2] = <<>> -> << <<"ResetColor", 0, TRUE>> >>
      [] Len(parts) > 1 /\ IsNumber(parts[2]) -> << <<"ResetColor", Value(parts[2]), FALSE>> >>
      [] OTHER -> <<>>
OSCCalls(str) ==
    LET parts == Chunks(str)
        text  == SubSeq(str, Len(parts[1]) + 2, Len(str))
    IN  CASE parts[1] = <<"0">> -> << <<"SetIconName", text>>, <<"SetTitle", text>> >>
          [] parts[1] = <<"1">> -> << <<"SetIconName", text>> >>
          [] parts[1] = <<"2">> -> << <<"SetTitle", text>> >>
          [] parts[1] = <<"4">> -> ColorCalls(parts)
          [] parts[1] = <<"52">>  -> SelectionCalls(parts)
          [] parts[1] = <<"104">> -> ResetColorCalls(parts)
          [] OTHER -> <<>>
FinishOSC(st) == [EmitAll(st, IF st.str = <<>> THEN <<>> ELSE OSCCalls(st.str)) EXCEPT
                     !.str = <<>>, !.cur = <<>>]
FinishDCS(st) ==
    LET query == Len(st.str) >= 2 /\ SubSeq(st.str, 1, 2) = <<"$", "q">>
        u == [st EXCEPT !.str = <<>>]
    IN  IF query THEN Emit(u, <<"RequestStatusString", SubSeq(st.str, 3, Len(st.str))>>) ELSE u
Finish(st) == CASE st.state = "osc" -> FinishOSC(st)
                [] st.state = "dcs" -> FinishDCS(st)
                [] OTHER -> st
CONSTANT StringMax      \* maxStringPayload
ASSUME StringMaxAssumption == StringMax \in Nat
Keeps(st) == st.state \in {"osc", "dcs"} /\ Len(st.str) < StringMax
\* handleOSC and handleString.
HandleString(st, ch) ==
    CASE st.esc /\ ch = "\\" -> To(Finish([st EXCEPT !.esc = FALSE]), "ground")
      [] st.esc /\ ch /= "\\" -> HandleEscape(Finish([st EXCEPT !.esc = FALSE]), ch)
      [] ~st.esc /\ ch \in {"BEL", "ST"} -> To(Finish(st), "ground")
      [] ~st.esc /\ ch = "ESC" -> [st EXCEPT !.esc = TRUE]
      [] OTHER -> IF Keeps(st) THEN [st EXCEPT !.str = Append(@, ch)] ELSE st

-----------------------------------------------------------------------------
(* Runes and bytes                                                         *)

AbortSequence(st) == [ResetCSI(To(st, "ground")) EXCEPT !.esc = FALSE, !.str = <<>>]
SafeCharsets == {"0", "B", "A"}
FeedRune(st, ch) ==
    CASE ch \in {"CAN", "SUB"} /\ st.state /= "ground" ->
           IF ch = "SUB" THEN Emit(AbortSequence(st), <<"Draw", <<ch>>>>) ELSE AbortSequence(st)
      [] ~(ch \in {"CAN", "SUB"} /\ st.state /= "ground") ->
           CASE st.state = "ground" -> HandleGround(st, ch)
             [] st.state = "escape" -> HandleEscape(st, ch)
             [] st.state = "csi"    -> HandleCSI(st, ch)
             [] st.state \in {"osc", "dcs", "apc", "pm", "sos"} -> HandleString(st, ch)
             [] st.state = "sharp" -> IF ch = "8" THEN Emit(To(st, "ground"), <<"AlignmentDisplay">>)
                                      ELSE To(st, "ground")
             [] st.state = "charset" ->
                  IF st.utf8 /\ ch \notin SafeCharsets THEN To(st, "ground")
                  ELSE Emit(To(st, "ground"), <<"DefineCharset", ch, st.slot>>)
             [] st.state = "percent" ->
                  [To(st, "ground") EXCEPT !.utf8 = CASE ch = "@" -> FALSE
                                                      [] ch \in {"G", "8"} -> TRUE
                                                      [] OTHER -> @]
             [] st.state = "space" ->
                  [To(st, "ground") EXCEPT !.eight = CASE ch = "F" -> FALSE
                                                       [] ch = "G" -> TRUE
                                                       [] OTHER -> @]

\* One character of FeedBytes's loop: text is collected, anything else ends it.
FeedChar(st, ch) ==
    IF st.state = "ground" /\ IsPlainText(ch) THEN [st EXCEPT !.text = Append(@, ch)]
    ELSE FeedRune(Flush(st), ch)
\* Mutant: every byte is a character of its own.
FeedByteAlone(acc, data, i) ==
    [st |-> FeedChar(acc.st, IF data[i] = "u1" /\ i < Len(data) THEN "u" ELSE data[i]),
     next |-> i + 1]
\* A multibyte rune at the end of data waits for the next call.
FeedByte(acc, data, i) ==
    LET incomplete == data[i] = "u1" /\ acc.st.utf8 /\ i = Len(data)
        rune == data[i] = "u1" /\ i < Len(data) /\ data[i + 1] = "u2"
    IN  CASE i < acc.next -> acc
          [] i >= acc.next /\ incomplete ->
               [st |-> [acc.st EXCEPT !.pending = <<"u1">>], next |-> i + 1]
          [] i >= acc.next /\ rune ->
               [st |-> FeedChar(acc.st, "u"), next |-> i + 2]
          [] OTHER -> [st |-> FeedChar(acc.st, data[i]), next |-> i + 1]
\* A "'" at the end of the input is taken for HPA.
EndOfInput(st) ==
    IF st.state = "csi" /\ st.quote
    THEN ResetCSI(DispatchCSI(To([st EXCEPT !.quote = FALSE], "ground"), "'")) ELSE st
FeedBytes(st, chunk) ==
    LET data == st.pending \o chunk
        fed  == FoldLeft(LAMBDA acc, i : FeedByte(acc, data, i),
                         [st |-> [st EXCEPT !.pending = <<>>], next |-> 1],
                         [i \in DOMAIN data |-> i]).st
    IN  Flush(EndOfInput(fed))
=============================================================================
