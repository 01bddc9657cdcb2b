---------------------------- MODULE MCEmulator ----------------------------
EXTENDS Terminal, PtyStream

(* The screen: families of operations.                                     *)
MCSizes == {<<2, 3>>, <<3, 3>>, <<3, 2>>, <<1, 4>>}
MCFamilies == {"text", "tab", "margin", "scroll", "alt", "erase", "mode", "report", "shell"}
MCSteps == [f \in DOMAIN OpsOf |->
    CASE f = "shell" -> 9 [] f \in {"text", "margin", "alt"} -> 6 [] OTHER -> 5]

-----------------------------------------------------------------------------
(* What a program writes, cut by reads.                                    *)
Bytes(set) == {<<b>> : b \in set}
\* Any bytes: sequences broken off, cancelled, nested, undecodable.
MCBytes == {Bytes(a) : a \in {
    {"ESC", "[", "1", "'", "}", "CAN"},
    {"ESC", "]", "2", ";", "BEL", "\\"},
    {"ESC", "u1", "u2", "LF", "CSI"},
    {"ESC", "P", "_", "$", "q", "\\"},
    {"ESC", "[", "?", "3", "J", "SUB"},
    {"ESC", "(", "0", "%", "8", "#"}}}
\* A "'" after a control inside a sequence, and runes with UTF-8 off.
MCCuts == {Bytes({"ESC", "[", "BEL", "'", "}"}), Bytes({"ESC", "%", "@", "u1", "u2"})}
\* Whole sequences.
CSIWords == {<<"ESC", "[", "1", ";", "2", "H">>, <<"ESC", "[", "?", "7", "h">>,
             <<"ESC", "[", ">", "1", "c">>, <<"ESC", "[", "4", ":", "3", "m">>,
             <<"ESC", "[", "!", "p">>, <<"ESC", "[", "s">>, <<"u1", "u2">>, <<"LF">>}
StringWords == {<<"ESC", "]", "0", ";", "a", "BEL">>, <<"ESC", "]", "4", ";", "1", ";", "?", "ESC", "\\">>,
                <<"ESC", "]", "52", ";", ";", "a", "BEL">>, <<"ESC", "]", "104", "BEL">>,
                <<"ESC", "P", "$", "q", "m", "ESC", "\\">>, <<"ESC", "_", "a", "ESC", "\\">>,
                <<"ESC", "(", "0">>, <<"ESC", "#", "8">>, <<"a">>}
\* Text in Latin-1 between them.
Latin1Words == {<<"ESC", "[", "1", "m">>, <<"a">>, <<"LF">>, <<"u2">>, <<"u1">>}
MCAlphabets == MCBytes \union MCCuts \union {CSIWords, StringWords, Latin1Words}

MCInputMax == [a \in MCAlphabets |->
    CASE a \in MCBytes -> 4 [] a \in MCCuts -> 5 [] a = Latin1Words -> 6 [] OTHER -> 9]

-----------------------------------------------------------------------------
\* Operations on the screen, or bytes on their way to it.
MCInit == \/ /\ Init
             /\ alphabet = {} /\ input = <<>> /\ kernel = <<>> /\ route = "nx2" /\ carry = <<>>
             /\ parser = NewStream(TRUE) /\ ended = TRUE
          \/ /\ PtyInit
             /\ h = NewHistoryScreen(Columns, Lines, HistoryMax) /\ family = "none" /\ left = 0 /\ printed = <<>>
MCNext == \/ family # "none" /\ Next /\ UNCHANGED ptyVars
          \/ family = "none" /\ PtyNext /\ UNCHANGED vars
MCSpec == MCInit /\ [][MCNext]_<<vars, ptyVars>>
=============================================================================
