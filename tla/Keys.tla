-------------------------------- MODULE Keys --------------------------------
(* What the TUI finds in the bytes of the host terminal: whole sequences   *)
(* (splitComplete and ansi.DecodeSequence), key encodings it rewrites      *)
(* (kitty_input.go), chords (keybind.go).                                  *)
(*                                                                         *)
(* A byte is [i, c]: its place in what the terminal sends, and its class:  *)
(*   "E" ESC   "[" "]" the introducers   "p" the prefix key                *)
(*   "x" text, bound to nothing                                            *)
(*   "n" text: after the prefix, and after ESC, the command next-tab       *)
(*   "c" text: after the prefix, the command palette                       *)
(*   "w" text: the first key of the chord w n                              *)
(* and, after ESC and an introducer, the rest of a sequence:               *)
(*   "200~" "201~" a paste begins, ends   "m" mouse report                 *)
(*   "k" the prefix key, kitty encoding   "?c" capability report           *)
(*   "A" a cursor key   "s" sync marker of the test harness                *)
EXTENDS Naturals, Sequences, SequencesExt

(* ansi.DecodeSequence, external: the length of the first sequence, 0 when *)
(* the bytes end inside it.                                                *)
WholeLen(s) ==
    IF s[1].c # "E" THEN 1
    ELSE IF Len(s) = 1 THEN 0
    ELSE IF s[2].c = "E" THEN 1
    ELSE IF s[2].c \notin {"[", "]"} THEN 2
    ELSE IF Len(s) = 2 THEN 0
    ELSE IF s[3].c \in {"E", "p"} THEN 2 ELSE 3

\* Outside of splitComplete an incomplete sequence is one token.
TokenLen(s) == IF WholeLen(s) = 0 THEN Len(s) ELSE WholeLen(s)

From(s, k) == SubSeq(s, k, Len(s))
Token(s) == SubSeq(s, 1, TokenLen(s))
Rest(s) == From(s, TokenLen(s) + 1)

\* The tokens of s, in order.
RECURSIVE Tokens(_)
Tokens(s) == IF s = <<>> THEN <<>> ELSE <<Token(s)>> \o Tokens(Rest(s))

\* splitComplete: how many of the leading bytes are whole sequences.
RECURSIVE SplitComplete(_)
SplitComplete(s) ==
    IF s = <<>> \/ WholeLen(s) = 0 THEN 0
    ELSE WholeLen(s) + SplitComplete(From(s, WholeLen(s) + 1))

Classes(s) == [k \in 1..Len(s) |-> s[k].c]
IsSeq(t, rest) == Len(t) = 3 /\ t[1].c = "E" /\ t[2].c \in {"[", "]"} /\ t[3].c = rest

IsCapabilityResponse(t) == IsSeq(t, "?c")
IsMouse(t) == IsSeq(t, "m")
IsSync(t) == IsSeq(t, "s")
IsPrefixKey(b) == b.c = "p"
IsAlways(t) == Classes(t) = <<"E", "n">>

(* normalizeKittyKeys and decodeKittyKey: an encoded key becomes the byte  *)
(* it has without the encoding (legacyForKey).                             *)
Legacy(b) == [b EXCEPT !.c = "p"]
RECURSIVE NormalizeKittyKeys(_)
NormalizeKittyKeys(s) ==
    IF s = <<>> THEN <<>>
    ELSE IF Len(s) >= 3 /\ Classes(SubSeq(s, 1, 3)) = <<"E", "[", "k">>
         THEN <<Legacy(s[3])>> \o NormalizeKittyKeys(From(s, 4))
         ELSE <<s[1]>> \o NormalizeKittyKeys(Tail(s))

\* bytes.Index of a marker of three bytes: 0 when it is not there.
IndexOf(s, rest) ==
    LET at == {k \in 1..Len(s) - 2 : Classes(SubSeq(s, k, k + 2)) = <<"E", "[", rest>>}
    IN  IF at = {} THEN 0 ELSE Min(at)

IndexByte(s) == IF \E k \in 1..Len(s) : IsPrefixKey(s[k]) THEN Min({k \in 1..Len(s) : IsPrefixKey(s[k])}) ELSE 0

-----------------------------------------------------------------------------
(* Chords: the trie that Registry keeps of them.                           *)
Chords == {<<"n">>, <<"c">>, <<"w", "n">>}
ChordKey(t) == IF Len(t) = 1 /\ t[1].c # "E" THEN t[1].c ELSE ""
Bound(keys) == keys \in Chords
MayGrow(keys) == \E ch \in Chords : IsStrictPrefix(keys, ch)
CommandOf(keys) == IF keys = <<"c">> THEN "palette" ELSE "next"
=============================================================================
