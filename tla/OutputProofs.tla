---------------------------- MODULE OutputProofs ----------------------------
(***************************************************************************)
(* Proofs about what a program writes, on its two ways: from the PTY to    *)
(* the emulator (PtyStream) and from the region to a slow client           *)
(* (SlowClient).                                                           *)
(*                                                                         *)
(* PtyStream, for words over any bytes, of any length, read in pieces of   *)
(* any size: what readLoop and the parser have made of the bytes read so   *)
(* far is what one call of Feed makes of them (PtyInv).                    *)
(*                                                                         *)
(* SlowClient, for any set of regions, any capacity of writeCh and any     *)
(* number of outputs, requests and failed upgrades.                        *)
(* behind belongs to the client and not to a region, so a repair of one    *)
(* region also clears the mark that another region's drop has set.  The    *)
(* theorems are about behaviours in which a client that is behind has one  *)
(* region only (OneWhenBehind).  A client that keeps up may switch between *)
(* regions, whose actors may both have it as a subscriber for a while.     *)
(***************************************************************************)
EXTENDS PtyStream, SlowClient, WellFoundedInduction, TLAPS

NextRune(p, calls, ch) == DrawRune(calls, ch)
RuneLaws == INSTANCE FoldLaws WITH Op <- NextRune
NextCall(p, calls, e) == AddCall(calls, e)
CallLaws == INSTANCE FoldLaws WITH Op <- NextCall
NextGroup(p, calls, es) == AddCalls(calls, es)
GroupLaws == INSTANCE FoldLaws WITH Op <- NextGroup
NextByte(data, acc, i) == FeedByte(acc, data, i)
ByteLaws == INSTANCE FoldLaws WITH Op <- NextByte

IsSeq(s) == \E E : s \in Seq(E)

Fields == {"state", "params", "cur", "private", "prefix", "inter", "quote", "esc", "str",
           "slot", "utf8", "eight", "pending", "text", "full", "out"}
States == {"ground", "escape", "csi", "osc", "dcs", "apc", "pm", "sos",
           "sharp", "charset", "percent", "space"}
Shape(st) == DOMAIN st = Fields /\ st.state \in States /\ IsSeq(st.out) /\ IsSeq(st.text)

(* All but the calls made and the text that is not drawn yet.              *)
SameCore(a, b) ==
    /\ a.state = b.state /\ a.params = b.params /\ a.cur = b.cur /\ a.private = b.private
    /\ a.prefix = b.prefix /\ a.inter = b.inter /\ a.quote = b.quote /\ a.esc = b.esc
    /\ a.str = b.str /\ a.slot = b.slot /\ a.utf8 = b.utf8 /\ a.eight = b.eight
    /\ a.pending = b.pending /\ a.full = b.full
(* Two parsers without undrawn text that go on alike and have told the     *)
(* listener the same.                                                      *)
Flushed(st) == Shape(st) /\ st.text = <<>>
Alike(a, b) == /\ Flushed(a) /\ Flushed(b) /\ SameCore(a, b)
               /\ Calls(a.out) = Calls(b.out)
(* The same of parsers that may have text to draw.                         *)
Same(a, b) == /\ Shape(a) /\ Shape(b)
              /\ Alike(Flush(a), Flush(b))

-----------------------------------------------------------------------------
(* Sequences and calls *)

(* A set of naturals without a smallest element is empty (WellFoundedInduction). *)
LEMMA NaturalInduction == ByteLaws!Induction
<1> DEFINE R == {z \in Nat \X Nat : z[1] < z[2]}
<1>1. IsWellFoundedOn(R, Nat)
  BY NatLessThanWellFounded DEF OpToRel
<1> SUFFICES ASSUME NEW S, 0 \in S, \A n \in Nat : n \in S => n + 1 \in S, NEW k \in Nat \ S PROVE FALSE
  BY DEF ByteLaws!Induction
<1> DEFINE U == Nat \ S
<1>2. U \subseteq Nat /\ U # {}
  OBVIOUS
<1>3. PICK x \in U : \A y \in U : ~(<<y, x>> \in R)
  <2> HIDE DEF U, R
  <2> QED
    BY <1>1, <1>2, WFMin
<1>4. x # 0 /\ x - 1 \in Nat
  OBVIOUS
<1>5. x - 1 \in U
  BY <1>4
<1>6. <<x - 1, x>> \in R
  BY <1>4
<1> QED
  BY <1>3, <1>5, <1>6

LEMMA OtherInductions == RuneLaws!Induction /\ CallLaws!Induction /\ GroupLaws!Induction
  BY NaturalInduction DEF ByteLaws!Induction, RuneLaws!Induction, CallLaws!Induction, GroupLaws!Induction

LEMMA RunesFold == \A b, s : FoldLeft(DrawRune, b, s) = RuneLaws!Fold(0, b, s)
  BY DEF FoldLeft, MapThenFoldSet, Max, RuneLaws!Fold, RuneLaws!Greatest, NextRune
LEMMA EventsFold == \A b, s : FoldLeft(AddCall, b, s) = CallLaws!Fold(0, b, s)
  BY DEF FoldLeft, MapThenFoldSet, Max, CallLaws!Fold, CallLaws!Greatest, NextCall
LEMMA GroupsFold == \A b, s : FoldLeft(AddCalls, b, s) = GroupLaws!Fold(0, b, s)
  BY DEF FoldLeft, MapThenFoldSet, Max, GroupLaws!Fold, GroupLaws!Greatest, NextGroup

LEMMA AppendIsSeq == ASSUME NEW s, IsSeq(s), NEW e
                     PROVE  IsSeq(Append(s, e)) /\ \E E : s \in Seq(E) /\ e \in E
<1>1. PICK E : s \in Seq(E)
  BY DEF IsSeq
<1>2. s \in Seq(E \union {e})
  BY <1>1
<1>3. Append(s, e) \in Seq(E \union {e})
  BY <1>2
<1> QED
  BY <1>2, <1>3 DEF IsSeq

LEMMA EmptyIsSeq == IsSeq(<<>>)
<1>1. <<>> \in Seq({})
  OBVIOUS
<1> QED
  BY <1>1 DEF IsSeq

LEMMA CallsAppend == ASSUME NEW out, IsSeq(out), NEW es
                     PROVE  Calls(Append(out, es)) = AddCalls(Calls(out), es)
<1>1. PICK E : out \in Seq(E) /\ es \in E
  BY AppendIsSeq
<1>2. GroupLaws!Fold(0, <<>>, Append(out, es)) = NextGroup(0, GroupLaws!Fold(0, <<>>, out), es)
  BY <1>1, OtherInductions, GroupLaws!FoldAppend
<1> QED
  BY <1>2, GroupsFold DEF Calls, NextGroup

LEMMA CallsNone == Calls(<<>>) = <<>>
  BY GroupsFold, OtherInductions, GroupLaws!FoldEmpty DEF Calls

LEMMA AddOne == ASSUME NEW calls, NEW e PROVE AddCalls(calls, <<e>>) = AddCall(calls, e)
  BY EventsFold, OtherInductions, CallLaws!FoldSingle DEF AddCalls, NextCall

(* One rune more of a text is one call more.                               *)
LEMMA DrawAppend ==
    ASSUME NEW calls, NEW text, IsSeq(text), NEW ch
    PROVE  AddCalls(calls, << <<"Draw", Append(text, ch)>> >>)
           = DrawRune(AddCalls(calls, << <<"Draw", text>> >>), ch)
<1>1. PICK E : text \in Seq(E) /\ ch \in E
  BY AppendIsSeq
<1>2. \A t : AddCalls(calls, << <<"Draw", t>> >>) = FoldLeft(DrawRune, calls, t)
  BY AddOne DEF AddCall
<1>3. RuneLaws!Fold(0, calls, Append(text, ch)) = NextRune(0, RuneLaws!Fold(0, calls, text), ch)
  BY <1>1, OtherInductions, RuneLaws!FoldAppend
<1> QED
  BY <1>2, <1>3, RunesFold DEF NextRune

LEMMA DrawNone == ASSUME NEW calls PROVE AddCalls(calls, << <<"Draw", <<>>>> >>) = calls
<1>1. AddCalls(calls, << <<"Draw", <<>>>> >>) = FoldLeft(DrawRune, calls, <<>>)
  BY AddOne DEF AddCall
<1> QED
  BY <1>1, RunesFold, OtherInductions, RuneLaws!FoldEmpty

-----------------------------------------------------------------------------
(* What makes two parsers go on alike                                      *)

LEMMA AlikeEmitAll ==
    ASSUME NEW a, NEW b, Alike(a, b), NEW es
    PROVE  Alike(EmitAll(a, es), EmitAll(b, es))
<1>1. IsSeq(a.out) /\ IsSeq(b.out) /\ Calls(a.out) = Calls(b.out)
  BY DEF Alike, Flushed, Shape
<1>2. Calls(Append(a.out, es)) = Calls(Append(b.out, es))
  BY <1>1, CallsAppend
<1>3. IsSeq(Append(a.out, es)) /\ IsSeq(Append(b.out, es))
  BY <1>1, AppendIsSeq
<1> QED
  BY <1>2, <1>3 DEF Alike, Flushed, Shape, SameCore, EmitAll, Fields

LEMMA AlikeEmit ==
    ASSUME NEW a, NEW b, Alike(a, b), NEW e
    PROVE  Alike(Emit(a, e), Emit(b, e))
  BY AlikeEmitAll DEF Emit

LEMMA AlikeTo ==
    ASSUME NEW a, NEW b, Alike(a, b), NEW state \in States
    PROVE  Alike(To(a, state), To(b, state))
  BY DEF Alike, Flushed, Shape, SameCore, To, Fields

LEMMA AlikeResetCSI ==
    ASSUME NEW a, NEW b, Alike(a, b)
    PROVE  Alike(ResetCSI(a), ResetCSI(b))
  BY DEF Alike, Flushed, Shape, SameCore, ResetCSI, Fields

LEMMA AlikeAppendParam ==
    ASSUME NEW a, NEW b, Alike(a, b)
    PROVE  Alike(AppendParam(a), AppendParam(b))
  BY DEF Alike, Flushed, Shape, SameCore, AppendParam, Fields

LEMMA AlikeDispatch ==
    ASSUME NEW a, NEW b, Alike(a, b), NEW f
    PROVE  Alike(DispatchCSI(a, f), DispatchCSI(b, f))
<1>1. /\ a.prefix = b.prefix /\ a.params = b.params /\ a.private = b.private
      /\ a.full = b.full /\ a.inter = b.inter
  BY DEF Alike, SameCore
<1>2. Understood(a, f) <=> Understood(b, f)
  BY <1>1 DEF Understood
<1>3. SwitchCalls(a, f) = SwitchCalls(b, f)
  BY <1>1, Zenon DEF SwitchCalls
<1>4. DefaultCalls(a, f) = DefaultCalls(b, f)
  BY <1>1, Zenon DEF DefaultCalls
<1>5. /\ Alike(EmitAll(a, SwitchCalls(a, f)), EmitAll(b, SwitchCalls(b, f)))
      /\ Alike(EmitAll(a, DefaultCalls(a, f)), EmitAll(b, DefaultCalls(b, f)))
  BY <1>3, <1>4, AlikeEmitAll
<1> QED
  BY <1>2, <1>5 DEF DispatchCSI

LEMMA AlikeGround ==
    ASSUME NEW a, NEW b, Alike(a, b), NEW ch
    PROVE  Alike(HandleGround(a, ch), HandleGround(b, ch))
<1>1. /\ Alike(Emit(a, <<Ground[ch]>>), Emit(b, <<Ground[ch]>>)) /\ Alike(a, b)
      /\ Alike(EmitAll(a, << <<"LineFeed">>, <<"CarriageReturn">> >>),
               EmitAll(b, << <<"LineFeed">>, <<"CarriageReturn">> >>))
      /\ Alike(Emit(a, <<"Draw", <<ch>>>>), Emit(b, <<"Draw", <<ch>>>>))
  BY AlikeEmit, AlikeEmitAll
<1>2. Alike(To(ResetCSI(a), "csi"), To(ResetCSI(b), "csi"))
  BY AlikeResetCSI, AlikeTo DEF States
<1>3. ASSUME ch \in DOMAIN Opener
      PROVE  /\ Alike(To(a, Opener[ch]), To(b, Opener[ch]))
             /\ Alike([To(a, Opener[ch]) EXCEPT !.str = <<>>, !.esc = FALSE],
                      [To(b, Opener[ch]) EXCEPT !.str = <<>>, !.esc = FALSE])
  <2>1. Opener[ch] \in States
    BY <1>3 DEF Opener, States
  <2>2. Alike(To(a, Opener[ch]), To(b, Opener[ch]))
    BY <2>1, AlikeTo
  <2> QED
    BY <2>2 DEF Alike, Flushed, Shape, SameCore, Fields
<1> QED
  <2>1. CASE ch \in DOMAIN Opener
    BY <1>2, <1>3, <2>1 DEF HandleGround, Opener, Ground
  <2>2. CASE ch \notin DOMAIN Opener
    BY <1>1, <2>2 DEF HandleGround, Opener, Ground
  <2> QED
    BY <2>1, <2>2

LEMMA AlikeEscape ==
    ASSUME NEW a0, NEW b0, Alike(a0, b0), NEW ch
    PROVE  Alike(HandleEscape(a0, ch), HandleEscape(b0, ch))
<1> DEFINE a == To(a0, "ground")
           b == To(b0, "ground")
<1>1. Alike(a, b)
  BY AlikeTo DEF States
<1> HIDE DEF a, b
<1>2. Alike(To(ResetCSI(a), "csi"), To(ResetCSI(b), "csi"))
  BY <1>1, AlikeResetCSI, AlikeTo DEF States
<1> DEFINE opens == ch \in DOMAIN EscapeOpener
<1>3. opens => Alike(To(a, EscapeOpener[ch]), To(b, EscapeOpener[ch]))
  <2>1. opens => EscapeOpener[ch] \in States
    BY DEF EscapeOpener, States
  <2> QED
    BY <1>1, <2>1, AlikeTo
<1>4. opens =>
      /\ Alike([To(a, EscapeOpener[ch]) EXCEPT !.str = <<>>, !.esc = FALSE],
               [To(b, EscapeOpener[ch]) EXCEPT !.str = <<>>, !.esc = FALSE])
      /\ Alike([To(a, EscapeOpener[ch]) EXCEPT !.esc = FALSE],
               [To(b, EscapeOpener[ch]) EXCEPT !.esc = FALSE])
      /\ Alike([To(a, EscapeOpener[ch]) EXCEPT !.slot = ch, !.cur = <<>>],
               [To(b, EscapeOpener[ch]) EXCEPT !.slot = ch, !.cur = <<>>])
  BY <1>3 DEF Alike, Flushed, Shape, SameCore, Fields
<1>5. /\ Alike(Emit(a, <<EscapeFinal[ch]>>), Emit(b, <<EscapeFinal[ch]>>))
      /\ Alike(EmitAll(a, << <<"LineFeed">>, <<"CarriageReturn">> >>),
               EmitAll(b, << <<"LineFeed">>, <<"CarriageReturn">> >>))
  BY <1>1, AlikeEmit, AlikeEmitAll
<1> QED
  <2>1. CASE ch \in {"[", "]", "P", "_", "^", "X"}
    <3>1. opens
      BY <2>1 DEF EscapeOpener
    <3> HIDE DEF opens
    <3> QED
      BY <1>2, <1>4, <2>1, <3>1 DEF HandleEscape, EscapeFinal, a, b
  <2>2. CASE ch \in {"#", " ", "%", "(", ")"}
    <3>1. opens
      BY <2>2 DEF EscapeOpener
    <3> HIDE DEF opens
    <3> QED
      BY <1>3, <1>4, <2>2, <3>1 DEF HandleEscape, EscapeFinal, a, b
  <2>3. CASE ch \notin {"[", "]", "P", "_", "^", "X", "#", " ", "%", "(", ")"}
    BY <1>1, <1>5, <2>3 DEF HandleEscape, EscapeFinal, a, b
  <2> QED
    BY <2>1, <2>2, <2>3

(* A pending "'" turned into HPA. *)
Settled(st) == ResetCSI(DispatchCSI(To([st EXCEPT !.quote = FALSE], "ground"), "'"))

LEMMA AlikeUnquoted ==
    ASSUME NEW a, NEW b, Alike(a, b), NEW f
    PROVE  Alike(ResetCSI(DispatchCSI(To([a EXCEPT !.quote = FALSE], "ground"), f)),
                 ResetCSI(DispatchCSI(To([b EXCEPT !.quote = FALSE], "ground"), f)))
<1>1. Alike([a EXCEPT !.quote = FALSE], [b EXCEPT !.quote = FALSE])
  BY DEF Alike, Flushed, Shape, SameCore, Fields
<1> QED
  BY <1>1, AlikeTo, AlikeDispatch, AlikeResetCSI DEF States

LEMMA AlikeCSI ==
    ASSUME NEW a, NEW b, Alike(a, b), NEW ch
    PROVE  Alike(HandleCSI(a, ch), HandleCSI(b, ch))
<1>1. a.quote = b.quote
  BY DEF Alike, SameCore
<1>2. Alike(ResetCSI(DispatchCSI(To([a EXCEPT !.quote = FALSE], "ground"), ch)),
            ResetCSI(DispatchCSI(To([b EXCEPT !.quote = FALSE], "ground"), ch)))
  BY AlikeUnquoted
<1>3. Alike(HandleGround(ResetCSI(DispatchCSI(To([a EXCEPT !.quote = FALSE], "ground"), "'")), ch),
            HandleGround(ResetCSI(DispatchCSI(To([b EXCEPT !.quote = FALSE], "ground"), "'")), ch))
  BY AlikeUnquoted, AlikeGround
<1>4. Alike(To(ResetCSI(a), "escape"), To(ResetCSI(b), "escape"))
  BY AlikeResetCSI, AlikeTo DEF States
<1>5. Alike(AppendParam(a), AppendParam(b))
  BY AlikeAppendParam
<1>6. /\ Alike([a EXCEPT !.private = TRUE, !.prefix = ch], [b EXCEPT !.private = TRUE, !.prefix = ch])
      /\ Alike([a EXCEPT !.prefix = ch], [b EXCEPT !.prefix = ch])
      /\ Alike([a EXCEPT !.inter = ch], [b EXCEPT !.inter = ch])
      /\ Alike([a EXCEPT !.cur = Append(@, ch)], [b EXCEPT !.cur = Append(@, ch)])
  BY DEF Alike, Flushed, Shape, SameCore, Fields
<1>7. Alike([AppendParam(a) EXCEPT !.inter = ch, !.quote = TRUE],
            [AppendParam(b) EXCEPT !.inter = ch, !.quote = TRUE])
  BY <1>5 DEF Alike, Flushed, Shape, SameCore, Fields
<1>8. Alike(Emit(a, <<Control[ch]>>), Emit(b, <<Control[ch]>>))
  BY AlikeEmit
<1>9. Alike(DispatchCSI(To(AppendParam(a), "ground"), ch), DispatchCSI(To(AppendParam(b), "ground"), ch))
  BY <1>5, AlikeTo, AlikeDispatch DEF States
<1> QED
  <2>1. CASE a.quote
    BY <1>1, <1>2, <1>3, <2>1 DEF HandleCSI, Digit, Intermediates, Control
  <2>2. CASE ~a.quote /\ ch \in {"ESC", "?", "<", "=", ">", "'"}
    BY <1>1, <1>4, <1>6, <1>7, <2>2 DEF HandleCSI, Digit, Intermediates, Control
  <2>3. CASE ~a.quote /\ ch \notin {"ESC", "?", "<", "=", ">", "'"}
    BY <1>1, <1>5, <1>6, <1>8, <1>9, <2>3 DEF HandleCSI, Digit, Intermediates, Control
  <2> QED
    BY <2>1, <2>2, <2>3

LEMMA AlikeString ==
    ASSUME NEW a, NEW b, Alike(a, b), NEW ch
    PROVE  Alike(HandleString(a, ch), HandleString(b, ch))
<1>1. a.esc = b.esc /\ a.str = b.str /\ a.state = b.state
  BY DEF Alike, SameCore
<1>2. ASSUME NEW c, NEW d, Alike(c, d) PROVE Alike(Finish(c), Finish(d))
  <2>1. c.state = d.state /\ c.str = d.str
    BY <1>2 DEF Alike, SameCore
  <2>2. Alike(FinishOSC(c), FinishOSC(d))
    <3> DEFINE es == IF c.str = <<>> THEN <<>> ELSE OSCCalls(c.str)
    <3>1. Alike(EmitAll(c, es), EmitAll(d, es))
      BY <1>2, AlikeEmitAll
    <3>2. FinishOSC(c) = [EmitAll(c, es) EXCEPT !.str = <<>>, !.cur = <<>>]
          /\ FinishOSC(d) = [EmitAll(d, es) EXCEPT !.str = <<>>, !.cur = <<>>]
      BY <2>1 DEF FinishOSC
    <3> HIDE DEF es
    <3> QED
      BY <3>1, <3>2 DEF Alike, Flushed, Shape, SameCore, Fields
  <2>3. Alike(FinishDCS(c), FinishDCS(d))
    <3>1. Alike([c EXCEPT !.str = <<>>], [d EXCEPT !.str = <<>>])
      BY <1>2 DEF Alike, Flushed, Shape, SameCore, Fields
    <3>2. \A e : Alike(Emit([c EXCEPT !.str = <<>>], e), Emit([d EXCEPT !.str = <<>>], e))
      BY <3>1, AlikeEmit
    <3> QED
      BY <2>1, <3>1, <3>2 DEF FinishDCS
  <2> QED
    BY <1>2, <2>1, <2>2, <2>3 DEF Finish
<1>3. Alike([a EXCEPT !.esc = FALSE], [b EXCEPT !.esc = FALSE])
  BY DEF Alike, Flushed, Shape, SameCore, Fields
<1>4. Alike(To(Finish([a EXCEPT !.esc = FALSE]), "ground"), To(Finish([b EXCEPT !.esc = FALSE]), "ground"))
      /\ Alike(HandleEscape(Finish([a EXCEPT !.esc = FALSE]), ch), HandleEscape(Finish([b EXCEPT !.esc = FALSE]), ch))
      /\ Alike(To(Finish(a), "ground"), To(Finish(b), "ground"))
  BY <1>2, <1>3, AlikeTo, AlikeEscape DEF States
<1>5. /\ Alike([a EXCEPT !.esc = TRUE], [b EXCEPT !.esc = TRUE])
      /\ Alike([a EXCEPT !.str = Append(@, ch)], [b EXCEPT !.str = Append(@, ch)])
  BY DEF Alike, Flushed, Shape, SameCore, Fields
<1>6. Keeps(a) <=> Keeps(b)
  BY <1>1 DEF Keeps
<1> QED
  BY <1>1, <1>4, <1>5, <1>6 DEF HandleString

LEMMA AlikeRune ==
    ASSUME NEW a, NEW b, Alike(a, b), NEW ch
    PROVE  Alike(FeedRune(a, ch), FeedRune(b, ch))
<1>1. a.state = b.state /\ a.utf8 = b.utf8 /\ a.slot = b.slot /\ a.eight = b.eight
  BY DEF Alike, SameCore
<1>2. Alike(AbortSequence(a), AbortSequence(b))
      /\ Alike(Emit(AbortSequence(a), <<"Draw", <<ch>>>>), Emit(AbortSequence(b), <<"Draw", <<ch>>>>))
  <2>1. Alike(ResetCSI(To(a, "ground")), ResetCSI(To(b, "ground")))
    BY AlikeTo, AlikeResetCSI DEF States
  <2>2. Alike(AbortSequence(a), AbortSequence(b))
    BY <2>1 DEF AbortSequence, Alike, Flushed, Shape, SameCore, Fields
  <2> QED
    BY <2>2, AlikeEmit
<1>3. Alike(To(a, "ground"), To(b, "ground"))
  BY AlikeTo DEF States
<1>4. /\ Alike(Emit(To(a, "ground"), <<"AlignmentDisplay">>), Emit(To(b, "ground"), <<"AlignmentDisplay">>))
      /\ Alike(Emit(To(a, "ground"), <<"DefineCharset", ch, a.slot>>),
               Emit(To(b, "ground"), <<"DefineCharset", ch, b.slot>>))
  BY <1>1, <1>3, AlikeEmit
<1>5. \A v : /\ Alike([To(a, "ground") EXCEPT !.utf8 = v], [To(b, "ground") EXCEPT !.utf8 = v])
             /\ Alike([To(a, "ground") EXCEPT !.eight = v], [To(b, "ground") EXCEPT !.eight = v])
  BY <1>3 DEF Alike, Flushed, Shape, SameCore, Fields
<1>6. To(a, "ground").utf8 = To(b, "ground").utf8 /\ To(a, "ground").eight = To(b, "ground").eight
  BY <1>3 DEF Alike, SameCore
<1>7. /\ Alike(HandleGround(a, ch), HandleGround(b, ch)) /\ Alike(HandleEscape(a, ch), HandleEscape(b, ch))
      /\ Alike(HandleCSI(a, ch), HandleCSI(b, ch)) /\ Alike(HandleString(a, ch), HandleString(b, ch))
  BY AlikeGround, AlikeEscape, AlikeCSI, AlikeString
<1> QED
  <2>1. CASE ch \in {"CAN", "SUB"} /\ a.state # "ground"
    BY <1>1, <1>2, <2>1 DEF FeedRune
  <2>2. CASE ~(ch \in {"CAN", "SUB"} /\ a.state # "ground")
             /\ a.state \in {"ground", "escape", "csi", "osc", "dcs", "apc", "pm", "sos"}
    BY <1>1, <1>7, <2>2 DEF FeedRune
  <2>3. CASE ~(ch \in {"CAN", "SUB"} /\ a.state # "ground") /\ a.state \in {"sharp", "charset"}
    BY <1>1, <1>3, <1>4, <2>3 DEF FeedRune
  <2>4. CASE ~(ch \in {"CAN", "SUB"} /\ a.state # "ground") /\ a.state \in {"percent", "space"}
    BY <1>1, <1>5, <1>6, <2>4 DEF FeedRune
  <2>5. CASE ~(ch \in {"CAN", "SUB"} /\ a.state # "ground")
             /\ a.state \notin States
    BY <2>5 DEF Alike, Flushed, Shape
  <2> QED
    BY <2>1, <2>2, <2>3, <2>4, <2>5 DEF States

-----------------------------------------------------------------------------
(* Text that is not drawn yet *)

LEMMA FlushFacts ==
    ASSUME NEW a, Shape(a)
    PROVE  /\ Flushed(Flush(a)) /\ SameCore(Flush(a), a)
           /\ Calls(Flush(a).out) = AddCalls(Calls(a.out), << <<"Draw", a.text>> >>)
<1>1. CASE a.text = <<>>
  BY <1>1, DrawNone DEF Flush, Flushed, SameCore
<1>2. CASE a.text # <<>>
  <2>1. Flush(a) = [[a EXCEPT !.out = Append(@, << <<"Draw", a.text>> >>)] EXCEPT !.text = <<>>]
    BY <1>2 DEF Flush, Emit, EmitAll
  <2>2. IsSeq(Append(a.out, << <<"Draw", a.text>> >>))
        /\ Calls(Append(a.out, << <<"Draw", a.text>> >>)) = AddCalls(Calls(a.out), << <<"Draw", a.text>> >>)
    BY AppendIsSeq, CallsAppend DEF Shape
  <2> QED
    BY <2>1, <2>2, EmptyIsSeq DEF Flushed, Shape, SameCore, Fields
<1> QED
  BY <1>1, <1>2

LEMMA FlushOfFlushed == ASSUME NEW a, Flushed(a) PROVE Flush(a) = a
  BY DEF Flush, Flushed

LEMMA SameReflexive == ASSUME NEW a, Shape(a) PROVE Same(a, a)
  BY FlushFacts DEF Same, Alike, SameCore

LEMMA SameSymmetric == ASSUME NEW a, NEW b, Same(a, b) PROVE Same(b, a)
  BY DEF Same, Alike, SameCore

LEMMA SameTransitive == ASSUME NEW a, NEW b, NEW c, Same(a, b), Same(b, c) PROVE Same(a, c)
  BY DEF Same, Alike, SameCore

LEMMA SameCores == ASSUME NEW a, NEW b, Same(a, b) PROVE SameCore(a, b)
  BY FlushFacts DEF Same, Alike, SameCore

LEMMA SameFlushed == ASSUME NEW a, Shape(a) PROVE Same(a, Flush(a)) /\ Shape(Flush(a))
<1>1. Flushed(Flush(a)) /\ Flush(Flush(a)) = Flush(a)
  BY FlushFacts, FlushOfFlushed
<1> QED
  BY <1>1 DEF Same, Alike, SameCore, Flushed

LEMMA SameFromAlike == ASSUME NEW a, NEW b, Alike(a, b) PROVE Same(a, b)
  BY FlushOfFlushed DEF Same, Alike, Flushed

(* One character more keeps two parsers the same.                          *)
LEMMA SameChar ==
    ASSUME NEW a, NEW b, Same(a, b), NEW ch
    PROVE  Same(FeedChar(a, ch), FeedChar(b, ch))
<1>1. Shape(a) /\ Shape(b) /\ SameCore(a, b) /\ Alike(Flush(a), Flush(b))
  BY SameCores DEF Same
<1>2. CASE a.state = "ground" /\ IsPlainText(ch)
  <2> DEFINE c == [a EXCEPT !.text = Append(@, ch)]
             d == [b EXCEPT !.text = Append(@, ch)]
  <2>1. FeedChar(a, ch) = c /\ FeedChar(b, ch) = d
    BY <1>1, <1>2 DEF FeedChar, SameCore
  <2>2. Shape(c) /\ Shape(d) /\ SameCore(c, a) /\ SameCore(d, b)
        /\ c.out = a.out /\ d.out = b.out /\ c.text = Append(a.text, ch) /\ d.text = Append(b.text, ch)
    BY <1>1, AppendIsSeq DEF Shape, SameCore, Fields
  <2> HIDE DEF c, d
  <2>3. /\ Flushed(Flush(c)) /\ SameCore(Flush(c), c)
        /\ Flushed(Flush(d)) /\ SameCore(Flush(d), d)
        /\ Calls(Flush(c).out) = AddCalls(Calls(a.out), << <<"Draw", Append(a.text, ch)>> >>)
        /\ Calls(Flush(d).out) = AddCalls(Calls(b.out), << <<"Draw", Append(b.text, ch)>> >>)
    BY <2>2, FlushFacts
  <2>4. /\ Calls(Flush(c).out) = DrawRune(AddCalls(Calls(a.out), << <<"Draw", a.text>> >>), ch)
        /\ Calls(Flush(d).out) = DrawRune(AddCalls(Calls(b.out), << <<"Draw", b.text>> >>), ch)
    <3>1. IsSeq(a.text) /\ IsSeq(b.text)
      BY <1>1 DEF Shape
    <3>2. /\ AddCalls(Calls(a.out), << <<"Draw", Append(a.text, ch)>> >>)
             = DrawRune(AddCalls(Calls(a.out), << <<"Draw", a.text>> >>), ch)
          /\ AddCalls(Calls(b.out), << <<"Draw", Append(b.text, ch)>> >>)
             = DrawRune(AddCalls(Calls(b.out), << <<"Draw", b.text>> >>), ch)
      BY <3>1, DrawAppend
    <3> QED
      BY <2>3, <3>2
  <2>5. AddCalls(Calls(a.out), << <<"Draw", a.text>> >>) = AddCalls(Calls(b.out), << <<"Draw", b.text>> >>)
    BY <1>1, FlushFacts DEF Alike
  <2>6. SameCore(Flush(c), Flush(d))
    BY <1>1, <2>2, <2>3 DEF SameCore
  <2> QED
    BY <2>1, <2>2, <2>3, <2>4, <2>5, <2>6 DEF Same, Alike
<1>3. CASE ~(a.state = "ground" /\ IsPlainText(ch))
  <2>1. FeedChar(a, ch) = FeedRune(Flush(a), ch) /\ FeedChar(b, ch) = FeedRune(Flush(b), ch)
    BY <1>1, <1>3 DEF FeedChar, SameCore
  <2> QED
    BY <1>1, <2>1, AlikeRune, SameFromAlike
<1> QED
  BY <1>2, <1>3

-----------------------------------------------------------------------------
(* What one character can do to a parser                                   *)

Strings == {"osc", "dcs", "apc", "pm", "sos"}
Body == Parameters \union (Intermediates \ {"'"}) \union DOMAIN Control
Tidy(a) == /\ a.esc \in BOOLEAN /\ a.quote \in BOOLEAN /\ a.utf8 \in BOOLEAN
           /\ a.esc => a.state \in Strings
           /\ a.quote => a.state = "csi"
Moves(a, ch, b) ==
    /\ b.pending = a.pending /\ b.full = a.full /\ Tidy(b)
    /\ b.state = "percent" => ch = "%"
    /\ ~b.utf8 => ~a.utf8 \/ (a.state = "percent" /\ ch = "@")
    /\ b.state = "escape" => ch = "ESC"
    /\ b.esc => ch = "ESC"
    /\ b.quote => ch = "'"
    /\ b.state = "csi" => \/ ch = "CSI"
                          \/ ch = "[" /\ (a.state = "escape" \/ a.esc)
                          \/ a.state = "csi" /\ ~a.quote /\ ch \in Body \union {"'"}
    /\ b.state = "csi" /\ ch = "'" => b.quote

LEMMA DispatchCore ==
    ASSUME NEW a, Shape(a), NEW f
    PROVE  SameCore(DispatchCSI(a, f), a) /\ DOMAIN DispatchCSI(a, f) = Fields
<1>1. \A es : SameCore(EmitAll(a, es), a) /\ DOMAIN EmitAll(a, es) = Fields
  BY DEF EmitAll, SameCore, Shape, Fields
<1>2. SameCore(a, a) /\ DOMAIN a = Fields
  BY DEF SameCore, Shape
<1> QED
  BY <1>1, <1>2 DEF DispatchCSI

LEMMA EmitCore ==
    ASSUME NEW a, DOMAIN a = Fields
    PROVE  /\ \A es : SameCore(EmitAll(a, es), a) /\ DOMAIN EmitAll(a, es) = Fields
           /\ \A e : SameCore(Emit(a, e), a) /\ DOMAIN Emit(a, e) = Fields
  BY DEF EmitAll, Emit, SameCore, Fields

(* In the ground state nothing is kept of a sequence.                      *)
Rests(a, ch, b) ==
    /\ b.pending = a.pending /\ b.full = a.full /\ Tidy(b)
    /\ b.utf8 = a.utf8 /\ ~b.quote /\ ~b.esc
    /\ b.state # "percent"
    /\ b.state = "escape" => ch = "ESC"
    /\ b.state = "csi" => ch = "CSI"
LEMMA GroundMoves ==
    ASSUME NEW a, DOMAIN a = Fields, a.state = "ground", Tidy(a), NEW ch
    PROVE  Rests(a, ch, HandleGround(a, ch))
<1> DEFINE b == HandleGround(a, ch)
<1> SUFFICES Rests(a, ch, b)
  OBVIOUS
<1>1. CASE ch \in DOMAIN Opener
  <2>1. CASE ch = "CSI"
    <3>1. b = To(ResetCSI(a), "csi")
      BY <2>1 DEF HandleGround, Ground
    <3> HIDE DEF b
    <3> QED
      BY <3>1, <2>1 DEF To, ResetCSI, Rests, Tidy, Fields, Strings
  <2>2. CASE ch \in {"DCS", "OSC"}
    <3>1. b = [To(a, Opener[ch]) EXCEPT !.str = <<>>, !.esc = FALSE] /\ Opener[ch] \in {"dcs", "osc"}
      BY <2>2 DEF HandleGround, Ground, Opener
    <3> HIDE DEF b
    <3> QED
      BY <3>1, <2>2 DEF To, Rests, Tidy, Fields, Strings
  <2>3. CASE ch \in {"ESC", "SOS", "PM", "APC"}
    <3>1. b = To(a, Opener[ch]) /\ Opener[ch] \in {"escape", "sos", "pm", "apc"}
          /\ (Opener[ch] = "escape" => ch = "ESC")
      BY <2>3 DEF HandleGround, Ground, Opener
    <3> HIDE DEF b
    <3> QED
      BY <3>1, <2>3 DEF To, Rests, Tidy, Fields, Strings
  <2> QED
    BY <1>1, <2>1, <2>2, <2>3 DEF Opener
<1>2. CASE ch \notin DOMAIN Opener
  <2>1. b = a \/ (\E e : b = Emit(a, e)) \/ (\E es : b = EmitAll(a, es))
    BY <1>2, Zenon DEF HandleGround, Ground, Opener
  <2>2. SameCore(b, a)
    <3>1. SameCore(a, a)
      BY DEF SameCore
    <3> QED
      BY <2>1, <3>1, EmitCore
  <2>3. ch # "ESC" /\ ch # "CSI"
    BY <1>2 DEF Opener
  <2> HIDE DEF b
  <2> QED
    BY <2>2, <2>3 DEF SameCore, Rests, Tidy, Strings
<1> QED
  BY <1>1, <1>2

(* After ESC, in the escape state or in a string.                          *)
Escapes(a, ch, b) ==
    /\ b.pending = a.pending /\ b.full = a.full /\ Tidy(b)
    /\ b.utf8 = a.utf8 /\ ~b.quote /\ ~b.esc
    /\ b.state = "percent" => ch = "%"
    /\ b.state # "escape"
    /\ b.state = "csi" => ch = "["
Opens(a, ch, b) ==
    \/ b = To(a, EscapeOpener[ch])
    \/ b = [To(a, EscapeOpener[ch]) EXCEPT !.esc = FALSE]
    \/ b = [To(a, EscapeOpener[ch]) EXCEPT !.str = <<>>, !.esc = FALSE]
    \/ b = [To(a, EscapeOpener[ch]) EXCEPT !.slot = ch, !.cur = <<>>]
LEMMA OpensFacts ==
    ASSUME NEW a, DOMAIN a = Fields, a.esc = FALSE, NEW ch, NEW b, Opens(a, ch, b)
    PROVE  /\ b.state = EscapeOpener[ch] /\ b.esc = FALSE /\ b.quote = a.quote
           /\ b.pending = a.pending /\ b.full = a.full /\ b.utf8 = a.utf8
<1> DEFINE c == To(a, EscapeOpener[ch])
<1>1. /\ DOMAIN c = Fields /\ c.state = EscapeOpener[ch] /\ c.esc = FALSE /\ c.quote = a.quote
      /\ c.pending = a.pending /\ c.full = a.full /\ c.utf8 = a.utf8
  BY DEF To, Fields
<1> HIDE DEF c
<1>2. CASE b = c
  BY <1>1, <1>2
<1>3. CASE b = [c EXCEPT !.esc = FALSE]
  BY <1>1, <1>3 DEF Fields
<1>4. CASE b = [c EXCEPT !.str = <<>>, !.esc = FALSE]
  BY <1>1, <1>4 DEF Fields
<1>5. CASE b = [c EXCEPT !.slot = ch, !.cur = <<>>]
  BY <1>1, <1>5 DEF Fields
<1> QED
  BY <1>2, <1>3, <1>4, <1>5 DEF Opens, c

LEMMA EscapeMoves ==
    ASSUME NEW a0, DOMAIN a0 = Fields, Tidy(a0), ~a0.esc, ~a0.quote, NEW ch
    PROVE  Escapes(a0, ch, HandleEscape(a0, ch))
<1> DEFINE a == To(a0, "ground")
           b == HandleEscape(a0, ch)
<1>1. DOMAIN a = Fields /\ a.state = "ground" /\ Tidy(a) /\ ~a.esc /\ ~a.quote
      /\ a.pending = a0.pending /\ a.full = a0.full /\ a.utf8 = a0.utf8
  BY DEF To, Tidy, Fields, Strings
<1> HIDE DEF a
<1> SUFFICES Escapes(a0, ch, b)
  OBVIOUS
<1>2. CASE ch = "["
  <2>1. b = To(ResetCSI(a), "csi")
    BY <1>2 DEF HandleEscape, EscapeFinal, a
  <2> HIDE DEF b
  <2> QED
    BY <1>1, <1>2, <2>1 DEF Escapes, To, ResetCSI, Tidy, Fields, Strings
<1>3. CASE ch \in {"]", "P", "_", "^", "X"}
  <2>1. /\ Opens(a, ch, b)
        /\ EscapeOpener[ch] \in {"osc", "dcs", "apc", "pm", "sos"}
    <3>1. \/ b = [To(a, EscapeOpener[ch]) EXCEPT !.str = <<>>, !.esc = FALSE]
          \/ b = [To(a, EscapeOpener[ch]) EXCEPT !.esc = FALSE]
      BY <1>3 DEF HandleEscape, EscapeFinal, a
    <3>2. EscapeOpener[ch] \in {"osc", "dcs", "apc", "pm", "sos"}
      BY <1>3 DEF EscapeOpener
    <3> QED
      BY <3>1, <3>2 DEF Opens
  <2> HIDE DEF b
  <2>2. a.esc = FALSE /\ a.quote = FALSE /\ a.utf8 \in BOOLEAN
    BY <1>1 DEF Tidy
  <2>3. /\ b.state = EscapeOpener[ch] /\ b.esc = FALSE /\ b.quote = a.quote
        /\ b.pending = a.pending /\ b.full = a.full /\ b.utf8 = a.utf8
    <3>1. DOMAIN a = Fields /\ a.esc = FALSE /\ Opens(a, ch, b)
      BY <1>1, <2>1, <2>2
    <3> QED
      BY <3>1, OpensFacts
  <2>4. Tidy(b)
    BY <2>1, <2>2, <2>3 DEF Tidy
  <2> QED
    BY <1>1, <2>1, <2>2, <2>3, <2>4 DEF Escapes
<1>4. CASE ch \in {"#", " ", "%", "(", ")"}
  <2>1. /\ Opens(a, ch, b)
        /\ EscapeOpener[ch] \in {"sharp", "space", "percent", "charset"}
        /\ EscapeOpener[ch] = "percent" => ch = "%"
    <3>1. \/ b = [To(a, EscapeOpener[ch]) EXCEPT !.slot = ch, !.cur = <<>>]
          \/ b = To(a, EscapeOpener[ch])
      BY <1>4 DEF HandleEscape, EscapeFinal, a
    <3>2. /\ EscapeOpener[ch] \in {"sharp", "space", "percent", "charset"}
          /\ EscapeOpener[ch] = "percent" => ch = "%"
      BY <1>4 DEF EscapeOpener
    <3> QED
      BY <3>1, <3>2 DEF Opens
  <2> HIDE DEF b
  <2>2. a.esc = FALSE /\ a.quote = FALSE /\ a.utf8 \in BOOLEAN
    BY <1>1 DEF Tidy
  <2>3. /\ b.state = EscapeOpener[ch] /\ b.esc = FALSE /\ b.quote = a.quote
        /\ b.pending = a.pending /\ b.full = a.full /\ b.utf8 = a.utf8
    <3>1. DOMAIN a = Fields /\ a.esc = FALSE /\ Opens(a, ch, b)
      BY <1>1, <2>1, <2>2
    <3> QED
      BY <3>1, OpensFacts
  <2>4. Tidy(b)
    BY <2>1, <2>2, <2>3 DEF Tidy
  <2> QED
    BY <1>1, <2>1, <2>2, <2>3, <2>4 DEF Escapes
<1>5. CASE ch \notin {"[", "]", "P", "_", "^", "X", "#", " ", "%", "(", ")"}
  <2>1. b = a \/ (\E e : b = Emit(a, e)) \/ (\E es : b = EmitAll(a, es))
    BY <1>5, Zenon DEF HandleEscape, EscapeFinal, a
  <2>2. SameCore(b, a)
    <3>1. SameCore(a, a)
      BY DEF SameCore
    <3> QED
      BY <1>1, <2>1, <3>1, EmitCore
  <2> HIDE DEF b
  <2> QED
    BY <1>1, <2>2 DEF SameCore, Escapes, Tidy, Strings
<1> QED
  BY <1>2, <1>3, <1>4, <1>5

LEMMA UnquotedRests ==
    ASSUME NEW a, Shape(a), Tidy(a), a.state = "csi", NEW f
    PROVE  LET b == ResetCSI(DispatchCSI(To([a EXCEPT !.quote = FALSE], "ground"), f))
           IN  /\ DOMAIN b = Fields /\ b.state = "ground" /\ Tidy(b) /\ ~b.quote /\ ~b.esc
               /\ b.pending = a.pending /\ b.full = a.full /\ b.utf8 = a.utf8
<1> DEFINE c == To([a EXCEPT !.quote = FALSE], "ground")
           d == DispatchCSI(c, f)
<1>1. Shape(c) /\ c.state = "ground" /\ Tidy(c) /\ ~c.quote /\ ~c.esc
      /\ c.pending = a.pending /\ c.full = a.full /\ c.utf8 = a.utf8
  BY DEF To, Shape, Tidy, Fields, Strings, States
<1> HIDE DEF c
<1>2. SameCore(d, c) /\ DOMAIN d = Fields
  BY <1>1, DispatchCore
<1>3. d.state = "ground" /\ d.pending = a.pending /\ d.full = a.full /\ d.utf8 = a.utf8 /\ d.esc = c.esc
  BY <1>1, <1>2 DEF SameCore
<1> HIDE DEF d
<1> DEFINE b == ResetCSI(d)
<1>4. DOMAIN b = Fields /\ b.state = "ground" /\ Tidy(b) /\ ~b.quote /\ ~b.esc
      /\ b.pending = a.pending /\ b.full = a.full /\ b.utf8 = a.utf8
  BY <1>1, <1>2, <1>3 DEF ResetCSI, Tidy, Fields, Strings
<1> QED
  BY <1>4 DEF c, d

LEMMA CSIMoves ==
    ASSUME NEW a, Shape(a), Tidy(a), a.state = "csi", NEW ch
    PROVE  Moves(a, ch, HandleCSI(a, ch))
<1> DEFINE b == HandleCSI(a, ch)
<1> SUFFICES Moves(a, ch, b)
  OBVIOUS
<1>1. DOMAIN a = Fields /\ ~a.esc /\ a.quote \in BOOLEAN
  BY DEF Shape, Tidy, Strings
<1>2. CASE a.quote /\ ch \in {"}", "~"}
  <2>1. b = ResetCSI(DispatchCSI(To([a EXCEPT !.quote = FALSE], "ground"), ch))
    BY <1>2 DEF HandleCSI
  <2>2. DOMAIN b = Fields /\ b.state = "ground" /\ Tidy(b) /\ ~b.quote /\ ~b.esc
        /\ b.pending = a.pending /\ b.full = a.full /\ b.utf8 = a.utf8
    BY <2>1, UnquotedRests
  <2> HIDE DEF b
  <2> QED
    BY <2>2 DEF Moves
<1>3. CASE a.quote /\ ch \notin {"}", "~"}
  <2> DEFINE c == ResetCSI(DispatchCSI(To([a EXCEPT !.quote = FALSE], "ground"), "'"))
  <2>1. b = HandleGround(c, ch)
    BY <1>3 DEF HandleCSI
  <2>2. DOMAIN c = Fields /\ c.state = "ground" /\ Tidy(c) /\ ~c.quote /\ ~c.esc
        /\ c.pending = a.pending /\ c.full = a.full /\ c.utf8 = a.utf8
    BY UnquotedRests
  <2> HIDE DEF b, c
  <2>3. Rests(c, ch, b)
    BY <2>1, <2>2, GroundMoves
  <2> QED
    BY <2>2, <2>3 DEF Rests, Moves
<1>4. CASE ~a.quote /\ ch \in {"ESC", "?", "<", "=", ">", "'"}
  <2>1. CASE ch = "ESC"
    <3>1. b = To(ResetCSI(a), "escape")
      BY <1>4, <2>1 DEF HandleCSI, Digit, Intermediates, Control
    <3> HIDE DEF b
    <3> QED
      BY <1>1, <2>1, <3>1 DEF To, ResetCSI, Moves, Tidy, Fields, Strings
  <2>2. CASE ch \in {"?", "<", "=", ">"}
    <3>1. b = [a EXCEPT !.private = TRUE, !.prefix = ch] \/ b = [a EXCEPT !.prefix = ch]
      BY <1>4, <2>2 DEF HandleCSI, Digit, Intermediates, Control
    <3>2. ch \in Body /\ ch # "'"
      BY <2>2 DEF Body, Parameters
    <3> HIDE DEF b
    <3> QED
      BY <1>1, <1>4, <3>1, <3>2 DEF Moves, Tidy, Fields, Strings
  <2>3. CASE ch = "'"
    <3>1. b = [AppendParam(a) EXCEPT !.inter = ch, !.quote = TRUE]
      BY <1>4, <2>3 DEF HandleCSI, Digit, Intermediates, Control
    <3> HIDE DEF b
    <3> QED
      BY <1>1, <1>4, <2>3, <3>1 DEF Moves, AppendParam, Tidy, Fields, Strings
  <2> QED
    BY <1>4, <2>1, <2>2, <2>3
<1>5. CASE ~a.quote /\ ch \notin {"ESC", "?", "<", "=", ">", "'"}
  <2>1. CASE ch \in (Intermediates \ {"'"}) \union DOMAIN Digit \union {":", ";"} \union DOMAIN Control
    <3>1. \/ b = [a EXCEPT !.inter = ch] \/ b = [a EXCEPT !.cur = Append(@, ch)]
          \/ b = AppendParam(a) \/ b = Emit(a, <<Control[ch]>>)
      BY <1>5, <2>1 DEF HandleCSI, Digit, Intermediates, Control
    <3>2. ch \in Body
      BY <2>1 DEF Body, Parameters
    <3>3. b.state = a.state /\ b.esc = a.esc /\ b.quote = a.quote /\ b.utf8 = a.utf8
          /\ b.pending = a.pending /\ b.full = a.full
      <4> HIDE DEF b
      <4> QED
        BY <1>1, <3>1 DEF AppendParam, Emit, EmitAll, Fields
    <3> HIDE DEF b
    <3> QED
      BY <1>1, <1>5, <3>2, <3>3 DEF Moves, Tidy
  <2>2. CASE ch \notin (Intermediates \ {"'"}) \union DOMAIN Digit \union {":", ";"} \union DOMAIN Control
    <3> DEFINE c == To(AppendParam(a), "ground")
    <3>1. b = DispatchCSI(c, ch)
      BY <1>5, <2>2 DEF HandleCSI, Digit, Intermediates, Control
    <3>2. Shape(c) /\ c.state = "ground" /\ c.esc = a.esc /\ c.quote = a.quote /\ c.utf8 = a.utf8
          /\ c.pending = a.pending /\ c.full = a.full
      BY DEF AppendParam, To, Shape, Fields, States
    <3> HIDE DEF b, c
    <3>3. SameCore(b, c)
      BY <3>1, <3>2, DispatchCore
    <3> QED
      BY <1>1, <1>5, <3>2, <3>3 DEF SameCore, Moves, Tidy
  <2> QED
    BY <2>1, <2>2
<1> QED
  BY <1>1, <1>2, <1>3, <1>4, <1>5

LEMMA FinishMoves ==
    ASSUME NEW a, DOMAIN a = Fields
    PROVE  LET b == Finish(a)
           IN  /\ DOMAIN b = Fields /\ b.state = a.state /\ b.esc = a.esc /\ b.quote = a.quote
               /\ b.utf8 = a.utf8 /\ b.pending = a.pending /\ b.full = a.full
<1>1. \A es : LET c == [EmitAll(a, es) EXCEPT !.str = <<>>, !.cur = <<>>]
              IN  /\ DOMAIN c = Fields /\ c.state = a.state /\ c.esc = a.esc /\ c.quote = a.quote
                  /\ c.utf8 = a.utf8 /\ c.pending = a.pending /\ c.full = a.full
  BY DEF EmitAll, Fields
<1>2. LET c == [a EXCEPT !.str = <<>>]
      IN  /\ DOMAIN c = Fields /\ c.state = a.state /\ c.esc = a.esc /\ c.quote = a.quote
          /\ c.utf8 = a.utf8 /\ c.pending = a.pending /\ c.full = a.full
  BY DEF Fields
<1>3. \A e : LET c == Emit([a EXCEPT !.str = <<>>], e)
             IN  /\ DOMAIN c = Fields /\ c.state = a.state /\ c.esc = a.esc /\ c.quote = a.quote
                 /\ c.utf8 = a.utf8 /\ c.pending = a.pending /\ c.full = a.full
  BY DEF Emit, EmitAll, Fields
<1>4. Finish(a) \in {FinishOSC(a), FinishDCS(a), a}
  BY DEF Finish
<1>5. CASE Finish(a) = FinishOSC(a)
  BY <1>1, <1>5 DEF FinishOSC
<1>6. CASE Finish(a) = FinishDCS(a)
  <2>1. Finish(a) = [a EXCEPT !.str = <<>>] \/ \E e : Finish(a) = Emit([a EXCEPT !.str = <<>>], e)
    BY <1>6, Zenon DEF FinishDCS
  <2> QED
    BY <1>2, <1>3, <2>1
<1>7. CASE Finish(a) = a
  BY <1>7
<1> QED
  BY <1>4, <1>5, <1>6, <1>7

LEMMA StringMoves ==
    ASSUME NEW a, DOMAIN a = Fields, Tidy(a), a.state \in Strings, NEW ch
    PROVE  Moves(a, ch, HandleString(a, ch))
<1> DEFINE b == HandleString(a, ch)
<1> SUFFICES Moves(a, ch, b)
  OBVIOUS
<1>1. ~a.quote /\ a.state # "csi"
  BY DEF Tidy, Strings
<1> DEFINE c == [a EXCEPT !.esc = FALSE]
           d == Finish(c)
<1>2. DOMAIN c = Fields /\ c.state = a.state /\ ~c.esc /\ ~c.quote /\ c.esc \in BOOLEAN /\ c.quote \in BOOLEAN
      /\ c.utf8 = a.utf8 /\ c.pending = a.pending /\ c.full = a.full
  BY <1>1 DEF Fields, Tidy
<1> HIDE DEF c
<1>3. DOMAIN d = Fields /\ d.state = a.state /\ ~d.esc /\ ~d.quote /\ d.esc \in BOOLEAN /\ d.quote \in BOOLEAN
      /\ d.utf8 = a.utf8 /\ d.pending = a.pending /\ d.full = a.full
  BY <1>2, FinishMoves
<1> HIDE DEF d
<1>4. CASE a.esc /\ ch = "\\"
  <2>1. b = To(d, "ground")
    BY <1>4 DEF HandleString, c, d
  <2> HIDE DEF b
  <2> QED
    BY <1>3, <2>1 DEF To, Moves, Tidy, Fields, Strings
<1>5. CASE a.esc /\ ch # "\\"
  <2>1. b = HandleEscape(d, ch)
    BY <1>5 DEF HandleString, c, d
  <2>2. Tidy(d)
    BY <1>3 DEF Tidy
  <2> HIDE DEF b
  <2>3. Escapes(d, ch, b)
    BY <1>3, <2>1, <2>2, EscapeMoves
  <2> QED
    BY <1>3, <1>5, <2>3 DEF Escapes, Moves
<1>6. CASE ~a.esc /\ ch \in {"BEL", "ST"}
  <2> DEFINE f == Finish(a)
  <2>1. b = To(f, "ground")
    BY <1>6 DEF HandleString
  <2>2. DOMAIN f = Fields /\ f.esc = a.esc /\ f.quote = a.quote
        /\ f.utf8 = a.utf8 /\ f.pending = a.pending /\ f.full = a.full
    BY FinishMoves
  <2> HIDE DEF b, f
  <2> QED
    BY <1>1, <1>6, <2>1, <2>2 DEF To, Moves, Tidy, Fields, Strings
<1>7. CASE ~a.esc /\ ch \notin {"BEL", "ST"}
  <2>1. (b = [a EXCEPT !.esc = TRUE] /\ ch = "ESC") \/ b = [a EXCEPT !.str = Append(@, ch)] \/ b = a
    BY <1>7 DEF HandleString
  <2> HIDE DEF b
  <2> QED
    BY <1>1, <1>7, <2>1 DEF Moves, Tidy, Fields, Strings
<1> QED
  BY <1>4, <1>5, <1>6, <1>7 DEF Tidy

LEMMA RuneMoves ==
    ASSUME NEW a, Shape(a), Tidy(a), NEW ch
    PROVE  Moves(a, ch, FeedRune(a, ch))
<1> DEFINE b == FeedRune(a, ch)
<1> SUFFICES Moves(a, ch, b)
  OBVIOUS
<1>1. DOMAIN a = Fields /\ a.state \in States
  BY DEF Shape
<1>2. CASE ch \in {"CAN", "SUB"} /\ a.state # "ground"
  <2> DEFINE c == AbortSequence(a)
  <2>1. b = c \/ \E e : b = Emit(c, e)
    BY <1>2, Zenon DEF FeedRune
  <2>2. DOMAIN c = Fields /\ c.state = "ground" /\ ~c.esc /\ ~c.quote /\ c.esc \in BOOLEAN
        /\ c.quote \in BOOLEAN /\ c.utf8 = a.utf8 /\ c.pending = a.pending /\ c.full = a.full
    BY <1>1 DEF AbortSequence, ResetCSI, To, Fields
  <2> HIDE DEF c
  <2>3. SameCore(b, c)
    <3>1. SameCore(c, c)
      BY DEF SameCore
    <3> QED
      BY <2>1, <2>2, <3>1, EmitCore
  <2> HIDE DEF b
  <2> QED
    BY <2>2, <2>3 DEF SameCore, Moves, Tidy
<1>3. CASE ~(ch \in {"CAN", "SUB"} /\ a.state # "ground")
  <2>1. CASE a.state = "ground"
    <3>1. b = HandleGround(a, ch)
      BY <1>3, <2>1 DEF FeedRune
    <3> HIDE DEF b
    <3> QED
      BY <1>1, <2>1, <3>1, GroundMoves DEF Rests, Moves
  <2>2. CASE a.state = "escape"
    <3>1. b = HandleEscape(a, ch)
      BY <1>3, <2>2 DEF FeedRune
    <3>2. ~a.esc /\ ~a.quote
      BY <2>2 DEF Tidy, Strings
    <3> HIDE DEF b
    <3> QED
      BY <1>1, <2>2, <3>1, <3>2, EscapeMoves DEF Escapes, Moves
  <2>3. CASE a.state = "csi"
    <3>1. b = HandleCSI(a, ch)
      BY <1>3, <2>3 DEF FeedRune
    <3> QED
      BY <2>3, <3>1, CSIMoves
  <2>4. CASE a.state \in Strings
    <3>1. b = HandleString(a, ch)
      BY <1>3, <2>4 DEF FeedRune, Strings
    <3> QED
      BY <1>1, <2>4, <3>1, StringMoves
  <2>5. CASE a.state \in {"sharp", "charset", "percent", "space"}
    <3> DEFINE c == To(a, "ground")
    <3>1. /\ DOMAIN c = Fields /\ c.state = "ground" /\ ~c.esc /\ ~c.quote /\ c.esc \in BOOLEAN
          /\ c.quote \in BOOLEAN /\ c.utf8 = a.utf8 /\ c.pending = a.pending /\ c.full = a.full
      BY <1>1, <2>5 DEF To, Tidy, Fields, Strings
    <3>2. CASE a.state \in {"sharp", "charset"}
      <4>1. b = c \/ \E e : b = Emit(c, e)
        BY <1>3, <3>2, Zenon DEF FeedRune
      <4> HIDE DEF c
      <4>2. SameCore(b, c)
        <5>1. SameCore(c, c)
          BY DEF SameCore
        <5> QED
          BY <3>1, <4>1, <5>1, EmitCore
      <4> HIDE DEF b
      <4> QED
        BY <3>1, <4>2 DEF SameCore, Moves, Tidy
    <3>3. CASE a.state = "percent"
      <4>1. /\ b = [c EXCEPT !.utf8 = CASE ch = "@" -> FALSE [] ch \in {"G", "8"} -> TRUE [] OTHER -> @]
        BY <1>3, <3>3 DEF FeedRune
      <4> HIDE DEF b, c
      <4> QED
        BY <3>1, <3>3, <4>1 DEF Moves, Tidy, Fields
    <3>4. CASE a.state = "space"
      <4>1. \E v : b = [c EXCEPT !.eight = v]
        BY <1>3, <3>4, Zenon DEF FeedRune
      <4> HIDE DEF b, c
      <4> QED
        BY <3>1, <4>1 DEF Moves, Tidy, Fields
    <3> QED
      BY <2>5, <3>2, <3>3, <3>4
  <2> QED
    BY <1>1, <2>1, <2>2, <2>3, <2>4, <2>5 DEF States, Strings
<1> QED
  BY <1>2, <1>3

LEMMA CharMoves ==
    ASSUME NEW a, Shape(a), Tidy(a), NEW ch
    PROVE  Shape(FeedChar(a, ch)) /\ Moves(a, ch, FeedChar(a, ch))
<1>1. Shape(FeedChar(a, ch))
  BY SameReflexive, SameChar DEF Same
<1>2. CASE a.state = "ground" /\ IsPlainText(ch)
  <2> DEFINE c == [a EXCEPT !.text = Append(@, ch)]
  <2>1. FeedChar(a, ch) = c
    BY <1>2 DEF FeedChar
  <2> HIDE DEF c
  <2>2. SameCore(c, a)
    BY DEF c, SameCore, Shape, Fields
  <2> QED
    BY <1>1, <1>2, <2>1, <2>2 DEF SameCore, Moves, Tidy, Strings
<1>3. CASE ~(a.state = "ground" /\ IsPlainText(ch))
  <2>1. FeedChar(a, ch) = FeedRune(Flush(a), ch)
    BY <1>3 DEF FeedChar
  <2>2. Shape(Flush(a)) /\ SameCore(Flush(a), a)
    BY FlushFacts DEF Flushed
  <2>3. Tidy(Flush(a))
    BY <2>2 DEF SameCore, Tidy
  <2>4. Moves(Flush(a), ch, FeedChar(a, ch))
    BY <2>1, <2>2, <2>3, RuneMoves
  <2> QED
    BY <1>1, <2>2, <2>4 DEF Moves, SameCore
<1> QED
  BY <1>2, <1>3

-----------------------------------------------------------------------------
(* Parsers between two characters: only the ground state collects text.    *)

Ready(a) == Shape(a) /\ Tidy(a) /\ (a.state # "ground" => a.text = <<>>)

LEMMA CharReady ==
    ASSUME NEW a, Ready(a), NEW ch
    PROVE  Ready(FeedChar(a, ch)) /\ Moves(a, ch, FeedChar(a, ch))
<1> DEFINE b == FeedChar(a, ch)
<1> SUFFICES Ready(b) /\ Moves(a, ch, b)
  OBVIOUS
<1>1. Shape(b) /\ Moves(a, ch, b)
  BY CharMoves DEF Ready
<1>2. CASE a.state = "ground" /\ IsPlainText(ch)
  <2>1. b.state = "ground"
    BY <1>2 DEF FeedChar, Ready, Shape, Fields
  <2> HIDE DEF b
  <2> QED
    BY <1>1, <2>1 DEF Ready, Moves
<1>3. CASE ~(a.state = "ground" /\ IsPlainText(ch))
  <2>1. b = FeedRune(Flush(a), ch)
    BY <1>3 DEF FeedChar
  <2>2. Alike(Flush(a), Flush(a))
    BY FlushFacts DEF Ready, Alike, SameCore
  <2> HIDE DEF b
  <2>3. b.text = <<>>
    BY <2>1, <2>2, AlikeRune DEF Alike, Flushed
  <2> QED
    BY <1>1, <2>3 DEF Ready, Moves
<1> QED
  BY <1>2, <1>3

(* The end of a call of FeedBytes. *)
LEMMA EndFacts ==
    ASSUME NEW a, Ready(a)
    PROVE  /\ Ready(EndOfInput(a))
           /\ EndOfInput(a).pending = a.pending /\ EndOfInput(a).utf8 = a.utf8
           /\ EndOfInput(a).full = a.full
           /\ a.quote => EndOfInput(a) = Settled(a) /\ EndOfInput(a).state = "ground"
                         /\ Flushed(EndOfInput(a))
           /\ ~a.quote => EndOfInput(a) = a
           /\ ~EndOfInput(a).quote
<1>1. CASE ~a.quote
  BY <1>1 DEF EndOfInput
<1>2. CASE a.quote
  <2>1. a.state = "csi" /\ a.text = <<>> /\ Shape(a) /\ Tidy(a)
    BY <1>2 DEF Ready, Tidy
  <2>2. EndOfInput(a) = Settled(a)
    BY <1>2, <2>1 DEF EndOfInput, Settled
  <2>3. Alike(a, a)
    BY <2>1 DEF Alike, Flushed, SameCore
  <2>4. Flushed(Settled(a))
    BY <2>3, AlikeUnquoted DEF Settled, Alike
  <2>5. Settled(a).state = "ground" /\ Tidy(Settled(a)) /\ ~Settled(a).quote
        /\ Settled(a).pending = a.pending /\ Settled(a).utf8 = a.utf8 /\ Settled(a).full = a.full
    BY <2>1, UnquotedRests DEF Settled
  <2> QED
    BY <1>2, <2>2, <2>4, <2>5 DEF Ready, Flushed
<1> QED
  BY <1>1, <1>2

LEMMA SameEnd ==
    ASSUME NEW a, NEW b, Ready(a), Ready(b), Same(a, b)
    PROVE  Same(EndOfInput(a), EndOfInput(b))
<1>1. a.state = b.state /\ a.quote = b.quote
  BY SameCores DEF SameCore
<1>2. CASE ~a.quote
  BY <1>1, <1>2, EndFacts
<1>3. CASE a.quote
  <2>1. Flushed(a) /\ Flushed(b)
    BY <1>1, <1>3 DEF Ready, Tidy, Flushed
  <2>2. Alike(a, b)
    BY <2>1, FlushOfFlushed DEF Same
  <2>3. Alike(Settled(a), Settled(b))
    BY <2>2, AlikeUnquoted DEF Settled
  <2>4. EndOfInput(a) = Settled(a) /\ EndOfInput(b) = Settled(b)
    BY <1>1, <1>3, EndFacts
  <2> QED
    BY <2>3, <2>4, SameFromAlike
<1> QED
  BY <1>2, <1>3

(* A "'" that the next character would have made HPA may as well be HPA    *)
(* before.                                                                 *)
Decides == {"}", "~", "CAN", "SUB"}
LEMMA QuoteStep ==
    ASSUME NEW a, Ready(a), a.quote, NEW ch, ch \notin Decides
    PROVE  Same(FeedChar(a, ch), FeedChar(EndOfInput(a), ch))
<1> DEFINE c == EndOfInput(a)
<1>1. c = Settled(a) /\ c.state = "ground" /\ Flushed(c) /\ Ready(c)
  BY EndFacts
<1>2. a.state = "csi" /\ a.text = <<>>
  BY DEF Ready, Tidy
<1>3. FeedChar(a, ch) = HandleGround(c, ch)
  <2>1. FeedChar(a, ch) = FeedRune(a, ch)
    BY <1>2 DEF FeedChar, Flush
  <2>2. FeedRune(a, ch) = HandleCSI(a, ch)
    BY <1>2 DEF FeedRune, Decides
  <2>3. HandleCSI(a, ch) = HandleGround(Settled(a), ch)
    BY DEF HandleCSI, Settled, Decides
  <2> QED
    BY <1>1, <2>1, <2>2, <2>3
<1> HIDE DEF c
<1>4. Alike(c, c)
  BY <1>1 DEF Alike, SameCore
<1>5. CASE IsPlainText(ch)
  <2>1. HandleGround(c, ch) = Emit(c, <<"Draw", <<ch>>>>)
    BY <1>5 DEF HandleGround, IsPlainText, Opener
  <2>2. FeedChar(c, ch) = [c EXCEPT !.text = Append(@, ch)]
    BY <1>1, <1>5 DEF FeedChar
  <2> DEFINE d == [c EXCEPT !.text = Append(@, ch)]
  <2>3. Shape(d) /\ d.out = c.out /\ d.text = <<ch>> /\ SameCore(d, c)
    <3>1. c.text = <<>> /\ DOMAIN c = Fields /\ c.state \in States /\ IsSeq(c.out)
      BY <1>1 DEF Flushed, Shape
    <3>2. Append(c.text, ch) = <<ch>> /\ IsSeq(<<ch>>)
      <4>1. <<ch>> \in Seq({ch}) /\ Append(<<>>, ch) = <<ch>>
        OBVIOUS
      <4> QED
        BY <3>1, <4>1 DEF IsSeq
    <3> QED
      BY <3>1, <3>2 DEF Shape, SameCore, Fields
  <2> HIDE DEF d
  <2>4. Flushed(Flush(d)) /\ SameCore(Flush(d), d)
        /\ Calls(Flush(d).out) = AddCalls(Calls(c.out), << <<"Draw", <<ch>>>> >>)
    BY <2>3, FlushFacts
  <2> DEFINE e == Emit(c, <<"Draw", <<ch>>>>)
  <2>5. Alike(e, e) /\ SameCore(e, c)
    BY <1>1, <1>4, AlikeEmit, EmitCore DEF Flushed, Shape
  <2>6. Calls(e.out) = AddCalls(Calls(c.out), << <<"Draw", <<ch>>>> >>)
    <3>1. e.out = Append(c.out, << <<"Draw", <<ch>>>> >>)
      BY <1>1 DEF Emit, EmitAll, Flushed, Shape, Fields
    <3> HIDE DEF e
    <3> QED
      BY <1>1, <3>1, CallsAppend DEF Flushed, Shape
  <2> HIDE DEF e
  <2>7. Alike(e, Flush(d))
    BY <2>3, <2>4, <2>5, <2>6 DEF Alike, SameCore
  <2>8. Same(e, Flush(d)) /\ Same(d, Flush(d))
    BY <2>3, <2>7, SameFromAlike, SameFlushed
  <2>9. Same(e, d)
    BY <2>8, SameSymmetric, SameTransitive
  <2>10. FeedChar(a, ch) = e /\ FeedChar(c, ch) = d
    BY <1>3, <2>1, <2>2 DEF d, e
  <2> QED
    BY <2>9, <2>10 DEF c
<1>6. CASE ~IsPlainText(ch)
  <2>1. FeedChar(c, ch) = FeedRune(c, ch)
    BY <1>1, <1>6, FlushOfFlushed DEF FeedChar
  <2>2. FeedRune(c, ch) = HandleGround(c, ch)
    BY <1>1 DEF FeedRune
  <2>3. Alike(HandleGround(c, ch), HandleGround(c, ch))
    BY <1>4, AlikeGround
  <2> QED
    BY <1>3, <2>1, <2>2, <2>3, SameFromAlike DEF c
<1> QED
  BY <1>5, <1>6

LEMMA PendingFacts ==
    ASSUME NEW a, Ready(a), NEW p
    PROVE  LET c == [a EXCEPT !.pending = p]
           IN  /\ Ready(c) /\ c.pending = p /\ c.state = a.state /\ c.utf8 = a.utf8
               /\ c.quote = a.quote /\ c.full = a.full /\ c.out = a.out /\ c.text = a.text
               /\ c.esc = a.esc
  BY DEF Ready, Shape, Tidy, Fields

LEMMA AlikePending ==
    ASSUME NEW a, NEW b, Alike(a, b), NEW p
    PROVE  Alike([a EXCEPT !.pending = p], [b EXCEPT !.pending = p])
  BY DEF Alike, Flushed, Shape, SameCore, Fields

LEMMA FlushPending ==
    ASSUME NEW a, Shape(a), NEW p
    PROVE  Flush([a EXCEPT !.pending = p]) = [Flush(a) EXCEPT !.pending = p]
  BY DEF Flush, Emit, EmitAll, Shape, Fields

LEMMA SamePending ==
    ASSUME NEW a, NEW b, Same(a, b), NEW p
    PROVE  Same([a EXCEPT !.pending = p], [b EXCEPT !.pending = p])
<1>1. Shape(a) /\ Shape(b) /\ Alike(Flush(a), Flush(b))
  BY DEF Same
<1>2. Alike([Flush(a) EXCEPT !.pending = p], [Flush(b) EXCEPT !.pending = p])
  BY <1>1, AlikePending
<1>3. Shape([a EXCEPT !.pending = p]) /\ Shape([b EXCEPT !.pending = p])
  BY <1>1 DEF Shape, Fields
<1> QED
  BY <1>1, <1>2, <1>3, FlushPending DEF Same

(* What waits is told apart from what the end of a call makes of the rest. *)
LEMMA ResetPending ==
    ASSUME NEW u, DOMAIN u = Fields, NEW p
    PROVE  ResetCSI([u EXCEPT !.pending = p]) = [ResetCSI(u) EXCEPT !.pending = p]
  BY DEF ResetCSI, Fields

LEMMA EndPending ==
    ASSUME NEW a, Ready(a), NEW p
    PROVE  Same(EndOfInput([a EXCEPT !.pending = p]), [EndOfInput(a) EXCEPT !.pending = p])
<1> DEFINE c == [a EXCEPT !.pending = p]
<1>1. Ready(c) /\ c.quote = a.quote /\ c.state = a.state
  BY PendingFacts
<1>2. CASE ~a.quote
  <2>1. EndOfInput(c) = c /\ EndOfInput(a) = a
    BY <1>1, <1>2, EndFacts
  <2> QED
    BY <1>1, <2>1, SameReflexive DEF Ready
<1>3. CASE a.quote
  <2>1. EndOfInput(c) = Settled(c) /\ EndOfInput(a) = Settled(a)
    BY <1>1, <1>3, EndFacts
  <2> DEFINE x == To([a EXCEPT !.quote = FALSE], "ground")
             y == To([c EXCEPT !.quote = FALSE], "ground")
  <2>2. y = [x EXCEPT !.pending = p] /\ Flushed(x)
    BY <1>3 DEF To, Ready, Tidy, Flushed, Shape, Fields, States
  <2>3. DispatchCSI(y, "'") = [DispatchCSI(x, "'") EXCEPT !.pending = p]
    <3> HIDE DEF x, y
    <3>1. Understood(y, "'") <=> Understood(x, "'")
      BY <2>2 DEF Understood, Flushed, Shape, Fields
    <3>2. SwitchCalls(y, "'") = SwitchCalls(x, "'") /\ DefaultCalls(y, "'") = DefaultCalls(x, "'")
      <4>1. /\ y.prefix = x.prefix /\ y.params = x.params /\ y.private = x.private
            /\ y.full = x.full /\ y.inter = x.inter
        BY <2>2 DEF Flushed, Shape, Fields
      <4> QED
        BY <4>1, Zenon DEF SwitchCalls, DefaultCalls
    <3>3. \A es : EmitAll(y, es) = [EmitAll(x, es) EXCEPT !.pending = p]
      BY <2>2 DEF EmitAll, Flushed, Shape, Fields
    <3> QED
      BY <2>2, <3>1, <3>2, <3>3 DEF DispatchCSI
  <2>4. Settled(c) = [Settled(a) EXCEPT !.pending = p]
    <3>1. Settled(c) = ResetCSI(DispatchCSI(y, "'")) /\ Settled(a) = ResetCSI(DispatchCSI(x, "'"))
      BY DEF Settled
    <3> DEFINE u == DispatchCSI(x, "'")
    <3>2. DOMAIN u = Fields
      BY <2>2, DispatchCore DEF Flushed
    <3>3. Settled(c) = ResetCSI([u EXCEPT !.pending = p]) /\ Settled(a) = ResetCSI(u)
      BY <2>3, <3>1
    <3> HIDE DEF u
    <3>4. ResetCSI([u EXCEPT !.pending = p]) = [ResetCSI(u) EXCEPT !.pending = p]
      BY <3>2, ResetPending
    <3> QED
      BY <3>3, <3>4
  <2>5. Shape(Settled(c))
    <3>1. Shape(EndOfInput(c))
      BY <1>1, EndFacts DEF Ready
    <3> QED
      BY <2>1, <3>1, Zenon
  <2> QED
    BY <2>1, <2>4, <2>5, SameReflexive
<1> QED
  BY <1>2, <1>3

-----------------------------------------------------------------------------
(* The bytes of one call of FeedBytes, one after the other                 *)

Runs(g, data, st) ==
    /\ g[0] = [st |-> st, next |-> 1]
    /\ \A k \in 1 .. Len(data) : g[k] = FeedByte(g[k - 1], data, k)
Resumed(st) == [st EXCEPT !.pending = <<>>]

LEMMA FeedBytesRuns ==
    ASSUME NEW B, NEW st, st.pending \in Seq(B), NEW chunk \in Seq(B)
    PROVE  \E g : /\ Runs(g, st.pending \o chunk, Resumed(st))
                 /\ FeedBytes(st, chunk) = Flush(EndOfInput(g[Len(st.pending \o chunk)].st))
<1> DEFINE data == st.pending \o chunk
           places == [i \in DOMAIN data |-> i]
           b == [st |-> Resumed(st), next |-> 1]
<1>1. data \in Seq(B) /\ Len(data) \in Nat /\ DOMAIN data = 1 .. Len(data)
  OBVIOUS
<1> HIDE DEF data
<1>2. places \in Seq(Nat) /\ Len(places) = Len(data) /\ \A k \in 1 .. Len(data) : places[k] = k
  BY <1>1
<1> DEFINE result == FoldLeft(LAMBDA acc, i : FeedByte(acc, data, i), b, places)
<1>3. result = ByteLaws!Fold(data, b, places)
  BY DEF FoldLeft, MapThenFoldSet, Max, ByteLaws!Fold, ByteLaws!Greatest, NextByte
<1>4. FeedBytes(st, chunk) = Flush(EndOfInput(result.st))
  BY DEF FeedBytes, data, Resumed
<1> HIDE DEF places, result
<1>5. PICK g : ByteLaws!Results(data, g, b, places) /\ ByteLaws!Fold(data, b, places) = g[Len(places)]
  BY <1>2, NaturalInduction, ByteLaws!FoldResults
<1>6. Runs(g, data, Resumed(st))
  BY <1>2, <1>5 DEF Runs, ByteLaws!Results, ByteLaws!Follows, NextByte
<1> QED
  BY <1>2, <1>3, <1>4, <1>5, <1>6 DEF data

Holds(data, st, k) == data[k] = "u1" /\ st.utf8 /\ k = Len(data)
Rune(data, k) == data[k] = "u1" /\ k < Len(data) /\ data[k + 1] = "u2"
Hold(st) == [st EXCEPT !.pending = <<"u1">>]
LEMMA ByteStep ==
    ASSUME NEW acc, NEW data, NEW k \in Nat, acc.next \in Nat, Len(data) \in Nat
    PROVE  /\ k < acc.next => FeedByte(acc, data, k) = acc
           /\ k >= acc.next /\ Holds(data, acc.st, k) =>
                FeedByte(acc, data, k) = [st |-> Hold(acc.st), next |-> k + 1]
           /\ k >= acc.next /\ Rune(data, k) =>
                FeedByte(acc, data, k) = [st |-> FeedChar(acc.st, "u"), next |-> k + 2]
           /\ k >= acc.next /\ ~Holds(data, acc.st, k) /\ ~Rune(data, k) =>
                FeedByte(acc, data, k) = [st |-> FeedChar(acc.st, data[k]), next |-> k + 1]
<1>1. k < acc.next => FeedByte(acc, data, k) = acc
  BY DEF FeedByte
<1>2. k >= acc.next /\ Holds(data, acc.st, k) =>
         FeedByte(acc, data, k) = [st |-> Hold(acc.st), next |-> k + 1]
  BY DEF FeedByte, Holds, Hold
<1>3. k >= acc.next /\ Rune(data, k) =>
         FeedByte(acc, data, k) = [st |-> FeedChar(acc.st, "u"), next |-> k + 2]
  BY DEF FeedByte, Rune
<1>4. k >= acc.next /\ ~Holds(data, acc.st, k) /\ ~Rune(data, k) =>
         FeedByte(acc, data, k) = [st |-> FeedChar(acc.st, data[k]), next |-> k + 1]
  BY DEF FeedByte, Holds, Rune
<1> QED
  BY <1>1, <1>2, <1>3, <1>4

LEMMA ByteSkipped ==
    ASSUME NEW acc, NEW data, NEW k \in Nat, acc.next \in Nat, Len(data) \in Nat, k < acc.next
    PROVE  FeedByte(acc, data, k) = acc
  BY ByteStep

LEMMA ByteHeld ==
    ASSUME NEW acc, NEW data, NEW k \in Nat, acc.next \in Nat, Len(data) \in Nat,
           k >= acc.next, Holds(data, acc.st, k)
    PROVE  FeedByte(acc, data, k) = [st |-> Hold(acc.st), next |-> k + 1]
  BY ByteStep

LEMMA ByteRune ==
    ASSUME NEW acc, NEW data, NEW k \in Nat, acc.next \in Nat, Len(data) \in Nat,
           k >= acc.next, Rune(data, k)
    PROVE  FeedByte(acc, data, k) = [st |-> FeedChar(acc.st, "u"), next |-> k + 2]
  BY ByteStep

LEMMA ByteAlone ==
    ASSUME NEW acc, NEW data, NEW k \in Nat, acc.next \in Nat, Len(data) \in Nat,
           k >= acc.next, ~Holds(data, acc.st, k), ~Rune(data, k)
    PROVE  FeedByte(acc, data, k) = [st |-> FeedChar(acc.st, data[k]), next |-> k + 1]
  BY ByteStep

(* What is so of the parser after k bytes of data.                         *)
After1(g, data, k) ==
    /\ Ready(g[k].st)
    /\ g[k].next \in {k + 1, k + 2}
    /\ g[k].next = k + 2 => k \in 1 .. Len(data) /\ Rune(data, k)
    /\ g[k].st.full = g[0].st.full
    /\ \/ g[k].st.pending = <<>>
       \/ /\ k = Len(data) /\ k >= 1 /\ Holds(data, g[k - 1].st, k) /\ g[k - 1].next = k
          /\ g[k].st = Hold(g[k - 1].st) /\ g[k - 1].st.pending = <<>>

LEMMA RunFacts ==
    ASSUME NEW B, NEW data \in Seq(B), NEW st, Ready(st), st.pending = <<>>,
           NEW g, Runs(g, data, st)
    PROVE  \A k \in 0 .. Len(data) : After1(g, data, k)
<1> DEFINE n == Len(data)
           S == {k \in Nat : k <= n => After1(g, data, k)}
<1>1. n \in Nat
  OBVIOUS
<1>2. 0 \in S
  <2>1. g[0].st = st /\ g[0].next = 1
    BY DEF Runs
  <2>2. After1(g, data, 0)
    BY <2>1 DEF After1
  <2> QED
    BY <2>2
<1>3. ASSUME NEW j \in Nat, j \in S PROVE j + 1 \in S
  <2> SUFFICES ASSUME j + 1 <= n PROVE After1(g, data, j + 1)
    OBVIOUS
  <2> DEFINE k == j + 1
  <2>1. After1(g, data, j) /\ j < n /\ k \in 1 .. n /\ k - 1 = j /\ k \in Nat
    BY <1>1, <1>3
  <2>2. g[k] = FeedByte(g[j], data, k)
    BY <2>1 DEF Runs
  <2>3. g[j].next \in {k, k + 1} /\ g[j].next \in Nat /\ Ready(g[j].st) /\ g[j].st.pending = <<>>
        /\ g[j].st.full = g[0].st.full
    BY <2>1 DEF After1
  <2> HIDE DEF k, n
  <2>4. CASE g[j].next = k + 1
    <3>1. g[k] = g[j]
      BY <1>1, <2>1, <2>2, <2>3, <2>4, ByteStep DEF n
    <3> QED
      BY <2>1, <2>3, <2>4, <3>1 DEF After1, k
  <2>5. CASE g[j].next = k
    <3>1. CASE Holds(data, g[j].st, k)
      <4>1. g[k] = [st |-> Hold(g[j].st), next |-> k + 1]
        BY <1>1, <2>1, <2>2, <2>3, <2>5, <3>1, ByteStep DEF n
      <4>2. Ready(Hold(g[j].st)) /\ Hold(g[j].st).full = g[j].st.full
        BY <2>3, PendingFacts DEF Hold
      <4>3. g[k].st = Hold(g[j].st) /\ g[k].next = k + 1
        BY <4>1
      <4>4. k = Len(data) /\ k >= 1
        BY <2>1, <3>1 DEF Holds
      <4> QED
        BY <2>1, <2>3, <2>5, <3>1, <4>2, <4>3, <4>4 DEF After1, k
    <3>2. CASE ~Holds(data, g[j].st, k)
      <4>1. PICK ch : g[k].st = FeedChar(g[j].st, ch) /\ g[k].next \in {k + 1, k + 2}
                      /\ (g[k].next = k + 2 => Rune(data, k))
        <5>1. CASE Rune(data, k)
          <6>1. g[k] = [st |-> FeedChar(g[j].st, "u"), next |-> k + 2]
            BY <1>1, <2>1, <2>2, <2>3, <2>5, <5>1, ByteStep DEF n
          <6> QED
            BY <5>1, <6>1
        <5>2. CASE ~Rune(data, k)
          <6>1. g[k] = [st |-> FeedChar(g[j].st, data[k]), next |-> k + 1]
            BY <1>1, <2>1, <2>2, <2>3, <2>5, <3>2, <5>2, ByteStep DEF n
          <6> QED
            BY <2>1, <6>1
        <5> QED
          BY <5>1, <5>2
      <4>2. Ready(g[k].st) /\ g[k].st.pending = <<>> /\ g[k].st.full = g[0].st.full
        BY <2>3, <4>1, CharReady DEF Moves
      <4> QED
        BY <2>1, <4>1, <4>2 DEF After1, k, n
    <3> QED
      BY <3>1, <3>2
  <2> QED
    BY <2>3, <2>4, <2>5 DEF k
<1>4. Nat \subseteq S
  <2> HIDE DEF S
  <2> QED
    BY <1>2, <1>3, NaturalInduction DEF ByteLaws!Induction
<1> QED
  BY <1>1, <1>4

(* Two runs over the same bytes y, one of them after other bytes, from     *)
(* parsers that are the same but for a "'" that one call has settled.      *)
Follow(a, b, end) == Same(a, b) \/ (end /\ Same(EndOfInput(a), b))

LEMMA RunsAlike ==
    ASSUME NEW B, NEW w \in Seq(B), NEW y \in Seq(B), NEW p \in Nat,
           Len(w) = p + Len(y), \A j \in 1 .. Len(y) : w[p + j] = y[j],
           NEW st, Ready(st), st.pending = <<>>, NEW g, Runs(g, w, st),
           NEW b, Ready(b), b.pending = <<>>, NEW h, Runs(h, y, b),
           g[p].next = p + 1, Same(EndOfInput(g[p].st), b),
           g[p].st.quote /\ y # <<>> => y[1] \notin Decides
    PROVE  Same(EndOfInput(g[Len(w)].st), EndOfInput(h[Len(y)].st))
<1> DEFINE n == Len(y)
           End(j) == j = 0 \/ j = n
           S == {j \in Nat : j <= n => /\ g[p + j].next = p + h[j].next
                                      /\ Follow(g[p + j].st, h[j].st, End(j))}
<1>1. n \in Nat /\ Len(w) = p + n
  OBVIOUS
<1>2. \A j \in 0 .. n : After1(g, w, p + j) /\ After1(h, y, j)
  <2>1. \A k \in 0 .. Len(w) : After1(g, w, k)
    BY RunFacts
  <2>2. \A k \in 0 .. n : After1(h, y, k)
    BY RunFacts
  <2> QED
    BY <1>1, <2>1, <2>2
<1>3. 0 \in S
  <2>1. h[0].st = b /\ h[0].next = 1 /\ p + 0 = p
    BY DEF Runs
  <2> QED
    BY <2>1 DEF Follow
<1> HIDE DEF n
<1>4. ASSUME NEW j \in Nat, j \in S PROVE j + 1 \in S
  <2> DEFINE k == j + 1
  <2> SUFFICES ASSUME k <= n
               PROVE  /\ g[p + k].next = p + h[k].next
                      /\ Follow(g[p + k].st, h[k].st, End(k))
    OBVIOUS
  <2> DEFINE u == g[p + j]
             v == h[j]
  <2>1. /\ u.next = p + v.next /\ Follow(u.st, v.st, End(j))
        /\ j < n /\ k \in 1 .. n /\ k \in Nat /\ p + k \in Nat /\ p + k \in 1 .. Len(w)
        /\ (p + k) - 1 = p + j /\ k - 1 = j
    BY <1>1, <1>4
  <2>2. g[p + k] = FeedByte(u, w, p + k) /\ h[k] = FeedByte(v, y, k)
    BY <2>1 DEF Runs, n
  <2>3. After1(g, w, p + j) /\ After1(h, y, j)
    <3>1. j \in 0 .. n
      BY <1>1, <2>1
    <3> QED
      BY <1>2, <3>1
  <2>4. u.next \in Nat /\ v.next \in Nat /\ Ready(u.st) /\ Ready(v.st)
        /\ v.next \in {j + 1, j + 2}
    <3>1. Ready(u.st) /\ Ready(v.st) /\ v.next \in {j + 1, j + 2}
      BY <2>3 DEF After1
    <3>2. u.next = p + v.next
      BY <2>1
    <3> HIDE DEF u, v, k
    <3> QED
      BY <1>1, <1>4, <3>1, <3>2
  <2>5. w[p + k] = y[k] /\ (k < n => w[(p + k) + 1] = y[k + 1])
        /\ (k = n <=> p + k = Len(w)) /\ (k < n <=> p + k < Len(w)) /\ Len(w) \in Nat /\ Len(y) \in Nat /\ n = Len(y)
    <3> HIDE DEF k
    <3>1. ASSUME k < n PROVE w[(p + k) + 1] = y[k + 1]
      <4>1. k + 1 \in 1 .. Len(y)
        BY <1>1, <2>1, <3>1 DEF n
      <4>2. w[p + (k + 1)] = y[k + 1]
        BY <4>1
      <4>3. p + (k + 1) = (p + k) + 1
        BY <2>1
      <4> QED
        BY <4>2, <4>3
    <3>2. w[p + k] = y[k]
      BY <2>1 DEF n
    <3>3. (k = n <=> p + k = Len(w)) /\ (k < n <=> p + k < Len(w)) /\ Len(w) \in Nat
      <4>1. k \in Nat /\ n \in Nat /\ p \in Nat /\ Len(w) = p + n
        BY <1>1, <2>1
      <4> QED
        BY <4>1
    <3>4. n = Len(y) /\ Len(y) \in Nat
      BY <1>1 DEF n
    <3> QED
      BY <3>1, <3>2, <3>3, <3>4
  <2>6. u.st.utf8 = v.st.utf8
    <3>1. EndOfInput(u.st).utf8 = u.st.utf8
      BY <2>4, EndFacts
    <3>2. Same(u.st, v.st) \/ Same(EndOfInput(u.st), v.st)
      BY <2>1 DEF Follow
    <3> QED
      BY <3>1, <3>2, SameCores DEF SameCore
  <2>7. (Holds(w, u.st, p + k) <=> Holds(y, v.st, k)) /\ (Rune(w, p + k) <=> Rune(y, k))
    BY <2>5, <2>6 DEF Holds, Rune
  <2>8. Same(u.st, v.st) \/ (j = 0 /\ u.st.quote /\ Same(EndOfInput(u.st), v.st))
    BY <2>1, <2>4, EndFacts DEF Follow
  <2> HIDE DEF u, v, k
  <2>9. CASE v.next = j + 2
    <3>1. k < v.next /\ p + k < u.next
      BY <2>1, <2>4, <2>9 DEF k
    <3>2. g[p + k] = u /\ h[k] = v
      <4>1. /\ k \in Nat /\ v.next \in Nat /\ Len(y) \in Nat
            /\ p + k \in Nat /\ u.next \in Nat /\ Len(w) \in Nat
        BY <2>1, <2>4, <2>5
      <4>2. FeedByte(u, w, p + k) = u
        BY <3>1, <4>1, ByteSkipped
      <4>3. FeedByte(v, y, k) = v
        BY <3>1, <4>1, ByteSkipped
      <4> QED
        BY <2>2, <4>2, <4>3
    <3>3. j # 0
      <4>1. Rune(y, j) /\ j \in 1 .. Len(y)
        BY <2>3, <2>9 DEF After1, v
      <4> QED
        BY <4>1
    <3> QED
      BY <2>1, <2>8, <3>2, <3>3 DEF Follow
  <2>10. CASE v.next = j + 1
    <3>1. k >= v.next /\ p + k >= u.next
      BY <2>1, <2>4, <2>10 DEF k
    <3>0. /\ k \in Nat /\ v.next \in Nat /\ Len(y) \in Nat
          /\ p + k \in Nat /\ u.next \in Nat /\ Len(w) \in Nat
      BY <2>1, <2>4, <2>5
    <3>2. CASE Holds(y, v.st, k)
      <4>1. h[k] = [st |-> Hold(v.st), next |-> k + 1] /\ g[p + k] = [st |-> Hold(u.st), next |-> (p + k) + 1]
        <5>1. FeedByte(v, y, k) = [st |-> Hold(v.st), next |-> k + 1]
          BY <3>0, <3>1, <3>2, ByteHeld
        <5>2. FeedByte(u, w, p + k) = [st |-> Hold(u.st), next |-> (p + k) + 1]
          BY <2>7, <3>0, <3>1, <3>2, ByteHeld
        <5> QED
          BY <2>2, <5>1, <5>2
      <4>2. h[k].st = Hold(v.st) /\ g[p + k].st = Hold(u.st) /\ g[p + k].next = p + h[k].next
        BY <2>1, <4>1
      <4>3. End(k)
        BY <2>5, <3>2 DEF Holds
      <4>4. CASE Same(u.st, v.st)
        <5>1. Same(Hold(u.st), Hold(v.st))
          BY <4>4, SamePending DEF Hold
        <5> QED
          BY <4>2, <5>1 DEF Follow
      <4>5. CASE Same(EndOfInput(u.st), v.st)
        <5>1. Same(Hold(EndOfInput(u.st)), Hold(v.st))
          BY <4>5, SamePending DEF Hold
        <5>2. Same(EndOfInput(Hold(u.st)), Hold(EndOfInput(u.st)))
          BY <2>4, EndPending DEF Hold
        <5> QED
          BY <4>2, <4>3, <5>1, <5>2, SameTransitive DEF Follow
      <4> QED
        BY <2>8, <4>4, <4>5
    <3>3. CASE ~Holds(y, v.st, k)
      <4>1. PICK ch : /\ h[k].st = FeedChar(v.st, ch) /\ g[p + k].st = FeedChar(u.st, ch)
                      /\ g[p + k].next = p + h[k].next
                      /\ ch = "u" \/ ch = y[k]
        <5>1. CASE Rune(y, k)
          <6>1. /\ h[k] = [st |-> FeedChar(v.st, "u"), next |-> k + 2]
                /\ g[p + k] = [st |-> FeedChar(u.st, "u"), next |-> (p + k) + 2]
            <7>1. FeedByte(v, y, k) = [st |-> FeedChar(v.st, "u"), next |-> k + 2]
              BY <3>0, <3>1, <5>1, ByteRune
            <7>2. FeedByte(u, w, p + k) = [st |-> FeedChar(u.st, "u"), next |-> (p + k) + 2]
              BY <2>7, <3>0, <3>1, <5>1, ByteRune
            <7> QED
              BY <2>2, <7>1, <7>2
          <6>2. (p + k) + 2 = p + (k + 2)
            BY <2>1
          <6> QED
            BY <6>1, <6>2
        <5>2. CASE ~Rune(y, k)
          <6>1. /\ h[k] = [st |-> FeedChar(v.st, y[k]), next |-> k + 1]
                /\ g[p + k] = [st |-> FeedChar(u.st, y[k]), next |-> (p + k) + 1]
            <7>1. FeedByte(v, y, k) = [st |-> FeedChar(v.st, y[k]), next |-> k + 1]
              BY <3>0, <3>1, <3>3, <5>2, ByteAlone
            <7>2. FeedByte(u, w, p + k) = [st |-> FeedChar(u.st, w[p + k]), next |-> (p + k) + 1]
              BY <2>7, <3>0, <3>1, <3>3, <5>2, ByteAlone
            <7> QED
              BY <2>2, <2>5, <7>1, <7>2
          <6>2. (p + k) + 1 = p + (k + 1)
            BY <2>1
          <6> QED
            BY <6>1, <6>2
        <5> QED
          BY <5>1, <5>2
      <4>2. CASE Same(u.st, v.st)
        BY <4>1, <4>2, SameChar DEF Follow
      <4>3. CASE j = 0 /\ u.st.quote /\ Same(EndOfInput(u.st), v.st)
        <5>1. ch \notin Decides
          <6>1. k = 1 /\ p + j = p /\ y # <<>>
            BY <2>1, <4>3 DEF k, n
          <6>2. y[1] \notin Decides
            BY <4>3, <6>1 DEF u
          <6> QED
            BY <4>1, <6>1, <6>2 DEF Decides
        <5>2. Same(FeedChar(u.st, ch), FeedChar(EndOfInput(u.st), ch))
          BY <2>4, <4>3, <5>1, QuoteStep
        <5>3. Same(FeedChar(EndOfInput(u.st), ch), FeedChar(v.st, ch))
          BY <4>3, SameChar
        <5> QED
          BY <4>1, <5>2, <5>3, SameTransitive DEF Follow
      <4> QED
        BY <2>8, <4>2, <4>3
    <3> QED
      BY <3>2, <3>3
  <2> QED
    BY <2>4, <2>9, <2>10
<1>5. Nat \subseteq S
  <2> HIDE DEF S
  <2> QED
    BY <1>3, <1>4, NaturalInduction DEF ByteLaws!Induction
<1>6. Follow(g[Len(w)].st, h[n].st, TRUE) /\ Ready(g[Len(w)].st) /\ Ready(h[n].st)
  BY <1>1, <1>2, <1>5 DEF Follow, After1
<1>7. CASE Same(g[Len(w)].st, h[n].st)
  BY <1>6, <1>7, SameEnd DEF n
<1>8. CASE Same(EndOfInput(g[Len(w)].st), h[n].st)
  <2>1. ~EndOfInput(g[Len(w)].st).quote
    BY <1>6, EndFacts
  <2>2. ~h[n].st.quote
    BY <1>8, <2>1, SameCores DEF SameCore
  <2>3. EndOfInput(h[n].st) = h[n].st
    BY <1>6, <2>2, EndFacts
  <2> QED
    BY <1>8, <2>3 DEF n
<1> QED
  BY <1>6, <1>7, <1>8 DEF Follow

-----------------------------------------------------------------------------
(* What the bytes so far say of the state                                  *)

(* From q to e there is the beginning of a control sequence.               *)
Sequence(x, q, e) ==
    /\ q \in Nat /\ q >= 1 /\ q + 1 <= e /\ x[q] = "ESC" /\ x[q + 1] = "["
    /\ \A j \in q + 2 .. e : x[j] \in Body
Begun(x, e) == (\E q : Sequence(x, q, e)) \/ \E i \in 1 .. e : x[i] = "CSI"
SwitchedOff(x, e) == \E i \in Nat : i >= 1 /\ i + 1 <= e /\ x[i] = "%" /\ x[i + 1] = "@"
(* e is the place of the last byte that st has seen.                       *)
History(x, st, e) ==
    /\ st.state = "percent" => e >= 1 /\ x[e] = "%"
    /\ ~st.utf8 => SwitchedOff(x, e)
    /\ st.state = "escape" \/ st.esc => e >= 1 /\ x[e] = "ESC"
    /\ st.state = "csi" /\ ~st.quote => Begun(x, e)
    /\ st.quote => e >= 1 /\ x[e] = "'" /\ Begun(x, e - 1)

LEMMA HistoryStep ==
    ASSUME NEW x, NEW st, Ready(st), NEW e \in Nat, History(x, st, e), NEW ch, NEW d \in Nat,
           \/ d = e + 1 /\ x[d] = ch
           \/ d = e + 2 /\ ch = "u"
    PROVE  History(x, FeedChar(st, ch), d)
<1> DEFINE b == FeedChar(st, ch)
<1> SUFFICES History(x, b, d)
  OBVIOUS
<1>1. Ready(b) /\ Moves(st, ch, b) /\ Tidy(st) /\ Tidy(b)
  BY CharReady DEF Ready
<1> HIDE DEF b
<1>2. d >= e + 1 /\ d >= 1
  OBVIOUS
<1>3. "u" \notin Body \union {"'"}
  BY DEF Body, Parameters, Digit, Intermediates, Control
<1>4. b.state = "percent" => d >= 1 /\ x[d] = "%"
  BY <1>1, <1>2 DEF Moves
<1>5. b.state = "escape" \/ b.esc => d >= 1 /\ x[d] = "ESC"
  BY <1>1, <1>2 DEF Moves
<1>6. ASSUME ~b.utf8 PROVE SwitchedOff(x, d)
  <2>1. CASE ~st.utf8
    BY <1>2, <2>1 DEF History, SwitchedOff
  <2>2. CASE st.state = "percent" /\ ch = "@"
    <3>1. e >= 1 /\ e + 1 <= d /\ x[e] = "%" /\ x[e + 1] = "@"
      BY <2>2 DEF History
    <3> QED
      BY <3>1 DEF SwitchedOff
  <2> QED
    BY <1>1, <1>6, <2>1, <2>2 DEF Moves
<1>7. CASE b.state = "csi"
  <2>1. \/ ch = "CSI"
        \/ ch = "[" /\ (st.state = "escape" \/ st.esc)
        \/ st.state = "csi" /\ ~st.quote /\ ch \in Body \union {"'"}
    BY <1>1, <1>7 DEF Moves
  <2>2. d = e + 1 /\ x[d] = ch
    BY <1>3, <2>1
  <2>3. b.quote <=> ch = "'"
    BY <1>1, <1>7 DEF Moves
  <2>4. CASE ch = "["
    <3>1. CASE st.state = "escape" \/ st.esc
      <4>1. e >= 1 /\ x[e] = "ESC" /\ x[e + 1] = "["
        BY <2>2, <2>4, <3>1 DEF History
      <4>2. Sequence(x, e, d)
        BY <2>2, <4>1 DEF Sequence
      <4> QED
        BY <1>4, <1>5, <1>6, <2>3, <2>4, <4>2 DEF History, Begun
    <3>2. CASE ch \in Body \union {"'"}
      BY <2>4, <3>2 DEF Body, Parameters, Digit, Intermediates, Control
    <3> QED
      BY <2>1, <2>4, <3>1, <3>2
  <2>5. CASE ch \notin {"[", "CSI"}
    <3>1. Begun(x, e) /\ ch \in Body \union {"'"}
      BY <2>1, <2>5 DEF History
    <3>2. CASE ch = "'"
      <4>1. b.quote /\ x[d] = "'" /\ d - 1 = e
        BY <2>2, <2>3, <3>2
      <4> QED
        BY <1>2, <1>4, <1>5, <1>6, <3>1, <4>1 DEF History
    <3>3. CASE ch # "'"
      <4>1. ch \in Body /\ ~b.quote
        BY <2>3, <3>1, <3>3
      <4>2. ASSUME NEW q, Sequence(x, q, e) PROVE Sequence(x, q, d)
        BY <2>2, <4>1, <4>2 DEF Sequence
      <4>3. Begun(x, d)
        BY <2>2, <3>1, <4>2 DEF Begun
      <4> QED
        BY <1>4, <1>5, <1>6, <4>1, <4>3 DEF History
    <3> QED
      BY <3>2, <3>3
  <2>6. CASE ch = "CSI"
    <3>1. Begun(x, d)
      BY <1>2, <2>2, <2>6 DEF Begun
    <3>2. ~b.quote
      BY <2>3, <2>6
    <3> QED
      BY <1>4, <1>5, <1>6, <3>1, <3>2 DEF History
  <2> QED
    BY <2>4, <2>5, <2>6
<1>8. CASE b.state # "csi"
  <2>1. ~b.quote
    BY <1>1, <1>8 DEF Tidy
  <2> QED
    BY <1>4, <1>5, <1>6, <1>8, <2>1 DEF History
<1> QED
  BY <1>7, <1>8

LEMMA RunHistory ==
    ASSUME NEW B, NEW x \in Seq(B), NEW st, Ready(st), st.pending = <<>>, History(x, st, 0),
           NEW g, Runs(g, x, st)
    PROVE  \A k \in 0 .. Len(x) : g[k].st.pending = <<>> => History(x, g[k].st, g[k].next - 1)
<1> DEFINE H(k) == g[k].st.pending = <<>> => History(x, g[k].st, g[k].next - 1)
           n == Len(x)
           S == {k \in Nat : k <= n => H(k)}
<1>1. Len(x) \in Nat /\ n \in Nat
  OBVIOUS
<1>2. \A k \in 0 .. Len(x) : After1(g, x, k)
  BY RunFacts
<1>3. 0 \in S
  <2>1. g[0].st = st /\ g[0].next - 1 = 0
    BY DEF Runs
  <2> QED
    BY <2>1
<1>4. ASSUME NEW j \in Nat, j \in S PROVE j + 1 \in S
  <2> DEFINE k == j + 1
             u == g[j]
  <2> SUFFICES ASSUME k <= n, g[k].st.pending = <<>> PROVE History(x, g[k].st, g[k].next - 1)
    OBVIOUS
  <2>1. j \in 0 .. Len(x) /\ k \in 0 .. Len(x) /\ k \in 1 .. Len(x) /\ k \in 1 .. n /\ k - 1 = j /\ k \in Nat
        /\ k # 0 /\ j # Len(x)
    BY <1>1
  <2>2. g[k] = FeedByte(u, x, k)
    BY <2>1 DEF Runs
  <2>3. Ready(u.st) /\ u.next \in {k, k + 1} /\ u.st.pending = <<>> /\ u.next \in Nat
    BY <1>2, <2>1 DEF After1
  <2>4. History(x, u.st, u.next - 1)
    BY <1>1, <1>4, <2>3
  <2> HIDE DEF u, k
  <2>5. CASE u.next = k + 1
    <3>1. g[k] = u
      BY <1>1, <2>1, <2>2, <2>3, <2>5, ByteStep
    <3> QED
      BY <2>4, <3>1
  <2>6. CASE u.next = k
    <3>1. ~Holds(x, u.st, k)
      <4>1. SUFFICES ASSUME Holds(x, u.st, k) PROVE FALSE
        OBVIOUS
      <4>2. g[k] = [st |-> Hold(u.st), next |-> k + 1]
        BY <1>1, <2>1, <2>2, <2>3, <2>6, <4>1, ByteStep
      <4>3. Hold(u.st).pending = <<"u1">>
        BY <2>3, PendingFacts DEF Hold
      <4>4. g[k].st = Hold(u.st) /\ <<"u1">> # <<>>
        BY <4>2
      <4> QED
        BY <4>3, <4>4 DEF k
    <3>2. CASE Rune(x, k)
      <4>1. g[k] = [st |-> FeedChar(u.st, "u"), next |-> k + 2]
        BY <1>1, <2>1, <2>2, <2>3, <2>6, <3>2, ByteStep
      <4>2. History(x, FeedChar(u.st, "u"), (k - 1) + 2)
        BY <2>1, <2>3, <2>4, <2>6, HistoryStep
      <4>3. (k - 1) + 2 = (k + 2) - 1
        BY <2>1
      <4> QED
        BY <4>1, <4>2, <4>3
    <3>3. CASE ~Rune(x, k)
      <4>1. g[k] = [st |-> FeedChar(u.st, x[k]), next |-> k + 1]
        BY <1>1, <2>1, <2>2, <2>3, <2>6, <3>1, <3>3, ByteStep
      <4>2. k = (k - 1) + 1 /\ (k + 1) - 1 = k /\ k - 1 \in Nat
        BY <2>1
      <4>3. History(x, FeedChar(u.st, x[k]), k)
        BY <2>1, <2>3, <2>4, <2>6, <4>2, HistoryStep
      <4> QED
        BY <4>1, <4>2, <4>3
    <3> QED
      BY <3>2, <3>3
  <2> QED
    BY <2>3, <2>5, <2>6
<1>5. Nat \subseteq S
  <2> HIDE DEF S
  <2> QED
    BY <1>3, <1>4, NaturalInduction DEF ByteLaws!Induction
<1> QED
  BY <1>1, <1>5

-----------------------------------------------------------------------------
(* One call more                                                           *)

LEMMA FlushReady ==
    ASSUME NEW a, Ready(a)
    PROVE  Ready(Flush(a)) /\ Flushed(Flush(a)) /\ SameCore(Flush(a), a)
<1>1. Shape(a) /\ Tidy(a)
  BY DEF Ready
<1>2. Flushed(Flush(a)) /\ SameCore(Flush(a), a)
  BY <1>1, FlushFacts
<1> QED
  BY <1>1, <1>2 DEF Ready, Tidy, Flushed, SameCore

LEMMA SameFlush ==
    ASSUME NEW a, NEW b, Same(a, b)
    PROVE  Same(Flush(a), Flush(b))
<1>1. Shape(a) /\ Shape(b)
  BY DEF Same
<1>2. Same(a, Flush(a)) /\ Same(b, Flush(b))
  BY <1>1, SameFlushed
<1>3. Same(Flush(a), a)
  BY <1>2, SameSymmetric
<1>4. Same(Flush(a), b)
  BY <1>3, SameTransitive
<1> QED
  BY <1>2, <1>4, SameTransitive

LEMMA SameResumed ==
    ASSUME NEW a, Shape(a), a.pending = <<>>
    PROVE  Same(a, Resumed(a))
<1>1. Flushed(Flush(a)) /\ SameCore(Flush(a), a)
  BY FlushFacts
<1>2. Flush(Resumed(a)) = [Flush(a) EXCEPT !.pending = <<>>]
  BY FlushPending DEF Resumed
<1>3. Shape(Resumed(a))
  BY DEF Resumed, Shape, Fields
<1>4. Alike(Flush(a), [Flush(a) EXCEPT !.pending = <<>>])
  BY <1>1 DEF Alike, Flushed, Shape, SameCore, Fields
<1> QED
  BY <1>2, <1>3, <1>4 DEF Same

(* A byte before the last is fed alike whatever follows the bytes.         *)
LEMMA ByteAgrees ==
    ASSUME NEW acc, acc.next \in Nat, NEW x, NEW z, Len(x) \in Nat, Len(z) \in Nat, NEW k \in Nat,
           k < Len(x), Len(x) <= Len(z), x[k] = z[k], x[k + 1] = z[k + 1]
    PROVE  FeedByte(acc, x, k) = FeedByte(acc, z, k)
<1>1. ~Holds(x, acc.st, k) /\ ~Holds(z, acc.st, k) /\ (Rune(x, k) <=> Rune(z, k))
  BY DEF Holds, Rune
<1>2. CASE k < acc.next
  BY <1>2, ByteStep
<1>3. CASE k >= acc.next
  BY <1>1, <1>3, ByteStep
<1> QED
  BY <1>2, <1>3

(* The last byte of a call, and the same byte with y after it.             *)
SplitRune(f, x, y) ==
    /\ Len(x) >= 1 /\ x[Len(x)] = "u1" /\ y[1] = "u2"
    /\ f[Len(x) - 1].next = Len(x) /\ ~f[Len(x) - 1].st.utf8
SplitQuote(f, x, y) ==
    f[Len(x)].st.quote /\ f[Len(x)].st.pending = <<>> /\ y[1] \in Decides

LEMMA RunsBegin ==
    ASSUME NEW B, NEW x \in Seq(B), NEW y \in Seq(B), NEW st, Ready(st), st.pending = <<>>,
           NEW f, Runs(f, x, st), NEW g, Runs(g, x \o y, st)
    PROVE  /\ \A k \in 0 .. Len(x) : k = 0 \/ k < Len(x) => g[k] = f[k]
           /\ f[Len(x)].st.pending = <<>> /\ ~SplitRune(f, x, y) => g[Len(x)] = f[Len(x)]
<1> DEFINE m == Len(x)
           n == Len(y)
           z == x \o y
           S == {k \in Nat : k = 0 \/ k < m => g[k] = f[k]}
<1>1. m \in Nat /\ n \in Nat /\ Len(z) = m + n /\ \A k \in 1 .. m : z[k] = x[k]
  OBVIOUS
<1>2. n # 0 => z[m + 1] = y[1]
  OBVIOUS
<1>3. Runs(g, z, st)
  OBVIOUS
<1>4. \A k \in 0 .. Len(x) : After1(f, x, k)
  BY RunFacts
<1> HIDE DEF z
<1>5. 0 \in S
  BY <1>3 DEF Runs
<1>6. ASSUME NEW j \in Nat, j \in S PROVE j + 1 \in S
  <2> SUFFICES ASSUME j + 1 < m PROVE g[j + 1] = f[j + 1]
    OBVIOUS
  <2> DEFINE k == j + 1
  <2>1. k \in 1 .. m /\ k + 1 \in 1 .. m /\ k \in 1 .. Len(z) /\ k - 1 = j /\ k \in Nat /\ k < m
        /\ j \in 0 .. m
    BY <1>1
  <2>2. g[k] = FeedByte(g[j], z, k) /\ f[k] = FeedByte(f[j], x, k)
    BY <1>3, <2>1 DEF Runs
  <2>3. f[j].next \in Nat
    BY <1>4, <2>1 DEF After1
  <2>4. FeedByte(f[j], x, k) = FeedByte(f[j], z, k)
    <3> HIDE DEF k
    <3>1. x[k] = z[k] /\ x[k + 1] = z[k + 1]
      BY <1>1, <2>1
    <3>2. Len(x) \in Nat /\ Len(z) \in Nat /\ k \in Nat /\ k < Len(x) /\ Len(x) <= Len(z)
      BY <1>1, <2>1
    <3> DEFINE u == f[j]
    <3>3. u.next \in Nat
      BY <2>3
    <3> HIDE DEF u, m
    <3>4. FeedByte(u, x, k) = FeedByte(u, z, k)
      BY <3>1, <3>2, <3>3, ByteAgrees
    <3> QED
      BY <3>4 DEF u
  <2> QED
    BY <1>6, <2>1, <2>2, <2>4
<1>7. Nat \subseteq S
  <2> HIDE DEF S
  <2> QED
    BY <1>5, <1>6, NaturalInduction DEF ByteLaws!Induction
<1>8. \A k \in 0 .. m : k = 0 \/ k < m => g[k] = f[k]
  BY <1>7
<1>9. ASSUME f[m].st.pending = <<>>, ~SplitRune(f, x, y), m # 0 PROVE g[m] = f[m]
  <2> DEFINE u == f[m - 1]
  <2>1. m - 1 \in 0 .. m /\ m - 1 < m /\ m \in 1 .. Len(x) /\ m \in 1 .. Len(z)
    BY <1>1, <1>9
  <2>2. g[m] = FeedByte(u, z, m) /\ f[m] = FeedByte(u, x, m)
    BY <1>3, <1>8, <2>1 DEF Runs
  <2>3. u.next \in {m, m + 1} /\ Ready(u.st) /\ u.next \in Nat
    BY <1>4, <2>1 DEF After1
  <2>4. x[m] = z[m]
    BY <1>1, <2>1
  <2> HIDE DEF u
  <2>5. CASE u.next = m + 1
    BY <1>1, <2>2, <2>3, <2>5, ByteStep
  <2>6. CASE u.next = m
    <3>1. ~Holds(x, u.st, m)
      <4> SUFFICES ASSUME Holds(x, u.st, m) PROVE FALSE
        OBVIOUS
      <4>1. f[m] = [st |-> Hold(u.st), next |-> m + 1]
        BY <1>1, <2>2, <2>3, <2>6, ByteStep
      <4>2. Hold(u.st).pending = <<"u1">>
        BY <2>3, PendingFacts DEF Hold
      <4>3. f[m].st = Hold(u.st) /\ <<"u1">> # <<>>
        BY <4>1
      <4> QED
        BY <1>9, <4>2, <4>3
    <3>2. ~Rune(x, m) /\ ~Rune(z, m)
      <4>1. ~Rune(x, m)
        BY <1>1 DEF Rune
      <4>2. ASSUME Rune(z, m) PROVE FALSE
        <5>1. x[m] = "u1" /\ m < Len(z) /\ z[m + 1] = "u2"
          BY <2>4, <4>2 DEF Rune
        <5>2. y[1] = "u2"
          BY <1>1, <1>2, <5>1
        <5>3. ~u.st.utf8
          BY <3>1, <5>1 DEF Holds
        <5> QED
          BY <1>1, <1>9, <2>6, <5>1, <5>2, <5>3 DEF SplitRune, u
      <4> QED
        BY <4>1, <4>2
    <3>3. ~Holds(z, u.st, m)
      BY <1>1, <2>4, <3>1 DEF Holds
    <3> QED
      BY <1>1, <2>2, <2>3, <2>4, <2>6, <3>1, <3>2, <3>3, ByteStep
  <2> QED
    BY <2>3, <2>5, <2>6
<1> QED
  BY <1>1, <1>8, <1>9

LEMMA FreshRuns ==
    ASSUME NEW B, NEW x \in Seq(B), NEW st, st.pending = <<>>, Resumed(st) = st
    PROVE  \E g : Runs(g, x, st) /\ FeedBytes(st, x) = Flush(EndOfInput(g[Len(x)].st))
<1> DEFINE data == st.pending \o x
<1>1. data = x /\ st.pending \in Seq(B)
  OBVIOUS
<1>2. \E g : /\ Runs(g, data, Resumed(st))
             /\ FeedBytes(st, x) = Flush(EndOfInput(g[Len(data)].st))
  BY <1>1, FeedBytesRuns
<1> HIDE DEF data
<1> QED
  BY <1>1, <1>2

(* A call that feeds y to what x has made of a parser makes of it what a   *)
(* call with x and y would have made.                                      *)
LEMMA OneMoreCall ==
    ASSUME NEW B, NEW x \in Seq(B), NEW y \in Seq(B), y # <<>>,
           NEW st, Ready(st), st.pending = <<>>, Resumed(st) = st,
           NEW P, Ready(P), Same(P, FeedBytes(st, x)),
           \A f : Runs(f, x, st) => ~SplitRune(f, x, y) /\ ~SplitQuote(f, x, y)
    PROVE  /\ Ready(FeedBytes(P, y)) /\ Flushed(FeedBytes(P, y))
           /\ Same(FeedBytes(P, y), FeedBytes(st, x \o y))
<1> DEFINE m == Len(x)
           n == Len(y)
           z == x \o y
<1>1. /\ m \in Nat /\ n \in Nat /\ n >= 1 /\ z \in Seq(B) /\ Len(z) = m + n
      /\ \A j \in 1 .. n : z[m + j] = y[j]
      /\ <<>> \o x = x /\ <<>> \o y = y /\ <<>> \o z = z /\ <<>> \in Seq(B)
      /\ \A j \in 1 .. m : z[j] = x[j]
  OBVIOUS
<1>2. PICK f : Runs(f, x, st) /\ FeedBytes(st, x) = Flush(EndOfInput(f[m].st))
  BY FreshRuns
<1> HIDE DEF z
<1>3. PICK g : Runs(g, z, st) /\ FeedBytes(st, z) = Flush(EndOfInput(g[Len(z)].st))
  BY <1>1, FreshRuns
<1>4. ~SplitRune(f, x, y) /\ ~SplitQuote(f, x, y)
  BY <1>2
<1>5. \A k \in 0 .. m : After1(f, x, k)
  BY <1>2, RunFacts
<1>6. \A k \in 0 .. Len(z) : After1(g, z, k)
  BY <1>1, <1>3, RunFacts
<1>7. /\ \A k \in 0 .. m : k = 0 \/ k < m => g[k] = f[k]
      /\ f[m].st.pending = <<>> => g[m] = f[m]
  BY <1>2, <1>3, <1>4, RunsBegin DEF z
<1> DEFINE e == f[m].st
<1>8. Ready(e) /\ f[m].next = m + 1
  <2>1. After1(f, x, m)
    BY <1>1, <1>5
  <2>2. ~Rune(x, m)
    BY <1>1 DEF Rune
  <2> QED
    BY <2>1, <2>2 DEF After1
<1>9. Ready(EndOfInput(e)) /\ EndOfInput(e).pending = e.pending
  BY <1>8, EndFacts
<1>10. Same(P, EndOfInput(e)) /\ P.pending = e.pending
  <2>1. Same(EndOfInput(e), Flush(EndOfInput(e)))
    BY <1>9, SameFlushed DEF Ready
  <2>2. Same(Flush(EndOfInput(e)), EndOfInput(e))
    BY <2>1, SameSymmetric
  <2>3. Same(P, Flush(EndOfInput(e)))
    BY <1>2
  <2>4. Same(P, EndOfInput(e))
    BY <2>2, <2>3, SameTransitive
  <2> QED
    BY <1>9, <2>4, SameCores DEF SameCore
<1>11. Ready(Resumed(P)) /\ Resumed(P).pending = <<>>
  BY DEF Resumed, Ready, Shape, Tidy, Fields
\* What remains once the second call's own run is found.
<1>12. ASSUME NEW p \in Nat, NEW data \in Seq(B), P.pending \in Seq(B), data = P.pending \o y,
              Len(z) = p + Len(data), \A j \in 1 .. Len(data) : z[p + j] = data[j],
              g[p].next = p + 1, Same(EndOfInput(g[p].st), Resumed(P)),
              g[p].st.quote => data[1] \notin Decides
       PROVE  Ready(FeedBytes(P, y)) /\ Flushed(FeedBytes(P, y)) /\ Same(FeedBytes(P, y), FeedBytes(st, z))
  <2>1. PICK h : /\ Runs(h, data, Resumed(P))
                 /\ FeedBytes(P, y) = Flush(EndOfInput(h[Len(data)].st))
    BY <1>12, FeedBytesRuns
  <2>2. Same(EndOfInput(g[Len(z)].st), EndOfInput(h[Len(data)].st))
    BY <1>1, <1>3, <1>11, <1>12, <2>1, RunsAlike
  <2>3. Ready(h[Len(data)].st)
    <3>1. \A k \in 0 .. Len(data) : After1(h, data, k)
      BY <1>11, <2>1, RunFacts
    <3>2. Len(data) \in 0 .. Len(data)
      OBVIOUS
    <3> QED
      BY <3>1, <3>2 DEF After1
  <2>4. Ready(FeedBytes(P, y)) /\ Flushed(FeedBytes(P, y))
    <3>1. Ready(EndOfInput(h[Len(data)].st))
      BY <2>3, EndFacts
    <3> QED
      BY <2>1, <3>1, FlushReady
  <2>5. Same(EndOfInput(h[Len(data)].st), EndOfInput(g[Len(z)].st))
    BY <2>2, SameSymmetric
  <2> QED
    BY <1>3, <2>1, <2>4, <2>5, SameFlush
<1>13. CASE e.pending = <<>>
  <2>1. g[m] = f[m]
    BY <1>7, <1>13
  <2>2. Same(EndOfInput(e), Resumed(P))
    <3>1. Same(P, Resumed(P))
      BY <1>10, <1>13, SameResumed DEF Ready
    <3>2. Same(EndOfInput(e), P)
      BY <1>10, SameSymmetric
    <3> QED
      BY <3>1, <3>2, SameTransitive
  <2>3. e.quote => y[1] \notin Decides
    BY <1>4, <1>13 DEF SplitQuote
  <2>4. P.pending = <<>> /\ y = P.pending \o y
    BY <1>1, <1>10, <1>13
  <2>5. g[m].next = m + 1 /\ g[m].st = e
    BY <1>8, <2>1
  <2> HIDE DEF e
  <2>6. Ready(FeedBytes(P, y)) /\ Flushed(FeedBytes(P, y)) /\ Same(FeedBytes(P, y), FeedBytes(st, z))
    BY <1>1, <1>12, <2>2, <2>3, <2>4, <2>5
  <2> QED
    BY <2>6 DEF z
<1>14. CASE e.pending # <<>>
  <2> DEFINE u == f[m - 1].st
             data == <<"u1">> \o y
             p == m - 1
  <2>1. m >= 1 /\ x[m] = "u1" /\ f[m - 1].next = m /\ e = Hold(u) /\ u.pending = <<>>
    <3>1. After1(f, x, m)
      BY <1>1, <1>5
    <3> QED
      BY <1>14, <3>1 DEF After1, Holds
  <2>2. p \in Nat /\ p \in 0 .. m /\ p < m /\ p + 1 = m /\ m \in 1 .. m
    BY <1>1, <2>1
  <2>3. Ready(u)
    BY <1>5, <2>2 DEF After1
  <2>4. "u1" \in B
    BY <2>1, <2>2
  <2>5. data \in Seq(B) /\ Len(data) = n + 1 /\ data[1] = "u1" /\ <<"u1">> \in Seq(B)
        /\ \A j \in 1 .. n : data[j + 1] = y[j]
    BY <2>4
  <2>6. P.pending = <<"u1">>
    <3>1. Hold(u).pending = <<"u1">>
      BY <2>3, PendingFacts DEF Hold
    <3> QED
      BY <1>10, <2>1, <3>1
  <2> HIDE DEF data, e, u
  <2>7. Len(z) = p + Len(data) /\ \A j \in 1 .. Len(data) : z[p + j] = data[j]
    <3>1. Len(z) = p + Len(data)
      BY <1>1, <2>2, <2>5
    <3>2. ASSUME NEW j \in 1 .. Len(data) PROVE z[p + j] = data[j]
      <4>1. CASE j = 1
        <5>1. p + j = m /\ z[m] = x[m]
          BY <1>1, <2>2, <4>1
        <5> QED
          BY <2>1, <2>5, <4>1, <5>1
      <4>2. CASE j # 1
        <5>1. j - 1 \in 1 .. n /\ (j - 1) + 1 = j /\ p + j = m + (j - 1)
          BY <1>1, <2>2, <2>5, <4>2
        <5>2. data[j] = y[j - 1] /\ z[m + (j - 1)] = y[j - 1]
          BY <1>1, <2>5, <5>1
        <5> QED
          BY <5>1, <5>2
      <4> QED
        BY <4>1, <4>2
    <3> QED
      BY <3>1, <3>2
  <2>8. g[p] = f[p] /\ g[p].next = p + 1 /\ g[p].st = u
    BY <1>7, <2>1, <2>2 DEF u
  <2>9. Same(EndOfInput(u), Resumed(P))
    <3> DEFINE E == EndOfInput(u)
    <3>1. Ready(E) /\ E.pending = <<>>
      BY <2>1, <2>3, EndFacts
    <3>2. Same(EndOfInput(Hold(u)), Hold(E))
      BY <2>3, EndPending DEF Hold
    <3>3. Same(P, Hold(E))
      BY <1>10, <2>1, <3>2, SameTransitive
    <3> HIDE DEF E
    <3>4. Same(Resumed(P), Resumed(Hold(E)))
      BY <3>3, SamePending DEF Resumed
    <3>5. Resumed(Hold(E)) = Resumed(E)
      BY <3>1 DEF Resumed, Hold, Ready, Shape, Fields
    <3>6. Same(E, Resumed(E))
      BY <3>1, SameResumed DEF Ready
    <3>7. Same(Resumed(E), Resumed(P))
      BY <3>4, <3>5, SameSymmetric
    <3> QED
      BY <3>6, <3>7, SameTransitive DEF E
  <2>10. data[1] \notin Decides
    BY <2>5 DEF Decides
  <2>11. data = P.pending \o y /\ P.pending \in Seq(B)
    BY <2>5, <2>6 DEF data
  <2> HIDE DEF p
  <2>12. Ready(FeedBytes(P, y)) /\ Flushed(FeedBytes(P, y)) /\ Same(FeedBytes(P, y), FeedBytes(st, z))
    BY <1>12, <2>2, <2>5, <2>7, <2>8, <2>9, <2>10, <2>11
  <2> QED
    BY <2>12 DEF z
<1> QED
  BY <1>13, <1>14
-----------------------------------------------------------------------------
(* Where DecodeSequence ends a sequence                                    *)

NextDecode(buf, acc, i) == IF i = 1 THEN acc ELSE Decode(acc, buf, i)
DecodeLaws == INSTANCE FoldLaws WITH Op <- NextDecode
NextWhole(buf, acc, i) ==
    IF acc.stop \/ acc.end >= Len(buf) THEN acc
    ELSE LET d == DecodeSequence(SubSeq(buf, acc.end + 1, Len(buf)))
         IN  IF d.state = "done" /\ d.n > 0 THEN [acc EXCEPT !.end = @ + d.n]
             ELSE [acc EXCEPT !.stop = TRUE]
WholeLaws == INSTANCE FoldLaws WITH Op <- NextWhole

(* From q to e there is a control sequence as both parsers know them, and  *)
(* no end of it.                                                           *)
Open(z, q, e) ==
    /\ q \in Nat /\ q >= 1 /\ q <= e /\ e <= Len(z) /\ z[q] = "ESC"
    /\ q < e => z[q + 1] = "["
    /\ \A j \in q + 2 .. e : z[j] \in Parameters \union Intermediates
    /\ \A j \in q + 2 .. e - 1 : ~(z[j] \in Intermediates /\ z[j + 1] \in Parameters)
(* A place e where such a sequence is not cut: one that would be is broken *)
(* by the byte after e, which is there.                                    *)
Boundary(z, e) ==
    \A q : Open(z, q, e) => /\ e < Len(z) /\ ~Open(z, q, e + 1)
                            /\ z[e + 1] \in C0 \union High \union Parameters

LEMMA OpenPrefix ==
    ASSUME NEW z, Len(z) \in Nat, NEW q, NEW e \in Nat, NEW d \in Nat, Open(z, q, e), q <= d, d <= e
    PROVE  Open(z, q, d)
  BY DEF Open

Known == {"escape", "params", "inter", "string"}
DecodeFields == {"state", "kind", "n"}
(* What one byte b can do to a sequence in state s, at place i.            *)
Decoded(s, b, c, buf, i) ==
    /\ DOMAIN c = DecodeFields /\ c.state \in Known \union {"done"}
    /\ b = "ESC" => c.state = "done"
    /\ c.state = "done" =>
          \/ /\ c.n = i - 1 /\ b \in C0 \union High \union Parameters
             /\ b \in Parameters => s = "inter"
          \/ /\ c.n = i /\ b # "ESC"
             /\ s = "escape" => b # "["
             /\ s \in {"params", "inter"} => b \notin Parameters \union Intermediates
          \/ c.n = i + 1 /\ s = "string" /\ i < Len(buf) /\ buf[i + 1] = "\\"
    /\ s = "escape" /\ b = "[" => c.state = "params"
    /\ s \in {"params", "inter"} /\ b \in Parameters \union Intermediates /\ c.state # "done"
          => c.state = IF b \in Intermediates THEN "inter" ELSE "params"

LEMMA ByteSets ==
    /\ (C0 \union High) \cap (Parameters \union Intermediates) = {}
    /\ Parameters \cap Intermediates = {}
    /\ "ESC" \in C0 /\ "CAN" \in C0 /\ "SUB" \in C0
    /\ "[" \notin C0 \union High \union Parameters \union Intermediates
    /\ "\\" \notin C0 \union High \union Parameters \union Intermediates
    /\ "u1" \in High /\ "u2" \in High /\ C1 \subseteq High /\ "ESC" \notin High
  BY DEF C0, C1, High, Parameters, Intermediates, Digit

LEMMA DecodeStep ==
    ASSUME NEW acc, DOMAIN acc = DecodeFields, acc.state \in Known, NEW buf, NEW i
    PROVE  Decoded(acc.state, buf[i], Decode(acc, buf, i), buf, i)
<1> DEFINE b == buf[i]
           s == acc.state
           c == Decode(acc, buf, i)
           go(state) == [acc EXCEPT !.state = state]
           end(n)    == [acc EXCEPT !.state = "done", !.n = n]
<1> SUFFICES Decoded(s, b, c, buf, i)
  OBVIOUS
<1>1. /\ \A n : DOMAIN end(n) = DecodeFields /\ end(n).state = "done" /\ end(n).n = n
      /\ \A t : DOMAIN go(t) = DecodeFields /\ go(t).state = t
      /\ \A t, k : LET e == [go(t) EXCEPT !.kind = k] IN DOMAIN e = DecodeFields /\ e.state = t
  BY DEF DecodeFields
<1>2. CASE s = "escape"
  <2>1. CASE b \in {"[", "P", "]", "X", "^", "_"}
    <3>1. b \notin C0 \union High \union Intermediates /\ b # "ESC"
      BY <2>1 DEF C0, C1, High, Intermediates
    <3>2. CASE b \in {"[", "P"}
      <4>1. c = [go("params") EXCEPT !.kind = b]
        BY <1>2, <3>1, <3>2 DEF Decode
      <4>2. c.state = "params" /\ DOMAIN c = DecodeFields
        BY <1>1, <4>1
      <4> HIDE DEF c
      <4> QED
        BY <1>2, <3>1, <4>2 DEF Decoded, Known
    <3>3. CASE b \in {"]", "X", "^", "_"}
      <4>1. c = [go("string") EXCEPT !.kind = b] /\ b # "["
        BY <1>2, <3>1, <3>3 DEF Decode
      <4>2. c.state = "string" /\ DOMAIN c = DecodeFields
        BY <1>1, <4>1
      <4> HIDE DEF c
      <4> QED
        BY <1>2, <3>1, <4>1, <4>2 DEF Decoded, Known
    <3> QED
      BY <2>1, <3>2, <3>3
  <2>2. CASE b \notin {"[", "P", "]", "X", "^", "_"} /\ b \in Intermediates
    <3>1. b \notin C0 \union High /\ b # "ESC"
      BY <2>2, ByteSets
    <3>2. c = acc
      BY <1>2, <2>2, <3>1 DEF Decode
    <3> HIDE DEF c
    <3> QED
      BY <1>2, <2>2, <3>1, <3>2 DEF Decoded, Known
  <2>3. CASE b \notin {"[", "P", "]", "X", "^", "_"} /\ b \in C0 \union High
    <3>1. b \notin Parameters \union Intermediates
      BY <2>3, ByteSets
    <3>2. c = end(i - 1)
      BY <1>2, <2>3, <3>1 DEF Decode
    <3> HIDE DEF c, end
    <3> QED
      BY <1>1, <1>2, <2>3, <3>1, <3>2 DEF Decoded
  <2>4. CASE b \notin {"[", "P", "]", "X", "^", "_"} \union Intermediates \union C0 \union High
    <3>1. c = end(i) /\ b # "ESC"
      BY <1>2, <2>4, ByteSets DEF Decode
    <3> HIDE DEF c, end
    <3> QED
      BY <1>1, <1>2, <2>4, <3>1 DEF Decoded
  <2> QED
    BY <2>1, <2>2, <2>3, <2>4
<1>3. CASE s \in {"params", "inter"}
  <2>1. CASE b \in Parameters \union Intermediates
    <3>1. b \notin C0 \union High /\ b # "ESC"
      BY <2>1, ByteSets
    <3>2. CASE b \in Intermediates
      <4>1. c = go("inter") /\ b \notin Parameters
        BY <1>3, <3>1, <3>2, ByteSets DEF Decode
      <4> HIDE DEF c, go
      <4> QED
        BY <1>1, <1>3, <3>1, <3>2, <4>1 DEF Decoded, Known
    <3>3. CASE b \in Parameters /\ s = "params"
      <4>1. c = acc /\ b \notin Intermediates
        BY <1>3, <3>1, <3>3, ByteSets DEF Decode
      <4> HIDE DEF c
      <4> QED
        BY <1>3, <3>1, <3>3, <4>1 DEF Decoded, Known
    <3>4. CASE b \in Parameters /\ s = "inter"
      <4>1. c = end(i - 1)
        BY <1>3, <3>1, <3>4, ByteSets DEF Decode
      <4> HIDE DEF c, end
      <4> QED
        BY <1>1, <3>1, <3>4, <4>1 DEF Decoded
    <3> QED
      BY <1>3, <2>1, <3>2, <3>3, <3>4
  <2>2. CASE b \in C0 \union High
    <3>1. b \notin Parameters \union Intermediates
      BY <2>2, ByteSets
    <3>2. c = end(i - 1)
      BY <1>3, <2>2, <3>1 DEF Decode
    <3> HIDE DEF c, end
    <3> QED
      BY <1>1, <1>3, <2>2, <3>1, <3>2 DEF Decoded
  <2>3. CASE b \notin C0 \union High \union Parameters \union Intermediates
    <3>1. c = go("string") \/ c = end(i)
      BY <1>3, <2>3 DEF Decode
    <3>2. b # "ESC"
      BY <2>3, ByteSets
    <3> HIDE DEF c, end, go
    <3> QED
      BY <1>1, <1>3, <2>3, <3>1, <3>2 DEF Decoded, Known
  <2> QED
    BY <2>1, <2>2, <2>3
<1>4. CASE s = "string"
  <2>1. \/ b \in {"BEL", "ST"} /\ c = end(i)
        \/ b \in {"CAN", "SUB", "ESC"} /\ c = end(i - 1)
        \/ b = "ESC" /\ c = end(i + 1) /\ i < Len(buf) /\ buf[i + 1] = "\\"
        \/ b # "ESC" /\ c = acc
    BY <1>4 DEF Decode
  <2> HIDE DEF c, end
  <2>2. CASE b \in {"CAN", "SUB", "ESC"} /\ c = end(i - 1)
    <3>1. b \in C0 /\ b \notin Parameters
      BY <2>2, ByteSets
    <3> QED
      BY <1>1, <1>4, <2>2, <3>1 DEF Decoded
  <2> QED
    BY <1>1, <1>4, <2>1, <2>2 DEF Decoded, Known
<1> QED
  BY <1>2, <1>3, <1>4 DEF Known

(* What is so of a sequence that began at place 1, after k bytes of it.    *)
Inside(acc, buf, k) ==
    /\ DOMAIN acc = DecodeFields /\ acc.state \in Known \union {"done"}
    /\ acc.state = "done" => acc.n \in 1 .. Len(buf) /\ Boundary(buf, acc.n)
    /\ acc.state # "done" =>
          /\ \A q \in 2 .. k : buf[q] # "ESC"
          /\ Open(buf, 1, k) => acc.state = CASE k = 1 -> "escape"
                                              [] k # 1 /\ buf[k] \in Intermediates -> "inter"
                                              [] k # 1 /\ buf[k] \notin Intermediates -> "params"

LEMMA InsideStep ==
    ASSUME NEW buf, Len(buf) \in Nat, NEW k \in Nat, k >= 1, k + 1 <= Len(buf),
           NEW acc, Inside(acc, buf, k), acc.state # "done"
    PROVE  Inside(Decode(acc, buf, k + 1), buf, k + 1)
<1> DEFINE i == k + 1
           c == Decode(acc, buf, i)
           b == buf[i]
           s == acc.state
<1> SUFFICES Inside(c, buf, i)
  OBVIOUS
<1>1. Decoded(s, b, c, buf, i)
  BY DecodeStep DEF Inside
<1>2. /\ \A q \in 2 .. k : buf[q] # "ESC"
      /\ i \in Nat /\ i - 1 = k /\ i # 1 /\ i >= 2
      /\ s \in Known
  BY DEF Inside
<1>3. Open(buf, 1, k) => s = CASE k = 1 -> "escape"
                               [] k # 1 /\ buf[k] \in Intermediates -> "inter"
                               [] k # 1 /\ buf[k] \notin Intermediates -> "params"
  BY DEF Inside
<1> HIDE DEF c, i
\* With the first byte only the ESC at place 1 can have opened a sequence.
<1>4. \A q, e : Open(buf, q, e) /\ q <= k => q = 1
  <2>1. SUFFICES ASSUME NEW q, NEW e, Open(buf, q, e), q <= k, q # 1 PROVE FALSE
    OBVIOUS
  <2>2. q \in 2 .. k /\ buf[q] = "ESC"
    BY <2>1 DEF Open
  <2> QED
    BY <1>2, <2>2
<1>5. \A q, e : Open(buf, q, e) => q \in Nat /\ q >= 1 /\ q <= e
  BY DEF Open
<1>6. CASE s = "string" \/ (s = "escape" /\ k # 1)
  <2>1. ~Open(buf, 1, k)
    BY <1>3, <1>6
  <2>2. ~Open(buf, 1, i)
    BY <1>2, <2>1, OpenPrefix
  <2>3. ~Open(buf, 1, i + 1)
    BY <1>2, <2>1, OpenPrefix
  <2>4. ASSUME c.state = "done" PROVE c.n \in 1 .. Len(buf) /\ Boundary(buf, c.n)
    <3>1. CASE c.n = k
      <4>1. \A q : ~Open(buf, q, k)
        BY <1>4, <1>5, <2>1
      <4> QED
        BY <3>1, <4>1 DEF Boundary
    <3>2. CASE c.n = i /\ b # "ESC"
      <4>1. \A q : ~Open(buf, q, i)
        <5>1. SUFFICES ASSUME NEW q, Open(buf, q, i) PROVE FALSE
          OBVIOUS
        <5>2. q \in Nat /\ q <= i /\ buf[q] = "ESC"
          BY <5>1 DEF Open
        <5>3. q <= k
          BY <1>2, <3>2, <5>2
        <5> QED
          BY <1>4, <2>2, <5>1, <5>3
      <4> QED
        BY <1>2, <3>2, <4>1 DEF Boundary, i
    <3>3. CASE c.n = i + 1 /\ i < Len(buf) /\ buf[i + 1] = "\\"
      <4>1. \A q : ~Open(buf, q, i + 1)
        <5>1. SUFFICES ASSUME NEW q, Open(buf, q, i + 1) PROVE FALSE
          OBVIOUS
        <5>2. q \in Nat /\ q <= i + 1 /\ buf[q] = "ESC" /\ (q = i => buf[i + 1] = "[")
          BY <1>2, <5>1 DEF Open
        <5>3. q <= k
          BY <1>2, <3>3, <5>2
        <5> QED
          BY <1>4, <2>3, <5>1, <5>3
      <4> QED
        BY <1>2, <3>3, <4>1 DEF Boundary
    <3> QED
      BY <1>1, <1>2, <2>4, <3>1, <3>2, <3>3 DEF Decoded
  <2>5. ASSUME c.state # "done" PROVE \A q \in 2 .. i : buf[q] # "ESC"
    BY <1>1, <1>2, <2>5 DEF Decoded
  <2> QED
    BY <1>1, <2>2, <2>4, <2>5 DEF Decoded, Inside
<1>7. CASE s = "escape" /\ k = 1
  <2>1. ASSUME c.state = "done" PROVE c.n \in 1 .. Len(buf) /\ Boundary(buf, c.n)
    <3>1. CASE c.n = k /\ b \in C0 \union High \union Parameters
      <4>1. \A q : Open(buf, q, k) => q = 1
        BY <1>4, <1>5
      <4>2. b # "[" /\ ~Open(buf, 1, i)
        BY <1>2, <1>7, <3>1, ByteSets DEF Open
      <4> QED
        BY <1>2, <3>1, <4>1, <4>2 DEF Boundary, i
    <3>2. CASE c.n = i /\ b # "ESC" /\ b # "["
      <4>1. \A q : ~Open(buf, q, i)
        BY <1>2, <1>7, <3>2 DEF Open
      <4> QED
        BY <1>2, <3>2, <4>1 DEF Boundary, i
    <3> QED
      BY <1>1, <1>2, <1>7, <2>1, <3>1, <3>2 DEF Decoded
  <2>2. ASSUME c.state # "done" PROVE \A q \in 2 .. i : buf[q] # "ESC"
    BY <1>1, <1>2, <2>2 DEF Decoded
  <2>3. ASSUME c.state # "done", Open(buf, 1, i) PROVE c.state = "params" /\ b \notin Intermediates
    <3>1. b = "["
      BY <1>2, <1>7, <2>3 DEF Open
    <3> QED
      BY <1>1, <1>7, <3>1, ByteSets DEF Decoded
  <2> QED
    BY <1>1, <1>2, <2>1, <2>2, <2>3 DEF Decoded, Inside
<1>8. CASE s \in {"params", "inter"}
  <2>1. ASSUME Open(buf, 1, k) PROVE k # 1 /\ (s = "inter" <=> buf[k] \in Intermediates)
    BY <1>3, <1>8, <2>1
  <2>2. ASSUME Open(buf, 1, i)
        PROVE  b \in Parameters \union Intermediates /\ ~(buf[k] \in Intermediates /\ b \in Parameters)
               /\ Open(buf, 1, k)
    <3>1. Open(buf, 1, k)
      BY <1>2, <2>2, OpenPrefix
    <3>2. i \in 3 .. i /\ (k = 2 => buf[k] = "[") /\ (k # 2 => k \in 3 .. i - 1)
      BY <1>2, <2>1, <2>2, <3>1 DEF Open
    <3>3. b \in Parameters \union Intermediates
      BY <2>2, <3>2 DEF Open
    <3>4. k # 2 => ~(buf[k] \in Intermediates /\ b \in Parameters)
      BY <2>2, <3>2 DEF Open, i
    <3> QED
      BY <3>1, <3>2, <3>3, <3>4, ByteSets
  <2>3. ASSUME c.state = "done" PROVE c.n \in 1 .. Len(buf) /\ Boundary(buf, c.n)
    <3>1. CASE c.n = k /\ b \in C0 \union High \union Parameters /\ (b \in Parameters => s = "inter")
      <4>1. \A q : Open(buf, q, k) => q = 1
        BY <1>4, <1>5
      <4>2. Open(buf, 1, k) => ~Open(buf, 1, i)
        BY <2>1, <2>2, <3>1, ByteSets
      <4> QED
        BY <1>2, <3>1, <4>1, <4>2 DEF Boundary, i
    <3>2. CASE c.n = i /\ b # "ESC" /\ b \notin Parameters \union Intermediates
      <4>1. \A q : ~Open(buf, q, i)
        <5>1. SUFFICES ASSUME NEW q, Open(buf, q, i) PROVE FALSE
          OBVIOUS
        <5>2. q \in Nat /\ q <= i /\ buf[q] = "ESC"
          BY <5>1 DEF Open
        <5>3. q = 1
          BY <1>2, <1>4, <3>2, <5>1, <5>2
        <5> QED
          BY <2>2, <3>2, <5>1, <5>3
      <4> QED
        BY <1>2, <3>2, <4>1 DEF Boundary, i
    <3> QED
      BY <1>1, <1>2, <1>8, <2>3, <3>1, <3>2 DEF Decoded
  <2>4. ASSUME c.state # "done" PROVE \A q \in 2 .. i : buf[q] # "ESC"
    BY <1>1, <1>2, <2>4 DEF Decoded
  <2>5. ASSUME c.state # "done", Open(buf, 1, i)
        PROVE  c.state = IF b \in Intermediates THEN "inter" ELSE "params"
    BY <1>1, <1>8, <2>2, <2>5 DEF Decoded
  <2> QED
    BY <1>1, <1>2, <2>3, <2>4, <2>5 DEF Decoded, Inside
<1>9. s = "string" \/ (s = "escape" /\ k # 1) \/ (s = "escape" /\ k = 1) \/ s \in {"params", "inter"}
  BY <1>2 DEF Known
<1> QED
  BY <1>6, <1>7, <1>8, <1>9

LEMMA DecodeInduction == DecodeLaws!Induction /\ WholeLaws!Induction
  BY NaturalInduction DEF ByteLaws!Induction, DecodeLaws!Induction, WholeLaws!Induction

LEMMA Started ==
    ASSUME NEW B, NEW buf \in Seq(B), buf # <<>>, NEW b, DOMAIN b = DecodeFields, b.state \in Known,
           buf[1] = "ESC" => b.state = "escape"
    PROVE  Inside(FoldLeft(LAMBDA acc, i : IF i = 1 THEN acc ELSE Decode(acc, buf, i), b,
                           [i \in DOMAIN buf |-> i]),
                  buf, Len(buf))
<1> DEFINE n == Len(buf)
           places == [i \in DOMAIN buf |-> i]
           result == FoldLeft(LAMBDA acc, i : IF i = 1 THEN acc ELSE Decode(acc, buf, i), b, places)
<1>1. n \in Nat /\ n >= 1 /\ DOMAIN buf = 1 .. n /\ Len(buf) = n
  OBVIOUS
<1>2. places \in Seq(Nat) /\ Len(places) = n /\ \A k \in 1 .. n : places[k] = k
  BY <1>1
<1>3. result = DecodeLaws!Fold(buf, b, places)
  BY DEF FoldLeft, MapThenFoldSet, Max, DecodeLaws!Fold, DecodeLaws!Greatest, NextDecode
<1> SUFFICES Inside(result, buf, n)
  BY <1>1
<1> HIDE DEF places, result, n
<1>4. PICK g : DecodeLaws!Results(buf, g, b, places) /\ DecodeLaws!Fold(buf, b, places) = g[Len(places)]
  BY <1>2, DecodeInduction, DecodeLaws!FoldResults
<1>5. g[0] = b /\ \A k \in 1 .. n : g[k] = NextDecode(buf, g[k - 1], k)
  BY <1>2, <1>4 DEF DecodeLaws!Results, DecodeLaws!Follows
<1> DEFINE S == {j \in Nat : j + 1 <= n => Inside(g[j + 1], buf, j + 1)}
<1>6. 0 \in S
  <2>1. g[1] = NextDecode(buf, g[0], 1)
    BY <1>1, <1>5
  <2>2. g[1] = b
    BY <1>5, <2>1 DEF NextDecode
  <2>3. Open(buf, 1, 1) => buf[1] = "ESC"
    BY DEF Open
  <2>4. b.state # "done"
    BY DEF Known
  <2>5. Inside(b, buf, 1)
    BY <2>3, <2>4 DEF Inside
  <2> QED
    BY <2>2, <2>5
<1>7. ASSUME NEW j \in Nat, j \in S PROVE j + 1 \in S
  <2> DEFINE k == j + 1
  <2> SUFFICES ASSUME k + 1 <= n PROVE Inside(g[k + 1], buf, k + 1)
    OBVIOUS
  <2>1. k \in Nat /\ k >= 1 /\ k + 1 \in 1 .. n /\ (k + 1) - 1 = k /\ k + 1 # 1
    BY <1>1
  <2>2. Inside(g[k], buf, k)
    BY <1>1, <1>7, <2>1
  <2> HIDE DEF k
  <2>3. g[k + 1] = Decode(g[k], buf, k + 1)
    BY <1>5, <2>1 DEF NextDecode
  <2>4. CASE g[k].state = "done"
    <3>1. g[k + 1] = g[k]
      BY <2>3, <2>4 DEF Decode
    <3> QED
      BY <2>2, <2>4, <3>1 DEF Inside
  <2>5. CASE g[k].state # "done"
    <3>1. Len(buf) \in Nat /\ k + 1 <= Len(buf)
      BY <1>1, <2>1
    <3> QED
      BY <2>1, <2>2, <2>3, <2>5, <3>1, InsideStep
  <2> QED
    BY <2>4, <2>5
<1>8. Nat \subseteq S
  <2> HIDE DEF S
  <2> QED
    BY <1>6, <1>7, NaturalInduction DEF ByteLaws!Induction
<1>9. Inside(g[n], buf, n)
  <2>1. n - 1 \in Nat /\ (n - 1) + 1 = n
    BY <1>1
  <2>2. n - 1 \in S
    BY <1>8, <2>1
  <2> QED
    BY <2>1, <2>2
<1> QED
  BY <1>2, <1>3, <1>4, <1>9

(* DecodeSequence ends no sequence where the parser would go on with it.   *)
LEMMA DecodeEnds ==
    ASSUME NEW B, NEW buf \in Seq(B), buf # <<>>
    PROVE  /\ DecodeSequence(buf).state = "done" =>
                  /\ DecodeSequence(buf).n \in 1 .. Len(buf)
                  /\ Boundary(buf, DecodeSequence(buf).n)
           /\ buf[1] \in {"CAN", "SUB"} => DecodeSequence(buf).state = "done"
<1> DEFINE d == DecodeSequence(buf)
           first == buf[1]
           start(state, kind) ==
               FoldLeft(LAMBDA acc, i : IF i = 1 THEN acc ELSE Decode(acc, buf, i),
                        [state |-> state, kind |-> kind, n |-> Len(buf)],
                        [i \in DOMAIN buf |-> i])
           one(n) == [state |-> "done", kind |-> None, n |-> n]
<1> SUFFICES /\ d.state = "done" => d.n \in 1 .. Len(buf) /\ Boundary(buf, d.n)
             /\ first \in {"CAN", "SUB"} => d.state = "done"
  OBVIOUS
<1>1. Len(buf) \in Nat /\ Len(buf) >= 1 /\ Head(buf) = first
  OBVIOUS
<1>2. \A s, k : s \in Known /\ (first = "ESC" => s = "escape") => Inside(start(s, k), buf, Len(buf))
  <2>1. SUFFICES ASSUME NEW s, NEW k, s \in Known, first = "ESC" => s = "escape"
                 PROVE  Inside(start(s, k), buf, Len(buf))
    OBVIOUS
  <2> DEFINE b == [state |-> s, kind |-> k, n |-> Len(buf)]
  <2>2. DOMAIN b = DecodeFields /\ b.state = s
    BY DEF DecodeFields
  <2> HIDE DEF b
  <2>3. Inside(FoldLeft(LAMBDA acc, i : IF i = 1 THEN acc ELSE Decode(acc, buf, i), b,
                        [i \in DOMAIN buf |-> i]), buf, Len(buf))
    BY <2>1, <2>2, Started
  <2> QED
    BY <2>3 DEF b
<1>3. CASE first \in {"ESC", "CSI", "DCS", "OSC", "SOS", "PM", "APC"}
  <2>1. \E s, k : s \in Known /\ (first = "ESC" => s = "escape") /\ d = start(s, k)
    <3> HIDE DEF start
    <3>1. \/ first = "ESC" /\ d = start("escape", None)
          \/ first = "CSI" /\ d = start("params", "[")
          \/ first = "DCS" /\ d = start("params", "P")
          \/ first = "OSC" /\ d = start("string", "]")
          \/ first \in {"SOS", "PM", "APC"} /\ d = start("string", "_")
      BY <1>1, <1>3 DEF DecodeSequence, start
    <3>2. {"escape", "params", "string"} \subseteq Known
      BY DEF Known
    <3> HIDE DEF d
    <3>3. CASE first = "ESC" /\ d = start("escape", None)
      BY <3>2, <3>3
    <3>4. CASE first = "CSI" /\ d = start("params", "[")
      BY <3>2, <3>4
    <3>5. CASE first = "DCS" /\ d = start("params", "P")
      BY <3>2, <3>5
    <3>6. CASE first = "OSC" /\ d = start("string", "]")
      BY <3>2, <3>6
    <3>7. CASE first \in {"SOS", "PM", "APC"} /\ d = start("string", "_")
      BY <3>2, <3>7
    <3> QED
      BY <3>1, <3>3, <3>4, <3>5, <3>6, <3>7
  <2> HIDE DEF start
  <2>2. Inside(d, buf, Len(buf))
    BY <1>2, <2>1
  <2> QED
    BY <1>3, <2>2 DEF Inside
<1>4. CASE first = "u1"
  <2>1. d = one(IF Len(buf) > 1 /\ buf[2] = "u2" THEN 2 ELSE 1)
    BY <1>1, <1>4 DEF DecodeSequence
  <2>2. d.n \in {1, 2} /\ d.n <= Len(buf) /\ (d.n = 2 => buf[2] = "u2")
    BY <1>1, <2>1
  <2> HIDE DEF d
  <2>3. \A q : ~Open(buf, q, d.n)
    BY <1>4, <2>2 DEF Open
  <2> QED
    BY <1>1, <1>4, <2>2, <2>3 DEF Boundary
<1>5. CASE first \notin {"ESC", "CSI", "DCS", "OSC", "SOS", "PM", "APC", "u1"}
  <2>1. d = one(1)
    BY <1>1, <1>5 DEF DecodeSequence
  <2>2. d.n = 1 /\ d.state = "done"
    BY <2>1
  <2> HIDE DEF d
  <2>3. \A q : ~Open(buf, q, 1)
    BY <1>5 DEF Open
  <2> QED
    BY <1>1, <2>2, <2>3 DEF Boundary
<1> QED
  BY <1>3, <1>4, <1>5

(* buf is a part of z, after its first e bytes.                            *)
PartOf(buf, z, e) ==
    /\ Len(buf) \in Nat /\ e + Len(buf) <= Len(z) /\ \A j \in 1 .. Len(buf) : z[e + j] = buf[j]

LEMMA OpenShift ==
    ASSUME NEW e \in Nat, NEW z, NEW buf, PartOf(buf, z, e), Len(z) \in Nat,
           NEW q, NEW k \in Nat, k <= Len(buf), q > e, Open(z, q, e + k)
    PROVE  Open(buf, q - e, k)
<1> DEFINE p == q - e
<1>1. /\ q \in Nat /\ p \in Nat /\ p >= 1 /\ p <= k /\ e + p = q /\ z[q] = "ESC"
      /\ Len(buf) \in Nat /\ \A j \in 1 .. Len(buf) : z[e + j] = buf[j]
  BY DEF Open, PartOf
<1>2. buf[p] = "ESC"
  <2>1. p \in 1 .. Len(buf)
    BY <1>1
  <2> QED
    BY <1>1, <2>1
<1>3. ASSUME p < k PROVE buf[p + 1] = "["
  <2>1. p + 1 \in 1 .. Len(buf) /\ e + (p + 1) = q + 1 /\ q < e + k
    BY <1>1, <1>3
  <2> QED
    BY <1>1, <2>1 DEF Open
<1>4. ASSUME NEW j \in p + 2 .. k PROVE buf[j] \in Parameters \union Intermediates
  <2>1. j \in 1 .. Len(buf) /\ e + j \in q + 2 .. e + k
    BY <1>1
  <2>2. z[e + j] = buf[j]
    BY <1>1, <2>1
  <2> QED
    BY <2>1, <2>2 DEF Open
<1>5. ASSUME NEW j \in p + 2 .. k - 1 PROVE ~(buf[j] \in Intermediates /\ buf[j + 1] \in Parameters)
  <2>1. j \in 1 .. Len(buf) /\ j + 1 \in 1 .. Len(buf) /\ e + j \in q + 2 .. (e + k) - 1
        /\ e + (j + 1) = (e + j) + 1
    BY <1>1
  <2>2. z[e + j] = buf[j] /\ z[(e + j) + 1] = buf[j + 1]
    BY <1>1, <2>1
  <2> QED
    BY <2>1, <2>2 DEF Open
<1> QED
  BY <1>1, <1>2, <1>3, <1>4, <1>5 DEF Open

(* A sequence open over e + n began after e, if e is no place to cut one.  *)
LEMMA OpenAfter ==
    ASSUME NEW e \in Nat, NEW z, NEW buf, PartOf(buf, z, e), Len(z) \in Nat, Boundary(z, e),
           NEW n \in 1 .. Len(buf), NEW q, Open(z, q, e + n)
    PROVE  q > e /\ Open(buf, q - e, n)
<1>1. n \in Nat /\ n >= 1 /\ Len(buf) \in Nat /\ n <= Len(buf) /\ q \in Nat
  BY DEF PartOf, Open
<1>2. q > e
  <2> SUFFICES ASSUME q <= e PROVE FALSE
    BY <1>1
  <2>1. Open(z, q, e) /\ Open(z, q, e + 1)
    BY <1>1, OpenPrefix
  <2> QED
    BY <2>1 DEF Boundary
<1> QED
  BY <1>1, <1>2, OpenShift

(* Where one is cut, the byte after it does not abort it either.           *)
Sealed(z, e) ==
    \A q : Open(z, q, e) => e < Len(z) /\ z[e + 1] \notin {"CAN", "SUB"}

LEMMA BoundaryShift ==
    ASSUME NEW e \in Nat, NEW z, NEW buf, PartOf(buf, z, e), Len(z) \in Nat, Boundary(z, e),
           NEW n \in 1 .. Len(buf), Boundary(buf, n)
    PROVE  Boundary(z, e + n) /\ (Sealed(buf, n) => Sealed(z, e + n))
<1>1. SUFFICES ASSUME NEW q, Open(z, q, e + n)
               PROVE  /\ e + n < Len(z) /\ ~Open(z, q, (e + n) + 1)
                      /\ z[(e + n) + 1] \in C0 \union High \union Parameters
                      /\ Sealed(buf, n) => z[(e + n) + 1] \notin {"CAN", "SUB"}
  BY DEF Boundary, Sealed
<1>2. n \in Nat /\ n >= 1 /\ Len(buf) \in Nat /\ n <= Len(buf) /\ q \in Nat
      /\ e + Len(buf) <= Len(z) /\ \A j \in 1 .. Len(buf) : z[e + j] = buf[j]
  BY <1>1 DEF PartOf, Open
<1>3. q > e /\ Open(buf, q - e, n)
  BY <1>1, OpenAfter
<1>4. /\ n < Len(buf) /\ ~Open(buf, q - e, n + 1) /\ buf[n + 1] \in C0 \union High \union Parameters
      /\ Sealed(buf, n) => buf[n + 1] \notin {"CAN", "SUB"}
  BY <1>3 DEF Boundary, Sealed
<1>5. n + 1 \in 1 .. Len(buf) /\ e + (n + 1) = (e + n) + 1 /\ n + 1 \in Nat /\ n + 1 <= Len(buf)
  BY <1>2, <1>4
<1>6. z[(e + n) + 1] = buf[n + 1] /\ e + n < Len(z)
  BY <1>2, <1>5
<1>7. ~Open(z, q, (e + n) + 1)
  <2> SUFFICES ASSUME Open(z, q, e + (n + 1)) PROVE FALSE
    BY <1>5
  <2>1. Open(buf, q - e, n + 1)
    BY <1>3, <1>5, OpenShift
  <2> QED
    BY <1>4, <2>1
<1> QED
  BY <1>4, <1>6, <1>7

LEMMA RestOf ==
    ASSUME NEW B, NEW s \in Seq(B), NEW e \in Nat, e <= Len(s)
    PROVE  /\ SubSeq(s, e + 1, Len(s)) \in Seq(B)
           /\ Len(SubSeq(s, e + 1, Len(s))) = Len(s) - e
           /\ PartOf(SubSeq(s, e + 1, Len(s)), s, e)
<1> DEFINE n == Len(s)
           r == SubSeq(s, e + 1, n)
<1>1. n \in Nat /\ e \in 0 .. n
  OBVIOUS
<1>2. r \in Seq(B)
  BY <1>1
<1>3. Len(r) = n - e
  BY <1>1
<1>4. \A j \in 1 .. n - e : r[j] = s[(e + 1) + j - 1]
  BY <1>1
<1>5. \A j \in 1 .. n - e : (e + 1) + j - 1 = e + j
  BY <1>1
<1> HIDE DEF r
<1>6. PartOf(r, s, e)
  BY <1>1, <1>3, <1>4, <1>5 DEF PartOf
<1> QED
  BY <1>2, <1>3, <1>6 DEF r

Whole(acc, buf, i) ==
    /\ DOMAIN acc = {"end", "stop"} /\ acc.stop \in BOOLEAN
    /\ acc.end \in 0 .. Len(buf) /\ Boundary(buf, acc.end)
    /\ acc.stop => acc.end < Len(buf) /\ buf[acc.end + 1] \notin {"CAN", "SUB"}
    /\ ~acc.stop => acc.end >= i \/ acc.end = Len(buf)

LEMMA WholeStep ==
    ASSUME NEW B, NEW buf \in Seq(B), NEW i \in Nat, NEW acc, Whole(acc, buf, i)
    PROVE  Whole(NextWhole(buf, acc, i + 1), buf, i + 1)
<1> DEFINE e == acc.end
           rest == SubSeq(buf, e + 1, Len(buf))
           d == DecodeSequence(rest)
<1>1. Len(buf) \in Nat /\ e \in Nat /\ e <= Len(buf)
  BY DEF Whole
<1>2. CASE acc.stop \/ e >= Len(buf)
  <2>1. NextWhole(buf, acc, i + 1) = acc
    BY <1>2 DEF NextWhole
  <2> QED
    BY <1>1, <1>2, <2>1 DEF Whole
<1>3. CASE ~acc.stop /\ e < Len(buf)
  <2>1. /\ rest \in Seq(B) /\ Len(rest) = Len(buf) - e /\ rest # <<>> /\ rest[1] = buf[e + 1]
        /\ PartOf(rest, buf, e)
    <3>1. rest \in Seq(B) /\ Len(rest) = Len(buf) - e /\ PartOf(rest, buf, e)
      <4> HIDE DEF e
      <4> QED
        BY <1>1, RestOf
    <3> HIDE DEF rest
    <3>2. rest # <<>> /\ 1 \in 1 .. Len(rest)
      BY <1>1, <1>3, <3>1
    <3> QED
      BY <3>1, <3>2 DEF PartOf
  <2>2. NextWhole(buf, acc, i + 1) = IF d.state = "done" /\ d.n > 0 THEN [acc EXCEPT !.end = e + d.n]
                                     ELSE [acc EXCEPT !.stop = TRUE]
    BY <1>1, <1>3 DEF NextWhole
  <2> HIDE DEF rest
  <2>3. /\ d.state = "done" => d.n \in 1 .. Len(rest) /\ Boundary(rest, d.n)
        /\ rest[1] \in {"CAN", "SUB"} => d.state = "done"
    BY <2>1, DecodeEnds
  <2> HIDE DEF d, e
  <2>4. CASE d.state = "done" /\ d.n > 0
    <3>1. d.n \in 1 .. Len(rest) /\ Boundary(rest, d.n)
      BY <2>3, <2>4
    <3>2. PartOf(rest, buf, e)
      BY <2>1
    <3>3. Boundary(buf, e)
      BY DEF Whole, e
    <3>4. Boundary(buf, e + d.n)
      BY <1>1, <3>1, <3>2, <3>3, BoundaryShift
    <3>5. e + d.n \in 0 .. Len(buf) /\ e + d.n >= e + 1
      BY <1>1, <2>1, <3>1
    <3>6. e >= i \/ e = Len(buf)
      BY <1>3 DEF Whole, e
    <3>7. e + d.n >= i + 1
      BY <1>1, <1>3, <3>5, <3>6
    <3> DEFINE c == [acc EXCEPT !.end = e + d.n]
    <3>8. DOMAIN c = {"end", "stop"} /\ c.end = e + d.n /\ c.stop = acc.stop
      BY DEF Whole
    <3>9. NextWhole(buf, acc, i + 1) = c
      BY <2>2, <2>4
    <3> HIDE DEF c
    <3> QED
      BY <1>3, <3>4, <3>5, <3>7, <3>8, <3>9 DEF Whole
  <2>5. CASE ~(d.state = "done" /\ d.n > 0)
    <3>1. d.state # "done"
      BY <2>1, <2>3, <2>5
    <3>2. buf[e + 1] \notin {"CAN", "SUB"}
      BY <2>1, <2>3, <3>1
    <3> DEFINE c == [acc EXCEPT !.stop = TRUE]
    <3>3. DOMAIN c = {"end", "stop"} /\ c.end = e /\ c.stop
      BY DEF Whole, e
    <3>4. NextWhole(buf, acc, i + 1) = c
      BY <2>2, <2>5
    <3>5. c.stop \in BOOLEAN
      BY DEF Whole
    <3> HIDE DEF c
    <3>6. Boundary(buf, e) /\ e \in 0 .. Len(buf)
      BY DEF Whole, e
    <3> QED
      BY <1>3, <3>2, <3>3, <3>4, <3>5, <3>6 DEF Whole
  <2> QED
    BY <2>4, <2>5
<1> QED
  BY <1>1, <1>2, <1>3

LEMMA WholeEnds ==
    ASSUME NEW B, NEW buf \in Seq(B)
    PROVE  /\ WholeEnd(buf) \in 0 .. Len(buf) /\ Boundary(buf, WholeEnd(buf))
           /\ WholeEnd(buf) < Len(buf) => buf[WholeEnd(buf) + 1] \notin {"CAN", "SUB"}
<1> DEFINE n == Len(buf)
           places == [i \in DOMAIN buf |-> i]
           b == [end |-> 0, stop |-> FALSE]
           result == FoldLeft(LAMBDA acc, i :
                 IF acc.stop \/ acc.end >= Len(buf) THEN acc
                 ELSE LET d == DecodeSequence(SubSeq(buf, acc.end + 1, Len(buf)))
                      IN  IF d.state = "done" /\ d.n > 0 THEN [acc EXCEPT !.end = @ + d.n]
                          ELSE [acc EXCEPT !.stop = TRUE], b, places)
<1>1. n \in Nat /\ DOMAIN buf = 1 .. n /\ Len(buf) = n
  OBVIOUS
<1>2. places \in Seq(Nat) /\ Len(places) = n /\ \A k \in 1 .. n : places[k] = k
  BY <1>1
<1>3. result = WholeLaws!Fold(buf, b, places)
  BY DEF FoldLeft, MapThenFoldSet, Max, WholeLaws!Fold, WholeLaws!Greatest, NextWhole
<1>4. WholeEnd(buf) = result.end
  BY DEF WholeEnd
<1> HIDE DEF places, result, n
<1>5. PICK g : WholeLaws!Results(buf, g, b, places) /\ WholeLaws!Fold(buf, b, places) = g[Len(places)]
  BY <1>2, DecodeInduction, WholeLaws!FoldResults
<1>6. g[0] = b /\ \A k \in 1 .. n : g[k] = NextWhole(buf, g[k - 1], k)
  BY <1>2, <1>5 DEF WholeLaws!Results, WholeLaws!Follows
<1> DEFINE S == {j \in Nat : j <= n => Whole(g[j], buf, j)}
<1>7. 0 \in S
  <2>1. \A q : ~Open(buf, q, 0)
    BY DEF Open
  <2>2. b.end = 0 /\ ~b.stop /\ DOMAIN b = {"end", "stop"} /\ b.stop \in BOOLEAN
    OBVIOUS
  <2> HIDE DEF b
  <2>3. Whole(b, buf, 0)
    BY <1>1, <2>1, <2>2 DEF Whole, Boundary
  <2> QED
    BY <1>6, <2>3
<1>8. ASSUME NEW j \in Nat, j \in S PROVE j + 1 \in S
  <2> SUFFICES ASSUME j + 1 <= n PROVE Whole(g[j + 1], buf, j + 1)
    OBVIOUS
  <2>1. j + 1 \in 1 .. n /\ (j + 1) - 1 = j /\ j <= n
    BY <1>1
  <2>2. g[j + 1] = NextWhole(buf, g[j], j + 1) /\ Whole(g[j], buf, j)
    BY <1>6, <1>8, <2>1
  <2> QED
    BY <2>2, WholeStep
<1>9. Nat \subseteq S
  <2> HIDE DEF S
  <2> QED
    BY <1>7, <1>8, NaturalInduction DEF ByteLaws!Induction
<1>10. Whole(g[n], buf, n)
  BY <1>1, <1>9
<1>11. result = g[n]
  BY <1>2, <1>3, <1>5
<1> QED
  BY <1>1, <1>4, <1>10, <1>11 DEF Whole

LEMMA SafeEnds ==
    ASSUME NEW B, NEW buf \in Seq(B)
    PROVE  /\ SafeEnd(buf) \in 0 .. Len(buf) /\ Boundary(buf, SafeEnd(buf))
           /\ ValidUTF8(SubSeq(buf, 1, SafeEnd(buf)))
           /\ Sealed(buf, SafeEnd(buf))
<1> DEFINE e == WholeEnd(buf)
           ends == {k \in 0 .. e : ValidUTF8(SubSeq(buf, 1, k))}
           s == SafeEnd(buf)
<1>1. /\ e \in 0 .. Len(buf) /\ Boundary(buf, e)
      /\ e < Len(buf) => buf[e + 1] \notin {"CAN", "SUB"}
  BY WholeEnds
<1>2. Len(buf) \in Nat /\ e \in Nat /\ e <= Len(buf)
  BY <1>1
<1>3. s = CHOOSE k \in ends : \A j \in ends : j <= k
  BY DEF SafeEnd
<1>4. 0 \in ends
  <2>1. SubSeq(buf, 1, 0) = <<>>
    OBVIOUS
  <2>2. ValidUTF8(SubSeq(buf, 1, 0))
    BY <2>1 DEF ValidUTF8
  <2> QED
    BY <1>2, <2>2
<1> HIDE DEF e
<1>5. \E k \in ends : \A j \in ends : j <= k
  <2> DEFINE S == {k \in Nat : \E m \in ends : \A j \in ends : j <= k => j <= m}
  <2>1. ends \subseteq Nat /\ \A j \in ends : j <= e
    BY <1>2
  <2> HIDE DEF ends
  <2>2. 0 \in S
    BY <1>4
  <2>3. ASSUME NEW k \in Nat, k \in S PROVE k + 1 \in S
    <3>1. PICK m \in ends : \A j \in ends : j <= k => j <= m
      BY <2>3
    <3>2. CASE k + 1 \in ends
      <4>1. \A j \in ends : j <= k + 1 => j <= k + 1
        OBVIOUS
      <4> QED
        BY <3>2, <4>1
    <3>3. CASE k + 1 \notin ends
      <4>1. \A j \in ends : j <= k + 1 => j <= k
        BY <2>1, <3>3
      <4> QED
        BY <3>1, <4>1
    <3> QED
      BY <3>2, <3>3
  <2>4. e \in S
    <3> HIDE DEF S
    <3> QED
      BY <1>2, <2>2, <2>3, NaturalInduction DEF ByteLaws!Induction
  <2> QED
    BY <2>1, <2>4
<1>6. s \in ends /\ \A j \in ends : j <= s
  <2> HIDE DEF ends, s
  <2> QED
    BY <1>3, <1>5
<1> HIDE DEF s
<1>7. s \in Nat /\ s <= e /\ ValidUTF8(SubSeq(buf, 1, s))
  BY <1>2, <1>6
<1>8. CASE s = e
  BY <1>1, <1>2, <1>7, <1>8 DEF s, Sealed, Boundary
<1>9. CASE s # e
  <2>1. s + 1 \in 0 .. e /\ s + 1 \notin ends
    BY <1>2, <1>6, <1>7, <1>9
  <2>2. ~ValidUTF8(SubSeq(buf, 1, s + 1))
    BY <2>1
  <2> DEFINE v == SubSeq(buf, 1, s)
             w == SubSeq(buf, 1, s + 1)
  <2>3. s + 1 \in 1 .. Len(buf) /\ s \in 0 .. Len(buf) /\ s < Len(buf)
    BY <1>2, <1>7, <1>9
  <2>4. /\ Len(v) = s /\ DOMAIN v = 1 .. s /\ \A i \in 1 .. s : v[i] = buf[i]
        /\ Len(w) = s + 1 /\ DOMAIN w = 1 .. s + 1 /\ \A i \in 1 .. s + 1 : w[i] = buf[i]
    BY <2>3
  <2> HIDE DEF v, w
  <2>5. ValidUTF8(v) /\ ~ValidUTF8(w)
    BY <1>7, <2>2 DEF v, w
  <2>6. PICK i \in 1 .. s + 1 :
            ~ /\ w[i] \notin C1
              /\ w[i] = "u1" => i < Len(w) /\ w[i + 1] = "u2"
              /\ w[i] = "u2" => i > 1 /\ w[i - 1] = "u1"
    BY <2>4, <2>5 DEF ValidUTF8
  <2>7. i = s + 1
    <3> SUFFICES ASSUME i # s + 1 PROVE FALSE
      OBVIOUS
    <3>1. i \in 1 .. s /\ i \in Nat
      BY <2>3
    <3>2. /\ v[i] \notin C1
          /\ v[i] = "u1" => i < s /\ v[i + 1] = "u2"
          /\ v[i] = "u2" => i > 1 /\ v[i - 1] = "u1"
      BY <2>4, <2>5, <3>1 DEF ValidUTF8
    <3>3. w[i] = v[i]
      BY <2>3, <2>4, <3>1
    <3>4. w[i] = "u1" => i < Len(w) /\ w[i + 1] = "u2"
      <4>1. SUFFICES ASSUME w[i] = "u1" PROVE i < Len(w) /\ w[i + 1] = "u2"
        OBVIOUS
      <4>2. i < s /\ v[i + 1] = "u2" /\ i + 1 \in 1 .. s /\ i + 1 \in 1 .. s + 1
        BY <2>3, <3>1, <3>2, <3>3, <4>1
      <4> QED
        BY <2>3, <2>4, <4>2
    <3>5. w[i] = "u2" => i > 1 /\ w[i - 1] = "u1"
      <4>1. SUFFICES ASSUME w[i] = "u2" PROVE i > 1 /\ w[i - 1] = "u1"
        OBVIOUS
      <4>2. i > 1 /\ v[i - 1] = "u1" /\ i - 1 \in 1 .. s /\ i - 1 \in 1 .. s + 1
        BY <2>3, <3>1, <3>2, <3>3, <4>1
      <4> QED
        BY <2>3, <2>4, <4>2
    <3> QED
      BY <2>6, <3>2, <3>3, <3>4, <3>5
  <2>8. buf[s + 1] \in High
    BY <2>3, <2>4, <2>6, <2>7, ByteSets DEF High
  <2>9. Boundary(buf, s)
    <3>1. \A q : ~Open(buf, q, s + 1)
      <4> SUFFICES ASSUME NEW q, Open(buf, q, s + 1) PROVE FALSE
        OBVIOUS
      <4>1. q \in Nat /\ q <= s + 1 /\ buf[q] = "ESC"
        BY DEF Open
      <4>2. q # s + 1
        BY <2>8, <4>1, ByteSets
      <4>3. CASE q = s
        BY <1>7, <2>8, <4>3, ByteSets DEF Open
      <4>4. CASE q < s
        <5>1. s + 1 \in q + 2 .. s + 1
          BY <1>7, <4>1, <4>4
        <5>2. buf[s + 1] \in Parameters \union Intermediates
          BY <5>1 DEF Open
        <5> QED
          BY <2>8, <5>2, ByteSets
      <4> QED
        BY <1>7, <4>1, <4>2, <4>3, <4>4
    <3> QED
      BY <2>3, <2>8, <3>1 DEF Boundary
  <2>10. buf[s + 1] \notin {"CAN", "SUB"}
    BY <2>8 DEF High, C1
  <2> QED
    BY <1>7, <2>3, <2>9, <2>10 DEF s, Sealed
<1> QED
  BY <1>8, <1>9

-----------------------------------------------------------------------------
(* Every cut of the input                                                  *)

(* Facts of concatenation under names of their own, so that a step that    *)
(* cites one does not take the concatenations apart.                       *)
Associates(s, t, u) == (s \o t) \o u = s \o (t \o u)
Appended(s, t, z) ==
    /\ Len(z) = Len(s) + Len(t) /\ Len(z) \in Nat
    /\ \A j \in 1 .. Len(t) : z[Len(s) + j] = t[j]
Taken(z, x, safe, rest, b) == z = x \o (safe \o (rest \o b)) /\ z = (x \o safe) \o (rest \o b)

LEMMA ConcatAssoc ==
    ASSUME NEW B, NEW s \in Seq(B), NEW t \in Seq(B), NEW u \in Seq(B)
    PROVE  Associates(s, t, u)
  BY DEF Associates

LEMMA ConcatFacts ==
    ASSUME NEW B, NEW s \in Seq(B), NEW t \in Seq(B)
    PROVE  Appended(s, t, s \o t)
  BY DEF Appended

LEMMA SplitAt ==
    ASSUME NEW B, NEW s \in Seq(B), NEW n \in Nat, n <= Len(s)
    PROVE  /\ SubSeq(s, 1, n) \in Seq(B) /\ Len(SubSeq(s, 1, n)) = n
           /\ SubSeq(s, n + 1, Len(s)) \in Seq(B)
           /\ SubSeq(s, 1, n) \o SubSeq(s, n + 1, Len(s)) = s
<1> DEFINE a == SubSeq(s, 1, n)
           b == SubSeq(s, n + 1, Len(s))
<1>1. a \in Seq(B) /\ Len(a) = n /\ \A i \in 1 .. n : a[i] = s[i]
  OBVIOUS
<1>2. b \in Seq(B) /\ Len(b) = Len(s) - n /\ PartOf(b, s, n)
  BY RestOf
<1> HIDE DEF a, b
<1>3. a \o b \in Seq(B) /\ Len(a \o b) = Len(s)
  BY <1>1, <1>2
<1>4. \A i \in 1 .. Len(s) : (a \o b)[i] = s[i]
  <2>1. SUFFICES ASSUME NEW i \in 1 .. Len(s) PROVE (a \o b)[i] = s[i]
    OBVIOUS
  <2>2. CASE i <= n
    BY <1>1, <1>2, <2>2
  <2>3. CASE i > n
    <3>1. i - n \in 1 .. Len(b) /\ n + (i - n) = i
      BY <1>2, <2>3
    <3>2. (a \o b)[i] = b[i - n]
      BY <1>1, <1>2, <2>3
    <3> QED
      BY <3>1, <3>2, <1>2 DEF PartOf
  <2>4. i \in Int /\ n \in Int
    OBVIOUS
  <2>5. i <= n \/ i > n
    BY <2>4
  <2> QED
    BY <2>2, <2>3, <2>5, Zenon
<1>5. a \o b = s
  <2> DEFINE t == a \o b
  <2>1. t \in Seq(B) /\ Len(t) = Len(s) /\ \A i \in 1 .. Len(s) : t[i] = s[i]
    BY <1>3, <1>4
  <2> HIDE DEF t
  <2>2. t = s
    BY <2>1
  <2> QED
    BY <2>2 DEF t
<1> QED
  BY <1>1, <1>2, <1>5 DEF a, b

LEMMA SequenceSafeCuts ==
    ASSUME NEW B, NEW buf \in Seq(B), MaxCarry \in Nat
    PROVE  /\ SequenceSafe(buf).safe \in Seq(B) /\ SequenceSafe(buf).carry \in Seq(B)
           /\ SequenceSafe(buf).safe \o SequenceSafe(buf).carry = buf
           /\ Len(buf) <= MaxCarry =>
                 SequenceSafe(buf).safe = SubSeq(buf, 1, SafeEnd(buf))
<1> DEFINE s == SafeEnd(buf)
           rest == SubSeq(buf, s + 1, Len(buf))
<1>1. s \in 0 .. Len(buf)
  BY SafeEnds
<1> HIDE DEF s
<1>2. /\ SubSeq(buf, 1, s) \in Seq(B) /\ rest \in Seq(B)
      /\ SubSeq(buf, 1, s) \o rest = buf /\ Len(rest) <= Len(buf)
  <2>1. s \in Nat /\ s <= Len(buf)
    BY <1>1
  <2>2. Len(rest) = Len(buf) - s
    BY <2>1, RestOf
  <2>3. Len(buf) \in Nat
    OBVIOUS
  <2>4. Len(rest) <= Len(buf)
    <3> HIDE DEF rest
    <3> QED
      BY <2>1, <2>2, <2>3
  <2>5. SubSeq(buf, 1, s) \in Seq(B) /\ rest \in Seq(B) /\ SubSeq(buf, 1, s) \o rest = buf
    BY <2>1, SplitAt, Zenon
  <2> QED
    BY <2>4, <2>5, Zenon
<1>3. SequenceSafe(buf) = IF Len(rest) > MaxCarry THEN [safe |-> buf, carry |-> <<>>]
                          ELSE [safe |-> SubSeq(buf, 1, s), carry |-> rest]
  BY DEF SequenceSafe, s
<1> HIDE DEF rest
<1>4. CASE Len(rest) > MaxCarry
  <2>1. SequenceSafe(buf).safe = buf /\ SequenceSafe(buf).carry = <<>>
    BY <1>3, <1>4
  <2>2. buf \o <<>> = buf /\ <<>> \in Seq(B) /\ ~(Len(buf) <= MaxCarry)
    BY <1>2, <1>4
  <2> QED
    BY <2>1, <2>2
<1>5. CASE ~(Len(rest) > MaxCarry)
  <2> DEFINE head == SubSeq(buf, 1, s)
             cut == [safe |-> head, carry |-> rest]
  <2>1. SequenceSafe(buf).safe = SubSeq(buf, 1, s) /\ SequenceSafe(buf).carry = rest
    <3>1. SequenceSafe(buf) = cut
      BY <1>3, <1>5, Zenon
    <3> HIDE DEF head
    <3>2. cut.safe = head /\ cut.carry = rest
      OBVIOUS
    <3> HIDE DEF cut
    <3> QED
      BY <3>1, <3>2 DEF head
  <2> QED
    BY <1>2, <2>1 DEF s
<1> QED
  BY <1>4, <1>5

LEMMA NewStreamFacts ==
    ASSUME NEW full
    PROVE  LET st == NewStream(full)
           IN  /\ Ready(st) /\ Flushed(st) /\ st.pending = <<>> /\ Resumed(st) = st /\ ~st.quote
               /\ \A x : History(x, st, 0)
<1> DEFINE st == NewStream(full)
<1>1. /\ DOMAIN st = Fields /\ st.state = "ground" /\ st.out = <<>> /\ st.text = <<>>
      /\ st.pending = <<>> /\ ~st.quote /\ ~st.esc /\ st.utf8 /\ st.quote \in BOOLEAN
      /\ st.esc \in BOOLEAN /\ st.utf8 \in BOOLEAN /\ Resumed(st) = st
  <2>1. DOMAIN st = Fields
    BY DEF NewStream, Fields
  <2>2. /\ st.state = "ground" /\ st.out = <<>> /\ st.text = <<>>
        /\ st.pending = <<>> /\ st.quote = FALSE /\ st.esc = FALSE /\ st.utf8 = TRUE
    BY DEF NewStream
  <2>3. Resumed(st) = st
    <3>1. st = [x \in DOMAIN st |-> st[x]]
      BY DEF NewStream
    <3> HIDE DEF st
    <3>2. \A x \in DOMAIN st : Resumed(st)[x] = st[x]
      BY <2>1, <2>2 DEF Resumed, Fields
    <3>3. Resumed(st) = [x \in DOMAIN st |-> Resumed(st)[x]]
      BY DEF Resumed
    <3> QED
      BY <3>1, <3>2, <3>3
  <2> HIDE DEF st
  <2> QED
    BY <2>1, <2>2, <2>3
<1> HIDE DEF st
<1>2. Shape(st) /\ Flushed(st)
  BY <1>1, EmptyIsSeq DEF Shape, States, Flushed
<1>3. Ready(st)
  BY <1>1, <1>2 DEF Ready, Tidy
<1>4. \A x : History(x, st, 0)
  BY <1>1 DEF History
<1> QED
  BY <1>1, <1>2, <1>3, <1>4 DEF st

LEMMA FeedNothing ==
    ASSUME NEW full
    PROVE  Same(NewStream(full), FeedBytes(NewStream(full), <<>>))
<1> DEFINE st == NewStream(full)
<1>1. Ready(st) /\ Flushed(st) /\ st.pending = <<>> /\ Resumed(st) = st /\ ~st.quote
  BY NewStreamFacts
<1> HIDE DEF st
<1>2. PICK f : Runs(f, <<>>, st) /\ FeedBytes(st, <<>>) = Flush(EndOfInput(f[Len(<<>>)].st))
  <2>1. <<>> \in Seq({})
    OBVIOUS
  <2> QED
    BY <1>1, <2>1, FreshRuns
<1>3. Len(<<>>) = 0 /\ f[0].st = st
  BY <1>2 DEF Runs
<1>4. FeedBytes(st, <<>>) = Flush(st)
  BY <1>1, <1>2, <1>3, EndFacts
<1> QED
  BY <1>1, <1>4, SameFlushed DEF Ready, st

LEMMA FeedFlushes ==
    ASSUME NEW B, NEW full, NEW x \in Seq(B)
    PROVE  Flushed(FeedBytes(NewStream(full), x))
<1> DEFINE st == NewStream(full)
<1>1. Ready(st) /\ st.pending = <<>> /\ Resumed(st) = st
  BY NewStreamFacts
<1> HIDE DEF st
<1>2. PICK f : Runs(f, x, st) /\ FeedBytes(st, x) = Flush(EndOfInput(f[Len(x)].st))
  BY <1>1, FreshRuns
<1>3. After1(f, x, Len(x))
  <2>1. \A k \in 0 .. Len(x) : After1(f, x, k)
    BY <1>1, <1>2, RunFacts
  <2> QED
    BY <2>1
<1>4. Ready(EndOfInput(f[Len(x)].st))
  BY <1>3, EndFacts DEF After1
<1> QED
  BY <1>2, <1>4, FlushReady DEF st

-----------------------------------------------------------------------------
(* The invariant: what the calls so far have made of the parser is what    *)
(* one call with all they were given would have made of a new one.         *)

Fresh == NewStream(route = "nx2")
Heard(fed) ==
    \/ Ready(parser) /\ Flushed(parser) /\ Same(parser, FeedBytes(Fresh, fed))
    \/ fed # <<>> /\ (CutAtQuote \/ CutAtRune)
SafeCut(fed) ==
    ~Unguarded => /\ Boundary(input, Len(fed)) /\ Sealed(input, Len(fed))
                  /\ \A i \in 1 .. Len(fed) : fed[i] # "CSI" /\ (fed[i] = "u1" => i < Len(fed))
FedSoFar == \E fed \in Seq(Byte) : input = fed \o (carry \o kernel) /\ Heard(fed) /\ SafeCut(fed)
PtyInv ==
    /\ alphabet \in Alphabets /\ route \in {"server", "nx2"} /\ ended \in BOOLEAN
    /\ input \in Seq(Byte) /\ kernel \in Seq(Byte) /\ carry \in Seq(Byte)
    /\ route = "nx2" => carry = <<>>
    /\ ~ended => FedSoFar

(* A cut that a "'" or a rune does not survive is one of the two.          *)
LEMMA CutFacts ==
    ASSUME NEW x \in Seq(Byte), NEW y \in Seq(Byte), y # <<>>, NEW r \in Seq(Byte),
           input = x \o (y \o r), SafeCut(x), NEW f, Runs(f, x, Fresh),
           SplitRune(f, x, y) \/ SplitQuote(f, x, y)
    PROVE  CutAtQuote \/ CutAtRune
<1> DEFINE m == Len(x)
<1>1. /\ m \in Nat /\ Len(input) \in Nat /\ DOMAIN input = 1 .. Len(input) /\ m + 1 <= Len(input)
      /\ input[m + 1] = y[1] /\ \A i \in 1 .. m : input[i] = x[i]
  <2>1. m \in Nat /\ Len(y \o r) \in Nat /\ Len(y \o r) >= 1 /\ (y \o r)[1] = y[1] /\ y \o r \in Seq(Byte)
    OBVIOUS
  <2> DEFINE t == y \o r
  <2> HIDE DEF t
  <2>2. input = x \o t /\ t \in Seq(Byte) /\ Len(t) \in Nat /\ Len(t) >= 1 /\ t[1] = y[1]
    BY <2>1 DEF t
  <2> QED
    BY <2>1, <2>2
<1>2. Ready(Fresh) /\ Fresh.pending = <<>> /\ History(x, Fresh, 0)
  BY NewStreamFacts DEF Fresh
<1>3. \A k \in 0 .. m : After1(f, x, k)
  BY <1>2, RunFacts
<1>4. \A k \in 0 .. m : f[k].st.pending = <<>> => History(x, f[k].st, f[k].next - 1)
  BY <1>2, RunHistory
<1>5. CASE SplitRune(f, x, y)
  <2>1. m >= 1 /\ x[m] = "u1" /\ y[1] = "u2" /\ f[m - 1].next = m /\ ~f[m - 1].st.utf8
    BY <1>5 DEF SplitRune
  <2>2. m - 1 \in 0 .. m /\ m - 1 # m /\ m \in 1 .. m
    BY <1>1, <2>1
  <2>3. f[m - 1].st.pending = <<>>
    BY <1>3, <2>2 DEF After1
  <2>4. History(x, f[m - 1].st, m - 1)
    BY <1>4, <2>1, <2>2, <2>3
  <2>5. PICK i \in Nat : i >= 1 /\ i + 1 <= m - 1 /\ x[i] = "%" /\ x[i + 1] = "@"
    BY <2>1, <2>4 DEF History, SwitchedOff
  <2>6. i \in DOMAIN input /\ m \in DOMAIN input /\ i < m
    BY <1>1, <2>1, <2>5
  <2>7. Pair(i, "%", "@")
    <3>1. i \in 1 .. m /\ i + 1 \in 1 .. m /\ i + 1 \in DOMAIN input
      BY <1>1, <2>5
    <3> QED
      BY <1>1, <2>5, <3>1 DEF Pair
  <2>8. Pair(m, "u1", "u2")
    BY <1>1, <2>1, <2>2 DEF Pair
  <2>9. Unguarded
    BY <1>1, <2>1, <2>2 DEF SafeCut
  <2> QED
    BY <2>6, <2>7, <2>8, <2>9 DEF CutAtRune
<1>6. CASE SplitQuote(f, x, y)
  <2>1. f[m].st.quote /\ f[m].st.pending = <<>> /\ y[1] \in Decides
    BY <1>6 DEF SplitQuote
  <2>2. m \in 0 .. m
    BY <1>1
  <2>3. f[m].next = m + 1
    <3>1. ~Rune(x, m)
      BY <1>1 DEF Rune
    <3> QED
      BY <1>3, <2>2, <3>1 DEF After1
  <2>4. History(x, f[m].st, m)
    BY <1>1, <1>4, <2>1, <2>2, <2>3
  <2>5. m >= 1 /\ x[m] = "'" /\ Begun(x, m - 1)
    BY <2>1, <2>4 DEF History
  <2>6. m \in DOMAIN input /\ input[m] = "'"
    BY <1>1, <2>5
  <2>7. CASE Unguarded
    BY <2>6, <2>7 DEF CutAtQuote
  <2>8. CASE \E i \in 1 .. m - 1 : DecodedApart(i)
    BY <2>6, <2>8 DEF CutAtQuote
  <2>9. CASE ~Unguarded /\ \A i \in 1 .. m - 1 : ~DecodedApart(i)
    <3>1. /\ Boundary(input, m) /\ Sealed(input, m)
          /\ \A i \in 1 .. m : x[i] # "CSI"
      BY <2>9 DEF SafeCut
    <3>2. PICK q : Sequence(x, q, m - 1)
      BY <1>1, <2>5, <3>1 DEF Begun
    <3>3. q \in Nat /\ q >= 1 /\ q + 1 <= m - 1 /\ x[q] = "ESC" /\ x[q + 1] = "["
          /\ \A j \in q + 2 .. m - 1 : x[j] \in Body
      BY <3>2 DEF Sequence
    <3>4. \A i \in 1 .. m - 1 : input[i] \notin DOMAIN Control
                             /\ ~(input[i] \in Intermediates \ {"'"} /\ input[i + 1] \in Parameters)
      BY <2>9 DEF DecodedApart
    <3>5. ASSUME NEW j \in q + 2 .. m - 1
          PROVE  input[j] \in Parameters \union (Intermediates \ {"'"})
      <4>1. j \in 1 .. m - 1 /\ j \in 1 .. m
        BY <1>1, <3>3
      <4>2. x[j] \in Body /\ input[j] = x[j] /\ input[j] \notin DOMAIN Control
        BY <1>1, <3>3, <3>4, <4>1
      <4> QED
        BY <4>2 DEF Body
    <3>6. "'" \in Intermediates
      BY DEF Intermediates
    <3>7. ASSUME NEW j \in q + 2 .. m PROVE input[j] \in Parameters \union Intermediates
      <4>1. j = m \/ j \in q + 2 .. m - 1
        BY <1>1, <3>3
      <4> QED
        BY <2>6, <3>5, <3>6, <4>1
    <3>8. ASSUME NEW j \in q + 2 .. m - 1
          PROVE  ~(input[j] \in Intermediates /\ input[j + 1] \in Parameters)
      <4>1. j \in 1 .. m - 1
        BY <1>1, <3>3
      <4>2. input[j] # "'"
        BY <3>5, ByteSets, <3>6
      <4> QED
        BY <3>4, <4>1, <4>2
    <3>9. input[q] = "ESC" /\ input[q + 1] = "["
      BY <1>1, <3>3
    <3>10. Open(input, q, m)
      BY <1>1, <3>3, <3>7, <3>8, <3>9 DEF Open
    <3>11. input[m + 1] \in C0 \union High \union Parameters /\ input[m + 1] \notin {"CAN", "SUB"}
      BY <3>1, <3>10 DEF Boundary, Sealed
    <3>12. y[1] \in {"}", "~"}
      BY <1>1, <2>1, <3>11 DEF Decides
    <3> QED
      BY <1>1, <3>11, <3>12 DEF C0, C1, High, Parameters, Digit
  <2> QED
    BY <2>7, <2>8, <2>9
<1> QED
  BY <1>5, <1>6

LEMMA FeedMore ==
    ASSUME NEW x \in Seq(Byte), NEW y \in Seq(Byte), y # <<>>, NEW r \in Seq(Byte),
           input = x \o (y \o r), SafeCut(x), Heard(x)
    PROVE  \/ /\ Ready(FeedBytes(parser, y)) /\ Flushed(FeedBytes(parser, y))
              /\ Same(FeedBytes(parser, y), FeedBytes(Fresh, x \o y))
           \/ CutAtQuote \/ CutAtRune
<1> SUFFICES ASSUME ~CutAtQuote, ~CutAtRune
             PROVE  /\ Ready(FeedBytes(parser, y)) /\ Flushed(FeedBytes(parser, y))
                    /\ Same(FeedBytes(parser, y), FeedBytes(Fresh, x \o y))
  OBVIOUS
<1>1. Ready(parser) /\ Same(parser, FeedBytes(Fresh, x))
  BY DEF Heard
<1>2. Ready(Fresh) /\ Fresh.pending = <<>> /\ Resumed(Fresh) = Fresh
  BY NewStreamFacts DEF Fresh
<1>3. \A f : Runs(f, x, Fresh) => ~SplitRune(f, x, y) /\ ~SplitQuote(f, x, y)
  BY CutFacts
<1> QED
  BY <1>1, <1>2, <1>3, OneMoreCall

LEMMA PtyInitial == PtyInit => PtyInv
<1> SUFFICES ASSUME PtyInit PROVE PtyInv
  OBVIOUS
<1>1. <<>> \in Seq(Byte) /\ input = <<>> \o (carry \o kernel) /\ Len(<<>>) = 0
  BY DEF PtyInit
<1>2. Heard(<<>>)
  <2>1. parser = Fresh
    BY DEF PtyInit, Fresh
  <2>2. Ready(Fresh) /\ Flushed(Fresh) /\ Same(Fresh, FeedBytes(Fresh, <<>>))
    BY NewStreamFacts, FeedNothing DEF Fresh
  <2> QED
    BY <2>1, <2>2 DEF Heard
<1>3. SafeCut(<<>>)
  <2>1. \A q : ~Open(input, q, 0)
    BY DEF Open
  <2> QED
    BY <1>1, <2>1 DEF SafeCut, Boundary, Sealed
<1> QED
  BY <1>1, <1>2, <1>3 DEF PtyInit, PtyInv, FedSoFar

(* The program writes before anything is read.                             *)
LEMMA WriteKeeps ==
    ASSUME PtyInv, NEW w \in alphabet, Write(w)
    PROVE  PtyInv'
<1>1. w \in Seq(Byte)
  BY PtyStreamAssumption DEF PtyInv
<1>2. /\ input \in Seq(Byte) /\ kernel \in Seq(Byte) /\ carry \in Seq(Byte) /\ kernel = input
      /\ input' = input \o w /\ kernel' = kernel \o w /\ ~ended
      /\ alphabet' = alphabet /\ route' = route /\ carry' = carry /\ parser' = parser /\ ended' = ended
  BY DEF PtyInv, Write
<1>3. PICK fed \in Seq(Byte) : input = fed \o (carry \o kernel) /\ Heard(fed)
  BY <1>2 DEF PtyInv, FedSoFar
<1>4. fed = <<>> /\ carry = <<>>
  <2>1. /\ Len(fed) \in Nat /\ Len(carry) \in Nat /\ Len(kernel) \in Nat
        /\ Len(fed \o (carry \o kernel)) = Len(fed) + (Len(carry) + Len(kernel))
    BY <1>2
  <2>2. Len(fed) = 0 /\ Len(carry) = 0
    BY <1>2, <1>3, <2>1
  <2> QED
    BY <1>2, <2>2
<1>5. Heard(<<>>)'
  <2>1. Ready(parser) /\ Flushed(parser) /\ Same(parser, FeedBytes(Fresh, <<>>))
    BY <1>3, <1>4 DEF Heard
  <2>2. Fresh' = Fresh
    BY <1>2 DEF Fresh
  <2> QED
    BY <1>2, <2>1, <2>2 DEF Heard
<1>6. SafeCut(<<>>)'
  <2>1. \A q : ~Open(input', q, 0)
    BY DEF Open
  <2>2. Len(<<>>) = 0
    OBVIOUS
  <2> QED
    BY <2>1, <2>2 DEF SafeCut, Boundary, Sealed
<1>7. input' \in Seq(Byte) /\ kernel' \in Seq(Byte) /\ <<>> \in Seq(Byte)
      /\ input' = <<>> \o (carry' \o kernel')
  BY <1>1, <1>2, <1>4
<1> QED
  BY <1>2, <1>5, <1>6, <1>7 DEF PtyInv, FedSoFar

(* What a read takes, and where the rest of the input is then.             *)
LEMMA ReadTakes ==
    ASSUME NEW n \in Nat, NEW k \in Seq(Byte), n <= Len(k), NEW c \in Seq(Byte),
           NEW x \in Seq(Byte), NEW z, z = x \o (c \o k),
           NEW safe \in Seq(Byte), NEW rest \in Seq(Byte), safe \o rest = c \o SubSeq(k, 1, n)
    PROVE  Taken(z, x, safe, rest, SubSeq(k, n + 1, Len(k)))
<1> DEFINE a == SubSeq(k, 1, n)
           b == SubSeq(k, n + 1, Len(k))
<1>1. a \in Seq(Byte) /\ b \in Seq(Byte) /\ a \o b = k
  BY SplitAt, Zenon
<1> SUFFICES Taken(z, x, safe, rest, b)
  OBVIOUS
<1>2. safe \o rest = c \o a
  OBVIOUS
<1> HIDE DEF a, b
<1>3. rest \o b \in Seq(Byte)
  BY <1>1
<1>4. Associates(c, a, b) /\ Associates(safe, rest, b) /\ Associates(x, safe, rest \o b)
  BY <1>1, <1>3, ConcatAssoc, Zenon
<1>5. safe \o (rest \o b) = c \o k
  BY <1>1, <1>2, <1>4, Zenon DEF Associates
<1> QED
  BY <1>4, <1>5, Zenon DEF Associates, Taken

LEMMA SameInput ==
    ASSUME input' = input, route' = route
    PROVE  /\ Fresh' = Fresh /\ (CutAtQuote' <=> CutAtQuote) /\ (CutAtRune' <=> CutAtRune)
           /\ (Unguarded' <=> Unguarded)
  BY DEF Fresh, CutAtQuote, CutAtRune, Unguarded, DecodedApart, Pair

LEMMA ReadServerKeeps ==
    ASSUME PtyInv, NEW n \in 1 .. ReadMax, ReadServer(n)
    PROVE  PtyInv'
<1> DEFINE buf == carry \o SubSeq(kernel, 1, n)
           cut == SequenceSafe(buf)
           safe == cut.safe
           rest == cut.carry
<1>1. /\ route = "server" /\ n <= Len(kernel) /\ n \in Nat /\ carry' = rest
      /\ parser' = IF safe = <<>> THEN parser ELSE FeedBytes(parser, safe)
      /\ kernel' = SubSeq(kernel, n + 1, Len(kernel))
      /\ alphabet' = alphabet /\ input' = input /\ route' = route /\ ended' = ended
      /\ MaxCarry \in Nat /\ ReadMax \in Nat
  BY PtyStreamAssumption DEF ReadServer
<1>2. input \in Seq(Byte) /\ kernel \in Seq(Byte) /\ carry \in Seq(Byte)
  BY DEF PtyInv
<1>3. buf \in Seq(Byte)
  <2>1. SubSeq(kernel, 1, n) \in Seq(Byte)
    BY <1>1, <1>2, SplitAt
  <2> QED
    BY <1>2, <2>1
<1> HIDE DEF buf
<1>4. /\ safe \in Seq(Byte) /\ rest \in Seq(Byte) /\ safe \o rest = buf
      /\ Len(buf) <= MaxCarry => safe = SubSeq(buf, 1, SafeEnd(buf))
  BY <1>1, <1>3, SequenceSafeCuts
<1> HIDE DEF safe, rest, cut
<1>5. kernel' \in Seq(Byte)
  BY <1>1, <1>2, SplitAt
<1>6. ASSUME ~ended PROVE FedSoFar'
  <2>1. PICK x \in Seq(Byte) : input = x \o (carry \o kernel) /\ Heard(x) /\ SafeCut(x)
    BY <1>6 DEF PtyInv, FedSoFar
  <2>2. input = x \o (safe \o (rest \o kernel')) /\ input = (x \o safe) \o (rest \o kernel')
    <3>1. safe \o rest = carry \o SubSeq(kernel, 1, n)
      BY <1>4 DEF buf
    <3> DEFINE k2 == SubSeq(kernel, n + 1, Len(kernel))
    <3>2. Taken(input, x, safe, rest, k2)
      BY <1>1, <1>2, <1>4, <2>1, <3>1, ReadTakes, Zenon
    <3>3. kernel' = k2
      BY <1>1
    <3> HIDE DEF k2
    <3> QED
      BY <3>2, <3>3, Zenon DEF Taken
  <2>3. Fresh' = Fresh /\ (CutAtQuote' <=> CutAtQuote) /\ (CutAtRune' <=> CutAtRune)
        /\ (Unguarded' <=> Unguarded)
    BY <1>1, SameInput
  <2>4. CASE safe = <<>>
    <3>1. x \o safe = x
      BY <2>4
    <3>2. Heard(x)'
      BY <1>1, <2>1, <2>3, <2>4 DEF Heard
    <3>3. SafeCut(x)'
      BY <1>1, <2>1, <2>3 DEF SafeCut
    <3> QED
      BY <1>1, <2>2, <3>1, <3>2, <3>3 DEF FedSoFar
  <2>5. CASE safe # <<>>
    <3>0. PICK y : y = x \o safe
      OBVIOUS
    <3>1. y \in Seq(Byte) /\ y # <<>> /\ Len(y) = Len(x) + Len(safe) /\ Len(x) \in Nat /\ Len(safe) \in Nat
          /\ Len(safe) >= 1
      BY <1>4, <2>5, <3>0
    <3>2. Heard(y)'
      <4>1. rest \o kernel' \in Seq(Byte)
        BY <1>4, <1>5
      <4>2. \/ /\ Ready(FeedBytes(parser, safe)) /\ Flushed(FeedBytes(parser, safe))
               /\ Same(FeedBytes(parser, safe), FeedBytes(Fresh, y))
            \/ CutAtQuote \/ CutAtRune
        BY <1>4, <2>1, <2>2, <2>5, <3>0, <4>1, FeedMore
      <4>3. parser' = FeedBytes(parser, safe)
        BY <1>1, <2>5
      <4> QED
        BY <2>3, <3>1, <4>2, <4>3 DEF Heard
    <3>3. SafeCut(y)'
      <4> SUFFICES ASSUME ~Unguarded
                   PROVE  /\ Boundary(input, Len(y)) /\ Sealed(input, Len(y))
                          /\ \A i \in 1 .. Len(y) : y[i] # "CSI" /\ (y[i] = "u1" => i < Len(y))
        BY <1>1, <2>3 DEF SafeCut
      <4>1. PartOf(buf, input, Len(x)) /\ Len(buf) <= MaxCarry /\ Len(input) \in Nat /\ Len(buf) \in Nat
        <5> DEFINE t == buf \o kernel'
        <5>1. t = safe \o (rest \o kernel') /\ t \in Seq(Byte) /\ Len(t) = Len(buf) + Len(kernel')
              /\ Len(buf) \in Nat /\ Len(kernel') \in Nat /\ \A j \in 1 .. Len(buf) : t[j] = buf[j]
          <6>0. Associates(safe, rest, kernel')
            BY <1>4, <1>5, ConcatAssoc, Zenon
          <6>1. (safe \o rest) \o kernel' = safe \o (rest \o kernel')
            BY <6>0, Zenon DEF Associates
          <6> QED
            BY <1>3, <1>4, <1>5, <6>1
        <5> HIDE DEF t
        <5>2. input = x \o t
          BY <2>2, <5>1
        <5>3. Len(input) = Len(x) + Len(t) /\ Len(input) \in Nat
              /\ \A j \in 1 .. Len(t) : input[Len(x) + j] = t[j]
          <6>1. Appended(x, t, input)
            BY <5>1, <5>2, ConcatFacts, Zenon
          <6> QED
            BY <6>1 DEF Appended
        <5>4. PartOf(buf, input, Len(x))
          <6>1. \A j \in 1 .. Len(buf) : j \in 1 .. Len(t)
            BY <5>1
          <6>2. \A j \in 1 .. Len(buf) : input[Len(x) + j] = buf[j]
            BY <5>1, <5>3, <6>1
          <6>3. Len(x) + Len(buf) <= Len(input)
            BY <3>1, <5>1, <5>3
          <6> QED
            BY <5>1, <6>2, <6>3 DEF PartOf
        <5>5. Len(input) <= MaxCarry
          BY <1>1, <5>3 DEF Unguarded
        <5> QED
          BY <1>1, <3>1, <5>1, <5>3, <5>4, <5>5
      <4> DEFINE s == SafeEnd(buf)
      <4>2. /\ s \in 0 .. Len(buf) /\ Boundary(buf, s) /\ ValidUTF8(SubSeq(buf, 1, s)) /\ Sealed(buf, s)
        BY <1>3, SafeEnds
      <4> HIDE DEF s
      <4>3. safe = SubSeq(buf, 1, s)
        BY <1>4, <4>1 DEF s
      <4>4. Len(safe) = s /\ s \in 1 .. Len(buf)
        <5>1. s \in Nat /\ s <= Len(buf)
          BY <4>1, <4>2
        <5>2. Len(safe) = s
          BY <1>3, <4>3, <5>1, SplitAt
        <5> QED
          BY <3>1, <4>1, <5>1, <5>2
      <4>5. Boundary(input, Len(x)) /\ Sealed(input, Len(x))
            /\ \A i \in 1 .. Len(x) : x[i] # "CSI" /\ (x[i] = "u1" => i < Len(x))
        BY <2>1 DEF SafeCut
      <4>6. Boundary(input, Len(x) + s) /\ Sealed(input, Len(x) + s)
        BY <3>1, <4>1, <4>2, <4>4, <4>5, BoundaryShift
      <4>7. ASSUME NEW i \in 1 .. Len(y) PROVE y[i] # "CSI" /\ (y[i] = "u1" => i < Len(y))
        <5>1. CASE i <= Len(x)
          <6>1. y[i] = x[i] /\ i \in 1 .. Len(x)
            BY <1>4, <3>0, <3>1, <4>7, <5>1
          <6>2. i < Len(y)
            BY <3>1, <5>1
          <6> QED
            BY <4>5, <6>1, <6>2
        <5>2. CASE i > Len(x)
          <6> DEFINE j == i - Len(x)
          <6>1. j \in 1 .. Len(safe) /\ y[i] = safe[j] /\ (j < Len(safe) => i < Len(y))
            BY <1>4, <3>0, <3>1, <4>7, <5>2
          <6>2. DOMAIN safe = 1 .. Len(safe) /\ ValidUTF8(safe)
            BY <1>4, <4>2, <4>3
          <6>3. safe[j] \notin C1 /\ (safe[j] = "u1" => j < Len(safe))
            BY <6>1, <6>2 DEF ValidUTF8
          <6> QED
            BY <6>1, <6>3 DEF C1
        <5>3. i <= Len(x) \/ i > Len(x)
          <6>1. i \in Int /\ Len(x) \in Int
            BY <3>1
          <6> QED
            BY <6>1
        <5> QED
          BY <5>1, <5>2, <5>3, Zenon
      <4> QED
        BY <3>1, <4>4, <4>6, <4>7
    <3> QED
      BY <1>1, <2>2, <3>0, <3>1, <3>2, <3>3 DEF FedSoFar
  <2> QED
    BY <2>4, <2>5
<1> QED
  BY <1>1, <1>2, <1>4, <1>5, <1>6 DEF PtyInv

LEMMA ReadNx2Keeps ==
    ASSUME PtyInv, NEW n \in 1 .. ReadMax, ReadNx2(n)
    PROVE  PtyInv'
<1> DEFINE y == SubSeq(kernel, 1, n)
<1>1. /\ route = "nx2" /\ n <= Len(kernel) /\ n \in Nat /\ n >= 1 /\ carry' = carry
      /\ parser' = FeedBytes(parser, y)
      /\ kernel' = SubSeq(kernel, n + 1, Len(kernel))
      /\ alphabet' = alphabet /\ input' = input /\ route' = route /\ ended' = ended
  BY PtyStreamAssumption DEF ReadNx2
<1>2. input \in Seq(Byte) /\ kernel \in Seq(Byte) /\ carry = <<>>
  BY <1>1 DEF PtyInv
<1>3. y \in Seq(Byte) /\ Len(y) = n /\ kernel' \in Seq(Byte) /\ y # <<>> /\ <<>> \in Seq(Byte)
  <2>1. y \in Seq(Byte) /\ Len(y) = n /\ kernel' \in Seq(Byte)
    BY <1>1, <1>2, SplitAt
  <2> HIDE DEF y
  <2> QED
    BY <1>1, <2>1
<1>4. ASSUME ~ended PROVE FedSoFar'
  <2>1. PICK x \in Seq(Byte) : input = x \o (carry \o kernel) /\ Heard(x) /\ SafeCut(x)
    BY <1>4 DEF PtyInv, FedSoFar
  <2>2. y \o <<>> = <<>> \o y /\ <<>> \o kernel' = kernel'
    <3> HIDE DEF y
    <3> QED
      BY <1>3
  <2>3. input = x \o (y \o kernel') /\ input = (x \o y) \o (carry' \o kernel')
    <3> DEFINE k2 == SubSeq(kernel, n + 1, Len(kernel))
    <3>1. input = x \o (<<>> \o kernel)
      BY <1>2, <2>1
    <3>2. Taken(input, x, y, <<>>, k2)
      BY <1>1, <1>2, <1>3, <2>2, <3>1, ReadTakes, Zenon
    <3>3. kernel' = k2 /\ carry' = <<>>
      BY <1>1, <1>2
    <3> HIDE DEF k2, y
    <3> QED
      BY <2>2, <3>2, <3>3, Zenon DEF Taken
  <2>4. Fresh' = Fresh /\ (CutAtQuote' <=> CutAtQuote) /\ (CutAtRune' <=> CutAtRune)
        /\ (Unguarded' <=> Unguarded)
    BY <1>1, SameInput
  <2> HIDE DEF y
  <2>5. \/ /\ Ready(FeedBytes(parser, y)) /\ Flushed(FeedBytes(parser, y))
           /\ Same(FeedBytes(parser, y), FeedBytes(Fresh, x \o y))
        \/ CutAtQuote \/ CutAtRune
    BY <1>3, <2>1, <2>3, FeedMore
  <2>0. PICK z : z = x \o y
    OBVIOUS
  <2>6. z \in Seq(Byte) /\ z # <<>>
    BY <1>3, <2>0
  <2>7. \/ Ready(parser') /\ Flushed(parser') /\ Same(parser', FeedBytes(Fresh, z))
        \/ CutAtQuote \/ CutAtRune
    BY <1>1, <2>0, <2>5
  <2>8. input = z \o (carry' \o kernel')
    BY <2>0, <2>3
  <2>9. Heard(z)'
    BY <2>4, <2>6, <2>7 DEF Heard
  <2>10. SafeCut(z)'
    BY <1>1 DEF SafeCut, Unguarded
  <2> QED
    BY <1>1, <2>6, <2>8, <2>9, <2>10 DEF FedSoFar
<1> QED
  BY <1>1, <1>2, <1>3, <1>4 DEF PtyInv

LEMMA PtyInductive == PtyInv /\ [PtyNext]_ptyVars => PtyInv'
<1> SUFFICES ASSUME PtyInv, [PtyNext]_ptyVars PROVE PtyInv'
  OBVIOUS
<1>1. CASE \E w \in alphabet : Write(w)
  BY <1>1, WriteKeeps
<1>2. CASE \E n \in 1 .. ReadMax : ReadServer(n)
  BY <1>2, ReadServerKeeps
<1>3. CASE \E n \in 1 .. ReadMax : ReadNx2(n)
  BY <1>3, ReadNx2Keeps
<1>4. CASE ProgramEnds
  <2>1. <<>> \in Seq(Byte)
    OBVIOUS
  <2> QED
    BY <1>4, <2>1 DEF ProgramEnds, PtyInv
<1>5. CASE UNCHANGED ptyVars
  <2>1. /\ alphabet' = alphabet /\ input' = input /\ kernel' = kernel /\ route' = route
        /\ carry' = carry /\ parser' = parser /\ ended' = ended
    BY <1>5 DEF ptyVars
  <2>2. Fresh' = Fresh /\ (CutAtQuote' <=> CutAtQuote) /\ (CutAtRune' <=> CutAtRune)
        /\ (Unguarded' <=> Unguarded)
    BY <2>1, SameInput
  <2>3. \A fed : (Heard(fed) => Heard(fed)') /\ (SafeCut(fed) => SafeCut(fed)')
    BY <2>1, <2>2 DEF Heard, SafeCut
  <2>4. FedSoFar => FedSoFar'
    BY <2>1, <2>3 DEF FedSoFar
  <2> QED
    BY <2>1, <2>4 DEF PtyInv
<1> QED
  BY <1>1, <1>2, <1>3, <1>4, <1>5 DEF PtyNext

LEMMA PtyImplies == PtyInv => ChunksDoNotMatter
<1> SUFFICES ASSUME PtyInv, kernel = <<>>, carry = <<>>, ~ended, ~CutAtQuote, ~CutAtRune
             PROVE  Calls(parser.out) = Calls(InOnePiece.out)
  BY DEF ChunksDoNotMatter
<1>1. PICK fed \in Seq(Byte) : input = fed \o (carry \o kernel) /\ Heard(fed)
  BY DEF PtyInv, FedSoFar
<1>2. fed = input
  <2>1. carry \o kernel = <<>> /\ fed \o <<>> = fed
    OBVIOUS
  <2> QED
    BY <1>1, <2>1
<1>3. Flushed(parser) /\ Same(parser, InOnePiece)
  BY <1>1, <1>2 DEF Heard, InOnePiece, Fresh
<1>4. Flushed(InOnePiece)
  BY <1>1, <1>2, FeedFlushes DEF InOnePiece
<1> QED
  BY <1>3, <1>4, FlushOfFlushed DEF Same, Alike

(* Where the output of a program is cut makes no difference to what the    *)
(* emulator is told (stream.go's pendingBytes and state, readLoop's carry) *)
(* but for the two cuts that ChunksDoNotMatter names: for words over any   *)
(* bytes, of any length, read in pieces of any size.                       *)
THEOREM ChunksNeverMatter == PtySpec => []ChunksDoNotMatter
<1>1. PtyInit => PtyInv
  BY PtyInitial
<1>2. PtyInv /\ [PtyNext]_ptyVars => PtyInv'
  BY PtyInductive
<1>3. PtyInv => ChunksDoNotMatter
  BY PtyImplies
<1> QED
  BY <1>1, <1>2, <1>3, PTL DEF PtySpec

-----------------------------------------------------------------------------
(* The slow client                                                         *)

ApplyFrame(p, b, f) == Apply(b, f)
Screens == INSTANCE FoldLaws WITH Op <- ApplyFrame

Shown == Nat \union {Torn}
Frame == [region : Region, type : {"events", "snapshot"}, from : Nat, to : Nat]
Client == [ch : Seq(Frame), behind : BOOLEAN, expired : BOOLEAN, open : BOOLEAN, failed : BOOLEAN]

TypeOK ==
    /\ screen \in [Region -> Nat]
    /\ subscribed \subseteq Region
    /\ client \in Client
    /\ copy \in [Region -> Shown]
    /\ rollbacks \in Nat

(* The screens that reading the frames of s makes of b: see WillShow.      *)
Read(b, s) == FoldLeft(Apply, b, s)

OneWhenBehind == client.behind => \A r, s \in subscribed : r = s

(* A client q with screens b shows v for r once it has read its queue,     *)
(* unless q is closed, broken or marked.                                   *)
Good(b, q, r, v) ==
    q.open /\ ~q.failed /\ ~q.behind => Read(b, q.ch)[r] = v

(* InSyncOrBehind, without exception for the region that is being left.    *)
AllGood == \A r \in subscribed : Good(copy, client, r, screen[r])

(* Unless an upgrade failed, whoever is behind has a timer to repair it.   *)
RepairPending ==
    rollbacks = 0 => \A r \in subscribed : client.behind => r \in timer

(* A pending timer is an armed one, and only a failed upgrade stops it.    *)
TimersArmed == rollbacks = 0 => timer = catchupArmed

IInv == TypeOK /\ AllGood /\ TimersArmed /\ RepairPending

-----------------------------------------------------------------------------
(* Reading frames. *)

LEMMA ScreensInduction == Screens!Induction
  BY NaturalInduction DEF ByteLaws!Induction, Screens!Induction

(* The fold of SequencesExt is the one whose laws FoldLaws proves.         *)
LEMMA ReadFold == \A b, s : Read(b, s) = Screens!Fold(0, b, s)
  BY DEF Read, FoldLeft, MapThenFoldSet, Max, Screens!Fold, Screens!Greatest, ApplyFrame

(* One more frame in the queue is one more frame read, and last.           *)
LEMMA ReadAppend ==
    ASSUME NEW s \in Seq(Frame), NEW f \in Frame, NEW b
    PROVE  Read(b, Append(s, f)) = Apply(Read(b, s), f)
  BY ReadFold, ScreensInduction, Screens!FoldAppend DEF ApplyFrame

(* Reading the first frame now or later makes no difference.               *)
LEMMA ReadHead ==
    ASSUME NEW s \in Seq(Frame), s # <<>>, NEW b
    PROVE  Read(b, s) = Read(Apply(b, Head(s)), Tail(s))
  BY ReadFold, ScreensInduction, Screens!FoldHead DEF ApplyFrame

LEMMA ApplyType ==
    ASSUME NEW x \in [Region -> Shown], NEW f \in Frame
    PROVE  Apply(x, f) \in [Region -> Shown]
  BY DEF Apply, Frame, Shown

LEMMA ReadType ==
    ASSUME NEW s \in Seq(Frame), NEW b \in [Region -> Shown]
    PROVE  Read(b, s) \in [Region -> Shown]
<1>1. Screens!Closed(0, [Region -> Shown], Frame)
  BY ApplyType DEF Screens!Closed, ApplyFrame
<1> QED
  BY <1>1, ReadFold, ScreensInduction, Screens!FoldStaysIn

(* Apply for the region of the frame. *)
LEMMA ApplyShows ==
    ASSUME NEW x \in [Region -> Shown], NEW f \in Frame,
           f.type = "snapshot" \/ x[f.region] = f.from
    PROVE  Apply(x, f)[f.region] = f.to
  BY DEF Apply, Frame

(* A frame is of no concern to another region. *)
LEMMA ReadOther ==
    ASSUME NEW b \in [Region -> Shown], NEW s \in Seq(Frame), NEW f \in Frame,
           NEW r \in Region, r # f.region
    PROVE  Read(b, Append(s, f))[r] = Read(b, s)[r]
<1>1. Read(b, Append(s, f)) = Apply(Read(b, s), f)
  BY ReadAppend
<1>2. Read(b, s) \in [Region -> Shown]
  BY ReadType
<1> QED
  BY <1>1, <1>2 DEF Apply, Frame

LEMMA WillShowRead == ASSUME NEW r PROVE WillShow(r) = Read(copy, client.ch)[r]
  BY DEF WillShow, Read

-----------------------------------------------------------------------------
(* Queueing frames. *)

(* A frame in the queue shows what it leads to, if it is a snapshot or the *)
(* client was good for what it leads from.                                 *)
LEMMA EnqueueGood ==
    ASSUME NEW b \in [Region -> Shown], NEW q \in Client, NEW f \in Frame,
           f.type = "snapshot" \/ Good(b, q, f.region, f.from)
    PROVE  /\ Enqueue(q, f) \in Client
           /\ Enqueue(q, f).behind = q.behind /\ Enqueue(q, f).open = q.open
           /\ Enqueue(q, f).failed = q.failed
           /\ Good(b, Enqueue(q, f), f.region, f.to)
<1> DEFINE p == Enqueue(q, f)
<1>1. /\ p \in Client /\ p.behind = q.behind /\ p.open = q.open /\ p.failed = q.failed
      /\ p.ch = Append(q.ch, f)
  BY DEF Enqueue, Client
<1>2. q.ch \in Seq(Frame)
  BY DEF Client
<1>3. Read(b, p.ch) = Apply(Read(b, q.ch), f)
  BY <1>1, <1>2, ReadAppend
<1>4. ASSUME q.open, ~q.failed, ~q.behind PROVE Read(b, p.ch)[f.region] = f.to
  <2>1. f.type = "snapshot" \/ Read(b, q.ch)[f.region] = f.from
    BY <1>4 DEF Good
  <2> QED
    BY <1>2, <1>3, <2>1, ReadType, ApplyShows
<1> HIDE DEF p
<1> QED
  BY <1>1, <1>4 DEF Good, p

(* A repair leaves the client good, whatever it was. *)
LEMMA CaughtUpGood ==
    ASSUME NEW b \in [Region -> Shown], NEW q \in Client, NEW r \in Region, NEW v \in Nat
    PROVE  /\ CaughtUp(q, Snapshot(r, v)) \in Client
           /\ Good(b, CaughtUp(q, Snapshot(r, v)), r, v)
<1> DEFINE f == Snapshot(r, v)
           p == CaughtUp(q, f)
<1>1. f \in Frame /\ f.region = r /\ f.to = v /\ f.type = "snapshot"
  BY DEF Snapshot, Frame
<1>2. p \in Client /\ p.ch = Append(q.ch, f)
  <2> DEFINE e == Enqueue(q, f)
  <2>1. e \in Client /\ e.ch = Append(q.ch, f)
    <3> HIDE DEF f
    <3> QED
      BY <1>1 DEF Enqueue, Client
  <2>2. p = [e EXCEPT !.behind = FALSE, !.expired = FALSE]
    BY DEF CaughtUp
  <2> HIDE DEF e, p
  <2> QED
    BY <2>1, <2>2 DEF Client
<1>3. q.ch \in Seq(Frame)
  BY DEF Client
<1>4. Read(b, p.ch)[r] = v
  BY <1>1, <1>2, <1>3, ReadAppend, ReadType, ApplyShows
<1> HIDE DEF p
<1> QED
  BY <1>2, <1>4 DEF Good, p

(* deliverFrames for one frame. *)
LEMMA DeliverGood ==
    ASSUME NEW b \in [Region -> Shown], NEW q \in Client, NEW f \in Frame,
           f.type = "snapshot" \/ Good(b, q, f.region, f.from)
    PROVE  LET p == Deliver(q, f, Snapshot(f.region, f.to))
           IN  p \in Client /\ Good(b, p, f.region, f.to)
<1> DEFINE snap == Snapshot(f.region, f.to)
           p == Deliver(q, f, snap)
<1>1. CASE ~WriteChHasRoom(q)
  <2>1. p = IF q.behind /\ q.expired THEN BreakCircuit(q) ELSE MarkBehind(q)
    BY <1>1 DEF Deliver
  <2>2. BreakCircuit(q) \in Client /\ ~BreakCircuit(q).open
    BY DEF BreakCircuit, Client
  <2>3. MarkBehind(q) \in Client /\ MarkBehind(q).behind
    BY DEF MarkBehind, Client
  <2> HIDE DEF p
  <2> QED
    BY <2>1, <2>2, <2>3 DEF Good, p
<1>2. CASE WriteChHasRoom(q)
  <2> DEFINE e == Enqueue(q, f)
  <2>1. e \in Client /\ Good(b, e, f.region, f.to)
    BY EnqueueGood
  <2>2. p = IF e.behind /\ WriteChHasRoom(e) THEN CaughtUp(e, snap) ELSE e
    BY <1>2 DEF Deliver
  <2>3. f.region \in Region /\ f.to \in Nat
    BY DEF Frame
  <2>4. CaughtUp(e, snap) \in Client /\ Good(b, CaughtUp(e, snap), f.region, f.to)
    BY <2>1, <2>3, CaughtUpGood
  <2> HIDE DEF p, e, snap
  <2> QED
    BY <2>1, <2>2, <2>4 DEF p, snap
<1> QED
  BY <1>1, <1>2

(* Enqueueing a frame, or delivering it to a client that needs no repair   *)
(* or has no room for one, leaves the screens of the other regions.        *)
LEMMA EnqueueOther ==
    ASSUME NEW b \in [Region -> Shown], NEW q \in Client, NEW f \in Frame,
           NEW r \in Region, r # f.region, NEW v, Good(b, q, r, v)
    PROVE  Good(b, Enqueue(q, f), r, v)
<1>1. q.ch \in Seq(Frame)
  BY DEF Client
<1>2. /\ Enqueue(q, f).behind = q.behind /\ Enqueue(q, f).open = q.open
      /\ Enqueue(q, f).failed = q.failed /\ Enqueue(q, f).ch = Append(q.ch, f)
  BY DEF Enqueue, Client
<1> QED
  BY <1>1, <1>2, ReadOther DEF Good

Repairable(q) == q.behind /\ WriteChHasRoom(q)

LEMMA DeliverOther ==
    ASSUME NEW b \in [Region -> Shown], NEW q \in Client, NEW f \in Frame, NEW snap,
           NEW r \in Region, r # f.region, NEW v, Good(b, q, r, v), ~Repairable(q)
    PROVE  Good(b, Deliver(q, f, snap), r, v) /\ ~Repairable(Deliver(q, f, snap))
<1>1. CASE ~WriteChHasRoom(q)
  <2>1. /\ BreakCircuit(q) \in Client /\ ~BreakCircuit(q).open /\ BreakCircuit(q).ch = q.ch
        /\ MarkBehind(q) \in Client /\ MarkBehind(q).behind /\ MarkBehind(q).ch = q.ch
    BY DEF BreakCircuit, MarkBehind, Client
  <2> QED
    BY <1>1, <2>1 DEF Deliver, Good, Repairable, WriteChHasRoom
<1>2. CASE WriteChHasRoom(q)
  <2>1. ~q.behind
    BY <1>2 DEF Repairable
  <2>2. ~Enqueue(q, f).behind
    BY <2>1 DEF Enqueue, Client
  <2> QED
    BY <1>2, <2>2, EnqueueOther DEF Deliver, Repairable
<1> QED
  BY <1>1, <1>2

-----------------------------------------------------------------------------
(* The actions. *)

LEMMA Initial == Init => IInv
<1> SUFFICES ASSUME Init PROVE IInv
  OBVIOUS
<1>1. client \in Client
  BY DEF Init, Client
<1> QED
  BY <1>1 DEF Init, IInv, TypeOK, Shown, AllGood, TimersArmed, RepairPending

(* armCatchupIfBehind: what it leaves of the timers' part of IInv.         *)
LEMMA ArmTimers ==
    ASSUME NEW r \in Region, NEW subs, NEW q, Arm(r, subs, q), TimersArmed, rollbacks' = rollbacks
    PROVE  /\ TimersArmed'
           /\ rollbacks = 0 /\ r \in subs /\ q.behind => r \in timer'
           /\ timer \subseteq timer'
  BY DEF Arm, TimersArmed

LEMMA OutputStep ==
    ASSUME IInv, OneWhenBehind, OneWhenBehind', NEW r \in Region,
           NEW mode \in {"events", "snapshot", "trailing"}, Output(r, mode)
    PROVE  IInv'
<1> DEFINE v == screen[r] + 1
           snap == Snapshot(r, v)
           first == IF mode = "events" THEN Events(r, screen[r], v) ELSE snap
           once == Deliver(client, first, snap)
           twice == IF mode = "trailing" THEN Deliver(once, Events(r, v, v), snap) ELSE once
<1>1. /\ screen' = [screen EXCEPT ![r] = v]
      /\ client' = IF r \in subscribed THEN twice ELSE client
      /\ Arm(r, subscribed, client')
      /\ UNCHANGED <<subscribed, copy, rollbacks>>
  BY DEF Output
<1>2. v \in Nat /\ screen[r] \in Nat /\ screen' \in [Region -> Nat] /\ client \in Client
      /\ copy \in [Region -> Shown]
  BY <1>1 DEF IInv, TypeOK
<1> HIDE DEF v
<1>3. snap \in Frame /\ Events(r, screen[r], v) \in Frame /\ Events(r, v, v) \in Frame
  BY <1>2 DEF Snapshot, Events, Frame
<1>4. ASSUME r \in subscribed PROVE twice \in Client /\ Good(copy, twice, r, v)
  <2>1. first \in Frame /\ first.region = r /\ first.to = v
        /\ (first.type = "snapshot" \/ first.from = screen[r])
    BY <1>2, <1>3 DEF Snapshot, Events
  <2>2. Good(copy, client, r, screen[r])
    BY <1>4 DEF IInv, AllGood
  <2>3. once \in Client /\ Good(copy, once, r, v)
    <3> HIDE DEF first
    <3> QED
      BY <1>2, <2>1, <2>2, DeliverGood
  <2>4. Deliver(once, Events(r, v, v), snap) \in Client
        /\ Good(copy, Deliver(once, Events(r, v, v), snap), r, v)
    <3> DEFINE f == Events(r, v, v)
    <3>1. f.region = r /\ f.to = v /\ f.from = v
      BY DEF Events
    <3> HIDE DEF once, f
    <3> QED
      BY <1>2, <1>3, <2>3, <3>1, DeliverGood DEF f
  <2> HIDE DEF once
  <2> QED
    BY <2>3, <2>4
<1>9. ASSUME r \in subscribed, NEW s \in Region, s # r, NEW w, Good(copy, client, s, w), ~Repairable(client)
      PROVE  Good(copy, twice, s, w)
  <2>1. first \in Frame /\ first.region = r /\ first.to = v
    BY <1>2, <1>3 DEF Snapshot, Events
  <2>2. Events(r, v, v).region = r
    BY DEF Events
  <2>3. Good(copy, once, s, w) /\ ~Repairable(once)
    <3> HIDE DEF first, snap
    <3> QED
      BY <1>2, <1>9, <2>1, DeliverOther
  <2>4. once \in Client
    <3>1. Good(copy, client, r, screen[r])
      BY <1>9 DEF IInv, AllGood
    <3>2. first.type = "snapshot" \/ first.from = screen[r]
      BY DEF Snapshot, Events
    <3> HIDE DEF first
    <3> QED
      BY <1>2, <2>1, <3>1, <3>2, DeliverGood
  <2> HIDE DEF once, snap
  <2> QED
    BY <1>2, <1>3, <1>9, <2>2, <2>3, <2>4, DeliverOther
<1> HIDE DEF twice
<1>5. TypeOK'
  BY <1>1, <1>2, <1>4 DEF IInv, TypeOK
<1>6. AllGood'
  <2> SUFFICES ASSUME NEW s \in subscribed PROVE Good(copy, client', s, screen'[s])
    BY <1>1 DEF AllGood
  <2>1. s \in Region
    BY DEF IInv, TypeOK
  <2>2. CASE r \in subscribed /\ s = r
    BY <1>1, <1>2, <1>4, <2>2 DEF IInv, TypeOK
  <2>4. CASE r \in subscribed /\ s # r
    <3>1. Good(copy, client, s, screen[s]) /\ ~Repairable(client)
      BY <2>4 DEF IInv, AllGood, OneWhenBehind, Repairable
    <3>2. Good(copy, twice, s, screen[s])
      BY <1>9, <2>1, <2>4, <3>1
    <3> QED
      BY <1>1, <1>2, <2>1, <2>4, <3>2 DEF IInv, TypeOK
  <2>3. CASE r \notin subscribed
    BY <1>1, <1>2, <2>1, <2>3 DEF IInv, TypeOK, AllGood
  <2> QED
    BY <2>2, <2>3, <2>4
<1>7. TimersArmed'
  BY <1>1, ArmTimers DEF IInv
<1>8. RepairPending'
  <2> SUFFICES ASSUME rollbacks = 0, NEW s \in subscribed, client'.behind PROVE s \in timer'
    BY <1>1 DEF RepairPending
  <2>1. timer \subseteq timer' /\ (r \in subscribed => r \in timer')
    BY <1>1, ArmTimers DEF IInv
  <2>2. CASE r \in subscribed
    BY <1>1, <2>1, <2>2 DEF OneWhenBehind
  <2>3. CASE r \notin subscribed
    BY <1>1, <2>1, <2>3 DEF IInv, RepairPending
  <2> QED
    BY <2>2, <2>3
<1> QED
  BY <1>5, <1>6, <1>7, <1>8 DEF IInv

LEMMA AddSubscriberStep ==
    ASSUME IInv, OneWhenBehind', NEW r \in Region, AddSubscriber(r)
    PROVE  IInv'
<1>1. /\ client' = IF WriteChHasRoom(client) THEN Enqueue(client, Snapshot(r, screen[r]))
                   ELSE MarkBehind(client)
      /\ subscribed' = subscribed \union {r}
      /\ Arm(r, subscribed', client')
      /\ UNCHANGED <<screen, copy, rollbacks>>
  BY DEF AddSubscriber
<1>2. client \in Client /\ copy \in [Region -> Shown] /\ screen[r] \in Nat
  BY DEF IInv, TypeOK
<1>3. client'.behind => subscribed' = {r}
  BY <1>1 DEF OneWhenBehind
<1>4. client' \in Client /\ Good(copy, client', r, screen[r])
  <2> DEFINE f == Snapshot(r, screen[r])
  <2>1. f \in Frame /\ f.type = "snapshot" /\ f.region = r /\ f.to = screen[r]
    BY <1>2 DEF Snapshot, Frame
  <2> HIDE DEF f
  <2>2. Enqueue(client, f) \in Client /\ Good(copy, Enqueue(client, f), r, screen[r])
    BY <1>2, <2>1, EnqueueGood
  <2>3. MarkBehind(client) \in Client /\ MarkBehind(client).behind
    BY <1>2 DEF MarkBehind, Client
  <2> QED
    BY <1>1, <2>2, <2>3 DEF Good, f
<1>5. TypeOK'
  BY <1>1, <1>4 DEF IInv, TypeOK
<1>6. AllGood'
  <2> SUFFICES ASSUME NEW s \in subscribed' PROVE Good(copy, client', s, screen[s])
    BY <1>1 DEF AllGood
  <2>1. CASE s = r
    BY <1>4, <2>1
  <2>2. CASE s # r
    <3>1. s \in Region /\ Good(copy, client, s, screen[s])
      BY <1>1, <2>2 DEF IInv, TypeOK, AllGood
    <3> DEFINE f == Snapshot(r, screen[r])
    <3>2. f \in Frame /\ f.region = r
      BY <1>2 DEF Snapshot, Frame
    <3> HIDE DEF f
    <3>3. Good(copy, Enqueue(client, f), s, screen[s])
      BY <1>2, <2>2, <3>1, <3>2, EnqueueOther
    <3>4. MarkBehind(client).behind
      BY <1>2 DEF MarkBehind, Client
    <3> QED
      BY <1>1, <3>3, <3>4 DEF Good, f
  <2> QED
    BY <2>1, <2>2
<1>7. TimersArmed' /\ RepairPending'
  BY <1>1, <1>3, ArmTimers DEF IInv, RepairPending
<1> QED
  BY <1>5, <1>6, <1>7 DEF IInv

LEMMA RemoveSubscriberStep ==
    ASSUME IInv, NEW r \in Region, RemoveSubscriber(r)
    PROVE  IInv'
<1>1. /\ subscribed' = subscribed \ {r}
      /\ Arm(r, subscribed', client)
      /\ UNCHANGED <<screen, client, copy, rollbacks>>
  BY DEF RemoveSubscriber
<1>2. TypeOK' /\ AllGood'
  BY <1>1 DEF IInv, TypeOK, AllGood
<1>3. TimersArmed' /\ timer \subseteq timer'
  BY <1>1, ArmTimers DEF IInv
<1>4. RepairPending'
  BY <1>1, <1>3 DEF IInv, RepairPending
<1> QED
  BY <1>2, <1>3, <1>4 DEF IInv

LEMMA CatchupTimerStep ==
    ASSUME IInv, OneWhenBehind, OneWhenBehind', NEW r \in Region, CatchupTimer(r)
    PROVE  IInv'
<1> DEFINE snap == Snapshot(r, screen[r])
<1>1. /\ client' = IF r \in subscribed THEN Repair(client, snap) ELSE client
      /\ IF r \in subscribed /\ client'.behind
         THEN UNCHANGED <<catchupArmed, timer>>
         ELSE catchupArmed' = catchupArmed \ {r} /\ timer' = timer \ {r}
      /\ UNCHANGED <<screen, subscribed, copy, rollbacks>>
      /\ r \in timer
  BY DEF CatchupTimer
<1>2. client \in Client /\ copy \in [Region -> Shown] /\ screen[r] \in Nat
  BY DEF IInv, TypeOK
<1>3. CaughtUp(client, snap) \in Client /\ Good(copy, CaughtUp(client, snap), r, screen[r])
  BY <1>2, CaughtUpGood
<1>4. BreakCircuit(client) \in Client /\ ~BreakCircuit(client).open
  BY <1>2 DEF BreakCircuit, Client
<1>5. \/ client' = client
      \/ client.behind /\ r \in subscribed /\ client' = BreakCircuit(client)
      \/ client.behind /\ r \in subscribed /\ client' = CaughtUp(client, snap)
  BY <1>1 DEF Repair
<1> HIDE DEF snap
<1>6. TypeOK'
  BY <1>1, <1>2, <1>3, <1>4, <1>5 DEF IInv, TypeOK
<1>7. AllGood'
  <2> SUFFICES ASSUME NEW s \in subscribed PROVE Good(copy, client', s, screen[s])
    BY <1>1 DEF AllGood
  <2>1. Good(copy, client, s, screen[s])
    BY DEF IInv, AllGood
  <2>2. client.behind /\ r \in subscribed => s = r
    BY DEF OneWhenBehind
  <2> QED
    BY <1>3, <1>4, <1>5, <2>1, <2>2 DEF Good
<1>8. TimersArmed'
  BY <1>1 DEF IInv, TimersArmed
<1>9. RepairPending'
  <2> SUFFICES ASSUME rollbacks = 0, NEW s \in subscribed, client'.behind PROVE s \in timer'
    BY <1>1 DEF RepairPending
  <2>1. CASE r \in subscribed
    <3>1. s = r
      BY <1>1, <2>1 DEF OneWhenBehind
    <3> QED
      BY <1>1, <2>1, <3>1
  <2>2. CASE r \notin subscribed
    BY <1>1, <2>2 DEF IInv, RepairPending
  <2> QED
    BY <2>1, <2>2
<1> QED
  BY <1>6, <1>7, <1>8, <1>9 DEF IInv

(* An upgrade that fails only stops a timer; from then on rollbacks > 0.   *)
LEMMA RollbackStep == ASSUME IInv, NEW r \in Region, Rollback(r) PROVE IInv'
  BY DEF Rollback, IInv, TypeOK, AllGood, TimersArmed, RepairPending

LEMMA WriteLoopStep == ASSUME IInv, WriteLoop PROVE IInv'
<1> DEFINE m == Head(client.ch)
<1>1. /\ client.ch # <<>>
      /\ copy' = Apply(copy, m)
      /\ client' = [client EXCEPT !.ch = Tail(@)]
      /\ UNCHANGED <<screen, subscribed, catchupArmed, timer, rollbacks>>
  BY DEF WriteLoop
<1>2. client \in Client /\ client.ch \in Seq(Frame) /\ copy \in [Region -> Shown]
  BY DEF IInv, TypeOK, Client
<1>3. m \in Frame /\ Tail(client.ch) \in Seq(Frame)
  BY <1>1, <1>2
<1>4. Read(copy, client.ch) = Read(copy', Tail(client.ch))
  BY <1>1, <1>2, ReadHead
<1>5. copy' \in [Region -> Shown]
  BY <1>1, <1>2, <1>3, ApplyType
<1> HIDE DEF m
<1>6. /\ client' \in Client /\ client'.ch = Tail(client.ch) /\ client'.behind = client.behind
      /\ client'.open = client.open /\ client'.failed = client.failed
  BY <1>1, <1>2, <1>3 DEF Client
<1>7. TypeOK'
  BY <1>1, <1>5, <1>6 DEF IInv, TypeOK
<1>8. AllGood'
  BY <1>1, <1>4, <1>6 DEF IInv, AllGood, Good
<1>9. TimersArmed' /\ RepairPending'
  BY <1>1, <1>6 DEF IInv, TimersArmed, RepairPending
<1> QED
  BY <1>7, <1>8, <1>9 DEF IInv

(* After a failed write the client's screen is of no concern. *)
LEMMA WriteLoopFailedStep == ASSUME IInv, WriteLoopFailed PROVE IInv'
<1>1. /\ client.ch # <<>>
      /\ client' = [client EXCEPT !.ch = Tail(@), !.failed = TRUE]
      /\ UNCHANGED <<screen, subscribed, catchupArmed, timer, copy, rollbacks>>
  BY DEF WriteLoopFailed
<1>2. client \in Client /\ Tail(client.ch) \in Seq(Frame)
  BY <1>1 DEF IInv, TypeOK, Client
<1>3. client' \in Client /\ client'.failed /\ client'.behind = client.behind
  BY <1>1, <1>2 DEF Client
<1> QED
  BY <1>1, <1>3 DEF IInv, TypeOK, AllGood, Good, TimersArmed, RepairPending

LEMMA ExpireStep == ASSUME IInv, Expire PROVE IInv'
<1>1. /\ client' = [client EXCEPT !.expired = TRUE]
      /\ UNCHANGED <<screen, subscribed, catchupArmed, timer, copy, rollbacks>>
  BY DEF Expire
<1>2. /\ client' \in Client /\ client'.ch = client.ch /\ client'.behind = client.behind
      /\ client'.open = client.open /\ client'.failed = client.failed
  BY <1>1 DEF IInv, TypeOK, Client
<1> QED
  BY <1>1, <1>2 DEF IInv, TypeOK, AllGood, Good, TimersArmed, RepairPending

LEMMA Step == IInv /\ OneWhenBehind /\ OneWhenBehind' /\ [Next]_vars => IInv'
<1> SUFFICES ASSUME IInv, OneWhenBehind, OneWhenBehind', [Next]_vars PROVE IInv'
  OBVIOUS
<1>1. CASE \E r \in Region : \E mode \in {"events", "snapshot", "trailing"} : Output(r, mode)
  BY <1>1, OutputStep
<1>2. CASE \E r \in Region : AddSubscriber(r)
  BY <1>2, AddSubscriberStep
<1>3. CASE \E r \in Region : RemoveSubscriber(r)
  BY <1>3, RemoveSubscriberStep
<1>4. CASE \E r \in Region : CatchupTimer(r)
  BY <1>4, CatchupTimerStep
<1>5. CASE \E r \in Region : Rollback(r)
  BY <1>5, RollbackStep
<1>6. CASE Unsubscribe
  BY <1>6 DEF Unsubscribe, IInv, TypeOK, AllGood, TimersArmed, RepairPending
<1>7. CASE WriteLoop
  BY <1>7, WriteLoopStep
<1>8. CASE WriteLoopFailed
  BY <1>8, WriteLoopFailedStep
<1>9. CASE Expire
  BY <1>9, ExpireStep
<1>10. CASE UNCHANGED vars
  BY <1>10 DEF vars, IInv, TypeOK, AllGood, TimersArmed, RepairPending
<1> QED
  BY <1>1, <1>2, <1>3, <1>4, <1>5, <1>6, <1>7, <1>8, <1>9, <1>10 DEF Next

-----------------------------------------------------------------------------
(* The theorems. *)

(* deliverFrames, addSubscriberMsg and catchupBehindSubscribers: as long   *)
(* as the client is not behind with two regions at one time, it is marked  *)
(* behind, or it ends up with the exact screen of each region it watches:  *)
(* no drop goes unmarked, and no repair clears a mark that a later drop    *)
(* has set, in whatever order the actors and writeLoop run.                *)
THEOREM NoDropUnmarked == Spec /\ []OneWhenBehind => []InSyncOrBehind
<1>1. Init => IInv
  BY Initial
<1>2. IInv /\ OneWhenBehind /\ OneWhenBehind' /\ [Next]_vars => IInv'
  BY Step
<1>3. IInv => InSyncOrBehind
  BY WillShowRead DEF IInv, AllGood, Good, InSyncOrBehind, InSync
<1> QED
  BY <1>1, <1>2, <1>3, PTL DEF Spec

(* armCatchupIfBehind: whoever is behind has a catchup timer pending, from *)
(* the moment of the drop until it is repaired, disconnected or removed;   *)
(* only an upgrade that fails can lose the timer.                          *)
THEOREM BehindHasTimer == Spec /\ []OneWhenBehind => []RepairPending
<1>1. Init => IInv
  BY Initial
<1>2. IInv /\ OneWhenBehind /\ OneWhenBehind' /\ [Next]_vars => IInv'
  BY Step
<1>3. IInv => RepairPending
  BY DEF IInv
<1> QED
  BY <1>1, <1>2, <1>3, PTL DEF Spec

=============================================================================
