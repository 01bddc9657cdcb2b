------------------------------ MODULE TuiProofs ------------------------------
(***************************************************************************)
(* Theorems about the viewer's program and about the lines it draws.       *)
(* Program: the order of a sequence's messages and the end of drawing, for *)
(* every set of commands, however nested, and every number of keys,        *)
(* messages and panics.  Styles: each character's colours and attributes,  *)
(* for every set of SGR parameters a program may use.                      *)
(***************************************************************************)
EXTENDS Program, Styles, WellFoundedInduction, TLAPS

GoodCommand == {c \in Command : WellFormed(c)}
JobType  == [cmd : GoodCommand, todo : Command, at : {"sends", "runs"}]
Places   == {"select", "cmds", "stop", "down", "dial", "asks", "complains", "logs", "locks", "exited", "crashed"}
LoopType == [at : Places, msg : Messages, cmd : GoodCommand, waits : {"no", "size", "connect"},
             dirty : BOOLEAN, panics : BOOLEAN]
UiType   == [model : Nat, view : Nat, out : BOOLEAN, broken : BOOLEAN]
TermType == [on : BOOLEAN, shows : Nat, late : BOOLEAN]
DownType == [at : {"no", "handlers", "renderer", "flush", "close", "out", "done"}, kill : BOOLEAN]
EnvType  == [connected : BOOLEAN, init : GoodCommand, commands : SUBSET GoodCommand, keys : Nat, server : Nat,
             signal : BOOLEAN, resize : BOOLEAN, quit : BOOLEAN]

ProofTypes ==
    /\ loop \in LoopType /\ env \in EnvType /\ live \in BOOLEAN /\ errs \in BOOLEAN
    /\ jobs \in Seq(JobType) /\ handled \in Seq(Nat \X Messages)
    /\ ui \in UiType
    /\ g \in [Goroutines -> {"waits", "sends", "flushes", "gone"}]
    /\ term \in TermType
    /\ down \in DownType

(* A goroutine sends what its command makes; while the context lives, all  *)
(* that is not left to do was handled (execSequenceMsg, execBatchMsg).     *)
Sent(n, m) == \E k \in DOMAIN handled : handled[k] = <<n, m>>
NothingLost ==
    /\ \A k \in DOMAIN handled : handled[k][1] \in DOMAIN jobs
    /\ \A n \in DOMAIN jobs : jobs[n].todo \subseteq jobs[n].cmd
    /\ live => \A n \in DOMAIN jobs : \A l \in jobs[n].cmd \ jobs[n].todo : Sent(n, l.m)

(* stopRenderer waits for the ticker before the last frame, and the        *)
(* renderer is closed after it.                                            *)
TickerFirst ==
    /\ down.at \in {"flush", "close", "out", "done"} => g["ticker"] = "gone"
    /\ ~term.on => down.at \in {"out", "done"}

IndInv == ProofTypes /\ NothingLost /\ SequenceInOrder /\ TickerFirst /\ NothingAfterRestore

-----------------------------------------------------------------------------
(* No command and one message are well-formed commands (tea.Batch of       *)
(* nothing, a plain Cmd).                                                  *)
LEMMA SmallCommands == {} \in GoodCommand /\ \A m \in Messages : Leaf(m) \in GoodCommand
BY DEF GoodCommand, Command, WellFormed, Leaf, Names

(* Start, with any load.                                                   *)
LEMMA InitInv == Init => IndInv
<1> SUFFICES ASSUME Init PROVE IndInv
  OBVIOUS
<1>1. env \in EnvType
  BY LoadsAssumption DEF Init, EnvType, GoodCommand
<1>2. loop \in LoopType
  BY SmallCommands, <1>1, MessagesAssumption DEF Init, LoopType, Places
<1>3. Job(Leaf("size")) \in JobType
  BY SmallCommands, MessagesAssumption DEF Job, JobType, GoodCommand
<1>4. jobs \in Seq(JobType) /\ handled \in Seq(Nat \X Messages)
  BY <1>3 DEF Init
<1>5. ProofTypes
  BY <1>1, <1>2, <1>4 DEF Init, ProofTypes, Goroutines, UiType, DownType, TermType
<1>6. NothingLost
  BY DEF Init, NothingLost, Job
<1>7. SequenceInOrder /\ TickerFirst /\ NothingAfterRestore
  BY DEF Init, SequenceInOrder, TickerFirst, NothingAfterRestore
<1> QED BY <1>5, <1>6, <1>7 DEF IndInv

-----------------------------------------------------------------------------
(* Handle, and the ways out of it, keep the loop's type.                   *)
LEMMA LoopKeepsType ==
    ASSUME ProofTypes
    PROVE  /\ \A m \in Messages, c \in GoodCommand : Update(m, c) =>
                  loop' \in LoopType /\ ui' \in UiType
           /\ Returned \in LoopType
           /\ Quits => loop' \in LoopType
           /\ \A place \in Places : At(place) => loop' \in LoopType
           /\ \A then \in LoopType : Render(then) =>
                  loop' \in LoopType /\ ui' \in UiType
<1> loop \in LoopType /\ ui \in UiType
  BY DEF ProofTypes
<1>1. ASSUME NEW m \in Messages, NEW c \in GoodCommand, Update(m, c)
      PROVE  loop' \in LoopType /\ ui' \in UiType
  <2>1. loop' \in LoopType
    <3> DEFINE changed == loop.dirty \/ loop.waits = "no"
    <3>1. changed \in BOOLEAN
      BY DEF LoopType
    <3>2. loop' = [loop EXCEPT !.at = "cmds", !.msg = m, !.cmd = c, !.dirty = changed]
      BY <1>1 DEF Update
    <3> QED
      <4> HIDE DEF changed
      <4> QED BY <3>1, <3>2 DEF LoopType, Places
  <2>2. ui' \in UiType
    <3> DEFINE wrote == ui.out \/ m = "clip"
               more == ui.model + 1
    <3>1. wrote \in BOOLEAN /\ more \in Nat
      BY DEF UiType
    <3>2. ui' = [ui EXCEPT !.model = more, !.out = wrote]
      BY <1>1 DEF Update
    <3> QED
      <4> HIDE DEF wrote, more
      <4> QED BY <3>1, <3>2 DEF UiType
  <2> QED BY <2>1, <2>2
<1>2. Returned \in LoopType
  BY SmallCommands, MessagesAssumption DEF LoopType, Places, Returned
<1>3. ASSUME Quits PROVE loop' \in LoopType
  <2>1. CASE loop.waits = "size"
    BY <1>3, <2>1, SmallCommands, MessagesAssumption DEF LoopType, Places, Quits
  <2>2. CASE loop.waits # "size"
    BY <1>3, <2>2, SmallCommands, MessagesAssumption DEF LoopType, Places, Quits
  <2> QED BY <2>1, <2>2
<1>4. ASSUME NEW place \in Places, At(place) PROVE loop' \in LoopType
  BY <1>4 DEF LoopType, At
<1>5. ASSUME NEW then \in LoopType, Render(then) PROVE loop' \in LoopType /\ ui' \in UiType
  <2>1. CASE ui.broken
    BY <1>5, <2>1 DEF LoopType, Places, Render
  <2>2. CASE ~ui.broken
    BY <1>5, <2>2 DEF UiType, Render
  <2> QED BY <2>1, <2>2
<1> QED BY <1>1, <1>2, <1>3, <1>4, <1>5

-----------------------------------------------------------------------------
(* What a command of a goroutine may become (Append of a job, one message  *)
(* less, execBatchMsg).                                                    *)
LEMMA JobsKeepType ==
    ASSUME ProofTypes
    PROVE  /\ \A c \in GoodCommand : Started(c) \in Seq(JobType)
           /\ Append(jobs, Job(Leaf("check"))) \in Seq(JobType)
           /\ \A n \in DOMAIN jobs : \A l \in jobs[n].todo : /\ l.m \in Messages /\ Done(n, l) \in Seq(JobType)
                                                          /\ Append(Done(n, l), Job(Leaf("dialed"))) \in Seq(JobType)
           /\ \A n \in DOMAIN jobs : /\ [jobs EXCEPT ![n].at = "runs"] \in Seq(JobType)
                                    /\ [jobs EXCEPT ![n].todo = {}] \in Seq(JobType)
<1> jobs \in Seq(JobType)
  BY DEF ProofTypes
<1>1. ASSUME NEW c \in GoodCommand PROVE Job(c) \in JobType
  BY DEF Job, JobType, GoodCommand
<1>2. ASSUME NEW c \in GoodCommand PROVE Started(c) \in Seq(JobType)
  BY <1>1 DEF Started
<1>5. Append(jobs, Job(Leaf("check"))) \in Seq(JobType)
  <2>1. Job(Leaf("check")) \in JobType
    BY <1>1, SmallCommands, MessagesAssumption
  <2> QED BY <2>1
<1>3. ASSUME NEW n \in DOMAIN jobs
      PROVE  /\ [jobs EXCEPT ![n].at = "runs"] \in Seq(JobType)
             /\ [jobs EXCEPT ![n].todo = {}] \in Seq(JobType)
  <2>1. jobs[n] \in JobType
    OBVIOUS
  <2>2. [jobs[n] EXCEPT !.at = "runs"] \in JobType /\ [jobs[n] EXCEPT !.todo = {}] \in JobType
    BY <2>1 DEF JobType, Command
  <2> QED BY <2>2
<1>4. ASSUME NEW n \in DOMAIN jobs, NEW l \in jobs[n].todo
      PROVE  /\ l.m \in Messages /\ Done(n, l) \in Seq(JobType)
             /\ Append(Done(n, l), Job(Leaf("dialed"))) \in Seq(JobType)
  <2>1. jobs[n] \in JobType
    OBVIOUS
  <2>2. l \in [m : Messages, after : SUBSET Messages]
    BY <2>1 DEF JobType, Command
  <2>3. [jobs[n] EXCEPT !.todo = @ \ {l}] \in JobType
    BY <2>1 DEF JobType, Command
  <2>4. Done(n, l) \in Seq(JobType)
    BY <2>3 DEF Done
  <2>5. Job(Leaf("dialed")) \in JobType
    BY <1>1, SmallCommands, MessagesAssumption
  <2> QED BY <2>2, <2>4, <2>5
<1> QED BY <1>2, <1>3, <1>4, <1>5
-----------------------------------------------------------------------------
(* What is still to happen only becomes less.                              *)
LEMMA EnvKeepsType ==
    ASSUME ProofTypes
    PROVE  /\ env.commands \subseteq GoodCommand /\ env.init \in GoodCommand
           /\ [env EXCEPT !.signal = FALSE] \in EnvType
           /\ [env EXCEPT !.resize = FALSE] \in EnvType
           /\ [env EXCEPT !.quit = FALSE] \in EnvType
           /\ env.keys > 0 => [env EXCEPT !.keys = @ - 1] \in EnvType
           /\ env.server > 0 => [env EXCEPT !.server = @ - 1] \in EnvType
<1> env \in EnvType
  BY DEF ProofTypes
<1>1. env.commands \subseteq GoodCommand /\ env.init \in GoodCommand
  BY DEF EnvType
<1>2. [env EXCEPT !.signal = FALSE] \in EnvType
  BY DEF EnvType
<1>3. [env EXCEPT !.resize = FALSE] \in EnvType
  BY DEF EnvType
<1>4. [env EXCEPT !.quit = FALSE] \in EnvType
  BY DEF EnvType
<1>5. ASSUME env.keys > 0 PROVE [env EXCEPT !.keys = @ - 1] \in EnvType
  <2>1. env.keys - 1 \in Nat
    BY <1>5 DEF EnvType
  <2> QED BY <2>1 DEF EnvType
<1>6. ASSUME env.server > 0 PROVE [env EXCEPT !.server = @ - 1] \in EnvType
  <2>1. env.server - 1 \in Nat
    BY <1>6 DEF EnvType
  <2> QED BY <2>1 DEF EnvType
<1> QED BY <1>1, <1>2, <1>3, <1>4, <1>5, <1>6

(* A goroutine's place, a stage of the shutdown and a frame.               *)
LEMMA OthersKeepType ==
    ASSUME ProofTypes
    PROVE  /\ \A who \in Goroutines, at \in {"waits", "sends", "flushes", "gone"} :
                  Go(who, at) => g' \in [Goroutines -> {"waits", "sends", "flushes", "gone"}]
           /\ \A place \in {"renderer", "flush", "close", "out", "done"} : DownTo(place) => down' \in DownType
           /\ Shown => term' \in TermType
           /\ [term EXCEPT !.on = FALSE] \in TermType
           /\ [ui EXCEPT !.out = FALSE] \in UiType
<1> /\ g \in [Goroutines -> {"waits", "sends", "flushes", "gone"}]
    /\ down \in DownType /\ term \in TermType /\ ui \in UiType
  BY DEF ProofTypes
<1>1. \A who \in Goroutines, at \in {"waits", "sends", "flushes", "gone"} :
          Go(who, at) => g' \in [Goroutines -> {"waits", "sends", "flushes", "gone"}]
  BY DEF Go
<1>2. \A place \in {"renderer", "flush", "close", "out", "done"} : DownTo(place) => down' \in DownType
  BY DEF DownTo, DownType
<1>3. ASSUME Shown PROVE term' \in TermType
  <2> DEFINE drawn == term.late \/ (~term.on /\ term.shows # ui.view)
  <2>1. drawn \in BOOLEAN /\ ui.view \in Nat
    BY DEF TermType, UiType
  <2>2. term' = [term EXCEPT !.shows = ui.view, !.late = drawn]
    BY <1>3 DEF Shown
  <2> QED
    <3> HIDE DEF drawn
    <3> QED BY <2>1, <2>2 DEF TermType
<1>4. [term EXCEPT !.on = FALSE] \in TermType /\ [ui EXCEPT !.out = FALSE] \in UiType
  BY DEF TermType, UiType
<1> QED BY <1>1, <1>2, <1>3, <1>4

(* processServerMsg, and a dial.                                           *)
LEMMA LoopServerKeepsType ==
    ASSUME ProofTypes
    PROVE  /\ LoopServer => loop' \in LoopType /\ ui' \in UiType
           /\ Dial => loop' \in LoopType /\ ui' \in UiType
           /\ [loop EXCEPT !.dirty = FALSE] \in LoopType
           /\ [loop EXCEPT !.dirty = @ \/ loop.waits = "no"] \in LoopType
<1> loop \in LoopType /\ ui \in UiType
  BY DEF ProofTypes
<1>1. ASSUME LoopServer PROVE loop' \in LoopType /\ ui' \in UiType
  <2>1. PICK s \in Serves :
          CASE s = "changes" -> ui' = [ui EXCEPT !.model = @ + 1] /\ loop' = [loop EXCEPT !.dirty = TRUE]
            [] s = "breaks"  -> ui' = [ui EXCEPT !.model = @ + 1, !.broken = TRUE] /\ loop' = [loop EXCEPT !.dirty = TRUE]
            [] s = "panics"  -> loop' = [loop EXCEPT !.at = "stop", !.panics = TRUE] /\ UNCHANGED ui
            [] s = "warns"   -> /\ loop' = [loop EXCEPT !.at = IF g["logger"] = "sends" THEN "locks" ELSE "logs",
                                                !.dirty = TRUE]
                                /\ UNCHANGED ui
    BY <1>1 DEF LoopServer
  <2>2. ui.model + 1 \in Nat
    BY DEF UiType
  <2>3. /\ [ui EXCEPT !.model = @ + 1] \in UiType
        /\ [ui EXCEPT !.model = @ + 1, !.broken = TRUE] \in UiType
    BY <2>2 DEF UiType
  <2>4. /\ [loop EXCEPT !.dirty = TRUE] \in LoopType
        /\ [loop EXCEPT !.at = "stop", !.panics = TRUE] \in LoopType
        /\ [loop EXCEPT !.at = IF g["logger"] = "sends" THEN "locks" ELSE "logs", !.dirty = TRUE] \in LoopType
    BY DEF LoopType, Places
  <2> QED BY <2>1, <2>3, <2>4 DEF Serves
<1>2. ASSUME Dial PROVE loop' \in LoopType /\ ui' \in UiType
  <2>1. /\ [loop EXCEPT !.at = "select", !.waits = "no"] \in LoopType
        /\ [loop EXCEPT !.at = "complains"] \in LoopType
        /\ [loop EXCEPT !.at = "asks"] \in LoopType
    BY DEF LoopType, Places
  <2>2. [ui EXCEPT !.model = @ + 1] \in UiType
    BY DEF UiType
  <2> QED BY <1>2, <2>1, <2>2, DialsAssumption DEF Dial, At
<1>3. [loop EXCEPT !.dirty = FALSE] \in LoopType
  BY DEF LoopType
<1>4. [loop EXCEPT !.dirty = @ \/ loop.waits = "no"] \in LoopType
  BY DEF LoopType
<1> QED BY <1>1, <1>2, <1>3, <1>4

(* Every step keeps the types.                                             *)
LEMMA TypesStep == ProofTypes /\ [Next]_vars => ProofTypes'
<1> SUFFICES ASSUME ProofTypes, [Next]_vars PROVE ProofTypes'
  OBVIOUS
<1>1. CASE SignalArrives
  BY <1>1, EnvKeepsType, OthersKeepType DEF SignalArrives, ProofTypes, Goroutines
<1>2. CASE ReceiveSignal
  BY <1>2, LoopKeepsType, OthersKeepType DEF ReceiveSignal, ProofTypes, Goroutines
<1>3. CASE WindowChanges
  BY <1>3, EnvKeepsType, OthersKeepType DEF WindowChanges, ProofTypes, Goroutines
<1>4. CASE ReceiveResize
  BY <1>4, LoopKeepsType, OthersKeepType, SmallCommands, MessagesAssumption DEF ReceiveResize, ProofTypes, Goroutines
<1>5. CASE KeyArrives
  BY <1>5, EnvKeepsType, OthersKeepType DEF KeyArrives, ProofTypes, Goroutines
<1>6. CASE ReceiveKey
  BY <1>6, LoopKeepsType, OthersKeepType, EnvKeepsType, MessagesAssumption DEF ReceiveKey, ProofTypes, Goroutines
<1>7. CASE Logs
  BY <1>7, EnvKeepsType, OthersKeepType DEF Logs, ProofTypes, Goroutines
<1>8. CASE ReceiveLog
  BY <1>8, LoopKeepsType, OthersKeepType, SmallCommands, MessagesAssumption DEF ReceiveLog, ProofTypes, Goroutines
<1>9. CASE TakeCommand
  BY <1>9, LoopKeepsType, JobsKeepType DEF TakeCommand, ProofTypes, LoopType
<1>10. CASE CommandCancelled
  BY <1>10, LoopKeepsType DEF CommandCancelled, ProofTypes
<1>11. CASE TakeInit
  BY <1>11, JobsKeepType, OthersKeepType, EnvKeepsType DEF TakeInit, ProofTypes, Goroutines
<1>12. CASE LoopServer
  <2>1. loop' \in LoopType /\ ui' \in UiType
    BY <1>12, LoopServerKeepsType
  <2> QED BY <1>12, <2>1, EnvKeepsType DEF LoopServer, ProofTypes
<1>13. CASE LoopLocks
  BY <1>13, LoopKeepsType DEF LoopLocks, ProofTypes, Places
<1>14. CASE LoopQuits
  BY <1>14, LoopKeepsType, EnvKeepsType DEF LoopQuits, ProofTypes, Places
<1>15. CASE LoopRender
  BY <1>15, LoopKeepsType, LoopServerKeepsType DEF LoopRender, ProofTypes
<1>16. CASE LoopCancelled
  BY <1>16, LoopKeepsType DEF LoopCancelled, ProofTypes
<1>17. CASE Dial
  <2>1. loop' \in LoopType /\ ui' \in UiType
    BY <1>17, LoopServerKeepsType
  <2>2. jobs' = jobs \/ jobs' = Append(jobs, Job(Leaf("check")))
    BY <1>17, DialsAssumption DEF Dial
  <2>3. jobs' \in Seq(JobType)
    BY <2>2, JobsKeepType DEF ProofTypes
  <2> QED BY <1>17, <2>1, <2>3 DEF Dial, ProofTypes
<1>18. CASE SelfSendDropped
  BY <1>18, LoopKeepsType DEF SelfSendDropped, ProofTypes, Places
<1>19. CASE TickOut
  BY <1>19, OthersKeepType DEF TickOut, ProofTypes, Goroutines
<1>20. CASE TickFrame
  BY <1>20, OthersKeepType DEF TickFrame, ProofTypes, Goroutines
<1>21. CASE HandlersEnded
  BY <1>21, OthersKeepType DEF HandlersEnded, ProofTypes
<1>22. CASE StopRenderer
  BY <1>22, OthersKeepType DEF StopRenderer, ProofTypes, Goroutines
<1>23. CASE LastFlush
  BY <1>23, OthersKeepType DEF LastFlush, ProofTypes
<1>24. CASE CloseRenderer
  BY <1>24, OthersKeepType DEF CloseRenderer, ProofTypes
<1>25. CASE RestoreTerminalState
  BY <1>25, OthersKeepType DEF RestoreTerminalState, ProofTypes
<1>26. CASE Exit
  BY <1>26, LoopKeepsType DEF Exit, ProofTypes, Places
<1>40. CASE Stop
  <2> loop \in LoopType /\ ui \in UiType /\ down \in DownType
    BY DEF ProofTypes
  <2>1. loop' \in LoopType
    <3>1. [loop EXCEPT !.at = IF loop.panics THEN "crashed" ELSE "stop", !.panics = TRUE] \in LoopType
      BY DEF LoopType, Places
    <3> QED BY <1>40, <3>1, LoopKeepsType DEF Stop, Places
  <2>2. ui' \in UiType
    <3>1. [ui EXCEPT !.view = ui.model] \in UiType
      BY DEF UiType
    <3> QED BY <1>40, <3>1 DEF Stop
  <2>3. down' \in DownType
    <3> DEFINE kill == ~live \/ errs
    <3>1. kill \in BOOLEAN
      OBVIOUS
    <3>2. down' = down \/ down' = [at |-> "handlers", kill |-> kill]
      BY <1>40 DEF Stop
    <3> QED
      <4> HIDE DEF kill
      <4> QED BY <3>1, <3>2 DEF DownType
  <2> QED BY <1>40, <2>1, <2>2, <2>3 DEF Stop, ProofTypes
<1>41. ASSUME NEW who \in {"resize", "logger"}, SendDropped(who) PROVE ProofTypes'
  BY <1>41, OthersKeepType DEF SendDropped, ProofTypes, Goroutines
<1>42. ASSUME NEW who \in Handlers, HandlerEnds(who) PROVE ProofTypes'
  BY <1>42, OthersKeepType DEF HandlerEnds, ProofTypes, Goroutines, Handlers
<1>43. ASSUME NEW n \in DOMAIN jobs, ReceiveCommand(n) PROVE ProofTypes'
  BY <1>43, JobsKeepType, LoopServerKeepsType DEF ReceiveCommand, ProofTypes
<1>44. ASSUME NEW n \in DOMAIN jobs, MsgDropped(n) PROVE ProofTypes'
  <2>1. Ready(jobs[n]) \subseteq jobs[n].todo
    BY DEF Ready
  <2> QED BY <1>44, <2>1, JobsKeepType DEF MsgDropped, ProofTypes
<1>45. ASSUME NEW n \in DOMAIN jobs, NEW l \in jobs[n].todo, ReceiveMsg(n, l) PROVE ProofTypes'
  <2>1. loop' \in LoopType /\ ui' \in UiType
    BY <1>45, JobsKeepType, LoopKeepsType, SmallCommands DEF ReceiveMsg, ProofTypes
  <2>2. jobs' \in Seq(JobType)
    BY <1>45, JobsKeepType DEF ReceiveMsg
  <2>3. handled' \in Seq(Nat \X Messages)
    <3>1. <<n, l.m>> \in Nat \X Messages
      BY JobsKeepType DEF ProofTypes
    <3> QED BY <1>45, <3>1 DEF ReceiveMsg, ProofTypes
  <2> QED BY <1>45, <2>1, <2>2, <2>3 DEF ReceiveMsg, ProofTypes
<1>46. ASSUME NEW n \in DOMAIN jobs, NEW l \in jobs[n].todo, CommandPanics(n, l) PROVE ProofTypes'
  BY <1>46, JobsKeepType DEF CommandPanics, ProofTypes, DownType
<1>47. CASE UNCHANGED vars
  BY <1>47 DEF vars, ProofTypes
<1> QED
  BY <1>1, <1>2, <1>3, <1>4, <1>5, <1>6, <1>7, <1>8, <1>9, <1>10, <1>11, <1>12, <1>13,
     <1>14, <1>15, <1>16, <1>17, <1>18, <1>19, <1>20, <1>21, <1>22, <1>23, <1>24, <1>25, <1>26, <1>40, <1>41, <1>42, <1>43, <1>44, <1>45, <1>46, <1>47
     DEF Next, Environment, Jobs, Loop, Others, Shutdown

-----------------------------------------------------------------------------
(* Only commands that are taken, messages that are made or dropped and a   *)
(* dial that succeeds change what the goroutines have to do; and the       *)
(* context is never revived.                                               *)
Commanding == \/ TakeCommand \/ TakeInit \/ Dial
              \/ \E n \in DOMAIN jobs : \/ ReceiveCommand(n) \/ MsgDropped(n)
                                       \/ \E l \in jobs[n].todo : ReceiveMsg(n, l) \/ CommandPanics(n, l)
LEMMA QuietSteps ==
    ASSUME ProofTypes, [Next]_vars
    PROVE  /\ Commanding \/ UNCHANGED <<jobs, handled>>
           /\ live' => live
<1>1. ASSUME UNCHANGED vars PROVE UNCHANGED <<jobs, handled>> /\ (live' => live)
  BY <1>1 DEF vars
<1>2. ASSUME Environment PROVE UNCHANGED <<jobs, handled>> /\ (live' => live)
  <2>1. CASE LoopServer
    BY <2>1 DEF LoopServer
  <2>2. CASE SignalArrives \/ WindowChanges \/ KeyArrives \/ Logs \/ LoopQuits
    BY <2>2 DEF SignalArrives, WindowChanges, KeyArrives, Logs, LoopQuits
  <2> QED BY <1>2, <2>1, <2>2 DEF Environment
<1>3. ASSUME Loop, ~TakeCommand, ~Dial PROVE UNCHANGED <<jobs, handled>> /\ (live' => live)
  BY <1>3 DEF Loop, ReceiveSignal, ReceiveResize, ReceiveKey, ReceiveLog, CommandCancelled, LoopLocks, LoopRender, LoopCancelled,
              SelfSendDropped, Stop, Exit
<1>4. ASSUME Others, ~TakeInit PROVE UNCHANGED <<jobs, handled>> /\ (live' => live)
  BY <1>4 DEF Others, SendDropped, TickOut, TickFrame, HandlerEnds
<1>5. ASSUME Shutdown PROVE UNCHANGED <<jobs, handled>> /\ (live' => live)
  BY <1>5 DEF Shutdown, HandlersEnded, StopRenderer, LastFlush, CloseRenderer, RestoreTerminalState
<1>6. Commanding => (live' => live)
  BY DEF Commanding, TakeCommand, TakeInit, Dial, ReceiveCommand, MsgDropped, ReceiveMsg, CommandPanics
<1>7. Jobs \/ TakeCommand \/ TakeInit \/ Dial => Commanding
  BY DEF Jobs, Commanding
<1> QED BY <1>1, <1>2, <1>3, <1>4, <1>5, <1>6, <1>7 DEF Next

(* Another goroutine starts (handleCommands): nothing is lost, and the     *)
(* order of what was handled is as it was.                                 *)
LEMMA AnotherJob ==
    ASSUME ProofTypes, NothingLost, SequenceInOrder, NEW c \in GoodCommand,
           jobs' = Started(c), handled' = handled, live' => live
    PROVE  NothingLost' /\ SequenceInOrder'
<1> jobs \in Seq(JobType) /\ handled \in Seq(Nat \X Messages)
  BY DEF ProofTypes
<1>1. /\ DOMAIN jobs \subseteq DOMAIN jobs'
      /\ \A n \in DOMAIN jobs : jobs'[n] = jobs[n]
      /\ \A n \in DOMAIN jobs' : n \in DOMAIN jobs \/ jobs'[n] = Job(c)
  <2>1. CASE c = {}
    BY <2>1 DEF Started
  <2>2. CASE c # {}
    <3>1. jobs' = Append(jobs, Job(c))
      BY <2>2 DEF Started
    <3> QED BY <3>1
  <2> QED BY <2>1, <2>2
<1>2. NothingLost'
  BY <1>1 DEF NothingLost, Sent, Job
<1>3. SequenceInOrder'
  BY <1>1 DEF SequenceInOrder, NothingLost
<1> QED BY <1>2, <1>3

(* A goroutine turns to its parts, or gives one up because the context is  *)
(* cancelled: what was handled stays as it is (Send, the panics).          *)
LEMMA NothingHandled ==
    ASSUME ProofTypes, NothingLost, SequenceInOrder, NEW n \in DOMAIN jobs, handled' = handled,
           \/ ReceiveCommand(n) \/ MsgDropped(n) \/ \E l \in jobs[n].todo : CommandPanics(n, l)
    PROVE  NothingLost' /\ SequenceInOrder'
<1> jobs \in Seq(JobType) /\ handled \in Seq(Nat \X Messages) /\ jobs[n] \in JobType
  BY DEF ProofTypes
<1>1. CASE ReceiveCommand(n)
  <2>1. /\ DOMAIN jobs' = DOMAIN jobs /\ live' = live
        /\ \A i \in DOMAIN jobs : jobs'[i].cmd = jobs[i].cmd /\ jobs'[i].todo = jobs[i].todo
    BY <1>1 DEF ReceiveCommand, JobType
  <2> QED BY <2>1, ZenonT(40) DEF NothingLost, Sent, SequenceInOrder
<1>2. CASE MsgDropped(n) \/ \E l \in jobs[n].todo : CommandPanics(n, l)
  <2>1. ~live'
    BY <1>2 DEF MsgDropped, CommandPanics
  <2>2. PICK left \in SUBSET jobs[n].todo : jobs' = [jobs EXCEPT ![n].todo = left]
    BY <1>2 DEF MsgDropped, CommandPanics, Done
  <2>3. /\ DOMAIN jobs' = DOMAIN jobs
        /\ \A i \in DOMAIN jobs : jobs'[i].cmd = jobs[i].cmd /\ jobs'[i].todo \subseteq jobs[i].todo
    BY <2>2 DEF JobType
  <2> QED BY <2>1, <2>3 DEF NothingLost, SequenceInOrder
<1> QED BY <1>1, <1>2

(* A message is handled: those it has to come after are no longer to do,   *)
(* so they were handled before it (execSequenceMsg).                       *)
LEMMA MessageHandled ==
    ASSUME ProofTypes, NothingLost, SequenceInOrder, NEW n \in DOMAIN jobs, NEW l \in jobs[n].todo, ReceiveMsg(n, l)
    PROVE  NothingLost' /\ SequenceInOrder'
<1> jobs \in Seq(JobType) /\ handled \in Seq(Nat \X Messages) /\ jobs[n] \in JobType
  BY DEF ProofTypes
<1>1. /\ Len(handled') = Len(handled) + 1 /\ DOMAIN handled' = 1 .. (Len(handled) + 1)
      /\ \A k \in DOMAIN handled : handled'[k] = handled[k]
      /\ handled'[Len(handled) + 1] = <<n, l.m>>
      /\ Len(handled) \in Nat /\ DOMAIN handled = 1 .. Len(handled)
  BY DEF ReceiveMsg
<1>2. /\ DOMAIN Done(n, l) = DOMAIN jobs /\ Done(n, l) \in Seq(JobType)
      /\ \A i \in DOMAIN jobs : /\ Done(n, l)[i].cmd = jobs[i].cmd
                               /\ Done(n, l)[i].todo = IF i = n THEN jobs[i].todo \ {l} ELSE jobs[i].todo
  BY JobsKeepType DEF Done, JobType
<1>3. /\ DOMAIN jobs \subseteq DOMAIN jobs'
      /\ \A i \in DOMAIN jobs : jobs'[i] = Done(n, l)[i]
      /\ \A i \in DOMAIN jobs' : i \in DOMAIN jobs \/ jobs'[i] = Job(Leaf("dialed"))
  <2>1. CASE l.m = "connect"
    <3>1. jobs' = Append(Done(n, l), Job(Leaf("dialed")))
      BY <2>1 DEF ReceiveMsg
    <3> QED BY <3>1, <1>2
  <2>2. CASE l.m # "connect"
    <3>1. jobs' = Done(n, l)
      BY <2>2 DEF ReceiveMsg
    <3> QED BY <3>1, <1>2
  <2> QED BY <2>1, <2>2
<1>4. live' = live
  BY DEF ReceiveMsg
<1>5. NothingLost'
  <2>1. \A k \in DOMAIN handled' : handled'[k][1] \in DOMAIN jobs'
    BY <1>1, <1>3 DEF NothingLost
  <2>2. ASSUME NEW i \in DOMAIN jobs' PROVE jobs'[i].todo \subseteq jobs'[i].cmd
    <3>1. CASE i \in DOMAIN jobs
      <4>1. jobs[i].todo \subseteq jobs[i].cmd
        BY <3>1 DEF NothingLost
      <4>2. jobs'[i] = Done(n, l)[i]
        BY <3>1, <1>3
      <4> QED BY <4>1, <4>2, <3>1, <1>2
    <3>2. CASE jobs'[i] = Job(Leaf("dialed"))
      BY <3>2 DEF Job
    <3> QED BY <3>1, <3>2, <1>3
  <2>3. ASSUME live', NEW i \in DOMAIN jobs', NEW d \in jobs'[i].cmd \ jobs'[i].todo
        PROVE  \E k \in DOMAIN handled' : handled'[k] = <<i, d.m>>
    <3>1. i \in DOMAIN jobs
      BY <1>3, <2>3 DEF Job
    <3>2. CASE i = n /\ d = l
      BY <3>2, <1>1
    <3>3. CASE ~(i = n /\ d = l)
      <4>1. d \in jobs[i].cmd \ jobs[i].todo
        BY <3>1, <3>3, <1>2, <1>3, <2>3
      <4>2. Sent(i, d.m)
        BY <4>1, <3>1, <1>4, <2>3 DEF NothingLost
      <4> QED BY <4>2, <1>1, SMTT(30) DEF Sent
    <3> QED BY <3>2, <3>3
  <2> QED BY <2>1, <2>2, <2>3 DEF NothingLost, Sent
<1>6. SequenceInOrder'
  <2> SUFFICES ASSUME live', NEW k \in DOMAIN handled', NEW d \in jobs'[handled'[k][1]].cmd, d.m = handled'[k][2],
                      NEW m \in d.after
               PROVE  \E j \in 1 .. (k - 1) : handled'[j] = <<handled'[k][1], m>>
    BY DEF SequenceInOrder
  <2>1. CASE k \in DOMAIN handled
    <3>1. handled'[k] = handled[k] /\ handled[k][1] \in DOMAIN jobs
      BY <2>1, <1>1 DEF NothingLost
    <3>2. d \in jobs[handled[k][1]].cmd
      BY <3>1, <1>2, <1>3, ZenonT(40)
    <3>3. PICK j \in 1 .. (k - 1) : handled[j] = <<handled[k][1], m>>
      BY <2>1, <3>1, <3>2, <1>4 DEF SequenceInOrder
    <3>4. j \in DOMAIN handled
      BY <2>1, <1>1
    <3>5. handled'[j] = <<handled'[k][1], m>>
      BY <3>1, <3>3, <3>4, <1>1
    <3> QED BY <3>5
  <2>2. CASE k = Len(handled) + 1
    <3>1. handled'[k] = <<n, l.m>> /\ handled'[k][1] = n /\ d.m = l.m
      BY <2>2, <1>1
    <3>0. jobs'[n].cmd = jobs[n].cmd
      BY <1>2, <1>3
    <3>2. l \in jobs[n].cmd /\ WellFormed(jobs[n].cmd)
      BY DEF NothingLost, JobType, GoodCommand
    <3>3. d \in jobs[n].cmd /\ d = l
      <4>1. d \in jobs[n].cmd
        BY <3>0, <3>1
      <4> QED BY <4>1, <3>1, <3>2 DEF WellFormed
    <3>4. l.after \intersect Names(jobs[n].todo) = {}
      BY DEF ReceiveMsg, Ready
    <3>5. PICK e \in jobs[n].cmd : e.m = m
      <4>1. m \in Names(jobs[n].cmd)
        BY <3>2, <3>3 DEF WellFormed
      <4> QED BY <4>1 DEF Names
    <3>6. e \notin jobs[n].todo
      BY <3>3, <3>4, <3>5 DEF Names
    <3>7. Sent(n, m)
      BY <3>5, <3>6, <1>4 DEF NothingLost
    <3>8. PICK j \in DOMAIN handled : handled[j] = <<n, m>>
      BY <3>7 DEF Sent
    <3>9. j \in 1 .. (k - 1) /\ handled'[j] = <<n, m>>
      BY <3>8, <2>2, <1>1
    <3> QED BY <3>1, <3>9
  <2>3. k \in 1 .. (Len(handled) + 1)
    BY <1>1
  <2>4. k \in 1 .. Len(handled) \/ k = Len(handled) + 1
    BY <2>3, <1>1
  <2> QED BY <2>1, <2>2, <2>4, <1>1
<1> QED BY <1>5, <1>6

-----------------------------------------------------------------------------
(* Every step keeps the order and loses nothing.                           *)
LEMMA OrderStep ==
    ASSUME ProofTypes, NothingLost, SequenceInOrder, [Next]_vars
    PROVE  NothingLost' /\ SequenceInOrder'
<1>1. CASE UNCHANGED <<jobs, handled>>
  <2>1. live' => live
    BY QuietSteps
  <2>2. NothingLost'
    BY <1>1, <2>1 DEF NothingLost, Sent
  <2>3. SequenceInOrder'
    BY <1>1, <2>1 DEF SequenceInOrder
  <2> QED BY <2>2, <2>3
<1>2. CASE TakeCommand
  <2>1. loop.cmd \in GoodCommand
    BY DEF ProofTypes, LoopType
  <2> QED BY <1>2, <2>1, AnotherJob DEF TakeCommand
<1>3. CASE TakeInit
  <2>1. env.init \in GoodCommand
    BY EnvKeepsType
  <2> QED BY <1>3, <2>1, AnotherJob DEF TakeInit
<1>4. ASSUME NEW n \in DOMAIN jobs, ReceiveCommand(n) \/ MsgDropped(n) \/ \E l \in jobs[n].todo : CommandPanics(n, l)
      PROVE  NothingLost' /\ SequenceInOrder'
  <2>1. handled' = handled
    BY <1>4 DEF ReceiveCommand, MsgDropped, CommandPanics
  <2> QED BY <1>4, <2>1, NothingHandled
<1>5. ASSUME NEW n \in DOMAIN jobs, NEW l \in jobs[n].todo, ReceiveMsg(n, l)
      PROVE  NothingLost' /\ SequenceInOrder'
  BY <1>5, MessageHandled
<1>6. CASE Dial
  <2>1. jobs' = jobs \/ jobs' = Append(jobs, Job(Leaf("check")))
    BY <1>6, DialsAssumption DEF Dial
  <2>2. handled' = handled /\ live' = live
    BY <1>6 DEF Dial
  <2>3. Leaf("check") # {} /\ Leaf("check") \in GoodCommand
    BY SmallCommands, MessagesAssumption DEF Leaf
  <2>4. CASE jobs' = Append(jobs, Job(Leaf("check")))
    <3>1. jobs' = Started(Leaf("check"))
      BY <2>3, <2>4 DEF Started
    <3> QED BY <2>2, <2>3, <3>1, AnotherJob
  <2> QED BY <1>1, <2>1, <2>2, <2>4
<1> QED BY <1>1, <1>2, <1>3, <1>4, <1>5, <1>6, QuietSteps DEF Commanding

(* The steps that touch the ticker, the shutdown or the terminal keep the  *)
(* last frame before the end of the renderer (stopRenderer).               *)
LEMMA TickerStep ==
    ASSUME ProofTypes, TickerFirst, NothingAfterRestore, [Next]_vars
    PROVE  TickerFirst' /\ NothingAfterRestore'
<1> /\ g \in [Goroutines -> {"waits", "sends", "flushes", "gone"}]
    /\ down \in DownType /\ term \in TermType
  BY DEF ProofTypes
<1>1. CASE UNCHANGED <<down, term>> /\ (g["ticker"] = "gone" => g'["ticker"] = "gone")
  BY <1>1 DEF TickerFirst, NothingAfterRestore
<1>2. CASE TickFrame
  <2>1. term.on /\ down.at \notin {"flush", "close", "out", "done"}
    BY <1>2 DEF TickFrame, TickerFirst
  <2>2. term'.on /\ ~term'.late /\ down' = down
    BY <1>2, <2>1 DEF TickFrame, Shown, NothingAfterRestore, TermType
  <2> QED BY <2>1, <2>2 DEF TickerFirst, NothingAfterRestore
<1>3. CASE LastFlush
  <2>1. term.on /\ g["ticker"] = "gone"
    BY <1>3 DEF LastFlush, TickerFirst
  <2>2. term'.on /\ ~term'.late /\ g' = g
    BY <1>3, <2>1 DEF LastFlush, Shown, NothingAfterRestore, TermType
  <2> QED BY <2>1, <2>2 DEF TickerFirst, NothingAfterRestore
<1>4. CASE StopRenderer
  BY <1>4 DEF StopRenderer, Go, DownTo, TickerFirst, NothingAfterRestore, DownType, Goroutines
<1>5. CASE CloseRenderer \/ RestoreTerminalState \/ HandlersEnded
  BY <1>5 DEF CloseRenderer, RestoreTerminalState, HandlersEnded, DownTo, TickerFirst, NothingAfterRestore, DownType, TermType
<1>6. ASSUME g' = g, term' = term, down' = down \/ (down.at = "no" /\ down'.at = "handlers")
      PROVE  TickerFirst' /\ NothingAfterRestore'
  BY <1>6 DEF TickerFirst, NothingAfterRestore
<1>7. CASE Stop
  BY <1>6, <1>7 DEF Stop
<1>8. ASSUME NEW n \in DOMAIN jobs, NEW l \in jobs[n].todo, CommandPanics(n, l) PROVE TickerFirst' /\ NothingAfterRestore'
  BY <1>6, <1>8 DEF CommandPanics
<1>9. ASSUME NEW who \in {"resize", "logger"}, SendDropped(who) PROVE TickerFirst' /\ NothingAfterRestore'
  BY <1>1, <1>9 DEF SendDropped, Go, Goroutines
<1>10. ASSUME NEW who \in Handlers, HandlerEnds(who) PROVE TickerFirst' /\ NothingAfterRestore'
  BY <1>1, <1>10 DEF HandlerEnds, Go, Goroutines, Handlers
<1>11. CASE TickOut \/ TakeInit
  BY <1>1, <1>11 DEF TickOut, TakeInit, Go, Goroutines
<1>12. CASE Environment
  <2>1. CASE LoopServer
    BY <1>1, <2>1 DEF LoopServer
  <2>2. CASE LoopQuits
    BY <1>1, <2>2 DEF LoopQuits
  <2>3. CASE SignalArrives \/ WindowChanges \/ KeyArrives \/ Logs
    BY <1>1, <2>3 DEF SignalArrives, WindowChanges, KeyArrives, Logs, Go, Goroutines
  <2> QED BY <1>12, <2>1, <2>2, <2>3 DEF Environment
<1>13. ASSUME Loop, ~Stop PROVE TickerFirst' /\ NothingAfterRestore'
  <2>1. CASE ReceiveSignal \/ ReceiveResize \/ ReceiveKey \/ ReceiveLog
    BY <1>1, <2>1 DEF ReceiveSignal, ReceiveResize, ReceiveKey, ReceiveLog, Go, Goroutines
  <2>2. CASE TakeCommand \/ CommandCancelled \/ LoopLocks \/ LoopRender \/ LoopCancelled
    BY <1>1, <2>2 DEF TakeCommand, CommandCancelled, LoopLocks, LoopRender, LoopCancelled
  <2>3. CASE Dial \/ SelfSendDropped \/ Exit
    BY <1>1, <2>3 DEF Dial, SelfSendDropped, Exit
  <2> QED BY <1>13, <2>1, <2>2, <2>3 DEF Loop
<1>14. ASSUME NEW n \in DOMAIN jobs, ReceiveCommand(n) \/ MsgDropped(n) \/ \E l \in jobs[n].todo : ReceiveMsg(n, l)
       PROVE  TickerFirst' /\ NothingAfterRestore'
  BY <1>1, <1>14 DEF ReceiveCommand, MsgDropped, ReceiveMsg
<1>15. CASE UNCHANGED vars
  BY <1>1, <1>15 DEF vars
<1> QED BY <1>2, <1>3, <1>4, <1>5, <1>7, <1>8, <1>9, <1>10, <1>11, <1>12, <1>13, <1>14, <1>15
        DEF Next, Jobs, Others, Shutdown

-----------------------------------------------------------------------------
(* The invariant holds in every reachable state.                           *)
LEMMA Invariant == Spec => []IndInv
<1>1. IndInv /\ [Next]_vars => IndInv'
  BY TypesStep, OrderStep, TickerStep DEF IndInv
<1> QED BY <1>1, InitInv, PTL DEF Spec

(* Whatever a command is made of, the messages of its sequences are        *)
(* handled in order (execSequenceMsg, execBatchMsg).                       *)
THEOREM SequencesInOrder == Spec => []SequenceInOrder
<1>1. IndInv => SequenceInOrder
  BY DEF IndInv
<1> QED BY <1>1, Invariant, PTL

(* However the program comes down, no frame follows the end of the         *)
(* renderer (stopRenderer, shutdownOnce).                                  *)
THEOREM NothingDrawnAfterRestore == Spec => []NothingAfterRestore
<1>1. IndInv => NothingAfterRestore
  BY DEF IndInv
<1> QED BY <1>1, Invariant, PTL

-----------------------------------------------------------------------------
(* Styles on their way.                                                     *)

CellAttributes == {"bold", "faint", "italic", "blink", "reverse", "conceal", "strike"}
Plain == {NoColor, "red", "blue", "indexed", "direct"}
Colours == Plain \union {Default}
Kinds == 0 .. 5

\* What a terminal can look like.
AnyStyle == [on : SUBSET (CellAttributes \union Lost), under : Kinds, fg : Colours, bg : Colours, uc : Colours]
\* A cell of a region's screen or of a snapshot of it, with or without the cursor.
CellStyle == {s \in AnyStyle : "rapid" \notin s.on /\ s.uc \in {NoColor, Default, "indexed", "direct"}}
\* What ReadStyle makes of the text of a line.
TextStyle == {s \in AnyStyle : /\ s.on \subseteq CellAttributes /\ s.fg \in Plain /\ s.bg \in Plain
                               /\ s.uc \in {NoColor, "indexed", "direct"}}

Undefaulted(c) == IF c = Default THEN NoColor ELSE c
\* A cell's style as its text says it.
Told(s) == [on |-> s.on \ Lost, under |-> s.under,
            fg |-> Undefaulted(s.fg), bg |-> Undefaulted(s.bg), uc |-> Undefaulted(s.uc)]

\* What a program asks for, on a terminal that has no default by name.
AskedStyle == {s \in AnyStyle : s.fg \in Plain /\ s.bg \in Plain /\ s.uc \in {NoColor, "indexed", "direct"}}
\* The region's screen agrees with the terminal that reads the program.
Agree(a, w) == /\ a \in CellStyle /\ w \in AskedStyle /\ a.on = w.on \ {"rapid"} /\ a.under = w.under
               /\ Undefaulted(a.fg) = w.fg /\ Undefaulted(a.bg) = w.bg /\ Undefaulted(a.uc) = w.uc

(* The screen agrees; the reader of the line knows the cell last written;  *)
(* each pen looks like what the pen after it has, and so on the user's     *)
(* terminal the character printed last is what it should be.               *)
StylesInv ==
    /\ Agree(attr, want)
    /\ pens \in [line : CellStyle, text : TextStyle, laid : TextStyle, view : TextStyle,
                 sent : TextStyle, shown : TextStyle, goal : AskedStyle]
    /\ pens.text = Told(pens.line)
    /\ StyleEqual(pens.laid, pens.text) /\ StyleEqual(pens.view, pens.laid)
    /\ StyleEqual(pens.shown, pens.sent)
    /\ StyleEqual(pens.shown, Told(pens.goal))

LEMMA LikeSame == \A s : StyleEqual(s, s)
  BY DEF StyleEqual, ColorEqual
LEMMA LikeBack == \A s, t : StyleEqual(s, t) => StyleEqual(t, s)
  BY DEF StyleEqual, ColorEqual
LEMMA LikeOn == \A s, t, u : StyleEqual(s, t) /\ StyleEqual(t, u) => StyleEqual(s, u)
<1>1. \A a, b, c : ColorEqual(a, b) /\ ColorEqual(b, c) => ColorEqual(a, c)
  BY DEF ColorEqual
<1> QED
  BY <1>1 DEF StyleEqual

LEMMA Origin == NoStyle \in TextStyle /\ NoStyle \in CellStyle /\ DefaultStyle \in CellStyle
                /\ Told(NoStyle) = NoStyle /\ Told(DefaultStyle) = NoStyle
<1>1. NoStyle \in AnyStyle /\ DefaultStyle \in AnyStyle
  <2>1. {} \in SUBSET (CellAttributes \union Lost) /\ 0 \in Kinds /\ NoColor \in Colours /\ Default \in Colours
    BY DEF Kinds, Plain, Colours
  <2> QED
    BY <2>1 DEF NoStyle, DefaultStyle, AnyStyle
<1>2. NoStyle \in TextStyle /\ NoStyle \in CellStyle /\ DefaultStyle \in CellStyle
  BY <1>1 DEF NoStyle, DefaultStyle, TextStyle, CellStyle, Plain
<1>3. {} \ Lost = {}
  OBVIOUS
<1>4. Undefaulted(NoColor) = NoColor /\ Undefaulted(Default) = NoColor
  BY DEF Undefaulted
<1>5. Told(NoStyle) = NoStyle /\ Told(DefaultStyle) = NoStyle
  BY <1>3, <1>4 DEF Told, NoStyle, DefaultStyle
<1> QED
  BY <1>2, <1>5

LEMMA ToldStyle == \A s \in AnyStyle : s.uc \in {NoColor, Default, "indexed", "direct"} => Told(s) \in TextStyle
  BY DEF TextStyle, AnyStyle, Told, Undefaulted, Plain, Colours, Kinds, Lost, CellAttributes, NoColor, Default

-----------------------------------------------------------------------------
(* The tables. *)

SetCodes == {"1", "2", "3", "5", "6", "7", "8", "9"}
EndCodes == {"22", "23", "25", "27", "28", "29"}
UnderCodes == {"4", "24", "4:0", "4:1", "4:2", "4:3", "4:4", "4:5"}
LEMMA TableAt ==
    ASSUME NEW pairs, \A p, q \in pairs : p[1] = q[1] => p = q, NEW p \in pairs
    PROVE  Table(pairs)[p[1]] = p[2]
<1>1. (CHOOSE q \in pairs : q[1] = p[1]) = p
  OBVIOUS
<1>2. p[1] \in {q[1] : q \in pairs}
  OBVIOUS
<1> QED
  BY <1>1, <1>2 DEF Table

LEMMA AttributeTable ==
    /\ DOMAIN Attribute = {"1", "2", "3", "5", "7", "8", "9"}
    /\ Attribute["1"] = "bold" /\ Attribute["2"] = "faint" /\ Attribute["3"] = "italic"
    /\ Attribute["5"] = "blink"
    /\ Attribute["7"] = "reverse" /\ Attribute["8"] = "conceal" /\ Attribute["9"] = "strike"
<1> DEFINE pairs == {<<"1", "bold">>, <<"2", "faint">>, <<"3", "italic">>, <<"5", "blink">>,
                     <<"7", "reverse">>, <<"8", "conceal">>, <<"9", "strike">>}
<1>1. {p[1] : p \in pairs} = {"1", "2", "3", "5", "7", "8", "9"}
  OBVIOUS
<1>2. \A p, q \in pairs : p[1] = q[1] => p = q
  OBVIOUS
<1>3. Attribute = Table(pairs)
  BY DEF Attribute
<1> HIDE DEF pairs
<1>4. \A p \in pairs : Attribute[p[1]] = p[2]
  BY <1>2, <1>3, TableAt
<1>5. DOMAIN Attribute = {p[1] : p \in pairs}
  BY <1>3 DEF Table
<1>6. /\ <<"1", "bold">> \in pairs /\ <<"2", "faint">> \in pairs /\ <<"3", "italic">> \in pairs
      /\ <<"5", "blink">> \in pairs /\ <<"7", "reverse">> \in pairs /\ <<"8", "conceal">> \in pairs
      /\ <<"9", "strike">> \in pairs
  BY DEF pairs
<1> QED
  BY <1>1, <1>4, <1>5, <1>6

LEMMA AllTable ==
    /\ DOMAIN All = SetCodes
    /\ All["1"] = "bold" /\ All["2"] = "faint" /\ All["3"] = "italic" /\ All["5"] = "blink"
    /\ All["6"] = "rapid" /\ All["7"] = "reverse" /\ All["8"] = "conceal" /\ All["9"] = "strike"
  BY AttributeTable DEF All, With, SetCodes

LEMMA EndTable ==
    /\ DOMAIN Ends = EndCodes
    /\ Ends["22"] = {"bold", "faint"} /\ Ends["23"] = {"italic"} /\ Ends["25"] = {"blink", "rapid"}
    /\ Ends["27"] = {"reverse"}
    /\ Ends["28"] = {"conceal"} /\ Ends["29"] = {"strike"}
<1> DEFINE pairs == {<<"22", {"bold", "faint"}>>, <<"23", {"italic"}>>, <<"25", {"blink", "rapid"}>>,
                     <<"27", {"reverse"}>>, <<"28", {"conceal"}>>, <<"29", {"strike"}>>}
<1>1. {p[1] : p \in pairs} = {"22", "23", "25", "27", "28", "29"}
  OBVIOUS
<1>2. \A p, q \in pairs : p[1] = q[1] => p = q
  OBVIOUS
<1>3. Ends = Table(pairs)
  BY DEF Ends
<1> HIDE DEF pairs
<1>4. \A p \in pairs : Ends[p[1]] = p[2]
  BY <1>2, <1>3, TableAt
<1>5. DOMAIN Ends = {p[1] : p \in pairs}
  BY <1>3 DEF Table
<1>6. /\ <<"22", {"bold", "faint"}>> \in pairs /\ <<"23", {"italic"}>> \in pairs
      /\ <<"25", {"blink", "rapid"}>> \in pairs /\ <<"27", {"reverse"}>> \in pairs
      /\ <<"28", {"conceal"}>> \in pairs /\ <<"29", {"strike"}>> \in pairs
  BY DEF pairs
<1> QED
  BY <1>1, <1>4, <1>5, <1>6 DEF EndCodes

LEMMA UnderTable ==
    /\ DOMAIN Underline = UnderCodes
    /\ Underline["4"] = 1 /\ Underline["24"] = 0 /\ Underline["4:0"] = 0 /\ Underline["4:1"] = 1
    /\ Underline["4:2"] = 2 /\ Underline["4:3"] = 3 /\ Underline["4:4"] = 4 /\ Underline["4:5"] = 5
<1> DEFINE pairs == {<<"4", 1>>, <<"24", 0>>, <<"4:0", 0>>, <<"4:1", 1>>, <<"4:2", 2>>, <<"4:3", 3>>,
                     <<"4:4", 4>>, <<"4:5", 5>>}
<1>1. {p[1] : p \in pairs} = {"4", "24", "4:0", "4:1", "4:2", "4:3", "4:4", "4:5"}
  OBVIOUS
<1>2. \A p, q \in pairs : p[1] = q[1] => p = q
  OBVIOUS
<1>3. Underline = Table(pairs)
  BY DEF Underline
<1> HIDE DEF pairs
<1>4. \A p \in pairs : Underline[p[1]] = p[2]
  BY <1>2, <1>3, TableAt
<1>5. DOMAIN Underline = {p[1] : p \in pairs}
  BY <1>3 DEF Table
<1>6. /\ <<"4", 1>> \in pairs /\ <<"24", 0>> \in pairs /\ <<"4:0", 0>> \in pairs /\ <<"4:1", 1>> \in pairs
      /\ <<"4:2", 2>> \in pairs /\ <<"4:3", 3>> \in pairs /\ <<"4:4", 4>> \in pairs /\ <<"4:5", 5>> \in pairs
  BY DEF pairs
<1> QED
  BY <1>1, <1>4, <1>5, <1>6 DEF UnderCodes

LEMMA ForeTable ==
    /\ DOMAIN Foreground = {"31", "34", "38:5:1", "38:2:128:0:0"}
    /\ Foreground["31"] = "red" /\ Foreground["34"] = "blue" /\ Foreground["38:5:1"] = "indexed"
    /\ Foreground["38:2:128:0:0"] = "direct"
<1> DEFINE pairs == {<<"31", "red">>, <<"34", "blue">>, <<"38:5:1", "indexed">>, <<"38:2:128:0:0", "direct">>}
<1>1. {p[1] : p \in pairs} = {"31", "34", "38:5:1", "38:2:128:0:0"}
  OBVIOUS
<1>2. \A p, q \in pairs : p[1] = q[1] => p = q
  OBVIOUS
<1>3. Foreground = Table(pairs)
  BY DEF Foreground
<1> HIDE DEF pairs
<1>4. \A p \in pairs : Foreground[p[1]] = p[2]
  BY <1>2, <1>3, TableAt
<1>5. DOMAIN Foreground = {p[1] : p \in pairs}
  BY <1>3 DEF Table
<1>6. /\ <<"31", "red">> \in pairs /\ <<"34", "blue">> \in pairs /\ <<"38:5:1", "indexed">> \in pairs
      /\ <<"38:2:128:0:0", "direct">> \in pairs
  BY DEF pairs
<1> QED
  BY <1>1, <1>4, <1>5, <1>6

LEMMA BackTable ==
    /\ DOMAIN Background = {"41", "44", "48:5:1", "48:2:128:0:0"}
    /\ Background["41"] = "red" /\ Background["44"] = "blue" /\ Background["48:5:1"] = "indexed"
    /\ Background["48:2:128:0:0"] = "direct"
<1> DEFINE pairs == {<<"41", "red">>, <<"44", "blue">>, <<"48:5:1", "indexed">>, <<"48:2:128:0:0", "direct">>}
<1>1. {p[1] : p \in pairs} = {"41", "44", "48:5:1", "48:2:128:0:0"}
  OBVIOUS
<1>2. \A p, q \in pairs : p[1] = q[1] => p = q
  OBVIOUS
<1>3. Background = Table(pairs)
  BY DEF Background
<1> HIDE DEF pairs
<1>4. \A p \in pairs : Background[p[1]] = p[2]
  BY <1>2, <1>3, TableAt
<1>5. DOMAIN Background = {p[1] : p \in pairs}
  BY <1>3 DEF Table
<1>6. /\ <<"41", "red">> \in pairs /\ <<"44", "blue">> \in pairs /\ <<"48:5:1", "indexed">> \in pairs
      /\ <<"48:2:128:0:0", "direct">> \in pairs
  BY DEF pairs
<1> QED
  BY <1>1, <1>4, <1>5, <1>6

LEMMA LineTable ==
    /\ DOMAIN UnderlineColor = {"58:5:1", "58:2:128:0:0"}
    /\ UnderlineColor["58:5:1"] = "indexed" /\ UnderlineColor["58:2:128:0:0"] = "direct"
<1> DEFINE pairs == {<<"58:5:1", "indexed">>, <<"58:2:128:0:0", "direct">>}
<1>1. {p[1] : p \in pairs} = {"58:5:1", "58:2:128:0:0"}
  OBVIOUS
<1>2. \A p, q \in pairs : p[1] = q[1] => p = q
  OBVIOUS
<1>3. UnderlineColor = Table(pairs)
  BY DEF UnderlineColor
<1> HIDE DEF pairs
<1>4. \A p \in pairs : UnderlineColor[p[1]] = p[2]
  BY <1>2, <1>3, TableAt
<1>5. DOMAIN UnderlineColor = {p[1] : p \in pairs}
  BY <1>3 DEF Table
<1>6. <<"58:5:1", "indexed">> \in pairs /\ <<"58:2:128:0:0", "direct">> \in pairs
  BY DEF pairs
<1> QED
  BY <1>1, <1>4, <1>5, <1>6

LEMMA UndoneTable ==
    /\ DOMAIN Undone = {"italic", "reverse", "strike"}
    /\ Undone["italic"] = "23" /\ Undone["reverse"] = "27" /\ Undone["strike"] = "29"
<1> DEFINE pairs == {<<"italic", "23">>, <<"reverse", "27">>, <<"strike", "29">>}
<1>1. {p[1] : p \in pairs} = {"italic", "reverse", "strike"}
  OBVIOUS
<1>2. \A p, q \in pairs : p[1] = q[1] => p = q
  OBVIOUS
<1>3. Undone = Table(pairs)
  BY DEF Undone
<1> HIDE DEF pairs
<1>4. \A p \in pairs : Undone[p[1]] = p[2]
  BY <1>2, <1>3, TableAt
<1>5. DOMAIN Undone = {p[1] : p \in pairs}
  BY <1>3 DEF Table
<1>6. <<"italic", "23">> \in pairs /\ <<"reverse", "27">> \in pairs /\ <<"strike", "29">> \in pairs
  BY DEF pairs
<1> QED
  BY <1>1, <1>4, <1>5, <1>6

-----------------------------------------------------------------------------
(* Texts: FoldLeft of SequencesExt is FoldLaws!Fold. *)

ReadStep(p, s, code) == ReadStyle(s, code)
ReadLaws == INSTANCE FoldLaws WITH Op <- ReadStep
ShowStep(p, s, code) == TerminalRead(s, code)
ShowLaws == INSTANCE FoldLaws WITH Op <- ShowStep
ChooseStep(S, text, code) == IF code \in S THEN Append(text, code) ELSE text
ChooseLaws == INSTANCE FoldLaws WITH Op <- ChooseStep

LEMMA StyleInduction == ReadLaws!Induction
<1> DEFINE R == {z \in Nat \X Nat : z[1] < z[2]}
<1>1. IsWellFoundedOn(R, Nat)
  BY NatLessThanWellFounded DEF OpToRel
<1> SUFFICES ASSUME NEW S, 0 \in S, \A n \in Nat : n \in S => n + 1 \in S, NEW k \in Nat \ S PROVE FALSE
  BY DEF ReadLaws!Induction
<1> DEFINE U == Nat \ S
<1>2. U \subseteq Nat /\ U # {}
  OBVIOUS
<1>3. PICK x \in U : \A y \in U : ~(<<y, x>> \in R)
  <2> HIDE DEF U, R
  <2> QED
    BY <1>1, <1>2, WFMin
<1>4. x # 0 /\ x - 1 \in Nat
  OBVIOUS
<1>5. x - 1 \in U
  BY <1>4
<1>6. <<x - 1, x>> \in R
  BY <1>4
<1> QED
  BY <1>3, <1>5, <1>6
LEMMA TextInductions == ShowLaws!Induction /\ ChooseLaws!Induction
  BY StyleInduction DEF ReadLaws!Induction, ShowLaws!Induction, ChooseLaws!Induction

LEMMA ReadFold == \A s, text : ReadAll(ReadStyle, s, text) = ReadLaws!Fold(0, s, text)
  BY DEF ReadAll, FoldLeft, MapThenFoldSet, Max, ReadLaws!Fold, ReadLaws!Greatest, ReadStep
LEMMA ShowFold == \A s, text : ReadAll(TerminalRead, s, text) = ShowLaws!Fold(0, s, text)
  BY DEF ReadAll, FoldLeft, MapThenFoldSet, Max, ShowLaws!Fold, ShowLaws!Greatest, ShowStep
LEMMA ChooseFold == \A list, S : Codes(list, S) = ChooseLaws!Fold(S, <<>>, list)
  BY DEF Codes, FoldLeft, MapThenFoldSet, Max, ChooseLaws!Fold, ChooseLaws!Greatest, ChooseStep

\* What a reader that is at s makes of a text.
After(s, text) == ReadAll(ReadStyle, s, text)

LEMMA AfterNothing == \A s : After(s, <<>>) = s
  BY ReadFold, StyleInduction, ReadLaws!FoldEmpty DEF After
LEMMA AfterOne == \A s, code : After(s, <<code>>) = ReadStyle(s, code)
  BY ReadFold, StyleInduction, ReadLaws!FoldSingle DEF After, ReadStep
LEMMA AfterMore ==
    ASSUME NEW E, NEW s, NEW text \in Seq(E), NEW code \in E
    PROVE  After(s, Append(text, code)) = ReadStyle(After(s, text), code)
<1>1. ReadLaws!Fold(0, s, Append(text, code)) = ReadStep(0, ReadLaws!Fold(0, s, text), code)
  BY StyleInduction, ReadLaws!FoldAppend
<1> QED
  BY <1>1, ReadFold DEF After, ReadStep
LEMMA AfterBoth ==
    ASSUME NEW E, NEW s, NEW a \in Seq(E), NEW b \in Seq(E)
    PROVE  After(s, a \o b) = After(After(s, a), b)
  BY ReadFold, StyleInduction, ReadLaws!FoldConcat DEF After

(* The renderer's codes mean to the user's terminal what they mean to a    *)
(* reader of a line; what ReadStyle does not know is not among them.       *)
Shared == SetCodes \union EndCodes \union UnderCodes \union DOMAIN Foreground \union DOMAIN Background
          \union DOMAIN UnderlineColor \union {"0", "39", "49", "59"}
LEMMA ReadAlike == ASSUME NEW s, NEW code \in Shared PROVE TerminalRead(s, code) = ReadStyle(s, code)
  BY AllTable, EndTable, UnderTable, ForeTable, BackTable, LineTable
     DEF Shared, SetCodes, EndCodes, UnderCodes, TerminalRead, ReadStyle, Read, With

LEMMA ShownAlike ==
    ASSUME NEW s, NEW text \in Seq(Shared)
    PROVE  ReadAll(TerminalRead, s, text) = After(s, text)
<1>1. PICK made : ReadLaws!Results(0, made, s, text) /\ ReadLaws!Fold(0, s, text) = made[Len(text)]
  BY StyleInduction, ReadLaws!FoldResults
<1>2. PICK h : ShowLaws!Results(0, h, s, text) /\ ShowLaws!Fold(0, s, text) = h[Len(text)]
  BY TextInductions, ShowLaws!FoldResults
<1>3. ReadLaws!Follows(0, h, text, Len(text))
  <2> SUFFICES ASSUME NEW k \in 1 .. Len(text) PROVE h[k] = ReadStep(0, h[k - 1], text[k])
    BY DEF ReadLaws!Follows
  <2>1. h[k] = ShowStep(0, h[k - 1], text[k])
    BY <1>2 DEF ShowLaws!Results, ShowLaws!Follows
  <2>2. text[k] \in Shared
    OBVIOUS
  <2> QED
    BY <2>1, <2>2, ReadAlike DEF ShowStep, ReadStep
<1>4. made[0] = h[0] /\ ReadLaws!Follows(0, made, text, Len(text))
  BY <1>1, <1>2 DEF ReadLaws!Results, ShowLaws!Results
<1>5. made[Len(text)] = h[Len(text)]
  <2>1. Len(text) \in Nat
    OBVIOUS
  <2> QED
    BY <1>3, <1>4, <2>1, StyleInduction, ReadLaws!RecurrenceUnique
<1> QED
  BY <1>1, <1>2, <1>5, ReadFold, ShowFold DEF After

-----------------------------------------------------------------------------
(* What a code does. *)

\* Each code is in one table at most.
LEMMA WideApart ==
    LET A == SetCodes \union {"53"}
        B == EndCodes \union {"55"}
        C == UnderCodes \union {"21"}
        D == DOMAIN Foreground
        F == DOMAIN Background
        G == DOMAIN UnderlineColor
        H == {"0", "39", "49", "59"}
    IN  /\ A \intersect B = {} /\ A \intersect C = {} /\ A \intersect D = {} /\ A \intersect F = {} /\ A \intersect G = {}
        /\ B \intersect C = {} /\ B \intersect D = {} /\ B \intersect F = {} /\ B \intersect G = {}
        /\ C \intersect D = {} /\ C \intersect F = {} /\ C \intersect G = {}
        /\ D \intersect F = {} /\ D \intersect G = {} /\ F \intersect G = {}
        /\ A \intersect H = {} /\ B \intersect H = {} /\ C \intersect H = {} /\ D \intersect H = {} /\ F \intersect H = {}
        /\ G \intersect H = {}
  BY ForeTable, BackTable, LineTable DEF SetCodes, EndCodes, UnderCodes

\* The reading of a code, whatever the code is.
LEMMA ReadCases ==
    ASSUME NEW s, NEW code, NEW known, NEW ends, NEW under, NEW plain, NEW none,
           DOMAIN known \subseteq SetCodes \union {"53"}, DOMAIN ends \subseteq EndCodes \union {"55"},
           DOMAIN under \subseteq UnderCodes \union {"21"}
    PROVE  LET r == Read(s, code, known, ends, under, plain, none) IN
           /\ code = "0" => r = plain
           /\ code \in DOMAIN known => r = [s EXCEPT !.on = @ \union {known[code]}]
           /\ code \in DOMAIN ends => r = [s EXCEPT !.on = @ \ ends[code]]
           /\ code \in DOMAIN under => r = [s EXCEPT !.under = under[code]]
           /\ code \in DOMAIN Foreground => r = [s EXCEPT !.fg = Foreground[code]]
           /\ code \in DOMAIN Background => r = [s EXCEPT !.bg = Background[code]]
           /\ code \in DOMAIN UnderlineColor => r = [s EXCEPT !.uc = UnderlineColor[code]]
           /\ code = "39" => r = [s EXCEPT !.fg = none]
           /\ code = "49" => r = [s EXCEPT !.bg = none]
           /\ code = "59" => r = [s EXCEPT !.uc = NoColor]
           /\ code \notin DOMAIN known /\ code \notin DOMAIN ends /\ code \notin DOMAIN under
              /\ code \notin DOMAIN Foreground /\ code \notin DOMAIN Background /\ code \notin DOMAIN UnderlineColor
              /\ code \notin {"0", "39", "49", "59"} => r = s
<1> DEFINE A == SetCodes \union {"53"}
           B == EndCodes \union {"55"}
           C == UnderCodes \union {"21"}
           D == DOMAIN Foreground
           F == DOMAIN Background
           G == DOMAIN UnderlineColor
           H == {"0", "39", "49", "59"}
<1>1. /\ A \intersect B = {} /\ A \intersect C = {} /\ A \intersect D = {} /\ A \intersect F = {} /\ A \intersect G = {}
      /\ B \intersect C = {} /\ B \intersect D = {} /\ B \intersect F = {} /\ B \intersect G = {}
      /\ C \intersect D = {} /\ C \intersect F = {} /\ C \intersect G = {}
      /\ D \intersect F = {} /\ D \intersect G = {} /\ F \intersect G = {}
      /\ A \intersect H = {} /\ B \intersect H = {} /\ C \intersect H = {} /\ D \intersect H = {} /\ F \intersect H = {}
      /\ G \intersect H = {}
  BY WideApart
<1>2. DOMAIN known \subseteq A /\ DOMAIN ends \subseteq B /\ DOMAIN under \subseteq C
  OBVIOUS
<1>3. "0" \in H /\ "39" \in H /\ "49" \in H /\ "59" \in H
  OBVIOUS
<1> HIDE DEF A, B, C
<1> QED
  BY <1>1, <1>2, <1>3 DEF Read

LEMMA ReadStyleCases ==
    ASSUME NEW s, NEW code
    PROVE  /\ ReadStyle(s, code) = Read(s, code, All, Ends, Underline, NoStyle, NoColor)
           /\ DOMAIN All = SetCodes /\ DOMAIN Ends = EndCodes /\ DOMAIN Underline = UnderCodes
  BY AllTable, EndTable, UnderTable DEF ReadStyle
LEMMA SetEffect ==
    ASSUME NEW s, NEW code \in SetCodes
    PROVE  ReadStyle(s, code) = [s EXCEPT !.on = @ \union {All[code]}]
  BY ReadStyleCases, ReadCases
LEMMA EndEffect ==
    ASSUME NEW s, NEW code \in EndCodes
    PROVE  ReadStyle(s, code) = [s EXCEPT !.on = @ \ Ends[code]]
  BY ReadStyleCases, ReadCases
LEMMA UnderEffect ==
    ASSUME NEW s, NEW code \in UnderCodes
    PROVE  ReadStyle(s, code) = [s EXCEPT !.under = Underline[code]]
  BY ReadStyleCases, ReadCases
LEMMA ForeEffect ==
    ASSUME NEW s, NEW code \in DOMAIN Foreground
    PROVE  ReadStyle(s, code) = [s EXCEPT !.fg = Foreground[code]]
  BY ReadStyleCases, ReadCases
LEMMA BackEffect ==
    ASSUME NEW s, NEW code \in DOMAIN Background
    PROVE  ReadStyle(s, code) = [s EXCEPT !.bg = Background[code]]
  BY ReadStyleCases, ReadCases
LEMMA LineEffect ==
    ASSUME NEW s, NEW code \in DOMAIN UnderlineColor
    PROVE  ReadStyle(s, code) = [s EXCEPT !.uc = UnderlineColor[code]]
  BY ReadStyleCases, ReadCases
LEMMA OtherEffect ==
    ASSUME NEW s
    PROVE  /\ ReadStyle(s, "39") = [s EXCEPT !.fg = NoColor]
           /\ ReadStyle(s, "49") = [s EXCEPT !.bg = NoColor]
           /\ ReadStyle(s, "59") = [s EXCEPT !.uc = NoColor]
           /\ ReadStyle(s, "0") = NoStyle
           /\ ReadStyle(s, "53") = s /\ ReadStyle(s, "55") = s
<1>1. /\ ReadStyle(s, "39") = [s EXCEPT !.fg = NoColor] /\ ReadStyle(s, "49") = [s EXCEPT !.bg = NoColor]
      /\ ReadStyle(s, "59") = [s EXCEPT !.uc = NoColor] /\ ReadStyle(s, "0") = NoStyle
  BY ReadStyleCases, ReadCases
<1>2. ASSUME NEW code \in {"53", "55"} PROVE ReadStyle(s, code) = s
  <2>1. /\ code \notin SetCodes /\ code \notin EndCodes /\ code \notin UnderCodes
        /\ code \notin DOMAIN Foreground /\ code \notin DOMAIN Background /\ code \notin DOMAIN UnderlineColor
        /\ code \notin {"0", "39", "49", "59"}
    BY ForeTable, BackTable, LineTable DEF SetCodes, EndCodes, UnderCodes
  <2> QED
    BY <2>1, ReadStyleCases, ReadCases
<1> QED
  BY <1>1, <1>2

-----------------------------------------------------------------------------
(* What the codes chosen from a list do: X are the ones chosen, and w the   *)
(* underline that any of them sets.                                         *)

Marks(X) == {All[code] : code \in X \intersect SetCodes}
Marked(s, X, w) ==
    [on |-> s.on \union Marks(X), under |-> IF X \intersect UnderCodes = {} THEN s.under ELSE w,
     fg |-> s.fg, bg |-> s.bg, uc |-> s.uc]
Erased(X) == UNION {Ends[code] : code \in X \intersect EndCodes}
Unmarked(s, X, w) ==
    [on |-> s.on \ Erased(X), under |-> IF X \intersect UnderCodes = {} THEN s.under ELSE w,
     fg |-> s.fg, bg |-> s.bg, uc |-> s.uc]

LEMMA MarkOne ==
    ASSUME NEW s, NEW X, NEW w, NEW code \in SetCodes \union UnderCodes, code \in UnderCodes => Underline[code] = w
    PROVE  ReadStyle(Marked(s, X, w), code) = Marked(s, X \union {code}, w)
<1>1. SetCodes \intersect UnderCodes = {}
  BY DEF SetCodes, UnderCodes
<1>2. CASE code \in SetCodes
  <2>1. Marks(X \union {code}) = Marks(X) \union {All[code]} /\ (X \union {code}) \intersect UnderCodes = X \intersect UnderCodes
    BY <1>1, <1>2 DEF Marks
  <2>2. ReadStyle(Marked(s, X, w), code) = [Marked(s, X, w) EXCEPT !.on = @ \union {All[code]}]
    BY <1>2, SetEffect
  <2>3. (s.on \union Marks(X)) \union {All[code]} = s.on \union (Marks(X) \union {All[code]})
    OBVIOUS
  <2> QED
    BY <2>1, <2>2, <2>3 DEF Marked
<1>3. CASE code \in UnderCodes
  <2>1. Marks(X \union {code}) = Marks(X) /\ (X \union {code}) \intersect UnderCodes # {}
    BY <1>1, <1>3 DEF Marks
  <2>2. ReadStyle(Marked(s, X, w), code) = [Marked(s, X, w) EXCEPT !.under = w]
    BY <1>3, UnderEffect
  <2> QED
    BY <2>1, <2>2 DEF Marked
<1> QED
  BY <1>2, <1>3

LEMMA UnmarkOne ==
    ASSUME NEW s, NEW X, NEW w, NEW code \in EndCodes \union UnderCodes, code \in UnderCodes => Underline[code] = w
    PROVE  ReadStyle(Unmarked(s, X, w), code) = Unmarked(s, X \union {code}, w)
<1>1. EndCodes \intersect UnderCodes = {}
  BY DEF EndCodes, UnderCodes
<1>2. CASE code \in EndCodes
  <2>1. Erased(X \union {code}) = Erased(X) \union Ends[code] /\ (X \union {code}) \intersect UnderCodes = X \intersect UnderCodes
    BY <1>1, <1>2 DEF Erased
  <2>2. ReadStyle(Unmarked(s, X, w), code) = [Unmarked(s, X, w) EXCEPT !.on = @ \ Ends[code]]
    BY <1>2, EndEffect
  <2>3. (s.on \ Erased(X)) \ Ends[code] = s.on \ (Erased(X) \union Ends[code])
    OBVIOUS
  <2> QED
    BY <2>1, <2>2, <2>3 DEF Unmarked
<1>3. CASE code \in UnderCodes
  <2>1. Erased(X \union {code}) = Erased(X) /\ (X \union {code}) \intersect UnderCodes # {}
    BY <1>1, <1>3 DEF Erased
  <2>2. ReadStyle(Unmarked(s, X, w), code) = [Unmarked(s, X, w) EXCEPT !.under = w]
    BY <1>3, UnderEffect
  <2> QED
    BY <2>1, <2>2 DEF Unmarked
<1> QED
  BY <1>2, <1>3

LEMMA MarkAll ==
    ASSUME NEW s \in AnyStyle, NEW w, NEW L \in Seq(SetCodes \union UnderCodes), NEW S,
           \A code \in S \intersect UnderCodes : Underline[code] = w
    PROVE  /\ Codes(L, S) \in Seq(SetCodes \union UnderCodes)
           /\ After(s, Codes(L, S)) = Marked(s, S \intersect {L[i] : i \in 1 .. Len(L)}, w)
<1> DEFINE E == SetCodes \union UnderCodes
           n == Len(L)
           X(k) == S \intersect {L[i] : i \in 1 .. k}
<1>1. PICK made : ChooseLaws!Results(S, made, <<>>, L) /\ ChooseLaws!Fold(S, <<>>, L) = made[n]
  BY TextInductions, ChooseLaws!FoldResults
<1> DEFINE Good(k) == made[k] \in Seq(E) /\ After(s, made[k]) = Marked(s, X(k), w)
           U == {k \in Nat : k <= n => Good(k)}
<1>2. n \in Nat
  OBVIOUS
<1>3. 0 \in U
  <2>1. made[0] = <<>> /\ X(0) = {}
    BY <1>1 DEF ChooseLaws!Results
  <2>2. Marked(s, {}, w) = s
    <3>1. s.on \union {} = s.on
      OBVIOUS
    <3> QED
      BY <3>1 DEF Marked, Marks, AnyStyle
  <2>3. <<>> \in Seq(E)
    OBVIOUS
  <2> HIDE DEF E, X
  <2> QED
    BY <2>1, <2>2, <2>3, AfterNothing
<1>4. ASSUME NEW k \in Nat, k \in U PROVE k + 1 \in U
  <2> SUFFICES ASSUME k + 1 <= n PROVE Good(k + 1)
    OBVIOUS
  <2> DEFINE code == L[k + 1]
  <2>1. Good(k) /\ k + 1 \in 1 .. n /\ (k + 1) - 1 = k
    BY <1>4
  <2>2. code \in E
    BY <2>1
  <2>3. made[k + 1] = ChooseStep(S, made[k], code)
    BY <1>1, <2>1 DEF ChooseLaws!Results, ChooseLaws!Follows
  <2>4. X(k + 1) = X(k) \union (S \intersect {code})
    <3>1. 1 .. k + 1 = (1 .. k) \union {k + 1}
      OBVIOUS
    <3> QED
      BY <3>1
  <2> HIDE DEF E, X, code
  <2>5. CASE code \notin S
    <3>1. made[k + 1] = made[k] /\ X(k + 1) = X(k)
      BY <2>3, <2>4, <2>5 DEF ChooseStep
    <3> QED
      BY <2>1, <3>1
  <2>6. CASE code \in S
    <3>1. made[k + 1] = Append(made[k], code) /\ X(k + 1) = X(k) \union {code}
      BY <2>3, <2>4, <2>6 DEF ChooseStep
    <3>2. Append(made[k], code) \in Seq(E)
      BY <2>1, <2>2
    <3>3. After(s, made[k + 1]) = ReadStyle(Marked(s, X(k), w), code)
      BY <2>1, <2>2, <3>1, AfterMore
    <3>4. ReadStyle(Marked(s, X(k), w), code) = Marked(s, X(k) \union {code}, w)
      <4>1. code \in UnderCodes => Underline[code] = w
        BY <2>6
      <4> QED
        BY <2>2, <4>1, MarkOne DEF E
    <3> QED
      BY <3>1, <3>2, <3>3, <3>4
  <2> QED
    BY <2>5, <2>6
<1>5. Nat \subseteq U
  <2> HIDE DEF U
  <2> QED
    BY <1>3, <1>4, StyleInduction, ReadLaws!SetInduction
<1>6. Good(n)
  <2> HIDE DEF Good
  <2> QED
    BY <1>2, <1>5
<1> QED
  BY <1>1, <1>6, ChooseFold

LEMMA UnmarkAll ==
    ASSUME NEW s \in AnyStyle, NEW w, NEW L \in Seq(EndCodes \union UnderCodes), NEW S,
           \A code \in S \intersect UnderCodes : Underline[code] = w
    PROVE  /\ Codes(L, S) \in Seq(EndCodes \union UnderCodes)
           /\ After(s, Codes(L, S)) = Unmarked(s, S \intersect {L[i] : i \in 1 .. Len(L)}, w)
<1> DEFINE E == EndCodes \union UnderCodes
           n == Len(L)
           X(k) == S \intersect {L[i] : i \in 1 .. k}
<1>1. PICK made : ChooseLaws!Results(S, made, <<>>, L) /\ ChooseLaws!Fold(S, <<>>, L) = made[n]
  BY TextInductions, ChooseLaws!FoldResults
<1> DEFINE Good(k) == made[k] \in Seq(E) /\ After(s, made[k]) = Unmarked(s, X(k), w)
           U == {k \in Nat : k <= n => Good(k)}
<1>2. n \in Nat
  OBVIOUS
<1>3. 0 \in U
  <2>1. made[0] = <<>> /\ X(0) = {}
    BY <1>1 DEF ChooseLaws!Results
  <2>2. Unmarked(s, {}, w) = s
    <3>1. s.on \ {} = s.on
      OBVIOUS
    <3> QED
      BY <3>1 DEF Unmarked, Erased, AnyStyle
  <2>3. <<>> \in Seq(E)
    OBVIOUS
  <2> HIDE DEF E, X
  <2> QED
    BY <2>1, <2>2, <2>3, AfterNothing
<1>4. ASSUME NEW k \in Nat, k \in U PROVE k + 1 \in U
  <2> SUFFICES ASSUME k + 1 <= n PROVE Good(k + 1)
    OBVIOUS
  <2> DEFINE code == L[k + 1]
  <2>1. Good(k) /\ k + 1 \in 1 .. n /\ (k + 1) - 1 = k
    BY <1>4
  <2>2. code \in E
    BY <2>1
  <2>3. made[k + 1] = ChooseStep(S, made[k], code)
    BY <1>1, <2>1 DEF ChooseLaws!Results, ChooseLaws!Follows
  <2>4. X(k + 1) = X(k) \union (S \intersect {code})
    <3>1. 1 .. k + 1 = (1 .. k) \union {k + 1}
      OBVIOUS
    <3> QED
      BY <3>1
  <2> HIDE DEF E, X, code
  <2>5. CASE code \notin S
    <3>1. made[k + 1] = made[k] /\ X(k + 1) = X(k)
      BY <2>3, <2>4, <2>5 DEF ChooseStep
    <3> QED
      BY <2>1, <3>1
  <2>6. CASE code \in S
    <3>1. made[k + 1] = Append(made[k], code) /\ X(k + 1) = X(k) \union {code}
      BY <2>3, <2>4, <2>6 DEF ChooseStep
    <3>2. Append(made[k], code) \in Seq(E)
      BY <2>1, <2>2
    <3>3. After(s, made[k + 1]) = ReadStyle(Unmarked(s, X(k), w), code)
      BY <2>1, <2>2, <3>1, AfterMore
    <3>4. ReadStyle(Unmarked(s, X(k), w), code) = Unmarked(s, X(k) \union {code}, w)
      <4>1. code \in UnderCodes => Underline[code] = w
        BY <2>6
      <4> QED
        BY <2>2, <4>1, UnmarkOne DEF E
    <3> QED
      BY <3>1, <3>2, <3>3, <3>4
  <2> QED
    BY <2>5, <2>6
<1>5. Nat \subseteq U
  <2> HIDE DEF U
  <2> QED
    BY <1>3, <1>4, StyleInduction, ReadLaws!SetInduction
<1>6. Good(n)
  <2> HIDE DEF Good
  <2> QED
    BY <1>2, <1>5
<1> QED
  BY <1>1, <1>6, ChooseFold

-----------------------------------------------------------------------------
(* Colours. *)

\* What renderCellLine writes.
Words == Shared \union {"53", "55"}

LEMMA ForeCode ==
    ASSUME NEW c \in {"red", "blue", "indexed", "direct"}
    PROVE  CodeOf(Foreground, c) \in DOMAIN Foreground /\ Foreground[CodeOf(Foreground, c)] = c
<1>1. \E code \in DOMAIN Foreground : Foreground[code] = c
  BY ForeTable
<1> QED
  BY <1>1 DEF CodeOf
LEMMA BackCode ==
    ASSUME NEW c \in {"red", "blue", "indexed", "direct"}
    PROVE  CodeOf(Background, c) \in DOMAIN Background /\ Background[CodeOf(Background, c)] = c
<1>1. \E code \in DOMAIN Background : Background[code] = c
  BY BackTable
<1> QED
  BY <1>1 DEF CodeOf
LEMMA LineCode ==
    ASSUME NEW c \in {"indexed", "direct"}
    PROVE  CodeOf(UnderlineColor, c) \in DOMAIN UnderlineColor /\ UnderlineColor[CodeOf(UnderlineColor, c)] = c
<1>1. \E code \in DOMAIN UnderlineColor : UnderlineColor[code] = c
  BY LineTable
<1> QED
  BY <1>1 DEF CodeOf

LEMMA SgrFore ==
    ASSUME NEW s \in AnyStyle, NEW old, NEW new \in Colours, s.fg = Undefaulted(old)
    PROVE  /\ SgrColour(old, new, Foreground, "39") \in Seq(Words)
           /\ After(s, SgrColour(old, new, Foreground, "39")) = [s EXCEPT !.fg = Undefaulted(new)]
<1> DEFINE code == CodeOf(Foreground, new)
<1>1. CASE old = new
  <2>1. SgrColour(old, new, Foreground, "39") = <<>> /\ s.fg = Undefaulted(new)
    BY <1>1 DEF SgrColour
  <2>2. s = [s EXCEPT !.fg = Undefaulted(new)]
    BY <2>1 DEF AnyStyle
  <2>3. <<>> \in Seq(Words)
    OBVIOUS
  <2> QED
    BY <2>1, <2>2, <2>3, AfterNothing
<1>2. CASE old # new /\ new \in {NoColor, Default}
  <2>1. SgrColour(old, new, Foreground, "39") = <<"39">> /\ Undefaulted(new) = NoColor
    BY <1>2 DEF SgrColour, Undefaulted
  <2>2. <<"39">> \in Seq(Words)
    BY DEF Words, Shared
  <2>3. After(s, <<"39">>) = ReadStyle(s, "39")
    BY AfterOne
  <2>4. ReadStyle(s, "39") = [s EXCEPT !.fg = NoColor]
    BY OtherEffect
  <2> QED
    BY <2>1, <2>2, <2>3, <2>4
<1>3. CASE old # new /\ new \notin {NoColor, Default}
  <2>1. code \in DOMAIN Foreground /\ Foreground[code] = new
    BY <1>3, ForeCode DEF Colours, Plain
  <2>2. SgrColour(old, new, Foreground, "39") = <<code>> /\ Undefaulted(new) = new
    BY <1>3 DEF SgrColour, Undefaulted
  <2> HIDE DEF code
  <2>3. <<code>> \in Seq(Words)
    BY <2>1 DEF Words, Shared
  <2>4. After(s, <<code>>) = ReadStyle(s, code)
    BY AfterOne
  <2>5. ReadStyle(s, code) = [s EXCEPT !.fg = new]
    BY <2>1, ForeEffect
  <2> QED
    BY <2>2, <2>3, <2>4, <2>5
<1> QED
  BY <1>1, <1>2, <1>3

LEMMA SgrBack ==
    ASSUME NEW s \in AnyStyle, NEW old, NEW new \in Colours, s.bg = Undefaulted(old)
    PROVE  /\ SgrColour(old, new, Background, "49") \in Seq(Words)
           /\ After(s, SgrColour(old, new, Background, "49")) = [s EXCEPT !.bg = Undefaulted(new)]
<1> DEFINE code == CodeOf(Background, new)
<1>1. CASE old = new
  <2>1. SgrColour(old, new, Background, "49") = <<>> /\ s.bg = Undefaulted(new)
    BY <1>1 DEF SgrColour
  <2>2. s = [s EXCEPT !.bg = Undefaulted(new)]
    BY <2>1 DEF AnyStyle
  <2>3. <<>> \in Seq(Words)
    OBVIOUS
  <2> QED
    BY <2>1, <2>2, <2>3, AfterNothing
<1>2. CASE old # new /\ new \in {NoColor, Default}
  <2>1. SgrColour(old, new, Background, "49") = <<"49">> /\ Undefaulted(new) = NoColor
    BY <1>2 DEF SgrColour, Undefaulted
  <2>2. <<"49">> \in Seq(Words)
    BY DEF Words, Shared
  <2>3. After(s, <<"49">>) = ReadStyle(s, "49")
    BY AfterOne
  <2>4. ReadStyle(s, "49") = [s EXCEPT !.bg = NoColor]
    BY OtherEffect
  <2> QED
    BY <2>1, <2>2, <2>3, <2>4
<1>3. CASE old # new /\ new \notin {NoColor, Default}
  <2>1. code \in DOMAIN Background /\ Background[code] = new
    BY <1>3, BackCode DEF Colours, Plain
  <2>2. SgrColour(old, new, Background, "49") = <<code>> /\ Undefaulted(new) = new
    BY <1>3 DEF SgrColour, Undefaulted
  <2> HIDE DEF code
  <2>3. <<code>> \in Seq(Words)
    BY <2>1 DEF Words, Shared
  <2>4. After(s, <<code>>) = ReadStyle(s, code)
    BY AfterOne
  <2>5. ReadStyle(s, code) = [s EXCEPT !.bg = new]
    BY <2>1, BackEffect
  <2> QED
    BY <2>2, <2>3, <2>4, <2>5
<1> QED
  BY <1>1, <1>2, <1>3

LEMMA SgrLine ==
    ASSUME NEW s \in AnyStyle, NEW old, NEW new \in {NoColor, Default, "indexed", "direct"}, s.uc = Undefaulted(old)
    PROVE  /\ SgrColour(old, new, UnderlineColor, "59") \in Seq(Words)
           /\ After(s, SgrColour(old, new, UnderlineColor, "59")) = [s EXCEPT !.uc = Undefaulted(new)]
<1> DEFINE code == CodeOf(UnderlineColor, new)
<1>1. CASE old = new
  <2>1. SgrColour(old, new, UnderlineColor, "59") = <<>> /\ s.uc = Undefaulted(new)
    BY <1>1 DEF SgrColour
  <2>2. s = [s EXCEPT !.uc = Undefaulted(new)]
    BY <2>1 DEF AnyStyle
  <2>3. <<>> \in Seq(Words)
    OBVIOUS
  <2> QED
    BY <2>1, <2>2, <2>3, AfterNothing
<1>2. CASE old # new /\ new \in {NoColor, Default}
  <2>1. SgrColour(old, new, UnderlineColor, "59") = <<"59">> /\ Undefaulted(new) = NoColor
    BY <1>2 DEF SgrColour, Undefaulted
  <2>2. <<"59">> \in Seq(Words)
    BY DEF Words, Shared
  <2>3. After(s, <<"59">>) = ReadStyle(s, "59")
    BY AfterOne
  <2>4. ReadStyle(s, "59") = [s EXCEPT !.uc = NoColor]
    BY OtherEffect
  <2> QED
    BY <2>1, <2>2, <2>3, <2>4
<1>3. CASE old # new /\ new \notin {NoColor, Default}
  <2>1. code \in DOMAIN UnderlineColor /\ UnderlineColor[code] = new
    BY <1>3, LineCode DEF Colours, Plain
  <2>2. SgrColour(old, new, UnderlineColor, "59") = <<code>> /\ Undefaulted(new) = new
    BY <1>3 DEF SgrColour, Undefaulted
  <2> HIDE DEF code
  <2>3. <<code>> \in Seq(Words)
    BY <2>1 DEF Words, Shared
  <2>4. After(s, <<code>>) = ReadStyle(s, code)
    BY AfterOne
  <2>5. ReadStyle(s, code) = [s EXCEPT !.uc = new]
    BY <2>1, LineEffect
  <2> QED
    BY <2>2, <2>3, <2>4, <2>5
<1> QED
  BY <1>1, <1>2, <1>3

LEMMA DiffFore ==
    ASSUME NEW s \in TextStyle, NEW old, NEW new \in Plain, ColorEqual(s.fg, old)
    PROVE  /\ DiffColour(old, new, Foreground, "39") \in Seq(Shared)
           /\ \E c \in Plain : /\ After(s, DiffColour(old, new, Foreground, "39")) = [s EXCEPT !.fg = c]
                               /\ ColorEqual(c, new)
<1> DEFINE code == CodeOf(Foreground, new)
           text == DiffColour(old, new, Foreground, "39")
<1>1. CASE ColorEqual(old, new)
  <2>1. text = <<>> /\ s = [s EXCEPT !.fg = s.fg] /\ s.fg \in Plain
    BY <1>1 DEF DiffColour, TextStyle, AnyStyle
  <2>2. ColorEqual(s.fg, new)
    BY <1>1 DEF ColorEqual
  <2> HIDE DEF text
  <2>3. After(s, text) = [s EXCEPT !.fg = s.fg]
    BY <2>1, AfterNothing
  <2>4. text \in Seq(Shared)
    BY <2>1
  <2> QED
    BY <2>1, <2>2, <2>3, <2>4 DEF text
<1>2. CASE ~ColorEqual(old, new) /\ new = NoColor
  <2>1. text = <<"39">> /\ ColorEqual(new, new)
    BY <1>2 DEF DiffColour, ColorEqual
  <2>2. <<"39">> \in Seq(Shared)
    BY DEF Shared
  <2> HIDE DEF text
  <2>3. After(s, text) = ReadStyle(s, "39")
    BY <2>1, AfterOne
  <2>4. ReadStyle(s, "39") = [s EXCEPT !.fg = NoColor]
    BY OtherEffect
  <2> QED
    BY <1>2, <2>1, <2>2, <2>3, <2>4 DEF text
<1>3. CASE ~ColorEqual(old, new) /\ new # NoColor
  <2>1. code \in DOMAIN Foreground /\ Foreground[code] = new
    BY <1>3, ForeCode DEF Plain
  <2>2. text = <<code>> /\ ColorEqual(new, new)
    BY <1>3 DEF DiffColour, ColorEqual
  <2> HIDE DEF code, text
  <2>3. <<code>> \in Seq(Shared)
    BY <2>1 DEF Shared
  <2>4. After(s, text) = ReadStyle(s, code)
    BY <2>2, AfterOne
  <2>5. ReadStyle(s, code) = [s EXCEPT !.fg = new]
    BY <2>1, ForeEffect
  <2> QED
    BY <2>2, <2>3, <2>4, <2>5 DEF text
<1> QED
  BY <1>1, <1>2, <1>3

LEMMA DiffBack ==
    ASSUME NEW s \in TextStyle, NEW old, NEW new \in Plain, ColorEqual(s.bg, old)
    PROVE  /\ DiffColour(old, new, Background, "49") \in Seq(Shared)
           /\ \E c \in Plain : /\ After(s, DiffColour(old, new, Background, "49")) = [s EXCEPT !.bg = c]
                               /\ ColorEqual(c, new)
<1> DEFINE code == CodeOf(Background, new)
           text == DiffColour(old, new, Background, "49")
<1>1. CASE ColorEqual(old, new)
  <2>1. text = <<>> /\ s = [s EXCEPT !.bg = s.bg] /\ s.bg \in Plain
    BY <1>1 DEF DiffColour, TextStyle, AnyStyle
  <2>2. ColorEqual(s.bg, new)
    BY <1>1 DEF ColorEqual
  <2> HIDE DEF text
  <2>3. After(s, text) = [s EXCEPT !.bg = s.bg]
    BY <2>1, AfterNothing
  <2>4. text \in Seq(Shared)
    BY <2>1
  <2> QED
    BY <2>1, <2>2, <2>3, <2>4 DEF text
<1>2. CASE ~ColorEqual(old, new) /\ new = NoColor
  <2>1. text = <<"49">> /\ ColorEqual(new, new)
    BY <1>2 DEF DiffColour, ColorEqual
  <2>2. <<"49">> \in Seq(Shared)
    BY DEF Shared
  <2> HIDE DEF text
  <2>3. After(s, text) = ReadStyle(s, "49")
    BY <2>1, AfterOne
  <2>4. ReadStyle(s, "49") = [s EXCEPT !.bg = NoColor]
    BY OtherEffect
  <2> QED
    BY <1>2, <2>1, <2>2, <2>3, <2>4 DEF text
<1>3. CASE ~ColorEqual(old, new) /\ new # NoColor
  <2>1. code \in DOMAIN Background /\ Background[code] = new
    BY <1>3, BackCode DEF Plain
  <2>2. text = <<code>> /\ ColorEqual(new, new)
    BY <1>3 DEF DiffColour, ColorEqual
  <2> HIDE DEF code, text
  <2>3. <<code>> \in Seq(Shared)
    BY <2>1 DEF Shared
  <2>4. After(s, text) = ReadStyle(s, code)
    BY <2>2, AfterOne
  <2>5. ReadStyle(s, code) = [s EXCEPT !.bg = new]
    BY <2>1, BackEffect
  <2> QED
    BY <2>2, <2>3, <2>4, <2>5 DEF text
<1> QED
  BY <1>1, <1>2, <1>3

LEMMA DiffLine ==
    ASSUME NEW s \in TextStyle, NEW old, NEW new \in {NoColor, "indexed", "direct"}, ColorEqual(s.uc, old)
    PROVE  /\ DiffColour(old, new, UnderlineColor, "59") \in Seq(Shared)
           /\ \E c \in {NoColor, "indexed", "direct"} : /\ After(s, DiffColour(old, new, UnderlineColor, "59")) = [s EXCEPT !.uc = c]
                               /\ ColorEqual(c, new)
<1> DEFINE code == CodeOf(UnderlineColor, new)
           text == DiffColour(old, new, UnderlineColor, "59")
<1>1. CASE ColorEqual(old, new)
  <2>1. text = <<>> /\ s = [s EXCEPT !.uc = s.uc] /\ s.uc \in {NoColor, "indexed", "direct"}
    BY <1>1 DEF DiffColour, TextStyle, AnyStyle
  <2>2. ColorEqual(s.uc, new)
    BY <1>1 DEF ColorEqual
  <2> HIDE DEF text
  <2>3. After(s, text) = [s EXCEPT !.uc = s.uc]
    BY <2>1, AfterNothing
  <2>4. text \in Seq(Shared)
    BY <2>1
  <2> QED
    BY <2>1, <2>2, <2>3, <2>4 DEF text
<1>2. CASE ~ColorEqual(old, new) /\ new = NoColor
  <2>1. text = <<"59">> /\ ColorEqual(new, new)
    BY <1>2 DEF DiffColour, ColorEqual
  <2>2. <<"59">> \in Seq(Shared)
    BY DEF Shared
  <2> HIDE DEF text
  <2>3. After(s, text) = ReadStyle(s, "59")
    BY <2>1, AfterOne
  <2>4. ReadStyle(s, "59") = [s EXCEPT !.uc = NoColor]
    BY OtherEffect
  <2> QED
    BY <1>2, <2>1, <2>2, <2>3, <2>4 DEF text
<1>3. CASE ~ColorEqual(old, new) /\ new # NoColor
  <2>1. code \in DOMAIN UnderlineColor /\ UnderlineColor[code] = new
    BY <1>3, LineCode DEF Plain
  <2>2. text = <<code>> /\ ColorEqual(new, new)
    BY <1>3 DEF DiffColour, ColorEqual
  <2> HIDE DEF code, text
  <2>3. <<code>> \in Seq(Shared)
    BY <2>1 DEF Shared
  <2>4. After(s, text) = ReadStyle(s, code)
    BY <2>2, AfterOne
  <2>5. ReadStyle(s, code) = [s EXCEPT !.uc = new]
    BY <2>1, LineEffect
  <2> QED
    BY <2>2, <2>3, <2>4, <2>5 DEF text
<1> QED
  BY <1>1, <1>2, <1>3


-----------------------------------------------------------------------------
(* From one cell to the next. *)

SetList == <<"1", "2", "3", "5", "7", "8", "9">>
UndoneList == <<"23", "27", "29">>
LEMMA Lists ==
    /\ SetList \in Seq(SetCodes \union UnderCodes) /\ {SetList[i] : i \in 1 .. Len(SetList)} = SetCodes \ {"6"}
    /\ UndoneList \in Seq(EndCodes \union UnderCodes)
    /\ {UndoneList[i] : i \in 1 .. Len(UndoneList)} = {"23", "27", "29"}
<1>1. {SetList[i] : i \in 1 .. Len(SetList)} = {"1", "2", "3", "5", "7", "8", "9"}
  BY DEF SetList
<1>2. {UndoneList[i] : i \in 1 .. Len(UndoneList)} = {"23", "27", "29"}
  BY DEF UndoneList
<1> QED
  BY <1>1, <1>2 DEF SetList, UndoneList, SetCodes, EndCodes

LEMMA SetMarks ==
    ASSUME NEW D
    PROVE  /\ Marks(Setting(D) \intersect (SetCodes \ {"6"})) = D \intersect CellAttributes
           /\ Setting(D) \intersect UnderCodes = {}
<1>1. Setting(D) \intersect UnderCodes = {}
  BY AllTable DEF Setting, SetCodes, UnderCodes
<1> DEFINE X == Setting(D) \intersect (SetCodes \ {"6"})
<1>2. ASSUME NEW a \in Marks(X) PROVE a \in D \intersect CellAttributes
  <2>1. PICK code \in X : a = All[code]
    BY DEF Marks
  <2>2. code \in {"1", "2", "3", "5", "7", "8", "9"} /\ All[code] \in D
    BY <2>1 DEF Setting, SetCodes
  <2> QED
    BY <2>1, <2>2, AllTable DEF CellAttributes
<1>3. ASSUME NEW a \in D \intersect CellAttributes PROVE a \in Marks(X)
  <2>1. \E code \in SetCodes \ {"6"} : All[code] = a
    BY AllTable DEF CellAttributes, SetCodes
  <2>2. PICK code \in SetCodes \ {"6"} : All[code] = a
    BY <2>1
  <2>3. code \in X /\ code \in SetCodes
    BY <2>2, AllTable DEF Setting
  <2> QED
    BY <2>2, <2>3 DEF Marks
<1> QED
  BY <1>1, <1>2, <1>3

LEMMA UndoneErases ==
    ASSUME NEW D
    PROVE  LET X == {Undone[a] : a \in D \intersect DOMAIN Undone} IN
           /\ Erased(X \intersect {"23", "27", "29"}) = D \intersect {"italic", "reverse", "strike"}
           /\ X \intersect UnderCodes = {}
<1> DEFINE X == {Undone[a] : a \in D \intersect DOMAIN Undone}
<1>1. X \subseteq {"23", "27", "29"}
  BY UndoneTable
<1>2. X \intersect UnderCodes = {}
  BY <1>1 DEF UnderCodes
<1>3. ASSUME NEW a \in D \intersect DOMAIN Undone PROVE Ends[Undone[a]] = {a} /\ Undone[a] \in EndCodes
  BY UndoneTable, EndTable DEF EndCodes
<1>4. Erased(X \intersect {"23", "27", "29"}) = D \intersect DOMAIN Undone
  <2>1. X \intersect {"23", "27", "29"} = X
    BY <1>1
  <2>2. UNION {Ends[code] : code \in X \intersect EndCodes} = D \intersect DOMAIN Undone
    BY <1>3
  <2> QED
    BY <2>1, <2>2 DEF Erased
<1> QED
  BY <1>2, <1>4, UndoneTable

LEMMA UnderKind ==
    ASSUME NEW k \in Kinds, k # 0
    PROVE  LET code == CHOOSE c \in UnderlineKinds : Underline[c] = k IN
           code \in UnderlineKinds /\ Underline[code] = k
<1>1. \E c \in UnderlineKinds : Underline[c] = k
  BY UnderTable DEF UnderlineKinds, Kinds
<1> QED
  BY <1>1
LEMMA UnderShared == UnderlineKinds \subseteq UnderCodes /\ SetCodes \union EndCodes \union UnderCodes \subseteq Shared
                     /\ Shared \subseteq Words
  BY DEF UnderlineKinds, UnderCodes, Shared, Words

\* A text takes a reader from a style to another.
Says(s, text, t) == text \in Seq(Words) /\ After(s, text) = t
LEMMA SaysBoth ==
    ASSUME NEW s, NEW t, NEW u, NEW a, NEW b, Says(s, a, t), Says(t, b, u)
    PROVE  Says(s, a \o b, u)
<1>1. a \in Seq(Words) /\ b \in Seq(Words) /\ a \o b \in Seq(Words)
  BY DEF Says
<1> QED
  BY <1>1, AfterBoth DEF Says
LEMMA SaysNothing == \A s : Says(s, <<>>, s)
  BY AfterNothing DEF Says
LEMMA SaysReset == \A s : Says(s, ResetStyle, NoStyle)
<1>1. <<"0">> \in Seq(Words)
  BY DEF Words, Shared
<1> QED
  BY <1>1, AfterOne, OtherEffect DEF Says, ResetStyle

LEMMA SgrSets ==
    ASSUME NEW s \in AnyStyle, NEW D
    PROVE  Says(s, Codes(SetList, Setting(D)), [s EXCEPT !.on = @ \union (D \intersect CellAttributes)])
<1> DEFINE text == Codes(SetList, Setting(D))
           X == Setting(D) \intersect {SetList[i] : i \in 1 .. Len(SetList)}
<1>1. Setting(D) \intersect UnderCodes = {} /\ X \intersect UnderCodes = {} /\ Marks(X) = D \intersect CellAttributes
  BY SetMarks, Lists
<1>2. text \in Seq(SetCodes \union UnderCodes) /\ After(s, text) = Marked(s, X, 0)
  <2>1. \A code \in Setting(D) \intersect UnderCodes : Underline[code] = 0
    BY <1>1
  <2> HIDE DEF text, X
  <2> QED
    BY <2>1, Lists, MarkAll DEF text, X
<1>3. text \in Seq(Words)
  <2>1. SetCodes \union UnderCodes \subseteq Words
    BY UnderShared
  <2> HIDE DEF text
  <2> QED
    BY <1>2, <2>1
<1>4. Marked(s, X, 0) = [s EXCEPT !.on = @ \union (D \intersect CellAttributes)]
  <2> HIDE DEF X
  <2> QED
    BY <1>1 DEF Marked, AnyStyle
<1> QED
  BY <1>2, <1>3, <1>4 DEF Says

LEMMA SgrEnds ==
    ASSUME NEW s \in AnyStyle, NEW D
    PROVE  Says(s, Codes(UndoneList, {Undone[a] : a \in D \intersect DOMAIN Undone}),
                [s EXCEPT !.on = @ \ (D \intersect {"italic", "reverse", "strike"})])
<1> DEFINE S == {Undone[a] : a \in D \intersect DOMAIN Undone}
           text == Codes(UndoneList, S)
           X == S \intersect {UndoneList[i] : i \in 1 .. Len(UndoneList)}
<1>1. S \intersect UnderCodes = {} /\ X \intersect UnderCodes = {}
      /\ Erased(X) = D \intersect {"italic", "reverse", "strike"}
  BY UndoneErases, Lists
<1> HIDE DEF S
<1>2. text \in Seq(EndCodes \union UnderCodes) /\ After(s, text) = Unmarked(s, X, 0)
  <2>1. \A code \in S \intersect UnderCodes : Underline[code] = 0
    BY <1>1
  <2> HIDE DEF text, X
  <2> QED
    BY <2>1, Lists, UnmarkAll DEF text, X
<1>3. text \in Seq(Words)
  <2>1. EndCodes \union UnderCodes \subseteq Words
    BY UnderShared
  <2> HIDE DEF text
  <2> QED
    BY <1>2, <2>1
<1>4. Unmarked(s, X, 0) = [s EXCEPT !.on = @ \ (D \intersect {"italic", "reverse", "strike"})]
  <2> HIDE DEF X
  <2> QED
    BY <1>1 DEF Unmarked, AnyStyle
<1> QED
  BY <1>2, <1>3, <1>4 DEF Says, S

LEMMA SgrUnder ==
    ASSUME NEW s, NEW old \in Kinds, NEW new \in Kinds, s.under = old, s \in AnyStyle
    PROVE  Says(s, IF new = old THEN <<>>
                   ELSE IF new = 0 THEN <<"24">>
                   ELSE <<CHOOSE code \in UnderlineKinds : Underline[code] = new>>, [s EXCEPT !.under = new])
<1> DEFINE code == CHOOSE c \in UnderlineKinds : Underline[c] = new
<1>1. CASE new = old
  <2>1. s = [s EXCEPT !.under = new]
    BY <1>1 DEF AnyStyle
  <2> QED
    BY <1>1, <2>1, SaysNothing
<1>2. CASE new # old /\ new = 0
  <2>1. "24" \in UnderCodes /\ Underline["24"] = 0 /\ "24" \in Words
    BY UnderTable, UnderShared DEF UnderCodes
  <2>2. After(s, <<"24">>) = [s EXCEPT !.under = 0]
    BY <2>1, AfterOne, UnderEffect
  <2> QED
    BY <1>2, <2>1, <2>2 DEF Says
<1>3. CASE new # old /\ new # 0
  <2>1. code \in UnderlineKinds /\ Underline[code] = new
    BY <1>3, UnderKind
  <2> HIDE DEF code
  <2>2. code \in UnderCodes /\ code \in Words
    BY <2>1, UnderShared
  <2>3. After(s, <<code>>) = [s EXCEPT !.under = new]
    BY <2>1, <2>2, AfterOne, UnderEffect
  <2>4. Says(s, <<code>>, [s EXCEPT !.under = new])
    BY <2>2, <2>3 DEF Says
  <2> QED
    BY <1>3, <2>4 DEF code
<1> QED
  BY <1>1, <1>2, <1>3

LEMMA SgrOver ==
    ASSUME NEW s, NEW new, NEW old
    PROVE  Says(s, CASE "overline" \in new \ old -> <<"53">>
                     [] "overline" \in old \ new -> <<"55">>
                     [] OTHER -> <<>>, s)
<1>1. Says(s, <<"53">>, s) /\ Says(s, <<"55">>, s)
  <2>1. <<"53">> \in Seq(Words) /\ <<"55">> \in Seq(Words)
    BY DEF Words
  <2>2. ReadStyle(s, "53") = s /\ ReadStyle(s, "55") = s
    BY OtherEffect
  <2>3. After(s, <<"53">>) = s /\ After(s, <<"55">>) = s
    BY <2>2, AfterOne
  <2> QED
    BY <2>1, <2>3 DEF Says
<1>2. Says(s, <<>>, s)
  BY SaysNothing
<1>3. CASE "overline" \in new \ old
  <2>1. "overline" \notin old \ new
    BY <1>3
  <2> QED
    BY <1>1, <1>3, <2>1
<1>4. CASE "overline" \notin new \ old
  BY <1>1, <1>2, <1>4
<1> QED
  BY <1>3, <1>4

\* sgrTransition tells the reader of the line the next cell, overline left out.
LEMMA SgrSays ==
    ASSUME NEW was \in CellStyle, NEW to \in CellStyle
    PROVE  Says(Told(was), SgrTransition(was, to), Told(to))
<1> DEFINE reset == (was.on \ to.on) \intersect {"bold", "faint", "blink", "conceal"} # {}
           from  == IF reset THEN NoStyle ELSE was
           text1 == IF reset THEN ResetStyle ELSE <<>>
           text2 == Codes(SetList, Setting(to.on \ from.on))
           text3 == Codes(UndoneList, {Undone[a] : a \in (from.on \ to.on) \intersect DOMAIN Undone})
           text4 == SgrColour(from.fg, to.fg, Foreground, "39")
           text5 == SgrColour(from.bg, to.bg, Background, "49")
           text6 == SgrColour(from.uc, to.uc, UnderlineColor, "59")
           text7 == IF to.under = from.under THEN <<>>
                    ELSE IF to.under = 0 THEN <<"24">>
                    ELSE <<CHOOSE code \in UnderlineKinds : Underline[code] = to.under>>
           text8 == CASE "overline" \in to.on \ from.on -> <<"53">>
                      [] "overline" \in from.on \ to.on -> <<"55">>
                      [] OTHER -> <<>>
<1>1. CASE to = NoStyle
  <2>1. SgrTransition(was, to) = ResetStyle
    BY <1>1 DEF SgrTransition
  <2>2. Says(Told(was), ResetStyle, NoStyle)
    BY SaysReset
  <2> QED
    BY <1>1, <2>1, <2>2, Origin
<1>2. CASE to # NoStyle
  <2>1. SgrTransition(was, to) = text1 \o text2 \o text3 \o text4 \o text5 \o text6 \o text7 \o text8
    BY <1>2 DEF SgrTransition, SetList, UndoneList
  <2>2. from \in CellStyle
    BY Origin
  <2>3. ~reset => from = was
    OBVIOUS
  <2>4. reset => from = NoStyle
    OBVIOUS
  <2>5. (from.on \ to.on) \intersect {"bold", "faint", "blink", "conceal"} = {}
    BY DEF NoStyle
  <2>6. Says(Told(was), text1, Told(from))
    <3>1. CASE reset
      <4>1. text1 = ResetStyle /\ Told(from) = NoStyle
        BY <3>1, Origin
      <4> QED
        BY <4>1, SaysReset
    <3>2. CASE ~reset
      <4>1. text1 = <<>> /\ from = was
        BY <3>2
      <4> QED
        BY <4>1, SaysNothing
    <3> QED
      BY <3>1, <3>2
  <2> HIDE DEF from, text1, reset
  <2> DEFINE s1 == Told(from)
             s2 == [s1 EXCEPT !.on = @ \union ((to.on \ from.on) \intersect CellAttributes)]
             s3 == [s2 EXCEPT !.on = @ \ ((from.on \ to.on) \intersect {"italic", "reverse", "strike"})]
             s4 == [s3 EXCEPT !.fg = Undefaulted(to.fg)]
             s5 == [s4 EXCEPT !.bg = Undefaulted(to.bg)]
             s6 == [s5 EXCEPT !.uc = Undefaulted(to.uc)]
             s7 == [s6 EXCEPT !.under = to.under]
  <2>7. /\ s1 \in AnyStyle /\ s1.on = from.on \ Lost /\ s1.under = from.under /\ s1.fg = Undefaulted(from.fg)
        /\ s1.bg = Undefaulted(from.bg) /\ s1.uc = Undefaulted(from.uc)
    <3>1. s1 \in TextStyle
      BY <2>2, ToldStyle DEF CellStyle
    <3> QED
      BY <3>1 DEF TextStyle, Told
  <2>8. /\ to.fg \in Colours /\ to.bg \in Colours /\ to.uc \in {NoColor, Default, "indexed", "direct"} /\ to.under \in Kinds
        /\ to.on \subseteq CellAttributes \union Lost /\ from.on \subseteq CellAttributes \union Lost
        /\ from.under \in Kinds /\ Undefaulted(to.fg) \in Colours /\ Undefaulted(to.bg) \in Colours
        /\ Undefaulted(to.uc) \in Colours
    BY <2>2 DEF CellStyle, AnyStyle, Undefaulted, Colours, Plain
  <2> HIDE DEF s1
  <2>9. /\ s2 \in AnyStyle /\ s2.on = (from.on \ Lost) \union ((to.on \ from.on) \intersect CellAttributes)
        /\ s2.under = from.under /\ s2.fg = Undefaulted(from.fg)
        /\ s2.bg = Undefaulted(from.bg) /\ s2.uc = Undefaulted(from.uc)
    BY <2>7 DEF AnyStyle
  <2>10. Says(s1, text2, s2)
    BY <2>7, SgrSets
  <2> HIDE DEF s2
  <2>11. /\ s3 \in AnyStyle /\ s3.on = s2.on \ ((from.on \ to.on) \intersect {"italic", "reverse", "strike"})
         /\ s3.under = from.under /\ s3.fg = Undefaulted(from.fg)
         /\ s3.bg = Undefaulted(from.bg) /\ s3.uc = Undefaulted(from.uc)
    BY <2>9 DEF AnyStyle
  <2>12. Says(s2, text3, s3)
    BY <2>9, SgrEnds
  <2>13. s3.on = to.on \ Lost
    <3>1. CellAttributes \intersect Lost = {}
      BY DEF CellAttributes, Lost
    <3>2. CellAttributes = {"bold", "faint", "blink", "conceal"} \union {"italic", "reverse", "strike"}
      BY DEF CellAttributes
    <3> DEFINE A == {"bold", "faint", "blink", "conceal"}
               B == {"italic", "reverse", "strike"}
    <3>3. /\ CellAttributes \intersect Lost = {} /\ CellAttributes = A \union B /\ (from.on \ to.on) \intersect A = {}
          /\ s3.on = ((from.on \ Lost) \union ((to.on \ from.on) \intersect CellAttributes)) \ ((from.on \ to.on) \intersect B)
      BY <2>5, <2>9, <2>11, <3>1, <3>2
    <3> HIDE DEF A, B
    <3> QED
      BY <2>8, <3>3
  <2> HIDE DEF s3, text2, text3
  <2>14. s4 \in AnyStyle /\ s4.on = to.on \ Lost /\ s4.under = from.under /\ s4.fg = Undefaulted(to.fg)
         /\ s4.bg = Undefaulted(from.bg) /\ s4.uc = Undefaulted(from.uc)
    BY <2>8, <2>11, <2>13 DEF AnyStyle
  <2>15. Says(s3, text4, s4)
    BY <2>8, <2>11, SgrFore DEF Says
  <2> HIDE DEF s4, text4
  <2>16. s5 \in AnyStyle /\ s5.on = to.on \ Lost /\ s5.under = from.under /\ s5.fg = Undefaulted(to.fg)
         /\ s5.bg = Undefaulted(to.bg) /\ s5.uc = Undefaulted(from.uc)
    BY <2>8, <2>14 DEF AnyStyle
  <2>17. Says(s4, text5, s5)
    BY <2>8, <2>14, SgrBack DEF Says
  <2> HIDE DEF s5, text5
  <2>18. s6 \in AnyStyle /\ s6.on = to.on \ Lost /\ s6.under = from.under /\ s6.fg = Undefaulted(to.fg)
         /\ s6.bg = Undefaulted(to.bg) /\ s6.uc = Undefaulted(to.uc)
    BY <2>8, <2>16 DEF AnyStyle
  <2>19. Says(s5, text6, s6)
    BY <2>8, <2>16, SgrLine DEF Says
  <2> HIDE DEF s6, text6
  <2>20. s7 = Told(to)
    BY <2>18 DEF AnyStyle, Told
  <2>21. Says(s6, text7, s7)
    BY <2>8, <2>18, SgrUnder
  <2> HIDE DEF s7, text7
  <2>22. Says(s7, text8, s7)
    BY SgrOver
  <2> HIDE DEF text8
  <2>23. Says(Told(was), text1 \o text2 \o text3 \o text4, s4)
    <3>1. Says(Told(was), text1 \o text2, s2)
      BY <2>6, <2>10, SaysBoth DEF s1
    <3>2. Says(Told(was), text1 \o text2 \o text3, s3)
      BY <3>1, <2>12, SaysBoth
    <3> QED
      BY <3>2, <2>15, SaysBoth
  <2>24. Says(Told(was), text1 \o text2 \o text3 \o text4 \o text5 \o text6, s6)
    <3>1. Says(Told(was), text1 \o text2 \o text3 \o text4 \o text5, s5)
      BY <2>23, <2>17, SaysBoth
    <3> QED
      BY <3>1, <2>19, SaysBoth
  <2>25. Says(Told(was), text1 \o text2 \o text3 \o text4 \o text5 \o text6 \o text7 \o text8, s7)
    <3>1. Says(Told(was), text1 \o text2 \o text3 \o text4 \o text5 \o text6 \o text7, s7)
      BY <2>24, <2>21, SaysBoth
    <3> QED
      BY <3>1, <2>22, SaysBoth
  <2> QED
    BY <2>1, <2>20, <2>25
<1> QED
  BY <1>1, <1>2

-----------------------------------------------------------------------------
(* From one pen to the next. *)

EndList == <<"22", "23", "24", "25", "27", "28", "29">>
MarkList == <<"1", "2", "3", "4", "5", "6", "7", "8", "9", "4:2", "4:3", "4:4", "4:5">>
LEMMA DiffLists ==
    /\ EndList \in Seq(EndCodes \union UnderCodes)
    /\ {EndList[i] : i \in 1 .. Len(EndList)} = EndCodes \union {"24"}
    /\ MarkList \in Seq(SetCodes \union UnderCodes)
    /\ {MarkList[i] : i \in 1 .. Len(MarkList)} = SetCodes \union {"4", "4:2", "4:3", "4:4", "4:5"}
<1>1. {EndList[i] : i \in 1 .. Len(EndList)} = {"22", "23", "24", "25", "27", "28", "29"}
  BY DEF EndList
<1>2. {MarkList[i] : i \in 1 .. Len(MarkList)} =
          {"1", "2", "3", "4", "5", "6", "7", "8", "9", "4:2", "4:3", "4:4", "4:5"}
  BY DEF MarkList
<1>3. EndList \in Seq(EndCodes \union UnderCodes)
  BY DEF EndList, EndCodes, UnderCodes
<1>4. MarkList \in Seq(SetCodes \union UnderCodes)
  BY DEF MarkList, SetCodes, UnderCodes
<1>5. EndCodes \union {"24"} = {"22", "23", "24", "25", "27", "28", "29"}
  BY DEF EndCodes
<1>6. SetCodes \union {"4", "4:2", "4:3", "4:4", "4:5"} =
          {"1", "2", "3", "4", "5", "6", "7", "8", "9", "4:2", "4:3", "4:4", "4:5"}
  BY DEF SetCodes
<1> QED
  BY <1>1, <1>2, <1>3, <1>4, <1>5, <1>6

\* What ends the attributes of D, and what it takes with it.
LEMMA DiffEnds ==
    ASSUME NEW D \in SUBSET CellAttributes
    PROVE  LET ends == {code \in DOMAIN Ends : Ends[code] \intersect D # {}} IN
           /\ ends \subseteq EndCodes
           /\ D \subseteq UNION {Ends[code] : code \in ends}
           /\ \A code \in ends : code \notin {"22", "25"} => Ends[code] \subseteq D
<1> DEFINE ends == {code \in DOMAIN Ends : Ends[code] \intersect D # {}}
<1>1. ends \subseteq EndCodes
  BY EndTable
<1>2. ASSUME NEW a \in D PROVE a \in UNION {Ends[code] : code \in ends}
  <2>1. \E code \in EndCodes : a \in Ends[code]
    BY EndTable DEF CellAttributes, EndCodes
  <2>2. PICK code \in EndCodes : a \in Ends[code]
    BY <2>1
  <2>3. code \in ends
    BY <2>2, EndTable
  <2> QED
    BY <2>2, <2>3
<1>3. ASSUME NEW code \in ends, code \notin {"22", "25"} PROVE Ends[code] \subseteq D
  <2>1. code \in EndCodes /\ Ends[code] \intersect D # {}
    BY <1>1
  <2>2. \E a : Ends[code] = {a}
    BY <1>3, <2>1, EndTable DEF EndCodes
  <2> QED
    BY <2>1, <2>2
<1> QED
  BY <1>1, <1>2, <1>3

LEMMA DiffMarks ==
    ASSUME NEW D \in SUBSET CellAttributes
    PROVE  Marks(Setting(D)) = D /\ Setting(D) \subseteq SetCodes
<1>1. Setting(D) \subseteq SetCodes
  BY AllTable DEF Setting
<1>2. ASSUME NEW a \in Marks(Setting(D)) PROVE a \in D
  BY DEF Marks, Setting
<1>3. ASSUME NEW a \in D PROVE a \in Marks(Setting(D))
  <2>1. \E code \in SetCodes : All[code] = a
    BY AllTable DEF CellAttributes, SetCodes
  <2>2. PICK code \in SetCodes : All[code] = a
    BY <2>1
  <2>3. code \in Setting(D)
    BY <2>2, AllTable DEF Setting
  <2> QED
    BY <2>2, <2>3 DEF Marks
<1> QED
  BY <1>1, <1>2, <1>3

UnderOf(old, new) ==
    IF old = new THEN {}
    ELSE CASE new = 0 -> {"24"} [] new = 1 -> {"4"}
           [] OTHER -> {code \in UnderlineKinds : Underline[code] = new}
LEMMA DiffUnder ==
    ASSUME NEW old \in Kinds, NEW new \in Kinds
    PROVE  /\ UnderOf(old, new) \subseteq UnderCodes
           /\ \A code \in UnderOf(old, new) : Underline[code] = new
           /\ old = new => UnderOf(old, new) = {}
           /\ old # new /\ new = 0 => UnderOf(old, new) = {"24"}
           /\ old # new /\ new # 0 => /\ UnderOf(old, new) \intersect {"4", "4:2", "4:3", "4:4", "4:5"} # {}
                                      /\ "24" \notin UnderOf(old, new)
<1>1. CASE old = new
  BY <1>1 DEF UnderOf
<1>2. CASE old # new /\ new = 0
  <2>1. UnderOf(old, new) = {"24"}
    BY <1>2 DEF UnderOf
  <2> QED
    BY <1>2, <2>1, UnderTable DEF UnderCodes
<1>3. CASE old # new /\ new = 1
  <2>1. UnderOf(old, new) = {"4"}
    BY <1>3 DEF UnderOf
  <2> QED
    BY <1>3, <2>1, UnderTable DEF UnderCodes
<1>4. CASE old # new /\ new \in 2 .. 5
  <2>1. UnderOf(old, new) = {code \in UnderlineKinds : Underline[code] = new}
    BY <1>4 DEF UnderOf
  <2>2. \E code \in {"4:2", "4:3", "4:4", "4:5"} : Underline[code] = new
    BY <1>4, UnderTable
  <2>3. {"4:2", "4:3", "4:4", "4:5"} \subseteq UnderlineKinds /\ UnderlineKinds \subseteq UnderCodes
        /\ "24" \notin UnderlineKinds
    BY DEF UnderlineKinds, UnderCodes
  <2> QED
    BY <1>4, <2>1, <2>2, <2>3
<1> QED
  BY <1>1, <1>2, <1>3, <1>4 DEF Kinds

\* A text of the renderer takes a reader from a style to another.
Sends(s, text, t) == text \in Seq(Shared) /\ After(s, text) = t
LEMMA SendsBoth ==
    ASSUME NEW s, NEW t, NEW u, NEW a, NEW b, Sends(s, a, t), Sends(t, b, u)
    PROVE  Sends(s, a \o b, u)
<1>1. a \in Seq(Shared) /\ b \in Seq(Shared) /\ a \o b \in Seq(Shared)
  BY DEF Sends
<1> QED
  BY <1>1, AfterBoth DEF Sends
LEMMA SendsReset == \A s : Sends(s, ResetStyle, NoStyle)
<1>1. <<"0">> \in Seq(Shared)
  BY DEF Shared
<1> QED
  BY <1>1, AfterOne, OtherEffect DEF Sends, ResetStyle

\* The ends of the attributes that go, and the ones that stay: what is left is new.
LEMMA DiffAttributes ==
    ASSUME NEW s \in TextStyle, NEW from \in SUBSET CellAttributes, NEW to \in SUBSET CellAttributes, s.on = from,
           NEW k \in Kinds
    PROVE  LET ends  == {code \in DOMAIN Ends : Ends[code] \intersect (from \ to) # {}}
               again == (UNION {Ends[code] : code \in ends \intersect {"22", "25"}}) \intersect to
               under == UnderOf(s.under, k)
           IN  \E t : /\ Sends(s, Codes(EndList, ends \union under), t)
                      /\ Sends(t, Codes(MarkList, Setting((to \ from) \union again) \union under),
                               [on |-> to, under |-> k, fg |-> s.fg, bg |-> s.bg, uc |-> s.uc])
<1> DEFINE ends  == {code \in DOMAIN Ends : Ends[code] \intersect (from \ to) # {}}
           gone  == UNION {Ends[code] : code \in ends}
           again == (UNION {Ends[code] : code \in ends \intersect {"22", "25"}}) \intersect to
           more  == (to \ from) \union again
           under == UnderOf(s.under, k)
           late  == {"4", "4:2", "4:3", "4:4", "4:5"}
<1>1. /\ ends \subseteq EndCodes /\ from \ to \subseteq gone
      /\ \A code \in ends : code \notin {"22", "25"} => Ends[code] \subseteq from \ to
  <2>1. from \ to \in SUBSET CellAttributes
    OBVIOUS
  <2> QED
    BY <2>1, DiffEnds
<1>2. again = gone \intersect to
  <2> HIDE DEF ends
  <2>1. again \subseteq gone \intersect to
    OBVIOUS
  <2>2. ASSUME NEW a \in gone \intersect to PROVE a \in again
    <3>1. PICK code \in ends : a \in Ends[code]
      OBVIOUS
    <3>2. code \in {"22", "25"}
      BY <1>1, <3>1
    <3>3. a \in UNION {Ends[c] : c \in ends \intersect {"22", "25"}}
      BY <3>1, <3>2
    <3> QED
      BY <3>3
  <2> QED
    BY <2>1, <2>2
<1>3. s \in AnyStyle /\ s.under \in Kinds
  BY DEF TextStyle, AnyStyle
<1>4. /\ under \subseteq UnderCodes /\ \A code \in under : Underline[code] = k
      /\ s.under = k => under = {}
      /\ s.under # k /\ k = 0 => under = {"24"}
      /\ s.under # k /\ k # 0 => under \intersect late # {} /\ "24" \notin under
  BY <1>3, DiffUnder
<1>5. more \in SUBSET CellAttributes
  <2> HIDE DEF ends, under
  <2> QED
    OBVIOUS
<1>6. Marks(Setting(more)) = more /\ Setting(more) \subseteq SetCodes
  <2> HIDE DEF more
  <2> QED
    BY <1>5, DiffMarks
<1>7. /\ EndCodes \intersect UnderCodes = {} /\ SetCodes \intersect UnderCodes = {}
      /\ late \subseteq UnderCodes /\ "24" \in UnderCodes /\ "24" \notin late
  BY DEF EndCodes, SetCodes, UnderCodes
<1> HIDE DEF under, late
<1> DEFINE X == (ends \union under) \intersect (EndCodes \union {"24"})
           Y == (Setting(more) \union under) \intersect (SetCodes \union late)
           text1 == Codes(EndList, ends \union under)
           text2 == Codes(MarkList, Setting(more) \union under)
           s1 == Unmarked(s, X, k)
           s2 == Marked(s1, Y, k)
<1>8. Erased(X) = gone /\ X \intersect UnderCodes = under \intersect {"24"}
  <2>1. X \intersect EndCodes = ends
    <3> HIDE DEF ends
    <3> QED
      BY <1>1, <1>4, <1>7
  <2>2. X \intersect UnderCodes = under \intersect {"24"}
    <3> HIDE DEF ends
    <3> QED
      BY <1>1, <1>4, <1>7
  <2> HIDE DEF X, ends
  <2> QED
    BY <2>1, <2>2 DEF Erased
<1>9. Marks(Y) = more /\ Y \intersect UnderCodes = under \intersect late
  <2> HIDE DEF more
  <2>1. Y \intersect SetCodes = Setting(more) \intersect SetCodes
    BY <1>4, <1>6, <1>7
  <2>2. Y \intersect UnderCodes = under \intersect late
    BY <1>4, <1>6, <1>7
  <2> HIDE DEF Y
  <2>3. Marks(Y) = Marks(Setting(more))
    BY <2>1 DEF Marks
  <2> QED
    BY <1>6, <2>2, <2>3
<1> HIDE DEF ends, gone, more
<1>10. text1 \in Seq(Shared) /\ After(s, text1) = s1
  <2>1. \A code \in (ends \union under) \intersect UnderCodes : Underline[code] = k
    BY <1>1, <1>4, <1>7
  <2> DEFINE S == ends \union under
  <2>2. S \intersect {EndList[i] : i \in 1 .. Len(EndList)} = X
    BY DiffLists
  <2> HIDE DEF S, X
  <2>3. Codes(EndList, S) \in Seq(EndCodes \union UnderCodes) /\ After(s, Codes(EndList, S)) = Unmarked(s, X, k)
    <3>1. \A code \in S \intersect UnderCodes : Underline[code] = k
      BY <2>1 DEF S
    <3> QED
      BY <1>3, <2>2, <3>1, DiffLists, UnmarkAll
  <2>4. EndCodes \union UnderCodes \subseteq Shared
    BY UnderShared
  <2>5. Codes(EndList, S) \in Seq(Shared)
    BY <2>3, <2>4
  <2> QED
    BY <2>3, <2>5 DEF S
<1>11. /\ s1.on = from \ gone /\ s1.under = IF under \intersect {"24"} = {} THEN s.under ELSE k
       /\ s1.fg = s.fg /\ s1.bg = s.bg /\ s1.uc = s.uc /\ s1 \in AnyStyle
  <2> HIDE DEF X
  <2> QED
    BY <1>3, <1>8 DEF Unmarked, AnyStyle
<1> HIDE DEF s1
<1>12. text2 \in Seq(Shared) /\ After(s1, text2) = s2
  <2>1. \A code \in (Setting(more) \union under) \intersect UnderCodes : Underline[code] = k
    BY <1>6, <1>4, <1>7
  <2> DEFINE S == Setting(more) \union under
  <2>2. S \intersect {MarkList[i] : i \in 1 .. Len(MarkList)} = Y
    BY DiffLists DEF late
  <2> HIDE DEF S, Y
  <2>3. Codes(MarkList, S) \in Seq(SetCodes \union UnderCodes) /\ After(s1, Codes(MarkList, S)) = Marked(s1, Y, k)
    <3>1. \A code \in S \intersect UnderCodes : Underline[code] = k
      BY <2>1 DEF S
    <3>2. MarkList \in Seq(SetCodes \union UnderCodes) /\ s1 \in AnyStyle
      BY <1>11, DiffLists
    <3> HIDE DEF s2, text1, text2
    <3> QED
      BY <2>2, <3>1, <3>2, MarkAll
  <2>4. SetCodes \union UnderCodes \subseteq Shared
    BY UnderShared
  <2>5. Codes(MarkList, S) \in Seq(Shared)
    BY <2>3, <2>4
  <2> QED
    BY <2>3, <2>5 DEF S
<1>13. s2.on = to /\ s2.under = k /\ s2.fg = s.fg /\ s2.bg = s.bg /\ s2.uc = s.uc
  <2>1. s2 = [on |-> s1.on \union more, under |-> IF under \intersect late = {} THEN s1.under ELSE k,
              fg |-> s.fg, bg |-> s.bg, uc |-> s.uc]
    <3> HIDE DEF Y
    <3> QED
      BY <1>9, <1>11 DEF Marked
  <2>2. (from \ gone) \union more = to
    BY <1>1, <1>2 DEF more
  <2>3. (IF under \intersect late = {} THEN s1.under ELSE k) = k
    <3>1. CASE s.under = k
      BY <1>4, <1>11, <3>1
    <3>2. CASE s.under # k /\ k = 0
      BY <1>4, <1>11, <3>2
    <3>3. CASE s.under # k /\ k # 0
      BY <1>4, <3>3
    <3> QED
      BY <3>1, <3>2, <3>3
  <2> QED
    BY <1>11, <2>1, <2>2, <2>3
<1>14. s2 = [on |-> to, under |-> k, fg |-> s.fg, bg |-> s.bg, uc |-> s.uc]
  <2>2. s2 = [on |-> to, under |-> k, fg |-> s.fg, bg |-> s.bg, uc |-> s.uc]
    <3> HIDE DEF Y
    <3>1. s2 = [on |-> s2.on, under |-> s2.under, fg |-> s2.fg, bg |-> s2.bg, uc |-> s2.uc]
      BY DEF Marked
    <3> HIDE DEF s2
    <3> QED
      BY <1>13, <3>1
  <2> QED
    BY <2>2
<1>15. Sends(s, text1, s1) /\ Sends(s1, text2, s2)
  BY <1>10, <1>12 DEF Sends
<1> HIDE DEF text1, text2, s2
<1>16. \E t : Sends(s, text1, t) /\ Sends(t, text2, [on |-> to, under |-> k, fg |-> s.fg, bg |-> s.bg, uc |-> s.uc])
  BY <1>14, <1>15
<1> QED
  BY <1>16 DEF text1, text2, ends, more, under

LEMMA TextParts ==
    ASSUME NEW s
    PROVE  s \in TextStyle <=>
               /\ s = [on |-> s.on, under |-> s.under, fg |-> s.fg, bg |-> s.bg, uc |-> s.uc]
               /\ s.on \in SUBSET CellAttributes /\ s.under \in Kinds /\ s.fg \in Plain /\ s.bg \in Plain
               /\ s.uc \in {NoColor, "indexed", "direct"}
<1>1. {NoColor, "indexed", "direct"} \subseteq Plain /\ Plain \subseteq Colours
  BY DEF Plain, Colours
<1>2. s \in AnyStyle <=>
          /\ s = [on |-> s.on, under |-> s.under, fg |-> s.fg, bg |-> s.bg, uc |-> s.uc]
          /\ s.on \in SUBSET (CellAttributes \union Lost) /\ s.under \in Kinds /\ s.fg \in Colours /\ s.bg \in Colours
          /\ s.uc \in Colours
  BY DEF AnyStyle
<1> QED
  BY <1>1, <1>2 DEF TextStyle

\* StyleDiff takes a reader that looks like from to a look like to's.
LEMMA DiffSays ==
    ASSUME NEW from \in TextStyle, NEW to \in TextStyle, NEW p \in TextStyle, StyleEqual(p, from)
    PROVE  /\ StyleDiff(from, to) \in Seq(Shared)
           /\ After(p, StyleDiff(from, to)) \in TextStyle
           /\ StyleEqual(After(p, StyleDiff(from, to)), to)
<1>1. CASE StyleEqual(from, to)
  <2>1. StyleDiff(from, to) = <<>> /\ <<>> \in Seq(Shared)
    BY <1>1 DEF StyleDiff, StyleDiffWith
  <2>2. StyleEqual(p, to)
    BY <1>1, LikeOn
  <2> QED
    BY <2>1, <2>2, AfterNothing
<1>2. CASE ~StyleEqual(from, to) /\ to = NoStyle
  <2>1. StyleDiff(from, to) = ResetStyle
    BY <1>2 DEF StyleDiff, StyleDiffWith
  <2>2. Sends(p, ResetStyle, NoStyle)
    BY SendsReset
  <2> QED
    BY <1>2, <2>1, <2>2, LikeSame DEF Sends
<1>3. CASE ~StyleEqual(from, to) /\ to # NoStyle
  <2> DEFINE text1 == DiffColour(from.fg, to.fg, Foreground, "39")
             text2 == DiffColour(from.bg, to.bg, Background, "49")
             text3 == DiffColour(from.uc, to.uc, UnderlineColor, "59")
             ends  == {code \in DOMAIN Ends : Ends[code] \intersect (from.on \ to.on) # {}}
             again == (UNION {Ends[code] : code \in ends \intersect {"22", "25"}}) \intersect to.on
             under == UnderOf(from.under, to.under)
             text4 == Codes(EndList, ends \union under)
             text5 == Codes(MarkList, Setting((to.on \ from.on) \union again) \union under)
  <2>1. StyleDiff(from, to) = text1 \o text2 \o text3 \o text4 \o text5
    BY <1>3 DEF StyleDiff, StyleDiffWith, UnderOf, EndList, MarkList
  <2>2. /\ to.fg \in Plain /\ to.bg \in Plain /\ to.uc \in {NoColor, "indexed", "direct"}
        /\ to.on \in SUBSET CellAttributes /\ from.on \in SUBSET CellAttributes
        /\ to.under \in Kinds /\ from.under \in Kinds
    BY TextParts
  <2>3. /\ p.on = from.on /\ p.under = from.under /\ ColorEqual(p.fg, from.fg)
        /\ ColorEqual(p.bg, from.bg) /\ ColorEqual(p.uc, from.uc)
    BY DEF StyleEqual
  <2>4. PICK f \in Plain : After(p, text1) = [p EXCEPT !.fg = f] /\ ColorEqual(f, to.fg)
    BY <2>2, <2>3, DiffFore
  <2>5. text1 \in Seq(Shared)
    BY <2>2, <2>3, DiffFore
  <2> DEFINE p1 == [p EXCEPT !.fg = f]
  <2>6. p1 \in TextStyle /\ p1.on = p.on /\ p1.under = p.under /\ p1.fg = f /\ p1.bg = p.bg /\ p1.uc = p.uc
    BY DEF TextStyle, AnyStyle, Colours
  <2>7. Sends(p, text1, p1)
    BY <2>4, <2>5 DEF Sends
  <2> HIDE DEF p1, text1
  <2>8. PICK b \in Plain : After(p1, text2) = [p1 EXCEPT !.bg = b] /\ ColorEqual(b, to.bg)
    BY <2>2, <2>3, <2>6, DiffBack
  <2>9. text2 \in Seq(Shared)
    BY <2>2, <2>3, <2>6, DiffBack
  <2> DEFINE p2 == [p1 EXCEPT !.bg = b]
  <2>10. p2 \in TextStyle /\ p2.on = p.on /\ p2.under = p.under /\ p2.fg = f /\ p2.bg = b /\ p2.uc = p.uc
    BY <2>6 DEF TextStyle, AnyStyle, Colours
  <2>11. Sends(p1, text2, p2)
    BY <2>8, <2>9 DEF Sends
  <2> HIDE DEF p2, text2
  <2>12. PICK u \in {NoColor, "indexed", "direct"} : After(p2, text3) = [p2 EXCEPT !.uc = u] /\ ColorEqual(u, to.uc)
    BY <2>2, <2>3, <2>10, DiffLine
  <2>13. text3 \in Seq(Shared)
    BY <2>2, <2>3, <2>10, DiffLine
  <2> DEFINE p3 == [p2 EXCEPT !.uc = u]
  <2>14. p3 \in TextStyle /\ p3.on = p.on /\ p3.under = p.under /\ p3.fg = f /\ p3.bg = b /\ p3.uc = u
    BY <2>10 DEF TextStyle, AnyStyle, Colours, Plain
  <2>15. Sends(p2, text3, p3)
    BY <2>12, <2>13 DEF Sends
  <2> HIDE DEF p3, text3
  <2> DEFINE p4 == [on |-> to.on, under |-> to.under, fg |-> f, bg |-> b, uc |-> u]
  <2>16. PICK q : Sends(p3, text4, q) /\ Sends(q, text5, p4)
    BY <2>2, <2>3, <2>14, DiffAttributes
  <2>17. p4 \in TextStyle /\ StyleEqual(p4, to)
    <3>1. /\ p4 = [on |-> p4.on, under |-> p4.under, fg |-> p4.fg, bg |-> p4.bg, uc |-> p4.uc]
          /\ p4.on = to.on /\ p4.under = to.under /\ p4.fg = f /\ p4.bg = b /\ p4.uc = u
      OBVIOUS
    <3> HIDE DEF p4
    <3> QED
      BY <2>2, <2>4, <2>8, <2>12, <3>1, TextParts DEF StyleEqual
  <2> HIDE DEF text4, text5, p4
  <2>18. Sends(p, text1 \o text2 \o text3, p3)
    <3>1. Sends(p, text1 \o text2, p2)
      BY <2>7, <2>11, SendsBoth
    <3> QED
      BY <3>1, <2>15, SendsBoth
  <2>19. Sends(p, text1 \o text2 \o text3 \o text4 \o text5, p4)
    <3>1. Sends(p, text1 \o text2 \o text3 \o text4, q)
      BY <2>16, <2>18, SendsBoth
    <3> QED
      BY <2>16, <3>1, SendsBoth
  <2>20. Sends(p, StyleDiff(from, to), p4)
    BY <2>1, <2>19
  <2> QED
    BY <2>17, <2>20 DEF Sends
<1> QED
  BY <1>1, <1>2, <1>3

-----------------------------------------------------------------------------
(* The region's screen and a terminal of the program's own. *)

LEMMA AgreeTold == ASSUME NEW a, NEW w, Agree(a, w) PROVE Told(a) = Told(w)
<1>1. a.on \ Lost = w.on \ Lost
  BY DEF Agree, Lost
<1>2. Undefaulted(w.fg) = w.fg /\ Undefaulted(w.bg) = w.bg /\ Undefaulted(w.uc) = w.uc
  BY DEF Agree, AskedStyle, Undefaulted, Plain, NoColor, Default
<1> QED
  BY <1>1, <1>2 DEF Agree, Told

EndsWide == With(Ends, "55", {"overline"})
UnderlineWide == With(Underline, "21", 2)
AllWide == With(All, "53", "overline")
TeWide == With(Attribute, "53", "overline")

LEMMA Wide ==
    /\ DOMAIN AllWide = SetCodes \union {"53"} /\ DOMAIN TeWide = (SetCodes \ {"6"}) \union {"53"}
    /\ DOMAIN EndsWide = EndCodes \union {"55"} /\ DOMAIN UnderlineWide = UnderCodes \union {"21"}
    /\ AllWide["6"] = "rapid"
    /\ \A code \in DOMAIN TeWide : TeWide[code] = AllWide[code] /\ TeWide[code] \in CellAttributes \union {"overline"}
    /\ \A code \in DOMAIN UnderlineWide : UnderlineWide[code] \in Kinds
<1>1. DOMAIN AllWide = SetCodes \union {"53"} /\ DOMAIN EndsWide = EndCodes \union {"55"}
      /\ DOMAIN UnderlineWide = UnderCodes \union {"21"}
  BY AllTable, EndTable, UnderTable DEF AllWide, EndsWide, UnderlineWide, With
<1>2. DOMAIN TeWide = (SetCodes \ {"6"}) \union {"53"}
  BY AttributeTable DEF TeWide, With, SetCodes
<1>3. AllWide["6"] = "rapid"
  BY AllTable DEF AllWide, With, SetCodes
<1>4. \A code \in DOMAIN TeWide : TeWide[code] = AllWide[code] /\ TeWide[code] \in CellAttributes \union {"overline"}
  <2> SUFFICES ASSUME NEW code \in DOMAIN TeWide
               PROVE  TeWide[code] = AllWide[code] /\ TeWide[code] \in CellAttributes \union {"overline"}
    OBVIOUS
  <2>1. code \in {"1", "2", "3", "5", "7", "8", "9", "53"}
    BY <1>2 DEF SetCodes
  <2>2. TeWide[code] = (IF code = "53" THEN "overline" ELSE Attribute[code])
    BY <2>1, AttributeTable DEF TeWide, With
  <2>3. AllWide[code] = (IF code = "53" THEN "overline" ELSE All[code])
    BY <2>1, AllTable DEF AllWide, With, SetCodes
  <2>4. code # "53" => All[code] = Attribute[code] /\ Attribute[code] \in CellAttributes
    BY <2>1, AttributeTable, AllTable DEF CellAttributes
  <2> QED
    BY <2>2, <2>3, <2>4
<1>5. \A code \in DOMAIN UnderlineWide : UnderlineWide[code] \in Kinds
  BY <1>1, UnderTable DEF UnderlineWide, With, UnderCodes, Kinds
<1> QED
  BY <1>1, <1>2, <1>3, <1>4, <1>5

LEMMA ColourTables ==
    /\ \A code \in DOMAIN Foreground : Foreground[code] \in Plain /\ Foreground[code] # NoColor
    /\ \A code \in DOMAIN Background : Background[code] \in Plain /\ Background[code] # NoColor
    /\ \A code \in DOMAIN UnderlineColor : UnderlineColor[code] \in {"indexed", "direct"}
  BY ForeTable, BackTable, LineTable DEF Plain, NoColor
LEMMA UndefaultedPlain == /\ \A c \in Plain : Undefaulted(c) = c
                          /\ Undefaulted(Default) = NoColor
                          /\ {NoColor, "indexed", "direct"} \subseteq Plain
  BY DEF Undefaulted, Plain, NoColor, Default

LEMMA AgreeOn ==
    ASSUME NEW a, NEW w, Agree(a, w), NEW on \in SUBSET (CellAttributes \union Lost)
    PROVE  Agree([a EXCEPT !.on = on \ {"rapid"}], [w EXCEPT !.on = on])
  BY DEF Agree, CellStyle, AskedStyle, AnyStyle

\* Whatever the program writes, the screen and its own terminal stay together.
LEMMA AgreeReads ==
    ASSUME NEW a, NEW w, Agree(a, w), NEW code
    PROVE  Agree(TeRead(a, code), TerminalRead(w, code))
<1> DEFINE r == TeRead(a, code)
           v == TerminalRead(w, code)
           On == SUBSET (CellAttributes \union Lost)
<1>1. r = Read(a, code, TeWide, EndsWide, UnderlineWide, DefaultStyle, Default)
  BY DEF TeRead, TeWide, EndsWide, UnderlineWide
<1>2. v = Read(w, code, AllWide, EndsWide, UnderlineWide, NoStyle, NoColor)
  BY DEF TerminalRead, AllWide, EndsWide, UnderlineWide
<1>3. DOMAIN TeWide \subseteq SetCodes \union {"53"} /\ DOMAIN AllWide \subseteq SetCodes \union {"53"}
      /\ DOMAIN EndsWide \subseteq EndCodes \union {"55"} /\ DOMAIN UnderlineWide \subseteq UnderCodes \union {"21"}
  BY Wide
<1>4. /\ a.on = w.on \ {"rapid"} /\ w.on \in On /\ a.on \in On /\ a \in AnyStyle /\ w \in AnyStyle
  BY DEF Agree, CellStyle, AskedStyle, AnyStyle
<1> HIDE DEF r, v
<1>5. CASE code = "0"
  <2>1. r = DefaultStyle /\ v = NoStyle
    BY <1>1, <1>2, <1>3, <1>5, ReadCases
  <2>2. NoStyle \in AskedStyle
    BY Origin DEF TextStyle, AskedStyle
  <2>3. Undefaulted(NoColor) = NoColor /\ Undefaulted(Default) = NoColor
    BY UndefaultedPlain
  <2>4. DefaultStyle.on = {} /\ NoStyle.on = {} \ {"rapid"} /\ DefaultStyle.under = NoStyle.under
        /\ DefaultStyle.fg = Default /\ NoStyle.fg = NoColor /\ DefaultStyle.bg = Default /\ NoStyle.bg = NoColor
        /\ DefaultStyle.uc = NoColor /\ NoStyle.uc = NoColor
    BY DEF DefaultStyle, NoStyle
  <2> QED
    BY <2>1, <2>2, <2>3, <2>4, Origin DEF Agree, r, v
<1>6. CASE code \in DOMAIN TeWide
  <2>1. r = [a EXCEPT !.on = @ \union {TeWide[code]}]
    BY <1>1, <1>3, <1>6, ReadCases
  <2>2. v = [w EXCEPT !.on = @ \union {AllWide[code]}]
    <3>1. code \in DOMAIN AllWide
      BY <1>6, Wide
    <3> QED
      BY <1>2, <1>3, <3>1, ReadCases
  <2>3. TeWide[code] = AllWide[code] /\ TeWide[code] \in CellAttributes \union {"overline"} /\ TeWide[code] # "rapid"
    <3>1. "rapid" \notin CellAttributes \union {"overline"}
      BY DEF CellAttributes
    <3> QED
      BY <1>6, <3>1, Wide
  <2> DEFINE on == w.on \union {TeWide[code]}
  <2>4. on \in On /\ a.on \union {TeWide[code]} = on \ {"rapid"}
    BY <1>4, <2>3 DEF Lost
  <2>5. r = [a EXCEPT !.on = on \ {"rapid"}] /\ v = [w EXCEPT !.on = on]
    BY <2>1, <2>2, <2>3, <2>4
  <2> HIDE DEF on
  <2> QED
    BY <2>4, <2>5, AgreeOn DEF r, v
<1>7. CASE code = "6"
  <2>1. code \notin DOMAIN TeWide /\ code \notin DOMAIN EndsWide /\ code \notin DOMAIN UnderlineWide
        /\ code \notin DOMAIN Foreground /\ code \notin DOMAIN Background /\ code \notin DOMAIN UnderlineColor
        /\ code \notin {"0", "39", "49", "59"} /\ code \in DOMAIN AllWide /\ AllWide[code] = "rapid"
    BY <1>7, Wide, ForeTable, BackTable, LineTable DEF SetCodes, EndCodes, UnderCodes
  <2>2. r = a
    BY <1>1, <1>3, <2>1, ReadCases
  <2>3. v = [w EXCEPT !.on = @ \union {"rapid"}]
    <3>1. v = [w EXCEPT !.on = @ \union {AllWide[code]}]
      BY <1>2, <1>3, <2>1, ReadCases
    <3> QED
      BY <2>1, <3>1
  <2> DEFINE on == w.on \union {"rapid"}
  <2>4. on \in On /\ a.on = on \ {"rapid"}
    BY <1>4 DEF Lost
  <2>5. r = [a EXCEPT !.on = on \ {"rapid"}] /\ v = [w EXCEPT !.on = on]
    <3>1. a = [a EXCEPT !.on = a.on]
      BY <1>4 DEF AnyStyle
    <3> QED
      BY <2>2, <2>3, <2>4, <3>1
  <2> HIDE DEF on
  <2> QED
    BY <2>4, <2>5, AgreeOn DEF r, v
<1>8. CASE code \in DOMAIN EndsWide
  <2>1. r = [a EXCEPT !.on = @ \ EndsWide[code]]
    BY <1>1, <1>3, <1>8, ReadCases
  <2>2. v = [w EXCEPT !.on = @ \ EndsWide[code]]
    BY <1>2, <1>3, <1>8, ReadCases
  <2> DEFINE on == w.on \ EndsWide[code]
  <2>3. on \in On /\ a.on \ EndsWide[code] = on \ {"rapid"}
    BY <1>4
  <2>4. r = [a EXCEPT !.on = on \ {"rapid"}] /\ v = [w EXCEPT !.on = on]
    BY <2>1, <2>2, <2>3
  <2> HIDE DEF on
  <2> QED
    BY <2>3, <2>4, AgreeOn DEF r, v
<1>9. CASE code \in DOMAIN UnderlineWide
  <2>1. r = [a EXCEPT !.under = UnderlineWide[code]] /\ v = [w EXCEPT !.under = UnderlineWide[code]]
    BY <1>1, <1>2, <1>3, <1>9, ReadCases
  <2>2. UnderlineWide[code] \in Kinds
    BY <1>9, Wide
  <2> QED
    BY <2>1, <2>2 DEF Agree, CellStyle, AskedStyle, AnyStyle, r, v
<1>10. CASE code \in DOMAIN Foreground
  <2>1. r = [a EXCEPT !.fg = Foreground[code]] /\ v = [w EXCEPT !.fg = Foreground[code]]
    BY <1>1, <1>2, <1>3, <1>10, ReadCases
  <2>2. Foreground[code] \in Plain /\ Undefaulted(Foreground[code]) = Foreground[code] /\ Plain \subseteq Colours
    BY <1>10, ColourTables, UndefaultedPlain DEF Colours
  <2> QED
    BY <2>1, <2>2 DEF Agree, CellStyle, AskedStyle, AnyStyle, r, v
<1>11. CASE code \in DOMAIN Background
  <2>1. r = [a EXCEPT !.bg = Background[code]] /\ v = [w EXCEPT !.bg = Background[code]]
    BY <1>1, <1>2, <1>3, <1>11, ReadCases
  <2>2. Background[code] \in Plain /\ Undefaulted(Background[code]) = Background[code] /\ Plain \subseteq Colours
    BY <1>11, ColourTables, UndefaultedPlain DEF Colours
  <2> QED
    BY <2>1, <2>2 DEF Agree, CellStyle, AskedStyle, AnyStyle, r, v
<1>12. CASE code \in DOMAIN UnderlineColor
  <2>1. r = [a EXCEPT !.uc = UnderlineColor[code]] /\ v = [w EXCEPT !.uc = UnderlineColor[code]]
    BY <1>1, <1>2, <1>3, <1>12, ReadCases
  <2>2. UnderlineColor[code] \in {"indexed", "direct"} /\ Undefaulted(UnderlineColor[code]) = UnderlineColor[code]
        /\ UnderlineColor[code] \in Colours
    BY <1>12, ColourTables, UndefaultedPlain DEF Colours
  <2> QED
    BY <2>1, <2>2 DEF Agree, CellStyle, AskedStyle, AnyStyle, r, v
<1>13. CASE code \in {"39", "49", "59"}
  <2>1. NoColor \in Plain /\ NoColor \in Colours /\ Default \in Colours
        /\ Undefaulted(NoColor) = NoColor /\ Undefaulted(Default) = NoColor
    BY UndefaultedPlain DEF Plain, Colours
  <2>2. CASE code = "39"
    <3>1. r = [a EXCEPT !.fg = Default] /\ v = [w EXCEPT !.fg = NoColor]
      BY <1>1, <1>2, <1>3, <2>2, ReadCases
    <3> QED
      BY <2>1, <3>1 DEF Agree, CellStyle, AskedStyle, AnyStyle, r, v
  <2>3. CASE code = "49"
    <3>1. r = [a EXCEPT !.bg = Default] /\ v = [w EXCEPT !.bg = NoColor]
      BY <1>1, <1>2, <1>3, <2>3, ReadCases
    <3> QED
      BY <2>1, <3>1 DEF Agree, CellStyle, AskedStyle, AnyStyle, r, v
  <2>4. CASE code = "59"
    <3>1. r = [a EXCEPT !.uc = NoColor] /\ v = [w EXCEPT !.uc = NoColor]
      BY <1>1, <1>2, <1>3, <2>4, ReadCases
    <3> QED
      BY <2>1, <3>1 DEF Agree, CellStyle, AskedStyle, AnyStyle, r, v
  <2> QED
    BY <1>13, <2>2, <2>3, <2>4
<1>14. CASE /\ code \notin DOMAIN TeWide /\ code # "6" /\ code \notin DOMAIN EndsWide /\ code \notin DOMAIN UnderlineWide
            /\ code \notin DOMAIN Foreground /\ code \notin DOMAIN Background /\ code \notin DOMAIN UnderlineColor
            /\ code \notin {"0", "39", "49", "59"}
  <2>1. code \notin DOMAIN AllWide
    BY <1>14, Wide
  <2>2. r = a
    BY <1>1, <1>3, <1>14, ReadCases
  <2>3. v = w
    BY <1>2, <1>3, <1>14, <2>1, ReadCases
  <2> QED
    BY <2>2, <2>3 DEF r, v
<1> QED
  BY <1>5, <1>6, <1>7, <1>8, <1>9, <1>10, <1>11, <1>12, <1>13, <1>14

-----------------------------------------------------------------------------
(* A character on its way. *)

LEMMA LaidSays ==
    ASSUME NEW pen \in TextStyle, NEW s \in TextStyle, NEW p \in TextStyle, StyleEqual(p, pen)
    PROVE  After(p, LaidOut(pen, s)) \in TextStyle /\ StyleEqual(After(p, LaidOut(pen, s)), s)
<1>1. CASE s = NoStyle /\ pen # NoStyle
  <2>1. LaidOut(pen, s) = ResetStyle /\ Sends(p, ResetStyle, NoStyle)
    BY <1>1, SendsReset DEF LaidOut
  <2> QED
    BY <1>1, <2>1, LikeSame DEF Sends
<1>2. CASE ~(s = NoStyle /\ pen # NoStyle)
  <2>1. LaidOut(pen, s) = StyleDiff(pen, s)
    BY <1>2 DEF LaidOut
  <2> QED
    BY <2>1, DiffSays
<1> QED
  BY <1>1, <1>2
LEMMA PenLike ==
    ASSUME NEW pen \in TextStyle, NEW s \in TextStyle
    PROVE  PenAfter(pen, s) \in TextStyle /\ StyleEqual(PenAfter(pen, s), s)
  BY LikeSame DEF PenAfter

\* The snapshot tells what the screen does, and the cursor falls on both alike.
LEMMA CursorAlike ==
    ASSUME NEW a, NEW w, Agree(a, w), NEW fetched \in BOOLEAN, NEW cursor \in {"none", "reversed", "asking"}
    PROVE  LET target == UnderCursor(IF fetched THEN Snapshot(a) ELSE a, cursor)
               goal   == UnderCursor(w, cursor)
           IN  target \in CellStyle /\ goal \in AskedStyle /\ Told(target) = Told(goal)
<1> DEFINE b == IF fetched THEN Snapshot(a) ELSE a
<1>1. /\ a \in CellStyle /\ w \in AskedStyle /\ Told(a) = Told(w)
  BY AgreeTold DEF Agree
<1>2. b \in CellStyle /\ Told(b) = Told(w)
  <2>1. Snapshot(a) \in CellStyle
    BY <1>1 DEF Snapshot, Spec16, CellStyle, AnyStyle, Colours
  <2>2. Told(Snapshot(a)) = Told(a)
    <3>1. \A c : Undefaulted(Spec16(c)) = Undefaulted(c)
      BY DEF Undefaulted, Spec16
    <3>2. /\ Snapshot(a).on = a.on /\ Snapshot(a).under = a.under /\ Snapshot(a).fg = Spec16(a.fg)
          /\ Snapshot(a).bg = Spec16(a.bg) /\ Snapshot(a).uc = Spec16(a.uc)
      BY <1>1 DEF Snapshot, CellStyle, AnyStyle
    <3> QED
      BY <3>1, <3>2 DEF Told
  <2> QED
    BY <1>1, <2>1, <2>2
<1> HIDE DEF b
<1>3. CASE cursor = "none"
  BY <1>1, <1>2, <1>3 DEF UnderCursor, b
<1>4. CASE cursor = "reversed"
  <2>1. UnderCursor(b, cursor) = Reversed(b) /\ UnderCursor(w, cursor) = Reversed(w)
    BY <1>4 DEF UnderCursor
  <2>2. "reverse" \in CellAttributes /\ "reverse" \notin Lost
    BY DEF CellAttributes, Lost
  <2>3. /\ Reversed(b).on = (b.on \ {"reverse"}) \union ({"reverse"} \ b.on)
        /\ Reversed(b).under = b.under /\ Reversed(b).fg = b.fg /\ Reversed(b).bg = b.bg /\ Reversed(b).uc = b.uc
        /\ Reversed(w).on = (w.on \ {"reverse"}) \union ({"reverse"} \ w.on)
        /\ Reversed(w).under = w.under /\ Reversed(w).fg = w.fg /\ Reversed(w).bg = w.bg /\ Reversed(w).uc = w.uc
    BY <1>1, <1>2 DEF Reversed, CellStyle, AskedStyle, AnyStyle
  <2>4. b.on \ Lost = w.on \ Lost /\ b.under = w.under /\ Undefaulted(b.fg) = Undefaulted(w.fg)
        /\ Undefaulted(b.bg) = Undefaulted(w.bg) /\ Undefaulted(b.uc) = Undefaulted(w.uc)
    BY <1>2 DEF Told
  <2>5. Reversed(b).on \ Lost = Reversed(w).on \ Lost
    BY <2>2, <2>3, <2>4
  <2>6. Told(Reversed(b)) = Told(Reversed(w))
    BY <2>3, <2>4, <2>5 DEF Told
  <2>7. Reversed(b) \in CellStyle
    <3>1. "rapid" # "reverse"
      OBVIOUS
    <3> QED
      BY <1>2, <2>2, <3>1 DEF Reversed, CellStyle, AnyStyle
  <2>8. Reversed(w) \in AskedStyle
    BY <1>1, <2>2 DEF Reversed, AskedStyle, AnyStyle
  <2> QED
    BY <2>1, <2>6, <2>7, <2>8 DEF b
<1>5. CASE cursor = "asking"
  <2>1. UnderCursor(b, cursor) = Asking /\ UnderCursor(w, cursor) = Asking
    BY <1>5 DEF UnderCursor
  <2>2. NoStyle \in AnyStyle /\ NoStyle.bg = NoColor /\ NoStyle.uc = NoColor
    BY Origin DEF TextStyle, NoStyle
  <2>3. Asking \in CellStyle /\ Asking \in AskedStyle
    <3>1. {"bold", "reverse"} \in SUBSET (CellAttributes \union Lost) /\ "rapid" \notin {"bold", "reverse"}
      BY DEF CellAttributes
    <3>2. "blue" \in Plain /\ "blue" \in Colours /\ NoColor \in Plain
      BY DEF Plain, Colours
    <3>3. Asking \in AnyStyle /\ Asking.on = {"bold", "reverse"} /\ Asking.fg = "blue"
          /\ Asking.bg = NoStyle.bg /\ Asking.uc = NoStyle.uc
      <4> HIDE DEF NoStyle
      <4> QED
        BY <2>2, <3>1, <3>2 DEF Asking, AnyStyle
    <3> QED
      BY <2>2, <3>1, <3>2, <3>3 DEF CellStyle, AskedStyle
  <2> QED
    BY <2>1, <2>3 DEF b
<1> QED
  BY <1>3, <1>4, <1>5

LEMMA StylesStart == ASSUME StyleInit PROVE StylesInv
<1>1. NoStyle \in AskedStyle
  BY Origin DEF TextStyle, AskedStyle
<1>2. Agree(DefaultStyle, NoStyle)
  <2>1. /\ DefaultStyle.on = {} /\ NoStyle.on = {} /\ DefaultStyle.under = NoStyle.under
        /\ DefaultStyle.fg = Default /\ NoStyle.fg = NoColor /\ DefaultStyle.bg = Default /\ NoStyle.bg = NoColor
        /\ DefaultStyle.uc = NoColor /\ NoStyle.uc = NoColor
    BY DEF DefaultStyle, NoStyle
  <2> QED
    BY <1>1, <2>1, Origin, UndefaultedPlain DEF Agree
<1> QED
  BY <1>1, <1>2, Origin, LikeSame DEF StyleInit, NewPens, StylesInv

LEMMA StylesPrint ==
    ASSUME StylesInv, NEW fetched \in BOOLEAN, NEW cursor \in {"none", "reversed", "asking"}, PrintCell(fetched, cursor)
    PROVE  StylesInv'
<1> DEFINE target == UnderCursor(IF fetched THEN Snapshot(attr) ELSE attr, cursor)
           said   == IF target = pens.line THEN <<>> ELSE SgrTransition(pens.line, target)
           text   == ReadAll(ReadStyle, pens.text, said)
           view   == ReadAll(ReadStyle, pens.view, LaidOut(pens.laid, text))
           sent   == IF StyleEqual(pens.sent, view) THEN pens.sent ELSE view
           shown  == ReadAll(TerminalRead, pens.shown, StyleDiff(pens.sent, view))
           goal   == UnderCursor(want, cursor)
<1>1. /\ pens' = [line |-> target, text |-> text, laid |-> PenAfter(pens.laid, text), view |-> view,
                  sent |-> sent, shown |-> shown, goal |-> goal]
      /\ attr' = attr /\ want' = want
  BY DEF PrintCell
<1>2. /\ pens.line \in CellStyle /\ pens.text \in TextStyle /\ pens.laid \in TextStyle /\ pens.view \in TextStyle
      /\ pens.sent \in TextStyle /\ pens.shown \in TextStyle /\ pens.text = Told(pens.line)
      /\ StyleEqual(pens.laid, pens.text) /\ StyleEqual(pens.view, pens.laid) /\ StyleEqual(pens.shown, pens.sent)
  BY DEF StylesInv
<1>3. target \in CellStyle /\ goal \in AskedStyle /\ Told(target) = Told(goal)
  BY CursorAlike DEF StylesInv
<1> HIDE DEF target, goal
<1>4. text = Told(target) /\ text \in TextStyle
  <2>1. text = Told(target)
    <3>1. CASE target = pens.line
      BY <1>2, <3>1, AfterNothing DEF After
    <3>2. CASE target # pens.line
      <4>1. Says(Told(pens.line), SgrTransition(pens.line, target), Told(target))
        BY <1>2, <1>3, SgrSays
      <4> QED
        BY <1>2, <3>2, <4>1 DEF Says, After
    <3> QED
      BY <3>1, <3>2
  <2> QED
    BY <1>3, <2>1, ToldStyle DEF CellStyle
<1> HIDE DEF text
<1>5. view \in TextStyle /\ StyleEqual(view, text)
  BY <1>2, <1>4, LaidSays DEF After
<1> HIDE DEF view
<1>6. PenAfter(pens.laid, text) \in TextStyle /\ StyleEqual(PenAfter(pens.laid, text), text)
  BY <1>2, <1>4, PenLike
<1>7. sent \in TextStyle /\ StyleEqual(sent, view)
  BY <1>2, <1>5, LikeSame
<1>8. shown \in TextStyle /\ StyleEqual(shown, view)
  <2>1. /\ StyleDiff(pens.sent, view) \in Seq(Shared)
        /\ After(pens.shown, StyleDiff(pens.sent, view)) \in TextStyle
        /\ StyleEqual(After(pens.shown, StyleDiff(pens.sent, view)), view)
    BY <1>2, <1>5, DiffSays
  <2>2. shown = After(pens.shown, StyleDiff(pens.sent, view))
    BY <2>1, ShownAlike
  <2> QED
    BY <2>1, <2>2
<1> HIDE DEF sent, shown
<1>9. StyleEqual(view, PenAfter(pens.laid, text)) /\ StyleEqual(shown, sent) /\ StyleEqual(shown, text)
  BY <1>5, <1>6, <1>7, <1>8, LikeBack, LikeOn
<1> QED
  BY <1>1, <1>3, <1>4, <1>5, <1>6, <1>7, <1>8, <1>9 DEF StylesInv

LEMMA StylesStep == ASSUME StylesInv, [StyleNext]_styleVars PROVE StylesInv'
<1>1. ASSUME NEW code, Program(code) PROVE StylesInv'
  <2>1. Agree(attr', want')
    BY <1>1, AgreeReads DEF Program, StylesInv
  <2> QED
    BY <1>1, <2>1 DEF Program, StylesInv
<1>2. ASSUME EndLine PROVE StylesInv'
  <2> DEFINE view == IF pens.laid = NoStyle THEN pens.view ELSE ReadAll(ReadStyle, pens.view, ResetStyle)
             text == ReadAll(ReadStyle, pens.text, ResetStyle)
  <2>1. \A s : ReadAll(ReadStyle, s, ResetStyle) = NoStyle
    BY SaysReset DEF Says, After
  <2>2. text = NoStyle /\ view \in TextStyle /\ StyleEqual(view, NoStyle)
    BY <2>1, Origin, LikeSame DEF StylesInv
  <2>3. pens' = [line |-> NoStyle, text |-> text, laid |-> NoStyle, view |-> view, sent |-> pens.sent,
                 shown |-> pens.shown, goal |-> pens.goal]
    BY <1>2 DEF EndLine, StylesInv
  <2> HIDE DEF text, view
  <2>4. attr' = attr /\ want' = want
    BY <1>2 DEF EndLine
  <2> QED
    BY <2>2, <2>3, <2>4, Origin, LikeSame DEF StylesInv
<1>3. CASE UNCHANGED styleVars
  BY <1>3 DEF styleVars, StylesInv
<1> QED
  BY <1>1, <1>2, <1>3, StylesPrint DEF StyleNext

\* Whatever parameters a program uses, in whatever order, and whenever its cells come as events or
\* with a snapshot: each character arrives in the style the program gave it (sgrTransition, ReadStyle,
\* StyleDiff).  No pen of the five forgets what the next one still has.
THEOREM StylesAlwaysArrive == StyleSpec => []StylesArrive
<1>1. StylesInv => StylesArrive
  <2> SUFFICES ASSUME StylesInv PROVE StylesArrive
    OBVIOUS
  <2>1. pens.shown \in TextStyle /\ pens.goal \in AskedStyle /\ StyleEqual(pens.shown, Told(pens.goal))
    BY DEF StylesInv
  <2> DEFINE a == [pens.shown EXCEPT !.on = @ \ Lost]
             b == [pens.goal EXCEPT !.on = @ \ Lost]
  <2>2. /\ a.on = pens.shown.on \ Lost /\ a.under = pens.shown.under /\ a.fg = pens.shown.fg
        /\ a.bg = pens.shown.bg /\ a.uc = pens.shown.uc
    BY <2>1 DEF TextStyle, AnyStyle
  <2>3. /\ b.on = pens.goal.on \ Lost /\ b.under = pens.goal.under /\ b.fg = pens.goal.fg
        /\ b.bg = pens.goal.bg /\ b.uc = pens.goal.uc
    BY <2>1 DEF AskedStyle, AnyStyle
  <2>4. /\ pens.shown.on = pens.goal.on \ Lost /\ pens.shown.under = pens.goal.under
        /\ ColorEqual(pens.shown.fg, Undefaulted(pens.goal.fg))
        /\ ColorEqual(pens.shown.bg, Undefaulted(pens.goal.bg))
        /\ ColorEqual(pens.shown.uc, Undefaulted(pens.goal.uc))
    BY <2>1 DEF StyleEqual, Told
  <2>5. Undefaulted(pens.goal.fg) = pens.goal.fg /\ Undefaulted(pens.goal.bg) = pens.goal.bg
        /\ Undefaulted(pens.goal.uc) = pens.goal.uc
    BY <2>1, UndefaultedPlain DEF AskedStyle
  <2>6. a.on = b.on
    BY <2>2, <2>3, <2>4
  <2> HIDE DEF a, b
  <2>7. StyleEqual(a, b)
    BY <2>2, <2>3, <2>4, <2>5, <2>6 DEF StyleEqual
  <2> QED
    BY <2>7 DEF StylesArrive, a, b
<1> QED
  BY <1>1, StylesStart, StylesStep, PTL DEF StyleSpec
=============================================================================
