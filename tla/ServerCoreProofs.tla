-------------------------- MODULE ServerCoreProofs --------------------------
(***************************************************************************)
(* Proofs about ServerCore, for any number of clients and regions and any  *)
(* mailbox capacity.  IndInv is the inductive invariant: the properties of *)
(* ServerCore together with where a handler may be (LoopOK) and how a      *)
(* region's life goes (RegionOK).                                          *)
(***************************************************************************)
EXTENDS ServerCore, TLAPS

(* The state a handler of several steps leaves to its next step. *)
LoopOK ==
    /\ loop.kind \in {"unsub", "unlay"} => clients[loop.client] = "closing"
    /\ loop.kind = "unlay" => subscriptions[loop.client] = NoRegion
    /\ loop.kind \in {"add", "subscribe", "register"} =>
          InTree(loop.client) /\ loop.region \in regions
    /\ loop.kind \in {"ask", "asked"} =>
          actor[loop.region] # "none" /\ loop.rest \subseteq regions

(* A region is nowhere before it is spawned, and its actor has stopped     *)
(* when its destruction is asked for.                                      *)
RegionOK ==
    \A r \in Region :
        /\ actor[r] = "none" =>
              /\ mailbox[r] = <<>> /\ subscribers[r] = {} /\ overlay[r] = NoClient
              /\ r \notin regions /\ r \notin starting
        /\ r \in destroying => actor[r] = "stopped"

IndInv ==
    /\ TypeOK /\ LoopOK /\ RegionOK
    /\ SubscriptionsLive /\ SubscribersAgree
    /\ OverlayIndex /\ OverlayRouted

-----------------------------------------------------------------------------
(* What appending a message to a mailbox, or taking the first one, does to *)
(* the state the actor will reach.                                         *)

(* A message sent to an actor (Region.AddSubscriber and its like) decides  *)
(* the facts it makes or breaks, and leaves the others as they were.       *)
LEMMA AfterAppend ==
    ASSUME NEW box \in Seq(Message), NEW m, NEW makes, NEW breaks, NEW now
    PROVE  After(Append(box, m), makes, breaks, now) <=>
              m \in makes \/ (m \notin breaks /\ After(box, makes, breaks, now))
<1> DEFINE new == Append(box, m)
           n == Len(box) + 1
<1>1. /\ DOMAIN new = 1 .. n /\ DOMAIN box = 1 .. Len(box) /\ Len(box) \in Nat
      /\ new[n] = m /\ \A i \in 1 .. Len(box) : new[i] = box[i]
  OBVIOUS
<1>2. CASE m \in makes
  <2>1. n \in DOMAIN new /\ new[n] \in makes /\ \A j \in DOMAIN new : ~(j > n)
    BY <1>1, <1>2
  <2> QED BY <1>2, <2>1 DEF After
<1>3. CASE m \notin makes /\ m \in breaks
  <2>1. \A i \in DOMAIN new : new[i] \in makes => n > i
    BY <1>1, <1>3
  <2>2. n \in DOMAIN new /\ new[n] \in breaks
    BY <1>1, <1>3
  <2> QED BY <1>3, <2>1, <2>2 DEF After
<1>4. CASE m \notin makes /\ m \notin breaks
  <2>1. ASSUME After(new, makes, breaks, now) PROVE After(box, makes, breaks, now)
    BY <1>1, <1>4, <2>1 DEF After
  <2>2. ASSUME After(box, makes, breaks, now) PROVE After(new, makes, breaks, now)
    BY <1>1, <1>4, <2>2 DEF After
  <2> QED BY <1>4, <2>1, <2>2
<1> QED BY <1>2, <1>3, <1>4

(* An actor that takes its first message (actor.run) and applies it heads  *)
(* for the same state as before.                                           *)
LEMMA AfterTail ==
    ASSUME NEW box \in Seq(Message), box # <<>>, NEW makes, NEW breaks, NEW now, NEW next,
           next <=> Head(box) \in makes \/ (Head(box) \notin breaks /\ now)
    PROVE  After(Tail(box), makes, breaks, next) <=> After(box, makes, breaks, now)
<1> DEFINE rest == Tail(box)
           n == Len(box)
<1>1. /\ n \in Nat /\ n >= 1 /\ DOMAIN box = 1 .. n /\ DOMAIN rest = 1 .. n - 1
      /\ Head(box) = box[1] /\ \A i \in 1 .. n - 1 : rest[i] = box[i + 1]
  OBVIOUS
<1>2. ASSUME NEW i \in DOMAIN box, i # 1
      PROVE  i - 1 \in DOMAIN rest /\ rest[i - 1] = box[i]
  BY <1>1, <1>2
<1>3. ASSUME NEW i \in DOMAIN rest
      PROVE  i + 1 \in DOMAIN box /\ rest[i] = box[i + 1] /\ i \in Nat /\ i >= 1
  BY <1>1
<1>4. 1 \in DOMAIN box /\ \A i \in DOMAIN box : i \in Nat /\ i >= 1
  BY <1>1
<1>5. ASSUME After(rest, makes, breaks, next) PROVE After(box, makes, breaks, now)
  <2>1. CASE \E i \in DOMAIN rest :
               rest[i] \in makes /\ \A j \in DOMAIN rest : j > i => rest[j] \notin breaks
    <3>1. PICK i \in DOMAIN rest :
               rest[i] \in makes /\ \A j \in DOMAIN rest : j > i => rest[j] \notin breaks
      BY <2>1
    <3>2. i + 1 \in DOMAIN box /\ box[i + 1] \in makes
      BY <1>3, <3>1
    <3>3. ASSUME NEW j \in DOMAIN box, j > i + 1 PROVE box[j] \notin breaks
      <4>1. j # 1 /\ j - 1 > i
        BY <1>3, <1>4, <3>3
      <4> QED BY <1>2, <3>1, <4>1
    <3> QED BY <3>2, <3>3 DEF After
  <2>2. CASE next /\ \A i \in DOMAIN rest : rest[i] \notin breaks
    <3>1. ASSUME NEW j \in DOMAIN box, j > 1 PROVE box[j] \notin breaks
      <4>1. j # 1
        BY <1>4, <3>1
      <4> QED BY <1>2, <2>2, <4>1
    <3>2. CASE Head(box) \in makes
      BY <1>1, <1>4, <3>1, <3>2 DEF After
    <3>3. CASE Head(box) \notin makes
      <4>1. now /\ box[1] \notin breaks
        BY <1>1, <2>2, <3>3
      <4>2. \A j \in DOMAIN box : j = 1 \/ j > 1
        BY <1>4
      <4> QED BY <3>1, <4>1, <4>2 DEF After
    <3> QED BY <3>2, <3>3
  <2> QED BY <1>5, <2>1, <2>2 DEF After
<1>6. ASSUME After(box, makes, breaks, now) PROVE After(rest, makes, breaks, next)
  <2>1. CASE \E i \in DOMAIN box :
               box[i] \in makes /\ \A j \in DOMAIN box : j > i => box[j] \notin breaks
    <3>1. PICK i \in DOMAIN box :
               box[i] \in makes /\ \A j \in DOMAIN box : j > i => box[j] \notin breaks
      BY <2>1
    <3>2. ASSUME NEW j \in DOMAIN rest, j + 1 > i PROVE rest[j] \notin breaks
      BY <1>3, <3>1, <3>2
    <3>3. CASE i = 1
      <4>1. \A j \in DOMAIN rest : rest[j] \notin breaks
        BY <1>3, <3>2, <3>3
      <4> QED BY <1>1, <3>1, <3>3, <4>1 DEF After
    <3>4. CASE i # 1
      <4>1. i - 1 \in DOMAIN rest /\ rest[i - 1] \in makes
        BY <1>2, <3>1, <3>4
      <4>2. \A j \in DOMAIN rest : j > i - 1 => rest[j] \notin breaks
        BY <1>3, <1>4, <3>2
      <4> QED BY <4>1, <4>2 DEF After
    <3> QED BY <3>3, <3>4
  <2>2. CASE now /\ \A i \in DOMAIN box : box[i] \notin breaks
    <3>1. next
      BY <1>1, <1>4, <2>2
    <3>2. \A i \in DOMAIN rest : rest[i] \notin breaks
      BY <1>3, <2>2
    <3> QED BY <3>1, <3>2 DEF After
  <2> QED BY <1>6, <2>1, <2>2 DEF After
<1> QED BY <1>5, <1>6

-----------------------------------------------------------------------------
(* Types. *)

(* A send to an actor's msgs channel appends one message to the mailbox of *)
(* a running actor, within its capacity, and changes no other mailbox.     *)
LEMMA SendType ==
    ASSUME TypeOK, NEW r \in Region, NEW m \in Message, Send(r, m)
    PROVE  /\ mailbox' \in [Region -> Seq(Message)]
           /\ \A q \in Region : Len(mailbox'[q]) <= MailCap
           /\ \A q \in Region :
                 mailbox'[q] = IF q = r /\ actor[q] = "running"
                               THEN Append(mailbox[q], m) ELSE mailbox[q]
<1>1. mailbox[r] \in Seq(Message) /\ Append(mailbox[r], m) \in Seq(Message)
  BY DEF TypeOK
<1>2. actor[r] = "running" => Len(Append(mailbox[r], m)) <= MailCap
  BY <1>1, ServerCoreAssumption DEF TypeOK, Send, HasRoom
<1> QED BY <1>1, <1>2 DEF TypeOK, Send

(* The same for a send to the region a map entry names, if it is there.    *)
LEMMA SendIfFoundType ==
    ASSUME TypeOK, NEW r, NEW m \in Message, SendIfFound(r, m)
    PROVE  /\ mailbox' \in [Region -> Seq(Message)]
           /\ \A q \in Region : Len(mailbox'[q]) <= MailCap
           /\ \A q \in Region :
                 mailbox'[q] = IF r \in regions /\ q = r /\ actor[q] = "running"
                               THEN Append(mailbox[q], m) ELSE mailbox[q]
<1>1. CASE r \in regions
  BY <1>1, SendType DEF TypeOK, SendIfFound
<1>2. CASE r \notin regions
  BY <1>2 DEF TypeOK, SendIfFound
<1> QED BY <1>1, <1>2

(* The message an actor takes is one of the kinds actor.run knows, and the *)
(* mailboxes stay within their capacity.                                   *)
LEMMA TakeType ==
    ASSUME TypeOK, NEW r \in Region, NEW t, Take(r, t)
    PROVE  /\ mailbox' \in [Region -> Seq(Message)]
           /\ \A q \in Region : Len(mailbox'[q]) <= MailCap
           /\ mailbox[r] \in Seq(Message) /\ mailbox[r] # <<>>
           /\ Head(mailbox[r]) = Msg(t, Sender(r))
           /\ t \notin {"data", "length", "exit"} => Sender(r) \in Client
<1>1. mailbox[r] \in Seq(Message) /\ mailbox[r] # <<>> /\ Head(mailbox[r]) \in Message
  BY DEF TypeOK, Take, Receives
<1>2. Tail(mailbox[r]) \in Seq(Message) /\ Len(Tail(mailbox[r])) <= MailCap
  <2>1. Len(Tail(mailbox[r])) = Len(mailbox[r]) - 1 /\ Len(mailbox[r]) \in Nat
    BY <1>1
  <2> QED BY <1>1, <2>1, ServerCoreAssumption DEF TypeOK
<1>3. /\ Head(mailbox[r]) = Msg(t, Sender(r))
      /\ t \notin {"data", "length", "exit"} => Sender(r) \in Client
  BY <1>1 DEF Message, Msg, Sender, Take, Receives
<1> QED BY <1>1, <1>2, <1>3 DEF TypeOK, Take

(* The messages the handlers send are the ones the actors know.            *)
LEMMA MsgType ==
    /\ Msg("data", NoClient) \in Message /\ Msg("exit", NoClient) \in Message
    /\ Msg("length", NoClient) \in Message
    /\ \A c \in Client :
          /\ Msg("add", c) \in Message /\ Msg("remove", c) \in Message
          /\ Msg("register", c) \in Message /\ Msg("clear", c) \in Message
BY DEF Msg, Message

(* A record put together by At, and one whose answer has come, are values *)
(* of loop.                                                                *)
LEMMA LoopType ==
    /\ Idle \in LoopState
    /\ \A k \in {"unsub", "unlay", "leave"}, c \in Client : At(k, c, NoRegion) \in LoopState
    /\ \A k \in {"add", "subscribe", "register"}, c \in Client, r \in Region :
          At(k, c, r) \in LoopState
    /\ \A r \in Region, rest \in SUBSET Region :
          Asking(r, rest) \in LoopState
    /\ \A l \in LoopState :
          /\ [l EXCEPT !.replied = TRUE] \in LoopState
          /\ l.kind = "ask" => [l EXCEPT !.kind = "asked"] \in LoopState
          /\ l.kind \notin {"idle", "ask", "asked"} => l.client \in Client
          /\ l.kind \in {"idle", "ask", "asked"} => l.client = NoClient
          /\ l.kind \in {"add", "subscribe", "register", "ask", "asked"} => l.region \in Region
          /\ l.rest \subseteq Region
<1>1. /\ Idle \in LoopState
      /\ \A k \in {"unsub", "unlay", "leave"}, c \in Client : At(k, c, NoRegion) \in LoopState
      /\ \A k \in {"add", "subscribe", "register"}, c \in Client, r \in Region :
            At(k, c, r) \in LoopState
  BY DEF At, Idle, LoopState
<1>2. ASSUME NEW r \in Region, NEW rest \in SUBSET Region
      PROVE  Asking(r, rest) \in LoopState
  BY DEF Asking, LoopState
<1>3. ASSUME NEW l \in LoopState
      PROVE  /\ [l EXCEPT !.replied = TRUE] \in LoopState
             /\ l.kind = "ask" => [l EXCEPT !.kind = "asked"] \in LoopState
  BY DEF LoopState
<1>4. ASSUME NEW l \in LoopState
      PROVE  /\ l.kind \notin {"idle", "ask", "asked"} => l.client \in Client
             /\ l.kind \in {"idle", "ask", "asked"} => l.client = NoClient
             /\ l.kind \in {"add", "subscribe", "register", "ask", "asked"} => l.region \in Region
             /\ l.rest \subseteq Region
  BY DEF LoopState
<1> QED BY <1>1, <1>2, <1>3, <1>4

(* Every step keeps every variable in its type. *)
LEMMA TypeStep ==
    ASSUME TypeOK, [Next]_vars
    PROVE  TypeOK'
<1> USE DEF loopVars, actorVars, regionVars
<1>0. /\ loop.kind \notin {"idle", "ask", "asked"} => loop.client \in Client
      /\ loop.kind \in {"add", "subscribe", "register", "ask", "asked"} => loop.region \in Region
  BY LoopType DEF TypeOK
<1>1. ASSUME NEW c \in Client, Connect(c) PROVE TypeOK'
  BY <1>1 DEF TypeOK, Connect
<1>2. ASSUME NEW c \in Client, Disconnect(c) PROVE TypeOK'
  BY <1>2 DEF TypeOK, Disconnect
<1>3. ASSUME NEW c \in Client, RemoveClient(c) PROVE TypeOK'
  BY <1>3, LoopType DEF TypeOK, RemoveClient
<1>4. ASSUME NEW c \in Client, Unsubscribe(c) PROVE TypeOK'
  BY <1>4, SendIfFoundType, MsgType DEF TypeOK, Unsubscribe
<1>5. ASSUME NEW c \in Client, NEW r \in Region, Subscribe(c, r) PROVE TypeOK'
  BY <1>5, SendIfFoundType, MsgType, LoopType DEF TypeOK, Subscribe
<1>6. ASSUME NEW c \in Client, NEW r \in Region, RegisterOverlay(c, r) PROVE TypeOK'
  BY <1>6, SendType, MsgType, LoopType DEF TypeOK, RegisterOverlay
<1>7. ASSUME NEW c \in Client, NEW r \in Region, ClearOverlay(c, r) PROVE TypeOK'
  BY <1>7, SendIfFoundType, MsgType DEF TypeOK, ClearOverlay
<1>8. ASSUME NEW r \in Region, NEW d \in Client \union {NoClient}, Spawn(r, d) PROVE TypeOK'
  BY <1>8 DEF TypeOK, Spawn
<1>9. ASSUME NEW r \in Region, HandleSpawn(r) PROVE TypeOK'
  <2>1. loop' \in LoopState
    <3>1. {} \in SUBSET Region
      OBVIOUS
    <3> QED BY <1>9, <3>1, LoopType DEF HandleSpawn
  <2> QED BY <1>9, <2>1 DEF TypeOK, HandleSpawn
<1>10. ASSUME NEW r \in Region, Output(r) PROVE TypeOK'
  BY <1>10, SendType, MsgType DEF TypeOK, Output
<1>11. ASSUME NEW r \in Region, ChildExit(r) \/ ReportKill(r) PROVE TypeOK'
  BY <1>11, SendType, MsgType DEF TypeOK, ChildExit, ReportKill
<1>12. ASSUME NEW r \in Region, HandleDestroy(r) PROVE TypeOK'
  BY <1>12 DEF TypeOK, HandleDestroy
<1>13. ASSUME NEW r \in Region, ActorData(r) PROVE TypeOK'
  BY <1>13, TakeType DEF TypeOK, ActorData
<1>14. ASSUME NEW r \in Region, ActorAdd(r) PROVE TypeOK'
  <2>1. Sender(r) \in Client /\ mailbox' \in [Region -> Seq(Message)]
        /\ \A q \in Region : Len(mailbox'[q]) <= MailCap
    BY <1>14, TakeType DEF ActorAdd
  <2>2. loop' \in LoopState
    BY <1>14, LoopType DEF TypeOK, ActorAdd
  <2> QED BY <1>14, <2>1, <2>2 DEF TypeOK, ActorAdd
<1>15. ASSUME NEW r \in Region, ActorRemove(r) PROVE TypeOK'
  BY <1>15, TakeType DEF TypeOK, ActorRemove
<1>16. ASSUME NEW r \in Region, ActorRegister(r) PROVE TypeOK'
  <2>1. Sender(r) \in Client /\ mailbox' \in [Region -> Seq(Message)]
        /\ \A q \in Region : Len(mailbox'[q]) <= MailCap
    BY <1>16, TakeType DEF ActorRegister
  <2>2. loop' \in LoopState
    BY <1>16, LoopType DEF TypeOK, ActorRegister
  <2> QED BY <1>16, <2>1, <2>2 DEF TypeOK, ActorRegister
<1>17. ASSUME NEW r \in Region, ActorClear(r) PROVE TypeOK'
  BY <1>17, TakeType DEF TypeOK, ActorClear
<1>18. ASSUME NEW r \in Region, ActorExit(r) PROVE TypeOK'
  BY <1>18, ServerCoreAssumption DEF TypeOK, ActorExit
<1>19. ASSUME RemoveSubscription PROVE TypeOK'
  BY <1>0, <1>19, SendIfFoundType, MsgType, LoopType DEF TypeOK, RemoveSubscription
<1>20. ASSUME RemoveOverlay PROVE TypeOK'
  BY <1>0, <1>20, SendIfFoundType, MsgType, LoopType DEF TypeOK, RemoveOverlay
<1>21. ASSUME NEW r \in Region, DriverDisconnected(r) PROVE TypeOK'
  BY <1>21, SendType, MsgType DEF TypeOK, DriverDisconnected
<1>22. ASSUME FinishRemove PROVE TypeOK'
  BY <1>22, LoopType DEF TypeOK, FinishRemove
<1>23. ASSUME AddSubscriber PROVE TypeOK'
  BY <1>0, <1>23, SendType, MsgType, LoopType DEF TypeOK, AddSubscriber
<1>24. ASSUME FinishSubscribe PROVE TypeOK'
  BY <1>0, <1>24, LoopType DEF TypeOK, FinishSubscribe
<1>25. ASSUME FinishRegister PROVE TypeOK'
  BY <1>0, <1>25, LoopType DEF TypeOK, FinishRegister
<1>26. ASSUME FailRegister PROVE TypeOK'
  BY <1>26, LoopType DEF TypeOK, FailRegister
<1>27. ASSUME NEW r \in Region, KillNative(r) PROVE TypeOK'
  BY <1>27 DEF TypeOK, KillNative
<1>28. ASSUME UNCHANGED vars PROVE TypeOK'
  BY <1>28 DEF TypeOK, vars
<1>29. ASSUME NEW r \in Region, SetRegionGeometry(r) PROVE TypeOK'
  <2>1. loop' \in LoopState
    <3>1. {} \in SUBSET Region
      OBVIOUS
    <3> QED BY <1>29, <3>1, LoopType DEF SetRegionGeometry
  <2> QED BY <1>29, <2>1 DEF TypeOK, SetRegionGeometry
<1>30. ASSUME NEW r \in Region, NEW rest \in SUBSET Region, GetRegionInfos(r, rest)
       PROVE  TypeOK'
  <2>1. loop' \in LoopState
    BY <1>30, LoopType DEF GetRegionInfos
  <2> QED BY <1>30, <2>1 DEF TypeOK, GetRegionInfos
<1>31. ASSUME ScrollbackLen PROVE TypeOK'
  <2>1. loop' \in LoopState /\ loop.region \in Region
    BY <1>0, <1>31, LoopType DEF TypeOK, ScrollbackLen
  <2> QED BY <1>31, <2>1, SendType, MsgType DEF TypeOK, ScrollbackLen
<1>32. ASSUME FinishLength PROVE TypeOK'
  <2>1. loop.region \in Region /\ loop.rest \subseteq Region
    BY <1>0, <1>32, LoopType DEF TypeOK, FinishLength
  <2>2. loop' \in LoopState
    <3>1. CASE loop' = Idle
      BY <3>1, LoopType
    <3>2. CASE loop' # Idle
      <4>1. PICK r \in loop.rest :
               loop' = Asking(r, loop.rest \ {r})
        BY <1>32, <3>2 DEF FinishLength
      <4>2. r \in Region /\ loop.rest \ {r} \in SUBSET Region
        BY <2>1
      <4> QED BY <4>1, <4>2, LoopType
    <3> QED BY <3>1, <3>2
  <2> QED BY <1>32, <2>1, <2>2 DEF TypeOK, FinishLength
<1>33. ASSUME NEW r \in Region, ActorLength(r) PROVE TypeOK'
  <2>1. loop' \in LoopState
    BY <1>33, LoopType DEF TypeOK, ActorLength
  <2> QED BY <1>33, <2>1, TakeType DEF TypeOK, ActorLength
<1> QED
  BY <1>1, <1>2, <1>3, <1>4, <1>5, <1>6, <1>7, <1>8, <1>9, <1>10, <1>11, <1>12, <1>13, <1>14,
     <1>15, <1>16, <1>17, <1>18, <1>19, <1>20, <1>21, <1>22, <1>23, <1>24, <1>25, <1>26, <1>27,
     <1>28, <1>29, <1>30, <1>31, <1>32, <1>33 DEF Next, LoopSteps, Actor

-----------------------------------------------------------------------------
(* What one step does to the state an actor will reach. *)

(* Where the actor is heading depends on its own mailbox and state only.   *)
LEMMA KeepWill ==
    ASSUME NEW q \in Region, NEW c \in Client, mailbox'[q] = mailbox[q],
           subscribers'[q] = subscribers[q], overlay'[q] = overlay[q]
    PROVE  (WillSubscribe(q, c)' <=> WillSubscribe(q, c)) /\ (WillOverlay(q, c)' <=> WillOverlay(q, c))
BY DEF WillSubscribe, WillOverlay

(* A message at the end of the mailbox has the last word on where a region *)
(* actor is heading.                                                       *)
LEMMA AppendWill ==
    ASSUME TypeOK, NEW q \in Region, NEW c \in Client, NEW m \in Message,
           mailbox'[q] = Append(mailbox[q], m),
           subscribers'[q] = subscribers[q], overlay'[q] = overlay[q]
    PROVE  /\ WillSubscribe(q, c)' <=>
                 m = Msg("add", c) \/ (m # Msg("remove", c) /\ WillSubscribe(q, c))
           /\ WillOverlay(q, c)' <=>
                 m = Msg("register", c) \/ (m \notin EndsOverlay(c) /\ WillOverlay(q, c))
<1>1. mailbox[q] \in Seq(Message)
  BY DEF TypeOK
<1>2. WillSubscribe(q, c)' <=>
         m \in {Msg("add", c)} \/ (m \notin {Msg("remove", c)} /\ WillSubscribe(q, c))
  <2>1. WillSubscribe(q, c)' <=>
          After(Append(mailbox[q], m), {Msg("add", c)}, {Msg("remove", c)}, c \in subscribers[q])
    BY DEF WillSubscribe
  <2> QED BY <1>1, <2>1, AfterAppend DEF WillSubscribe
<1>3. WillOverlay(q, c)' <=>
         m \in {Msg("register", c)} \/ (m \notin EndsOverlay(c) /\ WillOverlay(q, c))
  <2>1. WillOverlay(q, c)' <=>
          After(Append(mailbox[q], m), {Msg("register", c)}, EndsOverlay(c), overlay[q] = c)
    BY DEF WillOverlay
  <2> QED BY <1>1, <2>1, AfterAppend DEF WillOverlay
<1> QED BY <1>2, <1>3

(* Sends: the last message decides. *)
LEMMA SendWill ==
    ASSUME TypeOK, NEW r, NEW m \in Message,
           (r \in Region /\ Send(r, m)) \/ SendIfFound(r, m),
           UNCHANGED <<subscribers, overlay>>,
           NEW q \in Region, NEW c \in Client, actor[q] = "running"
    PROVE  /\ q # r => (WillSubscribe(q, c)' <=> WillSubscribe(q, c))
                       /\ (WillOverlay(q, c)' <=> WillOverlay(q, c))
           /\ q = r /\ (q \in regions \/ Send(r, m)) =>
                 /\ WillSubscribe(q, c)' <=>
                       m = Msg("add", c) \/ (m # Msg("remove", c) /\ WillSubscribe(q, c))
                 /\ WillOverlay(q, c)' <=>
                       m = Msg("register", c) \/ (m \notin EndsOverlay(c) /\ WillOverlay(q, c))
<1>1. q # r => mailbox'[q] = mailbox[q]
  BY SendType, SendIfFoundType
<1>2. q = r /\ (q \in regions \/ Send(r, m)) => mailbox'[q] = Append(mailbox[q], m)
  BY SendType, SendIfFoundType
<1> QED BY <1>1, <1>2, KeepWill, AppendWill

(* Messages are told apart by their type and their client. *)
LEMMA MsgInjective ==
    \A t, u, c, d : Msg(t, c) = Msg(u, d) <=> t = u /\ c = d
BY DEF Msg

(* Taking a message changes nothing about where the actor is heading. *)
LEMMA TakeWill ==
    ASSUME TypeOK, NEW r \in Region,
           ActorData(r) \/ ActorLength(r) \/ ActorAdd(r) \/ ActorRemove(r) \/ ActorRegister(r) \/ ActorClear(r),
           NEW q \in Region, NEW c \in Client
    PROVE  (WillSubscribe(q, c)' <=> WillSubscribe(q, c)) /\ (WillOverlay(q, c)' <=> WillOverlay(q, c))
<1> USE DEF actorVars
<1>1. CASE q # r
  <2>1. mailbox'[q] = mailbox[q] /\ subscribers'[q] = subscribers[q] /\ overlay'[q] = overlay[q]
    BY <1>1 DEF TypeOK, ActorData, ActorLength, ActorAdd, ActorRemove, ActorRegister, ActorClear, Take
  <2> QED BY <2>1, KeepWill
<1>2. CASE q = r
  <2> DEFINE h == Head(mailbox[r])
             s == Sender(r)
  <2>1. PICK t \in {"data", "length", "add", "remove", "register", "clear"} :
          /\ Take(r, t)
          /\ subscribers'[r] = (IF t = "add" THEN subscribers[r] \union {s}
                                ELSE IF t = "remove" THEN subscribers[r] \ {s} ELSE subscribers[r])
          /\ overlay'[r] = (IF t = "register" THEN s
                            ELSE IF t \in {"remove", "clear"} /\ overlay[r] = s THEN NoClient
                            ELSE overlay[r])
    BY DEF TypeOK, ActorData, ActorLength, ActorAdd, ActorRemove, ActorRegister, ActorClear
  <2>2. /\ mailbox[r] \in Seq(Message) /\ mailbox[r] # <<>> /\ mailbox'[r] = Tail(mailbox[r])
        /\ h = Msg(t, s) /\ (t \notin {"data", "length"} => s \in Client)
    BY <2>1, TakeType DEF Take, TypeOK
  <2>3. c # NoClient
    BY ServerCoreAssumption
  <2>4. c \in subscribers'[r] <=>
          h \in {Msg("add", c)} \/ (h \notin {Msg("remove", c)} /\ c \in subscribers[r])
    BY <2>1, <2>2, MsgInjective
  <2>5. (overlay'[r] = c) <=>
          h \in {Msg("register", c)} \/ (h \notin EndsOverlay(c) /\ overlay[r] = c)
    BY <2>1, <2>2, <2>3, MsgInjective DEF EndsOverlay
  <2>6. WillSubscribe(r, c)' <=> WillSubscribe(r, c)
    <3>1. WillSubscribe(r, c)' <=>
            After(Tail(mailbox[r]), {Msg("add", c)}, {Msg("remove", c)}, c \in subscribers'[r])
      BY <2>2 DEF WillSubscribe
    <3> DEFINE before == c \in subscribers[r]
               after  == c \in subscribers'[r]
    <3>2. after <=> h \in {Msg("add", c)} \/ (h \notin {Msg("remove", c)} /\ before)
      BY <2>4
    <3> HIDE DEF before, after
    <3>3. After(Tail(mailbox[r]), {Msg("add", c)}, {Msg("remove", c)}, after) <=>
          After(mailbox[r], {Msg("add", c)}, {Msg("remove", c)}, before)
      BY <2>2, <3>2, AfterTail
    <3> QED BY <3>1, <3>3 DEF WillSubscribe, before, after
  <2>7. WillOverlay(r, c)' <=> WillOverlay(r, c)
    <3>1. WillOverlay(r, c)' <=>
            After(Tail(mailbox[r]), {Msg("register", c)}, EndsOverlay(c), overlay'[r] = c)
      BY <2>2 DEF WillOverlay
    <3> QED BY <2>2, <2>5, <3>1, AfterTail DEF WillOverlay
  <2> QED BY <1>2, <2>6, <2>7
<1> QED BY <1>1, <1>2

-----------------------------------------------------------------------------
(* What a handler under way may count on, whatever happens meanwhile: its  *)
(* client cannot be removed nor its region destroyed before it returns.    *)
LEMMA LoopStep ==
    ASSUME IndInv, [Next]_vars
    PROVE  LoopOK'
<1> USE DEF loopVars, actorVars, regionVars, Idle, At, Asking, InTree
<1>0. TypeOK /\ LoopOK /\ RegionOK
  BY DEF IndInv
<1>1. ASSUME NEW c \in Client, Connect(c) \/ Unsubscribe(c) PROVE LoopOK'
  BY <1>0, <1>1 DEF LoopOK, Connect, Unsubscribe
<1>2. ASSUME NEW c \in Client, Disconnect(c) PROVE LoopOK'
  <2>1. loop.kind \in {"unsub", "unlay"} => loop.client # c
    BY <1>0, <1>2 DEF LoopOK, Disconnect
  <2>2. \A k \in Client : clients'[k] = IF k = c THEN "closing" ELSE clients[k]
    BY <1>0, <1>2 DEF TypeOK, Disconnect
  <2>3. loop.kind \notin {"idle", "ask", "asked"} => loop.client \in Client
    BY <1>0, LoopType DEF TypeOK
  <2> QED BY <1>0, <1>2, <2>1, <2>2, <2>3 DEF LoopOK, Disconnect
<1>3. ASSUME NEW c \in Client, RemoveClient(c) PROVE LoopOK'
  BY <1>3 DEF LoopOK, RemoveClient
<1>4. ASSUME NEW c \in Client, NEW r \in Region,
             Subscribe(c, r) \/ RegisterOverlay(c, r) \/ ClearOverlay(c, r)
      PROVE  LoopOK'
  BY <1>4 DEF LoopOK, Subscribe, RegisterOverlay, ClearOverlay
<1>5. ASSUME NEW r \in Region, NEW d, Spawn(r, d) PROVE LoopOK'
  <2>1. \A q \in Region : actor[q] # "none" => actor'[q] # "none"
    BY <1>0, <1>5 DEF TypeOK, Spawn
  <2>2. loop.kind \in {"ask", "asked"} => loop.region \in Region
    BY <1>0, LoopType DEF TypeOK
  <2> QED BY <1>0, <1>5, <2>1, <2>2 DEF LoopOK, Spawn
<1>6. ASSUME NEW r \in Region,
             HandleSpawn(r) \/ SetRegionGeometry(r) \/ (\E rest \in SUBSET Region : GetRegionInfos(r, rest))
      PROVE  LoopOK'
  <2>1. r \in starting \/ r \in regions
    BY <1>6 DEF HandleSpawn, SetRegionGeometry, GetRegionInfos
  <2>2. actor[r] # "none"
    BY <1>0, <2>1 DEF RegionOK
  <2>3. loop'.kind = "ask" /\ loop'.region = r /\ loop'.rest \subseteq regions
        /\ UNCHANGED <<actor, regions>>
    BY <1>6 DEF HandleSpawn, SetRegionGeometry, GetRegionInfos
  <2> QED BY <2>2, <2>3 DEF LoopOK
<1>7. ASSUME NEW r \in Region, Output(r) \/ ChildExit(r) \/ DriverDisconnected(r) \/ ReportKill(r)
      PROVE  LoopOK'
  BY <1>0, <1>7 DEF LoopOK, Output, ChildExit, DriverDisconnected, ReportKill
<1>8. ASSUME NEW r \in Region, Actor(r) PROVE LoopOK'
  <2>1. /\ loop'.kind = loop.kind /\ loop'.client = loop.client /\ loop'.region = loop.region
        /\ loop'.rest = loop.rest /\ UNCHANGED loopVars
    BY <1>0, <1>8 DEF TypeOK, LoopState, Actor, ActorData, ActorLength, ActorAdd, ActorRemove,
                     ActorRegister, ActorClear, ActorExit
  <2>2. \A q \in Region : actor[q] # "none" => actor'[q] # "none"
    BY <1>0, <1>8 DEF TypeOK, Actor, ActorData, ActorLength, ActorAdd, ActorRemove,
                     ActorRegister, ActorClear, ActorExit
  <2>3. loop.kind \in {"ask", "asked"} => loop.region \in Region
    BY <1>0, LoopType DEF TypeOK
  <2> QED BY <1>0, <2>1, <2>2, <2>3 DEF LoopOK
<1>13. ASSUME NEW r \in Region, HandleDestroy(r) PROVE LoopOK'
  BY <1>13 DEF LoopOK, HandleDestroy
<1>14. ASSUME ScrollbackLen PROVE LoopOK'
  <2>1. loop'.kind = "asked" /\ loop'.region = loop.region /\ loop'.rest = loop.rest
    BY <1>0, <1>14 DEF TypeOK, LoopState, ScrollbackLen
  <2> QED BY <1>0, <1>14, <2>1 DEF LoopOK, ScrollbackLen
<1>15. ASSUME FinishLength PROVE LoopOK'
  <2>1. CASE loop' = Idle
    BY <2>1 DEF LoopOK
  <2>2. CASE loop' # Idle
    <3>1. PICK r \in loop.rest :
             loop' = Asking(r, loop.rest \ {r})
      BY <1>15, <2>2 DEF FinishLength
    <3>2. loop'.kind = "ask" /\ loop'.region = r /\ loop'.rest = loop.rest \ {r}
      BY <3>1
    <3>3. loop.rest \subseteq regions /\ regions \subseteq Region
      BY <1>0, <1>15 DEF TypeOK, LoopOK, FinishLength
    <3>4. actor[r] # "none" /\ UNCHANGED actor /\ regions \subseteq regions'
      BY <1>0, <1>15, <3>3 DEF RegionOK, FinishLength
    <3> QED BY <3>2, <3>3, <3>4 DEF LoopOK
  <2> QED BY <2>1, <2>2
<1>9. ASSUME RemoveSubscription PROVE LoopOK'
  <2>1. loop.client \in Client
    BY <1>0, <1>9, LoopType DEF TypeOK, RemoveSubscription
  <2> QED BY <1>0, <1>9, <2>1 DEF TypeOK, LoopOK, RemoveSubscription
<1>10. ASSUME RemoveOverlay \/ FinishRemove \/ FinishSubscribe \/ FinishRegister \/ FailRegister
       PROVE  LoopOK'
  BY <1>10 DEF LoopOK, RemoveOverlay, FinishRemove, FinishSubscribe, FinishRegister, FailRegister
<1>11. ASSUME AddSubscriber PROVE LoopOK'
  BY <1>0, <1>11 DEF LoopOK, AddSubscriber
<1>12. ASSUME (\E r \in Region : KillNative(r)) \/ UNCHANGED vars PROVE LoopOK'
  BY <1>0, <1>12 DEF LoopOK, vars, KillNative
<1> QED
  BY <1>1, <1>2, <1>3, <1>4, <1>5, <1>6, <1>7, <1>8, <1>9, <1>10, <1>11, <1>12, <1>13, <1>14,
     <1>15 DEF Next, LoopSteps

(* A region's life: nothing refers to it before it is spawned, and a       *)
(* destroyRegionReq is only ever under way for an actor that has stopped.  *)
LEMMA RegionStep ==
    ASSUME IndInv, [Next]_vars
    PROVE  RegionOK'
<1> USE DEF loopVars, actorVars, regionVars
<1>0. TypeOK /\ RegionOK /\ LoopOK
  BY DEF IndInv
<1>1. /\ loop.kind \notin {"idle", "ask", "asked"} => loop.client \in Client
      /\ loop.kind \in {"add", "subscribe", "register", "ask", "asked"} => loop.region \in Region
  BY <1>0, LoopType DEF TypeOK
<1>2. ASSUME NEW c \in Client, Connect(c) \/ Disconnect(c) \/ RemoveClient(c) PROVE RegionOK'
  BY <1>0, <1>2 DEF RegionOK, Connect, Disconnect, RemoveClient
<1>3. ASSUME NEW q, NEW m \in Message, (q \in Region /\ Send(q, m)) \/ SendIfFound(q, m),
             UNCHANGED <<actor, subscribers, overlay, regions, starting, destroying>>
      PROVE  RegionOK'
  <2>1. \A r \in Region : actor[r] = "none" => mailbox'[r] = mailbox[r]
    BY <1>0, <1>3, SendType, SendIfFoundType
  <2> QED BY <1>0, <1>3, <2>1 DEF RegionOK
<1>4. ASSUME NEW c \in Client, Unsubscribe(c) PROVE RegionOK'
  BY <1>3, <1>4, MsgType DEF Unsubscribe
<1>5. ASSUME NEW c \in Client, NEW r \in Region,
             Subscribe(c, r) \/ RegisterOverlay(c, r) \/ ClearOverlay(c, r)
      PROVE  RegionOK'
  <2>1. CASE UNCHANGED mailbox
    BY <1>0, <1>5, <2>1 DEF RegionOK, Subscribe, RegisterOverlay, ClearOverlay
  <2>2. CASE ~ UNCHANGED mailbox
    BY <1>3, <1>5, <2>2, MsgType DEF Subscribe, RegisterOverlay, ClearOverlay
  <2> QED BY <2>1, <2>2
<1>6. ASSUME NEW r \in Region, NEW d, Spawn(r, d) PROVE RegionOK'
  BY <1>0, <1>6 DEF TypeOK, RegionOK, Spawn
<1>7. ASSUME NEW r \in Region, HandleSpawn(r) \/ HandleDestroy(r) PROVE RegionOK'
  BY <1>0, <1>7 DEF RegionOK, HandleSpawn, HandleDestroy
<1>15. ASSUME NEW r \in Region,
              SetRegionGeometry(r) \/ (\E rest \in SUBSET Region : GetRegionInfos(r, rest))
       PROVE  RegionOK'
  BY <1>0, <1>15 DEF RegionOK, SetRegionGeometry, GetRegionInfos
<1>16. ASSUME ScrollbackLen PROVE RegionOK'
  BY <1>1, <1>3, <1>16, MsgType DEF ScrollbackLen
<1>17. ASSUME FinishLength PROVE RegionOK'
  <2>1. actor[loop.region] # "none"
    BY <1>0, <1>17 DEF LoopOK, FinishLength
  <2> QED BY <1>0, <1>17, <2>1 DEF RegionOK, FinishLength
<1>8. ASSUME NEW r \in Region, Output(r) \/ ChildExit(r) \/ DriverDisconnected(r) \/ ReportKill(r)
      PROVE  RegionOK'
  BY <1>3, <1>8, MsgType DEF Output, ChildExit, DriverDisconnected, ReportKill
<1>9. ASSUME NEW r \in Region, Actor(r) PROVE RegionOK'
  <2>1. /\ actor[r] = "running" /\ UNCHANGED <<regions, starting>>
        /\ \A q \in Region \ {r} : /\ mailbox'[q] = mailbox[q] /\ subscribers'[q] = subscribers[q]
                                    /\ overlay'[q] = overlay[q] /\ actor'[q] = actor[q]
                                    /\ (q \in destroying' <=> q \in destroying)
    BY <1>0, <1>9 DEF TypeOK, Actor, ActorData, ActorLength, ActorAdd, ActorRemove, ActorRegister,
                     ActorClear, ActorExit, Take, Receives
  <2>2. actor'[r] # "none" /\ (r \in destroying' => actor'[r] = "stopped")
    BY <1>0, <1>9, <2>1 DEF TypeOK, RegionOK, Actor, ActorData, ActorLength, ActorAdd, ActorRemove,
                           ActorRegister, ActorClear, ActorExit
  <2> QED BY <1>0, <2>1, <2>2 DEF RegionOK
<1>10. ASSUME RemoveSubscription PROVE RegionOK'
  BY <1>1, <1>3, <1>10, MsgType DEF RemoveSubscription
<1>11. ASSUME RemoveOverlay PROVE RegionOK'
  BY <1>1, <1>3, <1>11, MsgType DEF RemoveOverlay
<1>12. ASSUME AddSubscriber PROVE RegionOK'
  BY <1>1, <1>3, <1>12, MsgType DEF AddSubscriber
<1>13. ASSUME FinishRemove \/ FinishSubscribe \/ FinishRegister \/ FailRegister PROVE RegionOK'
  BY <1>0, <1>13 DEF RegionOK, FinishRemove, FinishSubscribe, FinishRegister, FailRegister
<1>14. ASSUME (\E r \in Region : KillNative(r)) \/ UNCHANGED vars PROVE RegionOK'
  BY <1>0, <1>14 DEF RegionOK, vars, KillNative
<1> QED
  BY <1>2, <1>4, <1>5, <1>6, <1>7, <1>8, <1>9, <1>10, <1>11, <1>12, <1>13, <1>14, <1>15, <1>16,
     <1>17 DEF Next, LoopSteps

(* The subscription map stays clean: a client's entry is gone before the   *)
(* client is, and a region's entries go with the region.                   *)
LEMMA SubscriptionsStep ==
    ASSUME IndInv, [Next]_vars
    PROVE  SubscriptionsLive'
<1> USE DEF loopVars, actorVars, regionVars, InTree
<1>0. TypeOK /\ LoopOK /\ SubscriptionsLive
  BY DEF IndInv
<1>1. loop.kind \notin {"idle", "ask", "asked"} => loop.client \in Client
  BY <1>0, LoopType DEF TypeOK
<1>2. ASSUME NEW c \in Client, Connect(c) \/ Disconnect(c) PROVE SubscriptionsLive'
  BY <1>0, <1>2 DEF TypeOK, SubscriptionsLive, Connect, Disconnect
<1>3. ASSUME UNCHANGED loopVars PROVE SubscriptionsLive'
  BY <1>0, <1>3 DEF SubscriptionsLive
<1>4. ASSUME NEW c \in Client, RemoveClient(c) PROVE SubscriptionsLive'
  BY <1>3, <1>4 DEF RemoveClient
<1>5. ASSUME NEW c \in Client, Unsubscribe(c) PROVE SubscriptionsLive'
  BY <1>0, <1>5 DEF TypeOK, SubscriptionsLive, Unsubscribe
<1>6. ASSUME NEW c \in Client, NEW r \in Region,
             Subscribe(c, r) \/ RegisterOverlay(c, r) \/ ClearOverlay(c, r)
      PROVE  SubscriptionsLive'
  BY <1>0, <1>6 DEF SubscriptionsLive, Subscribe, RegisterOverlay, ClearOverlay
<1>7. ASSUME NEW r \in Region, NEW d, Spawn(r, d) PROVE SubscriptionsLive'
  BY <1>3, <1>7 DEF Spawn
<1>8. ASSUME NEW r \in Region, HandleSpawn(r) PROVE SubscriptionsLive'
  BY <1>3, <1>8 DEF HandleSpawn
<1>18. ASSUME NEW r \in Region,
              SetRegionGeometry(r) \/ (\E rest \in SUBSET Region : GetRegionInfos(r, rest))
       PROVE  SubscriptionsLive'
  BY <1>3, <1>18 DEF SetRegionGeometry, GetRegionInfos
<1>19. ASSUME ScrollbackLen PROVE SubscriptionsLive'
  BY <1>3, <1>19 DEF ScrollbackLen
<1>20. ASSUME FinishLength PROVE SubscriptionsLive'
  BY <1>0, <1>20 DEF SubscriptionsLive, FinishLength
<1>9. ASSUME NEW r \in Region, HandleDestroy(r) PROVE SubscriptionsLive'
  BY <1>0, <1>9 DEF TypeOK, SubscriptionsLive, HandleDestroy
<1>10. ASSUME NEW r \in Region, Output(r) \/ ChildExit(r) \/ DriverDisconnected(r) \/ ReportKill(r)
       PROVE  SubscriptionsLive'
  BY <1>3, <1>10 DEF Output, ChildExit, DriverDisconnected, ReportKill
<1>11. ASSUME NEW r \in Region, Actor(r) PROVE SubscriptionsLive'
  BY <1>3, <1>11 DEF Actor, ActorData, ActorLength, ActorAdd, ActorRemove, ActorRegister, ActorClear, ActorExit
<1>12. ASSUME RemoveSubscription PROVE SubscriptionsLive'
  BY <1>0, <1>1, <1>12 DEF TypeOK, SubscriptionsLive, RemoveSubscription
<1>13. ASSUME RemoveOverlay PROVE SubscriptionsLive'
  BY <1>0, <1>1, <1>13 DEF TypeOK, LoopOK, SubscriptionsLive, RemoveOverlay
<1>14. ASSUME FinishSubscribe PROVE SubscriptionsLive'
  BY <1>0, <1>1, <1>14 DEF TypeOK, LoopOK, SubscriptionsLive, FinishSubscribe
<1>15. ASSUME FinishRemove \/ AddSubscriber \/ FailRegister PROVE SubscriptionsLive'
  BY <1>3, <1>15 DEF FinishRemove, AddSubscriber, FailRegister
<1>16. ASSUME FinishRegister PROVE SubscriptionsLive'
  BY <1>0, <1>16 DEF SubscriptionsLive, FinishRegister
<1>17. ASSUME (\E r \in Region : KillNative(r)) \/ UNCHANGED vars PROVE SubscriptionsLive'
  BY <1>3, <1>17 DEF vars, KillNative
<1> QED
  BY <1>2, <1>4, <1>5, <1>6, <1>7, <1>8, <1>9, <1>10, <1>11, <1>12, <1>13, <1>14, <1>15, <1>16,
     <1>17, <1>18, <1>19, <1>20 DEF Next, LoopSteps

(* The two overlay maps keep confirming each other: a takeover, a clear, a *)
(* departure and a destruction each change both maps together.             *)
LEMMA OverlayIndexStep ==
    ASSUME IndInv, [Next]_vars
    PROVE  OverlayIndex'
<1> USE DEF loopVars, actorVars, regionVars, InTree
<1>0. TypeOK /\ LoopOK /\ OverlayIndex
  BY DEF IndInv
<1>1. /\ loop.kind \notin {"idle", "ask", "asked"} => loop.client \in Client
      /\ loop.kind \in {"add", "subscribe", "register", "ask", "asked"} => loop.region \in Region
      /\ NoClient \notin Client /\ NoRegion \notin Region
  BY <1>0, LoopType, ServerCoreAssumption DEF TypeOK
<1>2. ASSUME NEW c \in Client, Connect(c) \/ Disconnect(c) PROVE OverlayIndex'
  BY <1>0, <1>2, SMTT(30) DEF TypeOK, OverlayIndex, Connect, Disconnect
<1>3. ASSUME UNCHANGED <<clients, regions, clientOverlays, regionOverlays>> PROVE OverlayIndex'
  BY <1>0, <1>3 DEF OverlayIndex
<1>4. ASSUME NEW c \in Client, RemoveClient(c) \/ Unsubscribe(c) PROVE OverlayIndex'
  BY <1>3, <1>4 DEF RemoveClient, Unsubscribe
<1>5. ASSUME NEW c \in Client, NEW r \in Region, Subscribe(c, r) \/ RegisterOverlay(c, r)
      PROVE  OverlayIndex'
  BY <1>3, <1>5 DEF Subscribe, RegisterOverlay
<1>6. ASSUME NEW c \in Client, NEW r \in Region, ClearOverlay(c, r) PROVE OverlayIndex'
  BY <1>0, <1>1, <1>6 DEF TypeOK, OverlayIndex, ClearOverlay
<1>7. ASSUME NEW r \in Region, NEW d, Spawn(r, d) PROVE OverlayIndex'
  BY <1>3, <1>7 DEF Spawn
<1>8. ASSUME NEW r \in Region, HandleSpawn(r) PROVE OverlayIndex'
  BY <1>3, <1>8 DEF HandleSpawn
<1>16. ASSUME NEW r \in Region,
              SetRegionGeometry(r) \/ (\E rest \in SUBSET Region : GetRegionInfos(r, rest))
       PROVE  OverlayIndex'
  BY <1>3, <1>16 DEF SetRegionGeometry, GetRegionInfos
<1>17. ASSUME ScrollbackLen PROVE OverlayIndex'
  BY <1>3, <1>17 DEF ScrollbackLen
<1>18. ASSUME FinishLength PROVE OverlayIndex'
  BY <1>0, <1>18 DEF OverlayIndex, FinishLength
<1>9. ASSUME NEW r \in Region, HandleDestroy(r) PROVE OverlayIndex'
  <2>1. CASE r \notin regions
    BY <1>3, <1>9, <2>1 DEF HandleDestroy
  <2>2. CASE r \in regions
    <3>1. /\ UNCHANGED clients /\ regions' = regions \ {r}
          /\ \A c \in Client :
                clientOverlays'[c] = IF c = regionOverlays[r] THEN NoRegion ELSE clientOverlays[c]
          /\ \A q \in Region : regionOverlays'[q] = IF q = r THEN NoClient ELSE regionOverlays[q]
      BY <1>0, <1>9, <2>2 DEF TypeOK, HandleDestroy
    <3>2. clientOverlays \in [Client -> Region \union {NoRegion}]
      BY <1>0 DEF TypeOK
    <3> QED BY <1>0, <3>1, <3>2 DEF OverlayIndex
  <2> QED BY <2>1, <2>2
<1>10. ASSUME NEW r \in Region, Output(r) \/ ChildExit(r) \/ DriverDisconnected(r) \/ ReportKill(r)
       PROVE  OverlayIndex'
  BY <1>3, <1>10 DEF Output, ChildExit, DriverDisconnected, ReportKill
<1>11. ASSUME NEW r \in Region, Actor(r) PROVE OverlayIndex'
  BY <1>3, <1>11 DEF Actor, ActorData, ActorLength, ActorAdd, ActorRemove, ActorRegister, ActorClear, ActorExit
<1>12. ASSUME RemoveOverlay PROVE OverlayIndex'
  BY <1>0, <1>1, <1>12 DEF TypeOK, OverlayIndex, RemoveOverlay
<1>13. ASSUME FinishRegister PROVE OverlayIndex'
  BY <1>0, <1>1, <1>13 DEF TypeOK, LoopOK, OverlayIndex, FinishRegister
<1>14. ASSUME RemoveSubscription \/ FinishSubscribe \/ FinishRemove \/ AddSubscriber \/ FailRegister
       PROVE  OverlayIndex'
  BY <1>3, <1>14
     DEF RemoveSubscription, FinishSubscribe, FinishRemove, AddSubscriber, FailRegister
<1>15. ASSUME (\E r \in Region : KillNative(r)) \/ UNCHANGED vars PROVE OverlayIndex'
  BY <1>3, <1>15 DEF vars, KillNative
<1> QED
  BY <1>2, <1>4, <1>5, <1>6, <1>7, <1>8, <1>9, <1>10, <1>11, <1>12, <1>13, <1>14, <1>15, <1>16,
     <1>17, <1>18 DEF Next, LoopSteps

-----------------------------------------------------------------------------
(* An actor's message handler leaves the handler of the event loop where   *)
(* it is: it may only answer.                                              *)
LEMMA ActorKeepsLoop ==
    ASSUME TypeOK, NEW r \in Region, Actor(r)
    PROVE  /\ UNCHANGED loopVars
           /\ loop'.kind = loop.kind /\ loop'.client = loop.client /\ loop'.region = loop.region
BY DEF loopVars, TypeOK, LoopState, Actor, ActorData, ActorLength, ActorAdd, ActorRemove, ActorRegister,
       ActorClear, ActorExit

(* Actors and the event loop keep agreeing on who watches what.            *)
LEMMA SubscribersStep ==
    ASSUME IndInv, [Next]_vars
    PROVE  SubscribersAgree'
<1> USE DEF loopVars, actorVars, regionVars
<1>0. TypeOK /\ LoopOK /\ RegionOK /\ SubscriptionsLive /\ SubscribersAgree
  BY DEF IndInv
<1>1. /\ loop.kind \notin {"idle", "ask", "asked"} => loop.client \in Client
      /\ loop.kind \in {"add", "subscribe", "register", "ask", "asked"} => loop.region \in Region
      /\ NoClient \notin Client /\ NoRegion \notin Region
      /\ loop = Idle => loop.kind = "idle" /\ loop.client = NoClient
  BY <1>0, LoopType, ServerCoreAssumption DEF TypeOK, Idle, At
<1>2. ASSUME \A q \in Region : actor'[q] = "running" =>
                /\ actor[q] = "running"
                /\ \A c \in Client : /\ WillSubscribe(q, c)' <=> WillSubscribe(q, c)
                                     /\ Intended(c)' = q <=> Intended(c) = q
      PROVE  SubscribersAgree'
  BY <1>0, <1>2 DEF SubscribersAgree
<1>3. ASSUME UNCHANGED <<actor, mailbox, subscribers, overlay>>,
             \A c \in Client : Intended(c)' = Intended(c)
      PROVE  SubscribersAgree'
  <2>1. \A q \in Region, c \in Client : WillSubscribe(q, c)' <=> WillSubscribe(q, c)
    BY <1>3, KeepWill
  <2> QED BY <1>2, <1>3, <2>1
<1>4. ASSUME NEW r, NEW m \in Message, (r \in Region /\ Send(r, m)) \/ SendIfFound(r, m),
             UNCHANGED <<actor, subscribers, overlay>>,
             \A c \in Client : m # Msg("add", c) /\ m # Msg("remove", c),
             \A c \in Client : Intended(c)' = Intended(c)
      PROVE  SubscribersAgree'
  <2>1. ASSUME NEW q \in Region, NEW c \in Client, actor[q] = "running"
        PROVE  WillSubscribe(q, c)' <=> WillSubscribe(q, c)
    <3>1. CASE mailbox' = mailbox
      BY <1>4, <3>1, KeepWill
    <3>2. CASE mailbox' # mailbox
      <4>1. r \in Region /\ Send(r, m)
        BY <1>0, <1>4, <3>2 DEF SendIfFound, TypeOK
      <4> QED BY <1>0, <1>4, <2>1, <4>1, SendWill
    <3> QED BY <3>1, <3>2
  <2> QED BY <1>2, <1>4, <2>1
\* Clients.
<1>5. ASSUME NEW c \in Client, Connect(c) \/ Disconnect(c) PROVE SubscribersAgree'
  BY <1>3, <1>5 DEF Connect, Disconnect, Intended
<1>6. ASSUME NEW c \in Client, RemoveClient(c) PROVE SubscribersAgree'
  <2>1. \A k \in Client : Intended(k)' = Intended(k)
    BY <1>1, <1>6 DEF RemoveClient, Intended, At
  <2> QED BY <1>3, <1>6, <2>1 DEF RemoveClient
\* The removal of c from the region it watches.
<1>7. ASSUME NEW c \in Client, SendIfFound(subscriptions[c], Msg("remove", c)),
             UNCHANGED <<actor, subscribers, overlay>>,
             Intended(c) = subscriptions[c], Intended(c)' = NoRegion,
             \A k \in Client \ {c} : Intended(k)' = Intended(k)
      PROVE  SubscribersAgree'
  <2> DEFINE s == subscriptions[c]
  <2>1. ASSUME NEW q \in Region, NEW k \in Client, actor[q] = "running"
        PROVE  WillSubscribe(q, k)' <=> WillSubscribe(q, k) /\ ~(q = s /\ k = c)
    <3>1. s # NoRegion => s \in regions
      BY <1>0 DEF SubscriptionsLive
    <3>2. CASE q # s
      BY <1>0, <1>7, <2>1, <3>2, SendWill, MsgType
    <3>3. CASE q = s
      <4>1. WillSubscribe(q, k)' <=>
              Msg("remove", c) = Msg("add", k)
              \/ (Msg("remove", c) # Msg("remove", k) /\ WillSubscribe(q, k))
        BY <1>0, <1>1, <1>7, <2>1, <3>1, <3>3, SendWill, MsgType
      <4> QED BY <3>3, <4>1, MsgInjective
    <3> QED BY <3>2, <3>3
  <2>2. ASSUME NEW q \in Region, NEW k \in Client, actor[q] = "running"
        PROVE  WillSubscribe(q, k)' <=> Intended(k)' = q
    <3>1. WillSubscribe(q, k) <=> Intended(k) = q
      BY <1>0, <2>2 DEF SubscribersAgree
    <3>2. CASE k = c
      BY <1>1, <1>7, <2>1, <2>2, <3>1, <3>2
    <3>3. CASE k # c
      BY <1>7, <2>1, <2>2, <3>1, <3>3
    <3> QED BY <3>2, <3>3
  <2> QED BY <1>7, <2>2 DEF SubscribersAgree
<1>8. ASSUME NEW c \in Client, Unsubscribe(c) PROVE SubscribersAgree'
  <2>1. /\ Intended(c) = subscriptions[c] /\ Intended(c)' = NoRegion
        /\ \A k \in Client \ {c} : Intended(k)' = Intended(k)
    BY <1>0, <1>1, <1>8 DEF TypeOK, Unsubscribe, Intended
  <2> QED BY <1>7, <1>8, <2>1 DEF Unsubscribe
<1>9. ASSUME RemoveSubscription PROVE SubscribersAgree'
  <2>1. PICK c \in Client : c = loop.client
    BY <1>1, <1>9 DEF RemoveSubscription
  <2>2. /\ Intended(c) = subscriptions[c] /\ Intended(c)' = NoRegion
        /\ \A k \in Client \ {c} : Intended(k)' = Intended(k)
    BY <1>0, <1>9, <2>1 DEF TypeOK, RemoveSubscription, Intended, At
  <2> QED BY <1>7, <1>9, <2>1, <2>2 DEF RemoveSubscription
\* A move to region r: out of the old one, then into the new one.
<1>10. ASSUME NEW c \in Client, NEW r \in Region, Subscribe(c, r) PROVE SubscribersAgree'
  <2>1. \A k \in Client \ {c} : Intended(k)' = Intended(k)
    BY <1>1, <1>10 DEF Subscribe, Intended, At
  <2>2. CASE subscriptions[c] = r
    <3>1. \A k \in Client : Intended(k)' = Intended(k)
      BY <1>1, <1>10, <2>2 DEF Subscribe, Intended, At
    <3> QED BY <1>3, <1>10, <2>2, <3>1 DEF Subscribe
  <2>3. CASE subscriptions[c] # r
    <3>1. Intended(c) = subscriptions[c] /\ Intended(c)' = NoRegion
      BY <1>1, <1>10, <2>3 DEF Subscribe, Intended, At
    <3> QED BY <1>7, <1>10, <2>1, <2>3, <3>1 DEF Subscribe
  <2> QED BY <2>2, <2>3
<1>11. ASSUME AddSubscriber PROVE SubscribersAgree'
  <2>0. PICK c \in Client, r \in Region : c = loop.client /\ r = loop.region
    BY <1>1, <1>11 DEF AddSubscriber
  <2>1. /\ Intended(c)' = r /\ Intended(c) \in {NoRegion, r}
        /\ \A k \in Client \ {c} : Intended(k)' = Intended(k)
    BY <1>11, <2>0 DEF AddSubscriber, Intended, At
  <2>2. Send(r, Msg("add", c)) /\ UNCHANGED <<actor, subscribers, overlay>>
    BY <1>11, <2>0 DEF AddSubscriber
  <2>3. ASSUME NEW q \in Region, NEW k \in Client, actor[q] = "running"
        PROVE  WillSubscribe(q, k)' <=> Intended(k)' = q
    <3>1. WillSubscribe(q, k) <=> Intended(k) = q
      BY <1>0, <2>3 DEF SubscribersAgree
    <3>2. CASE q # r
      <4>1. WillSubscribe(q, k)' <=> WillSubscribe(q, k)
        BY <1>0, <2>1, <2>2, <2>3, <3>2, SendWill, MsgType
      <4> QED BY <1>1, <2>1, <3>1, <3>2, <4>1
    <3>3. CASE q = r
      <4>1. WillSubscribe(q, k)' <=>
              Msg("add", c) = Msg("add", k)
              \/ (Msg("add", c) # Msg("remove", k) /\ WillSubscribe(q, k))
        BY <1>0, <2>1, <2>2, <2>3, <3>3, SendWill, MsgType
      <4>2. WillSubscribe(q, k)' <=> k = c \/ WillSubscribe(q, k)
        BY <4>1, MsgInjective
      <4> QED BY <2>1, <3>1, <3>3, <4>2
    <3> QED BY <3>2, <3>3
  <2> QED BY <2>2, <2>3 DEF SubscribersAgree
<1>12. ASSUME FinishSubscribe PROVE SubscribersAgree'
  <2>1. \A k \in Client : Intended(k)' = Intended(k)
    BY <1>0, <1>1, <1>12, LoopType DEF TypeOK, FinishSubscribe, Intended, Idle, At
  <2> QED BY <1>3, <1>12, <2>1 DEF FinishSubscribe
\* Regions.
<1>13. ASSUME NEW r \in Region, NEW d, Spawn(r, d) PROVE SubscribersAgree'
  <2>1. /\ actor[r] = "none" /\ actor' = [actor EXCEPT ![r] = "running"]
        /\ UNCHANGED <<loopVars, loop, mailbox, subscribers, overlay>>
    BY <1>13 DEF Spawn
  <2>2. ASSUME NEW q \in Region, NEW k \in Client
        PROVE  (WillSubscribe(q, k)' <=> WillSubscribe(q, k)) /\ Intended(k)' = Intended(k)
    BY <2>1, KeepWill DEF Intended
  <2>3. ASSUME NEW k \in Client PROVE ~ WillSubscribe(r, k) /\ Intended(k) # r
    <3>1. mailbox[r] = <<>> /\ subscribers[r] = {} /\ r \notin regions
      BY <1>0, <2>1 DEF RegionOK
    <3>2. ~ WillSubscribe(r, k)
      BY <3>1 DEF WillSubscribe, After
    <3>3. Intended(k) # r
      BY <1>0, <1>1, <3>1 DEF LoopOK, SubscriptionsLive, Intended
    <3> QED BY <3>2, <3>3
  <2>4. ASSUME NEW q \in Region, actor'[q] = "running", q # r PROVE actor[q] = "running"
    BY <1>0, <2>1, <2>4 DEF TypeOK
  <2>5. ASSUME NEW q \in Region, actor'[q] = "running", NEW k \in Client
        PROVE  WillSubscribe(q, k)' <=> Intended(k)' = q
    <3>1. WillSubscribe(q, k) <=> Intended(k) = q
      BY <1>0, <2>3, <2>4, <2>5 DEF SubscribersAgree
    <3> QED BY <2>2, <3>1
  <2> QED BY <2>5 DEF SubscribersAgree
<1>14. ASSUME NEW r \in Region,
              HandleSpawn(r) \/ SetRegionGeometry(r) \/ (\E rest \in SUBSET Region : GetRegionInfos(r, rest))
       PROVE  SubscribersAgree'
  <2>1. \A k \in Client : Intended(k)' = Intended(k)
    BY <1>1, <1>14 DEF HandleSpawn, SetRegionGeometry, GetRegionInfos, Intended, Asking
  <2> QED BY <1>3, <1>14, <2>1 DEF HandleSpawn, SetRegionGeometry, GetRegionInfos
<1>24. ASSUME ScrollbackLen PROVE SubscribersAgree'
  <2>1. loop.client = NoClient /\ loop'.client = NoClient
    BY <1>0, <1>24, LoopType DEF TypeOK, LoopState, ScrollbackLen
  <2>2. \A k \in Client : Intended(k)' = Intended(k)
    BY <1>1, <1>24, <2>1 DEF ScrollbackLen, Intended
  <2> QED BY <1>1, <1>4, <1>24, <2>2, MsgType, MsgInjective DEF ScrollbackLen
<1>25. ASSUME FinishLength PROVE SubscribersAgree'
  <2>1. loop.client = NoClient /\ loop'.client = NoClient
    <3>1. loop.client = NoClient
      BY <1>0, <1>25, LoopType DEF TypeOK, FinishLength
    <3>2. CASE loop' = Idle
      BY <3>1, <3>2 DEF Idle, At
    <3>3. CASE loop' # Idle
      <4>1. PICK r \in loop.rest : loop' = Asking(r, loop.rest \ {r})
        BY <1>25, <3>3 DEF FinishLength
      <4>2. loop'.client = NoClient
        BY <4>1 DEF Asking
      <4> QED BY <3>1, <4>2
    <3> QED BY <3>2, <3>3
  <2>2. \A k \in Client : Intended(k)' = Intended(k)
    BY <1>1, <1>25, <2>1 DEF FinishLength, Intended
  <2> QED BY <1>3, <1>25, <2>2 DEF FinishLength
<1>15. ASSUME NEW r \in Region, HandleDestroy(r) PROVE SubscribersAgree'
  <2>1. actor[r] = "stopped" /\ UNCHANGED <<actor, mailbox, subscribers, overlay, loop>>
    BY <1>0, <1>15 DEF RegionOK, HandleDestroy
  <2>2. ASSUME NEW q \in Region, q # r, NEW c \in Client PROVE Intended(c)' = q <=> Intended(c) = q
    <3>1. Intended(c)' = subscriptions'[c] /\ Intended(c) = subscriptions[c]
      BY <1>1, <1>15, <2>1 DEF HandleDestroy, Intended
    <3> QED BY <1>0, <1>1, <1>15, <2>2, <3>1 DEF TypeOK, HandleDestroy
  <2>3. \A q \in Region, c \in Client : WillSubscribe(q, c)' <=> WillSubscribe(q, c)
    BY <2>1, KeepWill
  <2> QED BY <1>2, <2>1, <2>2, <2>3
<1>16. ASSUME NEW r \in Region, Output(r) PROVE SubscribersAgree'
  <2>1. \A k \in Client : Intended(k)' = Intended(k)
    BY <1>16 DEF Output, Intended
  <2> QED BY <1>4, <1>16, <2>1, MsgType, MsgInjective DEF Output
<1>17. ASSUME NEW r \in Region, ChildExit(r) \/ DriverDisconnected(r) \/ ReportKill(r)
       PROVE  SubscribersAgree'
  <2>1. \A k \in Client : Intended(k)' = Intended(k)
    BY <1>17 DEF ChildExit, DriverDisconnected, ReportKill, Intended
  <2> QED BY <1>4, <1>17, <2>1, MsgType, MsgInjective DEF ChildExit, DriverDisconnected, ReportKill
\* Overlays.
<1>18. ASSUME NEW c \in Client, NEW r \in Region, RegisterOverlay(c, r) PROVE SubscribersAgree'
  <2>1. \A k \in Client : Intended(k)' = Intended(k)
    BY <1>1, <1>18 DEF RegisterOverlay, Intended, At
  <2> QED BY <1>4, <1>18, <2>1, MsgType, MsgInjective DEF RegisterOverlay
<1>19. ASSUME NEW c \in Client, NEW r \in Region, ClearOverlay(c, r) PROVE SubscribersAgree'
  <2>1. \A k \in Client : Intended(k)' = Intended(k)
    BY <1>19 DEF ClearOverlay, Intended
  <2> QED BY <1>4, <1>19, <2>1, MsgType, MsgInjective DEF ClearOverlay
<1>20. ASSUME RemoveOverlay PROVE SubscribersAgree'
  <2>1. \A k \in Client : Intended(k)' = Intended(k)
    BY <1>20 DEF RemoveOverlay, Intended, At
  <2> QED BY <1>1, <1>4, <1>20, <2>1, MsgType, MsgInjective DEF RemoveOverlay
<1>21. ASSUME FinishRemove \/ FinishRegister \/ FailRegister PROVE SubscribersAgree'
  <2>1. \A k \in Client : Intended(k)' = Intended(k)
    BY <1>21 DEF FinishRemove, FinishRegister, FailRegister, Intended, Idle, At
  <2> QED BY <1>3, <1>21, <2>1 DEF FinishRemove, FinishRegister, FailRegister
\* Actors.
<1>22. ASSUME NEW r \in Region, Actor(r) PROVE SubscribersAgree'
  <2>1. \A k \in Client : Intended(k)' = Intended(k)
    BY <1>0, <1>22, ActorKeepsLoop DEF Intended
  <2>2. CASE ActorExit(r)
    <3>1. /\ actor'[r] = "stopped"
          /\ \A q \in Region \ {r} :
                /\ actor'[q] = actor[q] /\ mailbox'[q] = mailbox[q]
                /\ subscribers'[q] = subscribers[q] /\ overlay'[q] = overlay[q]
      BY <1>0, <2>2 DEF TypeOK, ActorExit
    <3> QED BY <1>2, <2>1, <3>1, KeepWill
  <2>3. CASE ~ ActorExit(r)
    <3>1. ActorData(r) \/ ActorLength(r) \/ ActorAdd(r) \/ ActorRemove(r) \/ ActorRegister(r) \/ ActorClear(r)
      BY <1>22, <2>3 DEF Actor
    <3>2. UNCHANGED actor
      BY <3>1 DEF ActorData, ActorLength, ActorAdd, ActorRemove, ActorRegister, ActorClear
    <3>3. \A q \in Region, c \in Client : WillSubscribe(q, c)' <=> WillSubscribe(q, c)
      BY <1>0, <3>1, TakeWill
    <3> QED BY <1>2, <2>1, <3>2, <3>3
  <2> QED BY <2>2, <2>3
<1>23. ASSUME (\E r \in Region : KillNative(r)) \/ UNCHANGED vars PROVE SubscribersAgree'
  BY <1>3, <1>23 DEF vars, Intended, KillNative
<1> QED
  BY <1>5, <1>6, <1>8, <1>9, <1>10, <1>11, <1>12, <1>13, <1>14, <1>15, <1>16, <1>17, <1>18, <1>19,
     <1>20, <1>21, <1>22, <1>23, <1>24, <1>25 DEF Next, LoopSteps

(* An overlay an actor shows, or will show, keeps belonging to the client  *)
(* its region's input goes to.                                             *)
LEMMA OverlayStep ==
    ASSUME IndInv, [Next]_vars
    PROVE  OverlayRouted'
<1> USE DEF loopVars, actorVars, regionVars
<1>0. TypeOK /\ RegionOK /\ OverlayIndex /\ OverlayRouted
  BY DEF IndInv
<1>1. /\ loop.kind \notin {"idle", "ask", "asked"} => loop.client \in Client
      /\ loop.kind \in {"add", "subscribe", "register", "ask", "asked"} => loop.region \in Region
      /\ NoClient \notin Client /\ NoRegion \notin Region
      /\ loop = Idle => loop.kind = "idle" /\ loop.client = NoClient
  BY <1>0, LoopType, ServerCoreAssumption DEF TypeOK, Idle, At
<1>2. ASSUME \A q \in Region : actor'[q] = "running" =>
                /\ actor[q] = "running" /\ Owner(q)' = Owner(q)
                /\ \A c \in Client : WillOverlay(q, c)' => WillOverlay(q, c)
      PROVE  OverlayRouted'
  BY <1>0, <1>2 DEF OverlayRouted
<1>3. ASSUME UNCHANGED <<actor, mailbox, subscribers, overlay>>,
             \A q \in Region : actor[q] = "running" => Owner(q)' = Owner(q)
      PROVE  OverlayRouted'
  <2>1. \A q \in Region, c \in Client : WillOverlay(q, c)' <=> WillOverlay(q, c)
    BY <1>3, KeepWill
  <2> QED BY <1>2, <1>3, <2>1
\* A message that registers nothing makes no overlay appear.
<1>4. ASSUME NEW r, NEW m \in Message, (r \in Region /\ Send(r, m)) \/ SendIfFound(r, m),
             UNCHANGED <<actor, subscribers, overlay>>,
             \A c \in Client : m # Msg("register", c),
             NEW q \in Region, NEW c \in Client, actor[q] = "running", WillOverlay(q, c)'
      PROVE  WillOverlay(q, c)
  <2>1. CASE mailbox' = mailbox
    BY <1>4, <2>1, KeepWill
  <2>2. CASE mailbox' # mailbox
    <3>1. r \in Region /\ Send(r, m)
      BY <1>0, <1>4, <2>2 DEF SendIfFound, TypeOK
    <3> QED BY <1>0, <1>4, <3>1, SendWill
  <2> QED BY <2>1, <2>2
\* A message that clears c's overlay on r leaves none of c there.
<1>5. ASSUME NEW c \in Client, NEW r \in regions, Send(r, Msg("clear", c)),
             UNCHANGED <<actor, subscribers, overlay>>, actor[r] = "running"
      PROVE  ~ WillOverlay(r, c)'
  <2>1. r \in Region /\ Msg("clear", c) \in EndsOverlay(c)
    BY <1>0 DEF TypeOK, EndsOverlay
  <2>2. Msg("clear", c) # Msg("register", c)
    BY MsgInjective
  <2> QED BY <1>0, <1>5, <2>1, <2>2, SendWill, MsgType
<1>6. ASSUME NEW c \in Client, Connect(c) \/ Disconnect(c) PROVE OverlayRouted'
  BY <1>3, <1>6 DEF Connect, Disconnect, Owner
<1>7. ASSUME NEW c \in Client, RemoveClient(c) PROVE OverlayRouted'
  <2>1. \A q \in Region : Owner(q)' = Owner(q)
    BY <1>1, <1>7 DEF RemoveClient, Owner, At
  <2> QED BY <1>3, <1>7, <2>1 DEF RemoveClient
<1>8. ASSUME NEW c \in Client, Unsubscribe(c) PROVE OverlayRouted'
  <2>1. \A q \in Region : Owner(q)' = Owner(q)
    BY <1>8 DEF Unsubscribe, Owner
  <2>2. ASSUME NEW q \in Region, NEW k \in Client, actor[q] = "running", WillOverlay(q, k)'
        PROVE  WillOverlay(q, k)
    BY <1>4, <1>8, <2>2, MsgType, MsgInjective DEF Unsubscribe
  <2> QED BY <1>2, <1>8, <2>1, <2>2 DEF Unsubscribe
<1>9. ASSUME RemoveSubscription PROVE OverlayRouted'
  <2>1. \A q \in Region : Owner(q)' = Owner(q)
    BY <1>9 DEF RemoveSubscription, Owner, At
  <2>2. ASSUME NEW q \in Region, NEW k \in Client, actor[q] = "running", WillOverlay(q, k)'
        PROVE  WillOverlay(q, k)
    BY <1>1, <1>4, <1>9, <2>2, MsgType, MsgInjective DEF RemoveSubscription
  <2> QED BY <1>2, <1>9, <2>1, <2>2 DEF RemoveSubscription
<1>10. ASSUME NEW c \in Client, NEW r \in Region, Subscribe(c, r) PROVE OverlayRouted'
  <2>1. \A q \in Region : Owner(q)' = Owner(q)
    BY <1>1, <1>10 DEF Subscribe, Owner, At
  <2>2. CASE UNCHANGED mailbox
    BY <1>3, <1>10, <2>1, <2>2 DEF Subscribe
  <2>3. CASE ~ UNCHANGED mailbox
    <3>1. SendIfFound(subscriptions[c], Msg("remove", c))
      BY <1>10, <2>3 DEF Subscribe
    <3>2. ASSUME NEW q \in Region, NEW k \in Client, actor[q] = "running", WillOverlay(q, k)'
          PROVE  WillOverlay(q, k)
      BY <1>4, <1>10, <3>1, <3>2, MsgType, MsgInjective DEF Subscribe
    <3> QED BY <1>2, <1>10, <2>1, <3>2 DEF Subscribe
  <2> QED BY <2>2, <2>3
<1>11. ASSUME AddSubscriber PROVE OverlayRouted'
  <2>1. \A q \in Region : Owner(q)' = Owner(q)
    BY <1>11 DEF AddSubscriber, Owner, At
  <2>2. ASSUME NEW q \in Region, NEW k \in Client, actor[q] = "running", WillOverlay(q, k)'
        PROVE  WillOverlay(q, k)
    BY <1>1, <1>4, <1>11, <2>2, MsgType, MsgInjective DEF AddSubscriber
  <2> QED BY <1>2, <1>11, <2>1, <2>2 DEF AddSubscriber
<1>12. ASSUME FinishSubscribe \/ FinishRemove PROVE OverlayRouted'
  <2>1. \A q \in Region : Owner(q)' = Owner(q)
    BY <1>12 DEF FinishSubscribe, FinishRemove, Owner, Idle, At
  <2> QED BY <1>3, <1>12, <2>1 DEF FinishSubscribe, FinishRemove
\* Registration: the newcomer is the only one left, and the owner to be.
<1>13. ASSUME NEW c \in Client, NEW r \in Region, RegisterOverlay(c, r) PROVE OverlayRouted'
  <2>1. Owner(r)' = c /\ \A q \in Region \ {r} : Owner(q)' = Owner(q)
    BY <1>1, <1>13 DEF RegisterOverlay, Owner, At
  <2>2. Send(r, Msg("register", c)) /\ UNCHANGED <<actor, subscribers, overlay>>
    BY <1>13 DEF RegisterOverlay
  <2>3. ASSUME NEW q \in Region, NEW k \in Client, actor[q] = "running", WillOverlay(q, k)'
        PROVE  Owner(q)' = k
    <3>1. CASE q # r
      <4>1. WillOverlay(q, k)
        BY <1>0, <2>2, <2>3, <3>1, SendWill, MsgType
      <4> QED BY <1>0, <2>1, <2>3, <3>1, <4>1 DEF OverlayRouted
    <3>2. CASE q = r
      <4>1. Msg("register", c) \in EndsOverlay(k)
        BY DEF EndsOverlay
      <4>2. Msg("register", c) = Msg("register", k)
        BY <1>0, <2>2, <2>3, <3>2, <4>1, SendWill, MsgType
      <4> QED BY <2>1, <3>2, <4>2, MsgInjective
    <3> QED BY <3>1, <3>2
  <2> QED BY <2>2, <2>3 DEF OverlayRouted
<1>14. ASSUME FinishRegister PROVE OverlayRouted'
  <2>1. \A q \in Region : Owner(q)' = Owner(q)
    BY <1>0, <1>1, <1>14 DEF TypeOK, FinishRegister, Owner, Idle, At
  <2> QED BY <1>3, <1>14, <2>1 DEF FinishRegister
<1>15. ASSUME FailRegister PROVE OverlayRouted'
  <2>1. \A q \in Region : actor[q] = "running" => Owner(q)' = Owner(q)
    BY <1>15 DEF FailRegister, Owner, Idle, At
  <2> QED BY <1>3, <1>15, <2>1 DEF FailRegister
\* Clears: both maps and the actor's overlay go together.
<1>16. ASSUME NEW c \in Client, NEW r \in Region, ClearOverlay(c, r) PROVE OverlayRouted'
  <2>1. /\ r \in regions /\ regionOverlays[r] = c /\ Send(r, Msg("clear", c))
        /\ UNCHANGED <<actor, subscribers, overlay>>
    BY <1>0, <1>1, <1>16 DEF OverlayIndex, ClearOverlay, SendIfFound
  <2>2. Owner(r) = c /\ \A q \in Region \ {r} : Owner(q)' = Owner(q)
    BY <1>0, <1>1, <1>16, <2>1 DEF TypeOK, ClearOverlay, Owner
  <2>3. ASSUME NEW q \in Region, NEW k \in Client, actor[q] = "running", WillOverlay(q, k)'
        PROVE  Owner(q)' = k
    <3>1. WillOverlay(q, k)
      BY <1>4, <2>1, <2>3, MsgType, MsgInjective
    <3>2. Owner(q) = k
      BY <1>0, <2>3, <3>1 DEF OverlayRouted
    <3>3. q # r
      BY <1>5, <2>1, <2>2, <2>3, <3>2
    <3> QED BY <2>2, <3>2, <3>3
  <2> QED BY <2>1, <2>3 DEF OverlayRouted
<1>17. ASSUME RemoveOverlay PROVE OverlayRouted'
  <2>1. PICK c \in Client : c = loop.client
    BY <1>1, <1>17 DEF RemoveOverlay
  <2>2. /\ SendIfFound(clientOverlays[c], Msg("clear", c))
        /\ UNCHANGED <<actor, subscribers, overlay>>
    BY <1>17, <2>1 DEF RemoveOverlay
  <2>3. \A q \in Region : q # clientOverlays[c] => Owner(q)' = Owner(q)
    BY <1>17, <2>1 DEF RemoveOverlay, Owner, At
  <2>4. ASSUME NEW q \in Region, NEW k \in Client, actor[q] = "running", WillOverlay(q, k)'
        PROVE  Owner(q)' = k
    <3>1. WillOverlay(q, k)
      BY <1>4, <2>2, <2>4, MsgType, MsgInjective
    <3>2. Owner(q) = k
      BY <1>0, <2>4, <3>1 DEF OverlayRouted
    <3>3. q # clientOverlays[c]
      <4>1. SUFFICES ASSUME q = clientOverlays[c] PROVE FALSE
        OBVIOUS
      <4>2. q \in regions /\ regionOverlays[q] = c
        BY <1>0, <1>1, <4>1 DEF OverlayIndex
      <4>3. k = c
        BY <1>17, <3>2, <4>2 DEF RemoveOverlay, Owner
      <4>4. Send(q, Msg("clear", c))
        BY <2>2, <4>1, <4>2 DEF SendIfFound
      <4> QED BY <1>5, <2>2, <2>4, <4>2, <4>3, <4>4
    <3> QED BY <2>3, <3>2, <3>3
  <2> QED BY <2>2, <2>4 DEF OverlayRouted
\* Regions.
<1>18. ASSUME NEW r \in Region, NEW d, Spawn(r, d) PROVE OverlayRouted'
  <2>1. /\ actor[r] = "none" /\ actor' = [actor EXCEPT ![r] = "running"]
        /\ UNCHANGED <<loopVars, loop, mailbox, subscribers, overlay>>
    BY <1>18 DEF Spawn
  <2>2. ASSUME NEW q \in Region, NEW k \in Client
        PROVE  (WillOverlay(q, k)' <=> WillOverlay(q, k)) /\ Owner(q)' = Owner(q)
    BY <2>1, KeepWill DEF Owner
  <2>3. ASSUME NEW k \in Client PROVE ~ WillOverlay(r, k)
    BY <1>0, <1>1, <2>1 DEF RegionOK, WillOverlay, After
  <2>4. ASSUME NEW q \in Region, NEW k \in Client, actor'[q] = "running", WillOverlay(q, k)'
        PROVE  Owner(q)' = k
    <3>1. WillOverlay(q, k) /\ q # r
      BY <2>2, <2>3, <2>4
    <3>2. actor[q] = "running"
      BY <1>0, <2>1, <2>4, <3>1 DEF TypeOK
    <3> QED BY <1>0, <2>2, <3>1, <3>2 DEF OverlayRouted
  <2> QED BY <2>4 DEF OverlayRouted
<1>19. ASSUME NEW r \in Region,
              HandleSpawn(r) \/ SetRegionGeometry(r) \/ (\E rest \in SUBSET Region : GetRegionInfos(r, rest))
       PROVE  OverlayRouted'
  <2>1. \A q \in Region : Owner(q)' = Owner(q)
    BY <1>1, <1>19 DEF HandleSpawn, SetRegionGeometry, GetRegionInfos, Owner, Asking
  <2> QED BY <1>3, <1>19, <2>1 DEF HandleSpawn, SetRegionGeometry, GetRegionInfos
<1>24. ASSUME ScrollbackLen PROVE OverlayRouted'
  <2>1. loop.kind = "ask" /\ loop'.kind = "asked" /\ UNCHANGED regionOverlays
    BY <1>0, <1>24 DEF TypeOK, LoopState, ScrollbackLen
  <2>2. \A q \in Region : Owner(q)' = Owner(q)
    BY <2>1 DEF Owner
  <2>3. Send(loop.region, Msg("length", NoClient)) /\ UNCHANGED <<actor, subscribers, overlay>>
    BY <1>24 DEF ScrollbackLen
  <2>4. loop.region \in Region
    BY <1>1, <2>1
  <2>5. ASSUME NEW q \in Region, NEW k \in Client, actor[q] = "running", WillOverlay(q, k)'
        PROVE  WillOverlay(q, k)
    BY <1>4, <2>3, <2>4, <2>5, MsgType, MsgInjective
  <2> QED BY <1>2, <2>2, <2>3, <2>5
<1>25. ASSUME FinishLength PROVE OverlayRouted'
  <2>1. loop.kind = "asked" /\ loop'.kind \in {"idle", "ask"} /\ UNCHANGED regionOverlays
    <3>1. loop.kind = "asked" /\ UNCHANGED regionOverlays
      BY <1>25 DEF FinishLength
    <3>2. CASE loop' = Idle
      BY <3>1, <3>2 DEF Idle, At
    <3>3. CASE loop' # Idle
      <4>1. PICK r \in loop.rest :
               loop' = Asking(r, loop.rest \ {r})
        BY <1>25, <3>3 DEF FinishLength
      <4>2. loop'.kind = "ask"
        BY <4>1 DEF Asking
      <4> QED BY <3>1, <4>2
    <3> QED BY <3>2, <3>3
  <2>2. \A q \in Region : Owner(q)' = Owner(q)
    BY <2>1 DEF Owner
  <2> QED BY <1>3, <1>25, <2>2 DEF FinishLength
<1>20. ASSUME NEW r \in Region, HandleDestroy(r) PROVE OverlayRouted'
  <2>1. actor[r] = "stopped"
    BY <1>0, <1>20 DEF RegionOK, HandleDestroy
  <2>2. \A q \in Region \ {r} : Owner(q)' = Owner(q)
    BY <1>0, <1>20 DEF TypeOK, HandleDestroy, Owner
  <2> QED BY <1>3, <1>20, <2>1, <2>2 DEF HandleDestroy
<1>21. ASSUME NEW r \in Region, Output(r) \/ ChildExit(r) \/ DriverDisconnected(r) \/ ReportKill(r)
       PROVE  OverlayRouted'
  <2>1. \A q \in Region : Owner(q)' = Owner(q)
    BY <1>21 DEF Output, ChildExit, DriverDisconnected, ReportKill, Owner
  <2>2. ASSUME NEW q \in Region, NEW k \in Client, actor[q] = "running", WillOverlay(q, k)'
        PROVE  WillOverlay(q, k)
    <3>1. CASE Send(r, Msg("data", NoClient))
      BY <1>4, <1>21, <2>2, <3>1, MsgType, MsgInjective
         DEF Output, ChildExit, DriverDisconnected, ReportKill
    <3>2. CASE Send(r, Msg("exit", NoClient))
      BY <1>4, <1>21, <2>2, <3>2, MsgType, MsgInjective
         DEF Output, ChildExit, DriverDisconnected, ReportKill
    <3> QED BY <1>21, <3>1, <3>2 DEF Output, ChildExit, DriverDisconnected, ReportKill
  <2> QED BY <1>2, <1>21, <2>1, <2>2 DEF Output, ChildExit, DriverDisconnected, ReportKill
\* Actors.
<1>22. ASSUME NEW r \in Region, Actor(r) PROVE OverlayRouted'
  <2>1. \A q \in Region : Owner(q)' = Owner(q)
    BY <1>0, <1>22, ActorKeepsLoop DEF Owner
  <2>2. CASE ActorExit(r)
    <3>1. /\ actor'[r] = "stopped"
          /\ \A q \in Region \ {r} :
                /\ actor'[q] = actor[q] /\ mailbox'[q] = mailbox[q]
                /\ subscribers'[q] = subscribers[q] /\ overlay'[q] = overlay[q]
      BY <1>0, <2>2 DEF TypeOK, ActorExit
    <3> QED BY <1>2, <2>1, <3>1, KeepWill
  <2>3. CASE ~ ActorExit(r)
    <3>1. ActorData(r) \/ ActorLength(r) \/ ActorAdd(r) \/ ActorRemove(r) \/ ActorRegister(r) \/ ActorClear(r)
      BY <1>22, <2>3 DEF Actor
    <3>2. UNCHANGED actor
      BY <3>1 DEF ActorData, ActorLength, ActorAdd, ActorRemove, ActorRegister, ActorClear
    <3>3. \A q \in Region, c \in Client : WillOverlay(q, c)' <=> WillOverlay(q, c)
      BY <1>0, <3>1, TakeWill
    <3> QED BY <1>2, <2>1, <3>2, <3>3
  <2> QED BY <2>2, <2>3
<1>23. ASSUME (\E r \in Region : KillNative(r)) \/ UNCHANGED vars PROVE OverlayRouted'
  BY <1>3, <1>23 DEF vars, Owner, KillNative
<1> QED
  BY <1>6, <1>7, <1>8, <1>9, <1>10, <1>11, <1>12, <1>13, <1>14, <1>15, <1>16, <1>17, <1>18, <1>19,
     <1>20, <1>21, <1>22, <1>23, <1>24, <1>25 DEF Next, LoopSteps

-----------------------------------------------------------------------------
(* The server starts in the invariant: nothing is there yet.               *)
LEMMA InitInv == Init => IndInv
<1> SUFFICES ASSUME Init PROVE IndInv
  OBVIOUS
<1>1. TypeOK
  BY LoopType, ServerCoreAssumption DEF Init, TypeOK
<1>2. LoopOK /\ RegionOK /\ SubscriptionsLive /\ OverlayIndex
  BY DEF Init, LoopOK, RegionOK, SubscriptionsLive, OverlayIndex, Idle, At
<1>3. SubscribersAgree /\ OverlayRouted
  <2>1. \A r \in Region : actor[r] # "running"
    BY DEF Init
  <2> QED BY <2>1 DEF SubscribersAgree, OverlayRouted
<1> QED BY <1>1, <1>2, <1>3 DEF IndInv

(* Every step of the event loop, of an actor or of a client's goroutine    *)
(* keeps it.                                                               *)
LEMMA NextInv == IndInv /\ [Next]_vars => IndInv'
<1> SUFFICES ASSUME IndInv, [Next]_vars PROVE IndInv'
  OBVIOUS
<1>1. TypeOK'
  BY TypeStep DEF IndInv
<1> QED BY <1>1, LoopStep, RegionStep, SubscriptionsStep, SubscribersStep, OverlayIndexStep,
           OverlayStep DEF IndInv

(* The invariant holds in every reachable state of the server. *)
THEOREM Invariance == Spec => []IndInv
BY InitInv, NextInv, PTL DEF Spec

(* Every variable of the event loop and of the actors keeps its type, and  *)
(* no mailbox holds more than actorChanSize messages.                      *)
THEOREM TypeCorrect == Spec => []TypeOK
<1>1. IndInv => TypeOK
  BY DEF IndInv
<1> QED BY <1>1, Invariance, PTL

(* subscribeReq, unsubscribeReq, removeClientReq and destroyRegionReq keep *)
(* the subscription map free of departed clients and destroyed regions.    *)
THEOREM SubscriptionsAreLive == Spec => []SubscriptionsLive
<1>1. IndInv => SubscriptionsLive
  BY DEF IndInv
<1> QED BY <1>1, Invariance, PTL

(* Whatever moves, departures and exits interleave, a running actor that   *)
(* has emptied its mailbox serves exactly the clients the event loop has   *)
(* subscribed to its region.                                               *)
THEOREM SubscribersAlwaysAgree == Spec => []SubscribersAgree
<1>1. IndInv => SubscribersAgree
  BY DEF IndInv
<1> QED BY <1>1, Invariance, PTL

(* overlayRegisterReq, overlayClearReq, removeClientReq and                *)
(* destroyRegionReq keep clientOverlays and regionOverlays consistent, and *)
(* an overlay that an actor shows belongs to the client that gets the      *)
(* region's input.                                                         *)
THEOREM OverlaysAlwaysAgree == Spec => []OverlaysAgree
<1>1. IndInv => OverlaysAgree
  BY DEF IndInv, OverlaysAgree
<1> QED BY <1>1, Invariance, PTL
=============================================================================
