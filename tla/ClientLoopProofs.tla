-------------------------- MODULE ClientLoopProofs --------------------------
(***************************************************************************)
(* Proofs about the terminal client (ClientLoop), for any number of        *)
(* regions, any budgets of the environment and any capacity of Server.ch:  *)
(* a session is created once, what the client shows is what was chosen,    *)
(* and the server sends it the output of the region it shows, at the size  *)
(* of its window.                                                          *)
(*                                                                         *)
(* Server.Send drops what finds Server.ch full, and a lost subscribe is    *)
(* not repeated: the last of the three is about behaviours in which the    *)
(* queue never fills (NeverFull).                                          *)
(***************************************************************************)
EXTENDS ClientLoop, SequenceTheorems, FiniteSetTheorems, TLAPS

\* A step of the fold that Keeping is.
KeepStep(S, kept, x) == IF x \in S THEN Append(kept, x) ELSE kept
KeepLaws == INSTANCE FoldLaws WITH Op <- KeepStep

NeverFull == Len(net.out) < OutCap

-----------------------------------------------------------------------------
(* Types *)
Requests == [type : {"connect", "subscribe", "unsubscribe", "resize", "kill", "spawn",
                     "check", "upgrade", "download"},
             region : Regions \union {NoRegion}, size : Nat, id : Nat]

Phases == {"", "signalled", "starting", "failed", "shutting down"}
Messages == [type : {"tree", "reply", "spawned", "connected"}, regions : Seq(Regions),
             value : Phases \union {"ok", "error"} \union Regions \union {NoRegion}, req : Nat]

Job == [at : {"idle", "spawn", "create", "spawned", "connected"}, size : Nat,
        region : Regions \union {NoRegion}]

SrvType == [regions : Seq(Regions), sub : Regions \union {NoRegion}, sizes : [Regions -> Nat],
            dying : SUBSET Regions, defaults : SUBSET Regions, fresh : 1 .. MaxRegions + 1,
            phase : Phases, me : Job, other : Job]

NetType == [link : {"up", "broken", "down", "none"}, out : Seq(Requests), up : Seq(Requests),
            life : Seq({"disconnected", "reconnected"}), inbound : Seq(Messages)]

SessionType == [name : {"", "main"}, tabs : Seq(Regions), active : Nat \ {0},
                pending : Regions \union {NoRegion}, size : Nat]

UiType == [size : Nat, tree : [valid : BOOLEAN, regions : Seq(Regions)],
           chosen : Regions \union {NoRegion}, dials : Int, sessions : Seq(SessionType)]

-----------------------------------------------------------------------------
Alive == ToSet(srv.regions)
Old == 1 .. srv.fresh - 1           \* the regions there have been
Active == IF HasSession THEN activeRegionID(Session) ELSE NoRegion

Reqs == net.up \o net.out           \* on their way to the server, in order
IsTree(m) == m.type = "tree"
Shown(m) == ToSet(m.regions)        \* the regions of a tree message

TypesOK == srv \in SrvType /\ net \in NetType /\ ui \in UiType

CallGood(m) ==
    /\ m.call \in {"send", "push", "pop", "waitFor", "subscribe", "unsubscribe", "done"}
    /\ m.call = "send" => m.arg \in {"check", "upgrade", "download"}

(* The runner's messages ask for nothing but what a task may ask for. *)
Fields == {"tasks", "posted", "commands", "layers", "pending", "nextReq", "orphans"}
PostedOK ==
    /\ DOMAIN tk = Fields
    /\ tk.nextReq \in Nat
    /\ tk.posted # <<>> => CallGood(tk.posted[1])
    /\ \A m \in tk.commands : CallGood(m) /\ m.call \in {"send", "push", "pop"}

(* Only a region that was there can be subscribed, a default or in a tree. *)
ServerOK ==
    /\ Alive \subseteq Old /\ srv.defaults \subseteq Old
    /\ srv.sub \in Alive \union {NoRegion}
    /\ srv.me.at = "spawned" => srv.me.region \in Regions

(* One client at a time creates, and there are no default programs then.   *)
Creating(job) == job.at = "create"
CreatedOnce ==
    /\ ~(Creating(srv.me) /\ Creating(srv.other))
    /\ Creating(srv.me) \/ Creating(srv.other) => srv.defaults \intersect Alive = {}
    /\ \A r, s \in srv.defaults \intersect Alive : r = s

LinkOK == net.link \in {"broken", "down"} => net.up = <<>> /\ srv.sub = NoRegion

TabsGood(s) ==
    /\ IF s.tabs = <<>> THEN s.active = 1 ELSE s.active \in DOMAIN s.tabs
    /\ s.name = "" => s.tabs = <<>>

SessionOK ==
    /\ HasSession =>
          /\ Len(ui.sessions) = 1
          /\ TabsGood(Session)
          /\ Session.size = ui.size
          /\ ToSet(Session.tabs) \subseteq ToSet(ui.tree.regions)
    /\ loop = "setup" => HasSession /\ Session.tabs = <<>>

(* VisibleIsChosen, in every state. *)
ChosenOK == HasSession /\ Session.pending = NoRegion => Active = ui.chosen

InboundGood(inb, n) ==
    \A i \in DOMAIN inb :
        /\ IsTree(inb[i]) => Shown(inb[i]) \subseteq 1 .. n - 1
        /\ inb[i].type = "spawned" => inb[i].value \in Regions

InboundOK == InboundGood(net.inbound, srv.fresh)

(* What the client and its subscription have seen of the regions.          *)
Asked(q) == {x.region : x \in {y \in ToSet(q) : y.type = "subscribe"}}
Known == (ToSet(ui.tree.regions) \union Asked(Reqs) \union {srv.sub}) \ {NoRegion}

KnownOld == Known \subseteq Old

(* A region that was seen, and lives, is in every tree that is to come:    *)
(* U has been seen, L lives.                                               *)
Stays(U, L, inb) ==
    \A i \in DOMAIN inb : IsTree(inb[i]) =>
        /\ U \intersect L \subseteq Shown(inb[i])
        /\ \A j \in DOMAIN inb : j < i /\ IsTree(inb[j]) => Shown(inb[j]) \intersect L \subseteq Shown(inb[i])

KnownStay == Stays(Known, Alive, net.inbound)

(* The server will have done what was asked for: the last of the requests  *)
(* q that are in C is in D, or none is and it has been done.               *)
Will(done, q, C, D) ==
    \/ done /\ \A j \in DOMAIN q : q[j] \in C => q[j] \in D
    \/ \E i \in DOMAIN q :
          /\ q[i] \in C /\ q[i] \in D
          /\ \A j \in DOMAIN q : j > i /\ q[j] \in C => q[j] \in D

(* The last tree of those that come, or else the store's, is the server's. *)
Trees == {m \in Messages : IsTree(m)}
Showing(L) == {m \in Messages : Shown(m) = L}
Latest(T, L, inb) == Will(T = L, inb, Trees, Showing(L))
LastTree == net.link = "up" => Latest(ToSet(ui.tree.regions), Alive, net.inbound)

Leaving == {x \in Requests : x.type = "unsubscribe"}
Watching(S) == {x \in Requests : x.type = "subscribe" /\ x.region \in S}
Sizing(r) == {x \in Requests : x.type = "resize" /\ x.region = r}
Sized(v) == {x \in Requests : x.size = v}

(* The subscription is asked for, once the loop knows of the connection.   *)
InTouch == loop = "run" /\ net.link = "up" /\ net.life = <<>>

WillSee(r) == Will(srv.sub = r, Reqs, Leaving \union Watching(Alive), Watching({r}))
WillLeave == Will(srv.sub = NoRegion, Reqs, Leaving \union Watching(Alive), Leaving)
WillSize(r) == Will(srv.sizes[r] = ui.size, Reqs, Sizing(r), Sized(ui.size))

ServedOK ==
    /\ Active = NoRegion => WillLeave
    /\ InTouch /\ Active \in Alive => WillSee(Active) /\ WillSize(Active)

(* What holds whatever Server.ch drops, and what needs NeverFull. *)
Base == TypesOK /\ PostedOK /\ ServerOK /\ CreatedOnce /\ SessionOK /\ ChosenOK /\ InboundOK
Flow == LinkOK /\ KnownOld /\ KnownStay /\ LastTree /\ ServedOK

IInv == Base /\ Flow

-----------------------------------------------------------------------------
(* Sequences *)

LEMMA SetOfConcat ==
    ASSUME NEW E, NEW s \in Seq(E), NEW q \in Seq(E)
    PROVE  ToSet(s \o q) = ToSet(s) \union ToSet(q)
<1>1. Len(s) \in Nat /\ Len(q) \in Nat /\ Len(s \o q) = Len(s) + Len(q) /\ s \o q \in Seq(E)
      /\ DOMAIN s = 1 .. Len(s) /\ DOMAIN q = 1 .. Len(q) /\ DOMAIN (s \o q) = 1 .. Len(s \o q)
      /\ \A i \in 1 .. Len(s) + Len(q) : (s \o q)[i] = IF i <= Len(s) THEN s[i] ELSE q[i - Len(s)]
  BY ConcatProperties, LenProperties
<1>2. ASSUME NEW x \in ToSet(s \o q) PROVE x \in ToSet(s) \union ToSet(q)
  <2>1. PICK i \in 1 .. Len(s) + Len(q) : x = (s \o q)[i]
    BY <1>1, <1>2 DEF ToSet
  <2>2. CASE i <= Len(s)
    BY <1>1, <2>1, <2>2 DEF ToSet
  <2>3. CASE i > Len(s)
    <3>1. i - Len(s) \in DOMAIN q /\ x = q[i - Len(s)]
      BY <1>1, <2>1, <2>3
    <3> QED
      BY <3>1 DEF ToSet
  <2> QED
    BY <1>1, <2>1, <2>2, <2>3
<1>3. ASSUME NEW x \in ToSet(s) PROVE x \in ToSet(s \o q)
  <2>1. PICK i \in DOMAIN s : x = s[i]
    BY DEF ToSet
  <2>2. i \in DOMAIN (s \o q) /\ x = (s \o q)[i]
    BY <1>1, <2>1
  <2> QED
    BY <2>2 DEF ToSet
<1>4. ASSUME NEW x \in ToSet(q) PROVE x \in ToSet(s \o q)
  <2>1. PICK i \in DOMAIN q : x = q[i]
    BY DEF ToSet
  <2>2. i + Len(s) \in DOMAIN (s \o q) /\ x = (s \o q)[i + Len(s)]
    BY <1>1, <2>1
  <2> QED
    BY <2>2 DEF ToSet
<1> QED
  BY <1>2, <1>3, <1>4

LEMMA SetOfAppend ==
    ASSUME NEW E, NEW s \in Seq(E), NEW e \in E
    PROVE  ToSet(Append(s, e)) = ToSet(s) \union {e}
<1>1. Append(s, e) = s \o <<e>> /\ <<e>> \in Seq(E)
  BY AppendIsConcat
<1>2. ToSet(<<e>>) = {e}
  BY DEF ToSet
<1>3. ToSet(s \o <<e>>) = ToSet(s) \union ToSet(<<e>>)
  BY <1>1, SetOfConcat
<1> QED
  BY <1>1, <1>2, <1>3

(* A set of naturals without a smallest element is empty (WellFoundedInduction). *)
LEMMA NaturalInduction == KeepLaws!Induction
<1> DEFINE R == {z \in Nat \X Nat : z[1] < z[2]}
<1>1. IsWellFoundedOn(R, Nat)
  BY NatLessThanWellFounded DEF OpToRel
<1> SUFFICES ASSUME NEW S, 0 \in S, \A n \in Nat : n \in S => n + 1 \in S, NEW k \in Nat \ S PROVE FALSE
  BY DEF KeepLaws!Induction
<1> DEFINE U == Nat \ S
<1>2. U \subseteq Nat /\ U # {}
  OBVIOUS
<1>3. PICK x \in U : \A y \in U : ~(<<y, x>> \in R)
  <2> HIDE DEF U, R
  <2> QED
    BY <1>1, <1>2, WFMin
<1>4. x # 0 /\ x - 1 \in Nat
  OBVIOUS
<1>5. x - 1 \in U
  BY <1>4
<1>6. <<x - 1, x>> \in R
  BY <1>4
<1> QED
  BY <1>3, <1>5, <1>6

(* Keeping keeps what is in S, and nothing else. *)
LEMMA KeepingIs ==
    ASSUME NEW E, NEW S, NEW q \in Seq(E)
    PROVE  Keeping(S, q) \in Seq(E) /\ ToSet(Keeping(S, q)) = ToSet(q) \intersect S
<1>1. \A s : Keeping(S, s) = KeepLaws!Fold(S, <<>>, s)
  BY DEF Keeping, FoldLeft, MapThenFoldSet, Max, KeepLaws!Fold, KeepLaws!Greatest, KeepStep
<1> DEFINE Good(s) == Keeping(S, s) \in Seq(E) /\ ToSet(Keeping(S, s)) = ToSet(s) \intersect S
           N == {n \in Nat : \A s \in Seq(E) : Len(s) = n => Good(s)}
<1>2. 0 \in N
  <2> SUFFICES ASSUME NEW s \in Seq(E), Len(s) = 0 PROVE Good(s)
    OBVIOUS
  <2>1. s = <<>>
    BY EmptySeq
  <2>2. Keeping(S, s) = <<>>
    BY <1>1, <2>1, NaturalInduction, KeepLaws!FoldEmpty
  <2>3. ToSet(<<>>) = {} /\ <<>> \in Seq(E)
    BY DEF ToSet
  <2> QED
    BY <2>1, <2>2, <2>3
<1>3. ASSUME NEW n \in Nat, n \in N PROVE n + 1 \in N
  <2> SUFFICES ASSUME NEW s \in Seq(E), Len(s) = n + 1 PROVE Good(s)
    OBVIOUS
  <2>0. s # <<>>
    BY EmptySeq
  <2>1. PICK r \in Seq(E), e \in E : s = Append(r, e)
    BY <2>0, SequenceEmptyOrAppend
  <2>2. Len(r) = n
    BY <2>1, AppendProperties, LenProperties
  <2>3. Good(r)
    BY <1>3, <2>2
  <2>4. Keeping(S, s) = KeepStep(S, Keeping(S, r), e)
    BY <1>1, <2>1, NaturalInduction, KeepLaws!FoldAppend
  <2>5. ToSet(s) = ToSet(r) \union {e}
    BY <2>1, SetOfAppend
  <2>6. CASE e \in S
    <3>1. Keeping(S, s) = Append(Keeping(S, r), e)
      BY <2>4, <2>6 DEF KeepStep
    <3> QED
      BY <2>3, <2>5, <2>6, <3>1, SetOfAppend, AppendProperties
  <2>7. CASE e \notin S
    BY <2>3, <2>4, <2>5, <2>7 DEF KeepStep
  <2> QED
    BY <2>6, <2>7
<1>4. Nat \subseteq N
  BY <1>2, <1>3, NaturalInduction, KeepLaws!SetInduction
<1> QED
  BY <1>4, LenProperties

-----------------------------------------------------------------------------
(* What the server will have done (Will). *)

(* The first request is handled. *)
LEMMA WillTail ==
    ASSUME NEW E, NEW q \in Seq(E), q # <<>>, NEW C, NEW D, NEW done, NEW now,
           Will(done, q, C, D),
           Head(q) \in C /\ Head(q) \in D => now,
           Head(q) \notin C /\ done => now
    PROVE  Will(now, Tail(q), C, D)
<1>1. Len(q) \in Nat \ {0} /\ DOMAIN q = 1 .. Len(q) /\ Head(q) = q[1]
      /\ DOMAIN Tail(q) = 1 .. Len(q) - 1 /\ \A i \in 1 .. Len(q) - 1 : Tail(q)[i] = q[i + 1]
  BY EmptySeq, HeadTailProperties, LenProperties
<1>2. ASSUME NEW i \in DOMAIN q, q[i] \in C, q[i] \in D, \A j \in DOMAIN q : j > i /\ q[j] \in C => q[j] \in D
      PROVE  Will(now, Tail(q), C, D)
  <2>1. CASE i = 1
    <3>1. now
      BY <1>1, <1>2, <2>1
    <3>2. \A j \in DOMAIN Tail(q) : Tail(q)[j] \in C => Tail(q)[j] \in D
      BY <1>1, <1>2, <2>1
    <3> QED
      BY <3>1, <3>2 DEF Will
  <2>2. CASE i # 1
    <3>1. i - 1 \in DOMAIN Tail(q) /\ Tail(q)[i - 1] = q[i]
      BY <1>1, <2>2
    <3>2. \A j \in DOMAIN Tail(q) : j > i - 1 /\ Tail(q)[j] \in C => Tail(q)[j] \in D
      BY <1>1, <1>2
    <3> QED
      BY <1>2, <3>1, <3>2 DEF Will
  <2> QED
    BY <2>1, <2>2
<1>3. ASSUME done, \A j \in DOMAIN q : q[j] \in C => q[j] \in D PROVE Will(now, Tail(q), C, D)
  <2>1. now
    BY <1>1, <1>3
  <2>2. \A j \in DOMAIN Tail(q) : Tail(q)[j] \in C => Tail(q)[j] \in D
    BY <1>1, <1>3
  <2> QED
    BY <2>1, <2>2 DEF Will
<1> QED
  BY <1>2, <1>3 DEF Will

(* Requests that change nothing, or to the right value, are added. *)
LEMMA WillAppend ==
    ASSUME NEW E, NEW q \in Seq(E), NEW s \in Seq(E), NEW C, NEW D, NEW done,
           Will(done, q, C, D), \A x \in ToSet(s) : x \in C => x \in D
    PROVE  Will(done, q \o s, C, D)
<1>1. Len(q) \in Nat /\ Len(s) \in Nat /\ DOMAIN q = 1 .. Len(q) /\ DOMAIN s = 1 .. Len(s)
      /\ DOMAIN (q \o s) = 1 .. Len(q) + Len(s)
      /\ \A i \in 1 .. Len(q) + Len(s) : (q \o s)[i] = IF i <= Len(q) THEN q[i] ELSE s[i - Len(q)]
  BY ConcatProperties, LenProperties
<1>2. \A j \in DOMAIN (q \o s) : j > Len(q) /\ (q \o s)[j] \in C => (q \o s)[j] \in D
  <2> SUFFICES ASSUME NEW j \in DOMAIN (q \o s), j > Len(q) PROVE (q \o s)[j] \in C => (q \o s)[j] \in D
    OBVIOUS
  <2>1. j - Len(q) \in DOMAIN s /\ (q \o s)[j] = s[j - Len(q)]
    BY <1>1
  <2> QED
    BY <2>1 DEF ToSet
<1>3. ASSUME NEW i \in DOMAIN q, q[i] \in C, q[i] \in D, \A j \in DOMAIN q : j > i /\ q[j] \in C => q[j] \in D
      PROVE  Will(done, q \o s, C, D)
  <2>1. i \in DOMAIN (q \o s) /\ (q \o s)[i] = q[i]
    BY <1>1
  <2>2. \A j \in DOMAIN (q \o s) : j > i /\ (q \o s)[j] \in C => (q \o s)[j] \in D
    BY <1>1, <1>2, <1>3
  <2> QED
    BY <1>3, <2>1, <2>2 DEF Will
<1>4. ASSUME done, \A j \in DOMAIN q : q[j] \in C => q[j] \in D PROVE Will(done, q \o s, C, D)
  <2>1. \A j \in DOMAIN (q \o s) : (q \o s)[j] \in C => (q \o s)[j] \in D
    BY <1>1, <1>2, <1>4
  <2> QED
    BY <1>4, <2>1 DEF Will
<1> QED
  BY <1>3, <1>4 DEF Will

(* One of the requests that are added is to the right value, none to another. *)
LEMMA WillSet ==
    ASSUME NEW E, NEW q \in Seq(E), NEW s \in Seq(E), NEW C, NEW D, NEW done,
           \E x \in ToSet(s) : x \in C /\ x \in D, \A x \in ToSet(s) : x \in C => x \in D
    PROVE  Will(done, q \o s, C, D)
<1>1. Len(q) \in Nat /\ Len(s) \in Nat /\ DOMAIN q = 1 .. Len(q) /\ DOMAIN s = 1 .. Len(s)
      /\ DOMAIN (q \o s) = 1 .. Len(q) + Len(s)
      /\ \A i \in 1 .. Len(q) + Len(s) : (q \o s)[i] = IF i <= Len(q) THEN q[i] ELSE s[i - Len(q)]
  BY ConcatProperties, LenProperties
<1>2. PICK k \in DOMAIN s : s[k] \in C /\ s[k] \in D
  BY DEF ToSet
<1>3. Len(q) + k \in DOMAIN (q \o s) /\ (q \o s)[Len(q) + k] = s[k]
  BY <1>1
<1>4. ASSUME NEW j \in DOMAIN (q \o s), j > Len(q) + k, (q \o s)[j] \in C PROVE (q \o s)[j] \in D
  <2>1. j - Len(q) \in DOMAIN s /\ (q \o s)[j] = s[j - Len(q)]
    BY <1>1, <1>4
  <2> QED
    BY <1>4, <2>1 DEF ToSet
<1> QED
  BY <1>2, <1>3, <1>4 DEF Will

(* Nothing is asked for, or all of it is to the right value. *)
LEMMA WillAll ==
    ASSUME NEW q, NEW C, NEW D, NEW done, done, \A x \in ToSet(q) : x \in C => x \in D
    PROVE  Will(done, q, C, D)
  BY DEF Will, ToSet

(* The same requests, where what they do has changed. *)
LEMMA WillChange ==
    ASSUME NEW q, NEW C, NEW D, NEW done, NEW C2, NEW D2, NEW now,
           Will(done, q, C, D), done => now,
           \A x \in ToSet(q) :
               /\ x \in C2 => x \in C
               /\ x \in C /\ x \in D => x \in C2 /\ x \in D2
               /\ x \in C2 /\ x \in D => x \in D2
    PROVE  Will(now, q, C2, D2)
<1>1. \A j \in DOMAIN q : q[j] \in ToSet(q)
  BY DEF ToSet
<1> QED
  BY <1>1 DEF Will

LEMMA WillNow ==
    ASSUME NEW C, NEW D, NEW done, Will(done, <<>>, C, D) PROVE done
  BY DEF Will

(* The first requests are lost, and what they were to do is done. *)
LEMMA WillSuffix ==
    ASSUME NEW E, NEW p \in Seq(E), NEW q \in Seq(E), NEW C, NEW D, NEW done, NEW now,
           Will(done, p \o q, C, D), now
    PROVE  Will(now, q, C, D)
<1>1. Len(p) \in Nat /\ Len(q) \in Nat /\ DOMAIN q = 1 .. Len(q)
      /\ DOMAIN (p \o q) = 1 .. Len(p) + Len(q)
      /\ \A i \in 1 .. Len(p) + Len(q) : (p \o q)[i] = IF i <= Len(p) THEN p[i] ELSE q[i - Len(p)]
  BY ConcatProperties, LenProperties
<1>2. \A j \in 1 .. Len(q) : Len(p) + j \in DOMAIN (p \o q) /\ (p \o q)[Len(p) + j] = q[j]
  BY <1>1
<1>3. ASSUME NEW i \in DOMAIN (p \o q), (p \o q)[i] \in C, (p \o q)[i] \in D,
             \A j \in DOMAIN (p \o q) : j > i /\ (p \o q)[j] \in C => (p \o q)[j] \in D
      PROVE  Will(now, q, C, D)
  <2> DEFINE n == Len(p)
  <2>0. n \in Nat /\ i \in Nat
    BY <1>1
  <2> HIDE DEF n
  <2>1. CASE i <= n
    <3>1. ASSUME NEW j \in DOMAIN q, q[j] \in C PROVE q[j] \in D
      <4>1. j \in 1 .. Len(q) /\ n + j > i /\ n + j \in DOMAIN (p \o q) /\ (p \o q)[n + j] = q[j]
        BY <1>1, <1>2, <2>0, <2>1 DEF n
      <4> QED
        BY <1>3, <3>1, <4>1
    <3> QED
      BY <3>1 DEF Will
  <2>2. CASE i > n
    <3>1. i - n \in DOMAIN q /\ q[i - n] = (p \o q)[i]
      BY <1>1, <2>0, <2>2 DEF n
    <3>2. ASSUME NEW j \in DOMAIN q, j > i - n, q[j] \in C PROVE q[j] \in D
      <4>1. j \in 1 .. Len(q) /\ n + j > i /\ n + j \in DOMAIN (p \o q) /\ (p \o q)[n + j] = q[j]
        BY <1>1, <1>2, <2>0, <3>2 DEF n
      <4> QED
        BY <1>3, <3>2, <4>1
    <3> QED
      BY <1>3, <3>1, <3>2 DEF Will
  <2>3. i <= n \/ i > n
    BY <2>0
  <2> QED
    BY <2>1, <2>2, <2>3
<1>4. ASSUME \A j \in DOMAIN (p \o q) : (p \o q)[j] \in C => (p \o q)[j] \in D PROVE Will(now, q, C, D)
  <2>1. \A j \in DOMAIN q : q[j] \in C => q[j] \in D
    BY <1>1, <1>2, <1>4
  <2> QED
    BY <2>1 DEF Will
<1> QED
  BY <1>3, <1>4 DEF Will

-----------------------------------------------------------------------------
(* Messages on their way to the client. *)

LEMMA TailOf ==
    ASSUME NEW E, NEW s \in Seq(E), s # <<>>
    PROVE  /\ DOMAIN s = 1 .. Len(s) /\ Len(s) \in Nat \ {0} /\ Head(s) = s[1]
           /\ DOMAIN Tail(s) = 1 .. Len(s) - 1
           /\ \A i \in DOMAIN Tail(s) : i + 1 \in DOMAIN s /\ Tail(s)[i] = s[i + 1]
<1>1. Len(s) \in Nat \ {0} /\ DOMAIN s = 1 .. Len(s) /\ Head(s) = s[1]
      /\ DOMAIN Tail(s) = 1 .. Len(s) - 1 /\ \A i \in 1 .. Len(s) - 1 : Tail(s)[i] = s[i + 1]
  BY EmptySeq, HeadTailProperties, LenProperties
<1> QED
  BY <1>1

LEMMA ConcatOf ==
    ASSUME NEW E, NEW s \in Seq(E), NEW q \in Seq(E)
    PROVE  /\ Len(s) \in Nat /\ Len(q) \in Nat
           /\ DOMAIN s = 1 .. Len(s) /\ DOMAIN q = 1 .. Len(q) /\ DOMAIN (s \o q) = 1 .. Len(s) + Len(q)
           /\ \A i \in DOMAIN s : i \in DOMAIN (s \o q) /\ (s \o q)[i] = s[i]
           /\ \A i \in DOMAIN q : Len(s) + i \in DOMAIN (s \o q) /\ (s \o q)[Len(s) + i] = q[i]
           /\ \A j \in DOMAIN (s \o q) :
                  \/ j \in DOMAIN s
                  \/ j > Len(s) /\ \E i \in DOMAIN q : j = Len(s) + i
<1>1. Len(s) \in Nat /\ Len(q) \in Nat /\ DOMAIN s = 1 .. Len(s) /\ DOMAIN q = 1 .. Len(q)
      /\ DOMAIN (s \o q) = 1 .. Len(s) + Len(q)
      /\ \A i \in 1 .. Len(s) + Len(q) : (s \o q)[i] = IF i <= Len(s) THEN s[i] ELSE q[i - Len(s)]
  BY ConcatProperties, LenProperties
<1>2. ASSUME NEW j \in DOMAIN (s \o q), j \notin DOMAIN s
      PROVE  j > Len(s) /\ \E i \in DOMAIN q : j = Len(s) + i
  <2>1. j - Len(s) \in DOMAIN q /\ j = Len(s) + (j - Len(s)) /\ j > Len(s)
    BY <1>1, <1>2
  <2> QED
    BY <2>1
<1> QED
  BY <1>1, <1>2

(* A region f that no one has seen may come; others may go. *)
LEMMA StaysSame ==
    ASSUME NEW U, NEW L, NEW inb, NEW U2, NEW L2, NEW f, Stays(U, L, inb),
           U2 \subseteq U, L2 \subseteq L \union {f}, f \notin U,
           \A i \in DOMAIN inb : IsTree(inb[i]) => f \notin Shown(inb[i])
    PROVE  Stays(U2, L2, inb)
  BY DEF Stays

LEMMA StaysAppend ==
    ASSUME NEW E, NEW inb \in Seq(E), NEW ms \in Seq(E), NEW U, NEW L, Stays(U, L, inb),
           \A i \in DOMAIN ms : IsTree(ms[i]) => L \subseteq Shown(ms[i])
    PROVE  Stays(U, L, inb \o ms)
<1> SUFFICES ASSUME NEW i \in DOMAIN (inb \o ms), IsTree((inb \o ms)[i])
             PROVE  /\ U \intersect L \subseteq Shown((inb \o ms)[i])
                    /\ \A j \in DOMAIN (inb \o ms) : j < i /\ IsTree((inb \o ms)[j]) =>
                          Shown((inb \o ms)[j]) \intersect L \subseteq Shown((inb \o ms)[i])
  BY DEF Stays
<1>1. CASE i \in DOMAIN inb
  <2>1. \A j \in DOMAIN (inb \o ms) : j < i => j \in DOMAIN inb
    BY <1>1, ConcatOf
  <2>2. \A j \in DOMAIN inb : (inb \o ms)[j] = inb[j]
    BY ConcatOf
  <2> QED
    BY <1>1, <2>1, <2>2 DEF Stays
<1>2. CASE i \notin DOMAIN inb
  <2>1. PICK k \in DOMAIN ms : (inb \o ms)[i] = ms[k]
    BY <1>2, ConcatOf
  <2> QED
    BY <2>1
<1> QED
  BY <1>1, <1>2

(* A message is read, and the tree that it may have. *)
LEMMA StaysTail ==
    ASSUME NEW E, NEW inb \in Seq(E), inb # <<>>, NEW U, NEW L, NEW U2, Stays(U, L, inb),
           U2 \subseteq U \union (IF IsTree(Head(inb)) THEN Shown(Head(inb)) ELSE {})
    PROVE  Stays(U2, L, Tail(inb))
<1>0. 1 \in DOMAIN inb /\ Head(inb) = inb[1] /\ \A i \in DOMAIN Tail(inb) : i \in Nat \ {0}
  BY TailOf
<1> SUFFICES ASSUME NEW i \in DOMAIN Tail(inb), IsTree(Tail(inb)[i])
             PROVE  /\ U2 \intersect L \subseteq Shown(Tail(inb)[i])
                    /\ \A j \in DOMAIN Tail(inb) : j < i /\ IsTree(Tail(inb)[j]) =>
                          Shown(Tail(inb)[j]) \intersect L \subseteq Shown(Tail(inb)[i])
  BY DEF Stays
<1>1. i + 1 \in DOMAIN inb /\ Tail(inb)[i] = inb[i + 1] /\ 1 < i + 1
  BY <1>0, TailOf
<1>2. U \intersect L \subseteq Shown(inb[i + 1])
  BY <1>1 DEF Stays
<1>3. IsTree(inb[1]) => Shown(inb[1]) \intersect L \subseteq Shown(inb[i + 1])
  BY <1>0, <1>1 DEF Stays
<1>4. ASSUME NEW j \in DOMAIN Tail(inb), j < i, IsTree(Tail(inb)[j])
      PROVE  Shown(Tail(inb)[j]) \intersect L \subseteq Shown(Tail(inb)[i])
  <2>1. j + 1 \in DOMAIN inb /\ Tail(inb)[j] = inb[j + 1] /\ j + 1 < i + 1
    BY <1>0, <1>4, TailOf
  <2> QED
    BY <1>1, <1>4, <2>1 DEF Stays
<1> QED
  BY <1>0, <1>1, <1>2, <1>3, <1>4

LEMMA PrefixOf ==
    ASSUME NEW E, NEW s \in Seq(E), NEW k \in 0 .. Len(s)
    PROVE  /\ SubSeq(s, 1, k) \in Seq(E) /\ Len(SubSeq(s, 1, k)) = k /\ DOMAIN SubSeq(s, 1, k) = 1 .. k
           /\ \A i \in 1 .. k : i \in DOMAIN s /\ SubSeq(s, 1, k)[i] = s[i]
<1>1. Len(s) \in Nat /\ DOMAIN s = 1 .. Len(s) /\ \A i \in 1 .. k : s[i] \in E
  BY LenProperties, ElementOfSeq
<1>2. /\ SubSeq(s, 1, k) \in Seq(E)
      /\ Len(SubSeq(s, 1, k)) = IF 1 <= k THEN k - 1 + 1 ELSE 0
      /\ \A i \in 1 .. k - 1 + 1 : SubSeq(s, 1, k)[i] = s[1 + i - 1]
  BY <1>1, SubSeqProperties
<1> QED
  BY <1>1, <1>2, LenProperties

LEMMA StaysPrefix ==
    ASSUME NEW E, NEW inb \in Seq(E), NEW k \in 0 .. Len(inb), NEW U, NEW L, Stays(U, L, inb)
    PROVE  Stays(U, L, SubSeq(inb, 1, k))
<1> DEFINE p == SubSeq(inb, 1, k)
<1>1. \A i \in DOMAIN p : i \in DOMAIN inb /\ p[i] = inb[i]
  BY PrefixOf
<1> HIDE DEF p
<1>2. Stays(U, L, p)
  BY <1>1 DEF Stays
<1> QED
  BY <1>2 DEF p

LEMMA StaysLess ==
    ASSUME NEW U, NEW L, NEW inb, NEW U2, NEW L2, Stays(U, L, inb), U2 \subseteq U, L2 \subseteq L
    PROVE  Stays(U2, L2, inb)
  BY DEF Stays

(* Messages come whose trees are the server's: the last of them shows it. *)
LEMMA LatestMore ==
    ASSUME NEW inb \in Seq(Messages), NEW ms \in Seq(Messages), NEW T, NEW K, NEW L, Latest(T, K, inb),
           \A i \in DOMAIN ms : IsTree(ms[i]) => Shown(ms[i]) = L,
           K = L \/ \E i \in DOMAIN ms : IsTree(ms[i])
    PROVE  Latest(T, L, inb \o ms)
<1>1. \A i \in DOMAIN ms : ms[i] \in Messages
  BY ElementOfSeq, LenProperties
<1>2. \A x \in ToSet(ms) : x \in Trees => x \in Showing(L)
  BY <1>1 DEF ToSet, Trees, Showing
<1>3. CASE K = L
  BY <1>2, <1>3, WillAppend DEF Latest
<1>4. CASE \E i \in DOMAIN ms : IsTree(ms[i])
  <2>1. \E x \in ToSet(ms) : x \in Trees /\ x \in Showing(L)
    BY <1>1, <1>4 DEF ToSet, Trees, Showing
  <2> QED
    BY <1>2, <2>1, WillSet DEF Latest
<1> QED
  BY <1>3, <1>4

(* A message is read, and the tree that it may have. *)
LEMMA LatestTail ==
    ASSUME NEW inb \in Seq(Messages), inb # <<>>, NEW T, NEW L, NEW T2, Latest(T, L, inb),
           T2 = IF IsTree(Head(inb)) THEN Shown(Head(inb)) ELSE T
    PROVE  Latest(T2, L, Tail(inb))
<1>1. Head(inb) \in Messages
  BY HeadTailProperties
<1>2. Head(inb) \in Trees /\ Head(inb) \in Showing(L) => T2 = L
  BY DEF Trees, Showing
<1>3. Head(inb) \notin Trees /\ T = L => T2 = L
  BY <1>1 DEF Trees
<1> QED
  BY <1>2, <1>3, WillTail DEF Latest

-----------------------------------------------------------------------------
(* The requests on their way. *)

LEMMA AskedConcat ==
    ASSUME NEW p \in Seq(Requests), NEW q \in Seq(Requests)
    PROVE  Asked(p \o q) = Asked(p) \union Asked(q)
<1>1. ToSet(p \o q) = ToSet(p) \union ToSet(q)
  BY SetOfConcat
<1> QED
  BY <1>1 DEF Asked

LEMMA Associates ==
    ASSUME NEW p \in Seq(Requests), NEW q \in Seq(Requests), NEW r \in Seq(Requests)
    PROVE  (p \o q) \o r = p \o (q \o r)
  BY ConcatAssociative

(* Send, when Server.ch does not fill: the requests are added. *)
LEMMA SendIs ==
    ASSUME TypesOK, NEW n \in NetType, NEW sends \in Seq(Requests),
           net' = Send(n, sends), NeverFull'
    PROVE  /\ net' = [n EXCEPT !.out = n.out \o sends]
           /\ net' \in NetType
           /\ n.out = net.out /\ n.up = net.up => Reqs' = Reqs \o sends /\ Reqs' \in Seq(Requests)
<1>0. n.out \in Seq(Requests) /\ Len(n.out) \in Nat /\ Len(sends) \in Nat /\ OutCap \in Nat
  BY ClientAssumption, LenProperties DEF NetType
<1>1. PICK room \in Int : room = OutCap - Len(n.out)
  <2>1. OutCap - Len(n.out) \in Int
    BY <1>0
  <2> QED
    BY <2>1
<1>2. CASE Len(sends) <= room
  <2>1. net' = [n EXCEPT !.out = n.out \o sends]
    BY <1>1, <1>2 DEF Send
  <2>2. n.out \o sends \in Seq(Requests)
    BY <1>0, ConcatProperties
  <2>3. net' \in NetType
    BY <2>1, <2>2 DEF NetType
  <2>4. ASSUME n.out = net.out, n.up = net.up
        PROVE  Reqs' = Reqs \o sends /\ Reqs' \in Seq(Requests)
    <3>1. net'.up = net.up /\ net'.out = net.out \o sends
      BY <2>1, <2>4 DEF NetType
    <3>2. net.up \in Seq(Requests) /\ net.out \in Seq(Requests)
      BY DEF TypesOK, NetType
    <3>3. Reqs' = net.up \o (net.out \o sends)
      BY <3>1 DEF Reqs
    <3>4. (net.up \o net.out) \o sends = net.up \o (net.out \o sends)
      BY <3>2, Associates
    <3>5. net.up \o net.out \in Seq(Requests)
      BY <3>2, ConcatProperties
    <3>6. (net.up \o net.out) \o sends \in Seq(Requests)
      BY <3>5, ConcatProperties
    <3> QED
      BY <3>2, <3>3, <3>4, <3>6 DEF Reqs
  <2> QED
    BY <2>1, <2>3, <2>4
<1>3. CASE ~(Len(sends) <= room)
  <2>1. net' = [n EXCEPT !.out = n.out \o SubSeq(sends, 1, room)]
    BY <1>1, <1>3 DEF Send
  <2>2. SubSeq(sends, 1, room) \in Seq(Requests) /\ Len(SubSeq(sends, 1, room)) = IF 1 <= room THEN room - 1 + 1 ELSE 0
    <3>1. \A i \in 1 .. room : sends[i] \in Requests
      BY <1>0, <1>3, ElementOfSeq
    <3> QED
      BY <3>1, SubSeqProperties
  <2>3. net'.out = n.out \o SubSeq(sends, 1, room)
    BY <2>1 DEF NetType
  <2> DEFINE s == SubSeq(sends, 1, room)
  <2>4. Len(n.out \o s) = Len(n.out) + Len(s)
    BY <1>0, <2>2, ConcatProperties
  <2>5. Len(s) \in Int /\ Len(s) >= room
    BY <2>2
  <2> HIDE DEF s
  <2>6. Len(n.out) + Len(s) >= OutCap
    BY <1>0, <1>1, <2>5
  <2>7. ~(Len(n.out) + Len(s) < OutCap)
    BY <1>0, <2>5, <2>6
  <2>8. Len(net'.out) < OutCap
    BY DEF NeverFull
  <2> QED
    BY <2>3, <2>4, <2>7, <2>8 DEF s
<1> QED
  BY <1>2, <1>3

(* Deliverable: the messages reach the client's end, unless the link is gone. *)
LEMMA DeliverableIs ==
    ASSUME NEW n \in NetType, NEW ms \in Seq(Messages)
    PROVE  /\ Deliverable(n, ms) \in NetType
           /\ Deliverable(n, ms).up = n.up /\ Deliverable(n, ms).out = n.out
           /\ Deliverable(n, ms).link = n.link /\ Deliverable(n, ms).life = n.life
           /\ Deliverable(n, ms).inbound = IF n.link = "up" THEN n.inbound \o ms ELSE n.inbound
<1>1. n.inbound \o ms \in Seq(Messages)
  BY ConcatProperties DEF NetType
<1> QED
  BY <1>1 DEF Deliverable, NetType

LEMMA TailOfConcat ==
    ASSUME NEW E, NEW p \in Seq(E), NEW q \in Seq(E), p # <<>>
    PROVE  p \o q # <<>> /\ Head(p \o q) = Head(p) /\ Tail(p \o q) = Tail(p) \o q
<1>1. PICK k \in Nat, m \in Nat : k = Len(p) /\ m = Len(q)
  BY LenProperties
<1>2. k # 0
  BY <1>1, EmptySeq
<1>3. p \o q \in Seq(E) /\ Len(p \o q) = k + m
      /\ \A i \in 1 .. k + m : (p \o q)[i] = IF i <= k THEN p[i] ELSE q[i - k]
  BY <1>1, ConcatProperties
<1>4. p \o q # <<>>
  BY <1>1, <1>2, <1>3, EmptySeq
<1>5. Tail(p) \in Seq(E) /\ Len(Tail(p)) = k - 1 /\ \A i \in 1 .. k - 1 : Tail(p)[i] = p[i + 1]
  <2>1. Len(Tail(p)) = k - 1
    BY <1>1, HeadTailProperties
  <2> QED
    BY <2>1, HeadTailProperties
<1>6. Tail(p \o q) \in Seq(E) /\ Len(Tail(p \o q)) = k + m - 1
      /\ \A i \in 1 .. k + m - 1 : Tail(p \o q)[i] = (p \o q)[i + 1]
  <2>1. Len(Tail(p \o q)) = k + m - 1
    BY <1>3, <1>4, HeadTailProperties
  <2> QED
    BY <1>3, <1>4, <2>1, HeadTailProperties
<1>7. Tail(p) \o q \in Seq(E) /\ Len(Tail(p) \o q) = k + m - 1
      /\ \A i \in 1 .. k + m - 1 : (Tail(p) \o q)[i] = IF i <= k - 1 THEN Tail(p)[i] ELSE q[i - (k - 1)]
  <2>1. Len(Tail(p)) + Len(q) = k + m - 1
    BY <1>1, <1>5
  <2> QED
    BY <1>5, <2>1, ConcatProperties
<1>8. \A i \in 1 .. k + m - 1 : Tail(p \o q)[i] = (Tail(p) \o q)[i]
  <2> SUFFICES ASSUME NEW i \in 1 .. k + m - 1 PROVE Tail(p \o q)[i] = (Tail(p) \o q)[i]
    OBVIOUS
  <2>1. i + 1 \in 1 .. k + m /\ Tail(p \o q)[i] = IF i + 1 <= k THEN p[i + 1] ELSE q[(i + 1) - k]
    BY <1>2, <1>3, <1>6
  <2>2. CASE i <= k - 1
    BY <1>5, <1>7, <2>1, <2>2
  <2>3. CASE ~(i <= k - 1)
    <3>1. (i + 1) - k = i - (k - 1) /\ ~(i + 1 <= k)
      BY <2>3
    <3> QED
      BY <1>7, <2>1, <2>3, <3>1
  <2> QED
    BY <2>2, <2>3
<1>9. Tail(p \o q) = Tail(p) \o q
  BY <1>6, <1>7, <1>8, SeqEqual
<1>10. Head(p) = p[1] /\ Head(p \o q) = (p \o q)[1] /\ (p \o q)[1] = p[1]
  BY <1>2, <1>3
<1> QED
  BY <1>4, <1>9, <1>10

(* The server reads a request. *)
LEMMA HandledIs ==
    ASSUME TypesOK, net.up # <<>>
    PROVE  /\ Handled \in NetType /\ Request \in Requests
           /\ Handled.up = Tail(net.up) /\ Handled.out = net.out /\ Handled.link = net.link
           /\ Handled.life = net.life /\ Handled.inbound = net.inbound
           /\ Reqs \in Seq(Requests) /\ Reqs # <<>> /\ Head(Reqs) = Request
           /\ Tail(net.up) \o net.out = Tail(Reqs)
<1>1. net.up \in Seq(Requests) /\ net.out \in Seq(Requests) /\ net \in NetType
  BY DEF TypesOK, NetType
<1>2. Tail(net.up) \in Seq(Requests) /\ Head(net.up) \in Requests
  BY <1>1, HeadTailProperties
<1>3. Handled \in NetType /\ Handled.up = Tail(net.up) /\ Handled.out = net.out /\ Handled.link = net.link
      /\ Handled.life = net.life /\ Handled.inbound = net.inbound
  BY <1>1, <1>2 DEF Handled, NetType
<1>4. Reqs \in Seq(Requests)
  BY <1>1, ConcatProperties DEF Reqs
<1>5. Reqs # <<>> /\ Head(Reqs) = Request /\ Tail(net.up) \o net.out = Tail(Reqs)
  BY <1>1, TailOfConcat DEF Reqs, Request
<1> QED
  BY <1>2, <1>3, <1>4, <1>5 DEF Request

-----------------------------------------------------------------------------
(* The tabs: what each change of them asks for. *)

Plain == {x \in Requests : x.type \in {"unsubscribe", "connect"}}

(* A change from s to r.session shows the same region or none, or ends     *)
(* with the request to see the new one.                                    *)
Steers(s, r) ==
    \/ r.sends = <<>> /\ (activeRegionID(r.session) = activeRegionID(s) \/ r.session.tabs = <<>>)
    \/ r.session.tabs # <<>> /\ \E pre \in Seq(Plain) : r.sends = pre \o Activate(r.session)

LEMMA ActiveIs ==
    ASSUME NEW s \in SessionType, TabsGood(s)
    PROVE  /\ s.tabs = <<>> => activeRegionID(s) = NoRegion
           /\ s.tabs # <<>> => activeRegionID(s) \in ToSet(s.tabs) /\ activeRegionID(s) \in Regions
           /\ activeRegionID(s) \in Regions \union {NoRegion}
           /\ activeRegionID(s) = NoRegion => s.tabs = <<>>
<1>1. CASE s.tabs # <<>>
  <2>1. s.active \in DOMAIN s.tabs /\ activeRegionID(s) = s.tabs[s.active] /\ s.tabs \in Seq(Regions)
    BY <1>1 DEF TabsGood, activeRegionID, SessionType
  <2>2. s.tabs[s.active] \in Regions
    BY <2>1, ElementOfSeq, LenProperties
  <2> QED
    BY <1>1, <2>1, <2>2, ClientAssumption DEF ToSet
<1> QED
  BY <1>1 DEF activeRegionID

LEMMA AskIs ==
    ASSUME NEW type \in {"connect", "subscribe", "unsubscribe", "resize", "kill", "spawn"},
           NEW r \in Regions \union {NoRegion}, NEW size \in Nat
    PROVE  /\ Ask(type, r, size) \in Requests
           /\ Ask(type, r, size).type = type /\ Ask(type, r, size).region = r /\ Ask(type, r, size).size = size
  BY DEF Ask, Requests

LEMMA ActivateIs ==
    ASSUME NEW s \in SessionType, TabsGood(s)
    PROVE  /\ Activate(s) \in Seq(Requests)
           /\ s.tabs = <<>> => Activate(s) = <<>>
           /\ s.tabs # <<>> => ToSet(Activate(s)) = {Ask("subscribe", activeRegionID(s), 0),
                                                    Ask("resize", activeRegionID(s), s.size)}
<1>1. CASE s.tabs # <<>>
  <2>1. activeRegionID(s) \in Regions /\ s.size \in Nat
    BY <1>1, ActiveIs DEF SessionType
  <2>2. Ask("subscribe", activeRegionID(s), 0) \in Requests /\ Ask("resize", activeRegionID(s), s.size) \in Requests
    BY <2>1, AskIs
  <2> DEFINE x == Ask("subscribe", activeRegionID(s), 0)
             y == Ask("resize", activeRegionID(s), s.size)
  <2>3. Activate(s) = <<x, y>>
    BY <1>1 DEF Activate
  <2> HIDE DEF x, y
  <2>4. <<x, y>> \in Seq(Requests) /\ ToSet(<<x, y>>) = {x, y}
    BY <2>2 DEF ToSet, x, y
  <2> QED
    BY <1>1, <2>3, <2>4 DEF x, y
<1>2. CASE s.tabs = <<>>
  BY <1>2 DEF Activate
<1> QED
  BY <1>1, <1>2

LEMMA DeactivateIs ==
    ASSUME NEW s \in SessionType, TabsGood(s)
    PROVE  /\ Deactivate(s) \in Seq(Plain) /\ Deactivate(s) \in Seq(Requests)
           /\ s.tabs = <<>> => Deactivate(s) = <<>>
           /\ s.tabs # <<>> => \E x \in ToSet(Deactivate(s)) : x \in Leaving
<1>1. CASE s.tabs # <<>>
  <2> DEFINE x == Ask("unsubscribe", activeRegionID(s), 0)
  <2>1. x \in Requests /\ x.type = "unsubscribe"
    BY <1>1, ActiveIs, AskIs
  <2>2. Deactivate(s) = <<x>>
    BY <1>1 DEF Deactivate
  <2> HIDE DEF x
  <2>3. x \in Plain /\ x \in Leaving
    BY <2>1 DEF Plain, Leaving
  <2>4. <<x>> \in Seq(Plain) /\ <<x>> \in Seq(Requests) /\ x \in ToSet(<<x>>)
    BY <2>1, <2>3 DEF ToSet
  <2> QED
    BY <1>1, <2>2, <2>3, <2>4
<1>2. CASE s.tabs = <<>>
  BY <1>2 DEF Deactivate
<1> QED
  BY <1>1, <1>2

(* The sequence is Plain; so it asks to see nothing and sizes nothing. *)
LEMMA PlainIs ==
    ASSUME NEW pre \in Seq(Plain)
    PROVE  pre \in Seq(Requests) /\ ToSet(pre) \subseteq Plain /\ Asked(pre) = {}
<1>1. Plain \subseteq Requests
  BY DEF Plain
<1>2. pre \in Seq(Requests)
  BY <1>1, SeqMonotonic
<1>3. ToSet(pre) \subseteq Plain
  BY ElementOfSeq, LenProperties DEF ToSet
<1>4. Asked(pre) = {}
  BY <1>3 DEF Asked, Plain
<1> QED
  BY <1>2, <1>3, <1>4

(* switchToTab shows another tab, and asks for it. *)
LEMMA SwitchIs ==
    ASSUME NEW s \in SessionType, TabsGood(s), NEW idx
    PROVE  LET r == switchToTab(s, idx)
           IN  /\ r.session \in SessionType /\ TabsGood(r.session) /\ r.sends \in Seq(Requests)
               /\ Steers(s, r)
               /\ r.session.tabs = s.tabs /\ r.session.size = s.size /\ r.session.pending = s.pending
               /\ idx \in DOMAIN s.tabs => activeRegionID(r.session) = s.tabs[idx]
<1> DEFINE r == switchToTab(s, idx)
<1>2. CASE idx \notin DOMAIN s.tabs \/ idx = s.active
  <2>1. r.session = s /\ r.sends = <<>>
    BY <1>2 DEF switchToTab, Same
  <2>2. idx \in DOMAIN s.tabs => activeRegionID(s) = s.tabs[idx]
    BY <1>2 DEF activeRegionID
  <2> QED
    BY <2>1, <2>2 DEF Steers
<1>3. CASE ~(idx \notin DOMAIN s.tabs \/ idx = s.active)
  <2> DEFINE t == [s EXCEPT !.active = idx]
  <2>1. idx \in DOMAIN s.tabs /\ s.tabs # <<>> /\ idx \in Nat \ {0}
    <3>1. s.tabs \in Seq(Regions)
      BY DEF SessionType
    <3>2. DOMAIN s.tabs = 1 .. Len(s.tabs) /\ Len(s.tabs) \in Nat
      BY <3>1, LenProperties
    <3> QED
      BY <1>3, <3>2
  <2>2. t \in SessionType /\ t.tabs = s.tabs /\ t.active = idx /\ t.name = s.name /\ t.size = s.size
        /\ t.pending = s.pending
    BY <2>1 DEF SessionType
  <2>3. TabsGood(t) /\ activeRegionID(t) = s.tabs[idx]
    BY <2>1, <2>2 DEF TabsGood, activeRegionID
  <2>4. r.session = t /\ r.sends = Deactivate(s) \o Activate(t)
    BY <1>3 DEF switchToTab
  <2>5. Deactivate(s) \in Seq(Plain) /\ Deactivate(s) \in Seq(Requests) /\ Activate(t) \in Seq(Requests)
    BY <2>2, <2>3, DeactivateIs, ActivateIs
  <2>6. r.sends \in Seq(Requests)
    BY <2>4, <2>5, ConcatProperties
  <2>7. Steers(s, r)
    BY <2>1, <2>2, <2>4, <2>5 DEF Steers
  <2> QED
    BY <2>2, <2>3, <2>4, <2>6, <2>7
<1> QED
  BY <1>2, <1>3

(* syncFromTree *)
LEMMA SyncIs ==
    ASSUME NEW s \in SessionType, TabsGood(s), NEW regions \in Seq(Regions)
    PROVE  LET r == syncFromTree(s, regions)
           IN  /\ r.session \in SessionType /\ TabsGood(r.session) /\ r.sends \in Seq(Requests)
               /\ Steers(s, r)
               /\ r.session.size = s.size /\ r.session.name = s.name
               /\ ToSet(r.session.tabs) \subseteq ToSet(regions)
               /\ r.session.tabs = <<>> => s.tabs = <<>> \/ regions = <<>>
               /\ r.session.pending \in {s.pending, NoRegion}
               /\ s.pending # NoRegion /\ r.session.pending = NoRegion => activeRegionID(r.session) = s.pending
               /\ s.pending = NoRegion /\ activeRegionID(s) \in ToSet(r.session.tabs) =>
                      activeRegionID(r.session) = activeRegionID(s)
<1> DEFINE r == syncFromTree(s, regions)
<1>0. ToSet(<<>>) = {} /\ <<>> \in Seq(Requests) /\ <<>> \in Seq(Regions)
  BY DEF ToSet
<1>1. CASE s.name = ""
  <2>1. r.session = s /\ r.sends = <<>> /\ s.tabs = <<>>
    BY <1>1 DEF syncFromTree, Same, TabsGood
  <2>2. ToSet(s.tabs) = {}
    BY <1>0, <2>1
  <2> QED
    BY <1>0, <2>1, <2>2 DEF Steers
<1>2. CASE s.name # "" /\ regions = <<>>
  <2> DEFINE t == [s EXCEPT !.tabs = <<>>, !.active = 1]
  <2>1. r.session = t /\ r.sends = <<>>
    BY <1>2 DEF syncFromTree, Same
  <2>2. t \in SessionType /\ t.tabs = <<>> /\ t.active = 1 /\ t.name = s.name /\ t.size = s.size /\ t.pending = s.pending
    <3>1. <<>> \in Seq(Regions) /\ 1 \in Nat \ {0}
      BY <1>0
    <3> DEFINE e == <<>>
    <3> HIDE DEF e
    <3>2. t = [s EXCEPT !.tabs = e, !.active = 1] /\ e \in Seq(Regions)
      BY <3>1 DEF e
    <3> HIDE DEF t
    <3>3. t \in SessionType /\ t.tabs = e /\ t.active = 1 /\ t.name = s.name /\ t.size = s.size /\ t.pending = s.pending
      BY <3>1, <3>2 DEF SessionType
    <3> QED
      BY <3>3 DEF e
  <2>3. TabsGood(t) /\ ToSet(t.tabs) = {}
    BY <1>0, <2>2 DEF TabsGood
  <2> HIDE DEF t, r
  <2> QED
    BY <1>0, <1>2, <2>1, <2>2, <2>3 DEF Steers, r
<1>3. CASE s.name # "" /\ regions # <<>>
  <2> DEFINE tabs == SyncedTabs(s, regions)
             t == WithTabs(s, tabs)
  <2>1. tabs \in Seq(Regions) /\ ToSet(tabs) = ToSet(regions)
    <3>1. s.tabs \in Seq(Regions)
      BY DEF SessionType
    <3> DEFINE a == Keeping(ToSet(regions), s.tabs)
               b == Keeping(ToSet(regions) \ ToSet(s.tabs), regions)
    <3>2. a \in Seq(Regions) /\ ToSet(a) = ToSet(s.tabs) \intersect ToSet(regions)
      BY <3>1, KeepingIs
    <3>3. b \in Seq(Regions) /\ ToSet(b) = ToSet(regions) \intersect (ToSet(regions) \ ToSet(s.tabs))
      BY KeepingIs
    <3>4. tabs = a \o b
      BY DEF SyncedTabs
    <3> HIDE DEF a, b, tabs
    <3>5. a \o b \in Seq(Regions) /\ ToSet(a \o b) = ToSet(a) \union ToSet(b)
      BY <3>2, <3>3, ConcatProperties, SetOfConcat
    <3> QED
      BY <3>2, <3>3, <3>4, <3>5
  <2>2. r = Resubscribed(s, t)
    BY <1>3 DEF syncFromTree
  <2> HIDE DEF tabs, r
  <2>3. tabs # <<>> /\ Len(tabs) \in Nat \ {0} /\ DOMAIN tabs = 1 .. Len(tabs)
    <3>1. regions[1] \in ToSet(regions)
      <4>0. regions # <<>> /\ regions \in Seq(Regions)
        BY <1>3
      <4>2. DOMAIN regions = 1 .. Len(regions) /\ Len(regions) \in Nat \ {0}
        BY <4>0, TailOf
      <4>1. 1 \in DOMAIN regions
        BY <4>2
      <4> QED
        BY <4>1 DEF ToSet
    <3>2. tabs # <<>>
      BY <1>0, <2>1, <3>1
    <3> QED
      BY <2>1, <3>2, EmptySeq, LenProperties
  <2> DEFINE want == IF s.pending # NoRegion THEN s.pending ELSE activeRegionID(s)
  <2>4. Restored(s, tabs) \in DOMAIN tabs /\ (want \in ToSet(tabs) => tabs[Restored(s, tabs)] = want)
    <3> DEFINE hits == {i \in DOMAIN tabs : tabs[i] = want}
    <3>1. Restored(s, tabs) = IF hits # {} THEN CHOOSE i \in hits : TRUE
                              ELSE IF s.active > Len(tabs) THEN Len(tabs) ELSE s.active
      BY <2>3 DEF Restored
    <3> HIDE DEF want
    <3>2. CASE hits # {}
      <4>1. Restored(s, tabs) \in hits
        BY <3>1, <3>2
      <4> QED
        BY <4>1
    <3>3. CASE hits = {}
      <4>1. want \notin ToSet(tabs)
        BY <3>3 DEF ToSet
      <4>2. s.active \in Nat \ {0}
        BY DEF SessionType
      <4> QED
        BY <2>3, <3>1, <3>3, <4>1, <4>2
    <3> QED
      BY <3>2, <3>3
  <2>5. t = [s EXCEPT !.tabs = tabs, !.active = Restored(s, tabs),
                      !.pending = IF s.pending \in ToSet(tabs) THEN NoRegion ELSE s.pending]
    BY DEF WithTabs, SessionType
  <2>6. /\ t \in SessionType /\ t.tabs = tabs /\ t.active = Restored(s, tabs) /\ t.name = s.name /\ t.size = s.size
        /\ t.pending = IF s.pending \in ToSet(tabs) THEN NoRegion ELSE s.pending
    <3>1. Restored(s, tabs) \in Nat \ {0}
      BY <2>3, <2>4
    <3> DEFINE p == IF s.pending \in ToSet(tabs) THEN NoRegion ELSE s.pending
    <3>2. p \in Regions \union {NoRegion}
      BY DEF SessionType
    <3> HIDE DEF p
    <3> DEFINE i == Restored(s, tabs)
    <3>3. t = [s EXCEPT !.tabs = tabs, !.active = i, !.pending = p]
      BY <2>5 DEF p
    <3> HIDE DEF t, i
    <3>4. tabs \in Seq(Regions) /\ i \in Nat \ {0}
      BY <2>1, <3>1 DEF i
    <3>5. t \in SessionType /\ t.tabs = tabs /\ t.active = i /\ t.name = s.name /\ t.size = s.size /\ t.pending = p
      BY <3>2, <3>3, <3>4 DEF SessionType
    <3> QED
      BY <3>5 DEF p, i
  <2> HIDE DEF t
  <2>7. TabsGood(t) /\ activeRegionID(t) = tabs[Restored(s, tabs)]
    BY <1>3, <2>3, <2>4, <2>6 DEF TabsGood, activeRegionID
  <2>8. Activate(t) \in Seq(Requests) /\ Activate(t) = <<>> \o Activate(t) /\ <<>> \in Seq(Plain)
    BY <2>6, <2>7, ActivateIs, ConcatEmptySeq
  <2>9. r.session = t /\ r.sends = IF activeRegionID(t) # activeRegionID(s) THEN Activate(t) ELSE <<>>
    BY <2>2 DEF Resubscribed
  <2>10. r.sends \in Seq(Requests) /\ Steers(s, r)
    BY <1>0, <2>3, <2>6, <2>8, <2>9 DEF Steers
  <2>11. s.pending # NoRegion /\ t.pending = NoRegion => activeRegionID(t) = s.pending
    BY <2>4, <2>6, <2>7
  <2>12. s.pending = NoRegion /\ activeRegionID(s) \in ToSet(tabs) => activeRegionID(t) = activeRegionID(s)
    BY <2>4, <2>7
  <2> QED
    BY <2>1, <2>3, <2>6, <2>7, <2>9, <2>10, <2>11, <2>12 DEF r
<1> QED
  BY <1>1, <1>2, <1>3

-----------------------------------------------------------------------------
(* The server. *)

LEMMA AppendRegion ==
    ASSUME NEW q \in Seq(Regions), NEW r \in Regions
    PROVE  Append(q, r) \in Seq(Regions) /\ ToSet(Append(q, r)) = ToSet(q) \union {r}
  BY AppendProperties, SetOfAppend

LEMMA WithRegionIs ==
    ASSUME NEW s \in SrvType, s.fresh \in Regions, NEW size \in Nat, NEW default \in BOOLEAN
    PROVE  LET t == WithRegion(s, size, default)
           IN  /\ t \in SrvType
               /\ t.regions = Append(s.regions, s.fresh) /\ ToSet(t.regions) = ToSet(s.regions) \union {s.fresh}
               /\ t.fresh = s.fresh + 1 /\ t.sub = s.sub /\ t.me = s.me /\ t.other = s.other
               /\ t.defaults = IF default THEN s.defaults \union {s.fresh} ELSE s.defaults
               /\ \A r \in Regions \ {s.fresh} : t.sizes[r] = s.sizes[r]
               /\ t.phase = s.phase
<1> DEFINE regions == Append(s.regions, s.fresh)
           sizes == [s.sizes EXCEPT ![s.fresh] = size]
           defaults == IF default THEN s.defaults \union {s.fresh} ELSE s.defaults
           n == s.fresh + 1
           t == WithRegion(s, size, default)
<1>1. regions \in Seq(Regions) /\ ToSet(regions) = ToSet(s.regions) \union {s.fresh}
  BY AppendRegion DEF SrvType
<1>2. sizes \in [Regions -> Nat] /\ \A r \in Regions \ {s.fresh} : sizes[r] = s.sizes[r]
  BY DEF SrvType
<1>3. defaults \in SUBSET Regions /\ n \in 1 .. MaxRegions + 1
  BY ClientAssumption DEF SrvType, Regions
<1>4. t = [s EXCEPT !.regions = regions, !.fresh = n, !.sizes = sizes, !.defaults = defaults]
  BY DEF WithRegion, SrvType
<1> HIDE DEF regions, sizes, defaults, n, t
<1>5. t \in SrvType /\ t.regions = regions /\ t.fresh = n /\ t.sizes = sizes /\ t.defaults = defaults
  BY <1>1, <1>2, <1>3, <1>4 DEF SrvType
<1>6. t.sub = s.sub /\ t.me = s.me /\ t.other = s.other /\ t.phase = s.phase
  BY <1>4 DEF SrvType
<1> QED
  BY <1>1, <1>2, <1>5, <1>6 DEF regions, defaults, n, t

LEMMA ExitedIs ==
    ASSUME NEW s \in SrvType, NEW r \in Regions
    PROVE  LET t == Exited(s, r)
           IN  /\ t \in SrvType
               /\ ToSet(t.regions) = ToSet(s.regions) \ {r}
               /\ t.fresh = s.fresh /\ t.sub = (IF s.sub = r THEN NoRegion ELSE s.sub) /\ t.me = s.me /\ t.other = s.other
               /\ t.defaults = s.defaults /\ t.sizes = s.sizes /\ t.phase = s.phase
<1> DEFINE regions == Keeping(ToSet(s.regions) \ {r}, s.regions)
           dying == s.dying \ {r}
           sub == IF s.sub = r THEN NoRegion ELSE s.sub
           t == Exited(s, r)
<1>1. regions \in Seq(Regions) /\ ToSet(regions) = ToSet(s.regions) \ {r}
  <2>1. s.regions \in Seq(Regions)
    BY DEF SrvType
  <2>2. regions \in Seq(Regions) /\ ToSet(regions) = ToSet(s.regions) \intersect (ToSet(s.regions) \ {r})
    BY <2>1, KeepingIs
  <2> QED
    BY <2>2
<1>2. dying \in SUBSET Regions /\ sub \in Regions \union {NoRegion}
  BY DEF SrvType
<1>3. t = [s EXCEPT !.regions = regions, !.dying = dying, !.sub = sub]
  BY DEF Exited, SrvType
<1> HIDE DEF regions, dying, sub, t
<1>4. t \in SrvType /\ t.regions = regions /\ t.sub = sub
  BY <1>1, <1>2, <1>3 DEF SrvType
<1>5. t.fresh = s.fresh /\ t.me = s.me /\ t.other = s.other /\ t.defaults = s.defaults /\ t.sizes = s.sizes
      /\ t.phase = s.phase
  BY <1>3 DEF SrvType
<1> QED
  BY <1>1, <1>4, <1>5 DEF sub, t

SrvInv == srv \in SrvType /\ ServerOK /\ CreatedOnce

LEMMA NoJobIs == NoJob \in Job /\ NoJob.at = "idle" /\ NoJob.region = NoRegion
  BY DEF NoJob, Job

LEMMA NewServerIs ==
    ASSUME NEW n \in 1 .. MaxRegions + 1
    PROVE  LET s == [NewServer EXCEPT !.fresh = n]
           IN  /\ s \in SrvType /\ s.regions = <<>> /\ ToSet(s.regions) = {} /\ s.sub = NoRegion /\ s.defaults = {}
               /\ s.fresh = n /\ s.me = NoJob /\ s.other = NoJob
<1>1. NewServer = [regions |-> <<>>, sub |-> NoRegion, sizes |-> [r \in Regions |-> DefaultSize],
                   dying |-> {}, defaults |-> {}, fresh |-> 1, phase |-> "", me |-> NoJob, other |-> NoJob]
  BY DEF NewServer
<1>2. [r \in Regions |-> DefaultSize] \in [Regions -> Nat]
  BY DEF DefaultSize
<1>3. NoJob \in Job /\ <<>> \in Seq(Regions) /\ ToSet(<<>>) = {}
  BY NoJobIs DEF ToSet
<1> QED
  BY <1>1, <1>2, <1>3 DEF SrvType, Phases

(* A server that goes on as it was, but for a job that ends or creates nothing. *)
LEMMA SrvGoesOn ==
    ASSUME SrvInv, srv' \in SrvType, ToSet(srv'.regions) = Alive, srv'.defaults = srv.defaults, srv'.fresh = srv.fresh,
           srv'.sub \in Alive \union {NoRegion},
           srv'.me.at = "spawned" => srv'.me.region \in Regions,
           Creating(srv'.me) => Creating(srv.me) \/ (srv.regions = <<>> /\ ~Creating(srv.other) /\ srv'.other = srv.other),
           Creating(srv'.other) => Creating(srv.other) \/ (Creating(srv.me) /\ ~Creating(srv'.me))
                                   \/ (srv.regions = <<>> /\ ~Creating(srv.me) /\ srv'.me = srv.me)
    PROVE  SrvInv'
<1>1. ServerOK'
  BY DEF SrvInv, ServerOK, Alive, Old
<1>2. srv.regions = <<>> => Alive = {}
  BY DEF Alive, ToSet
<1>3. CreatedOnce'
  BY <1>2 DEF SrvInv, CreatedOnce, Creating, Alive
<1> QED
  BY <1>1, <1>3 DEF SrvInv

-----------------------------------------------------------------------------
(* Each kind of step, and what it changes. *)

LEMMA ServerFrame ==
    ASSUME Server \/ Connection \/ Faults PROVE loop' = loop /\ ui' = ui /\ tk' = tk
<1>1. HandleSubscribe \/ HandleUnsubscribe \/ HandleResize \/ HandleKill \/ HandleSpawn \/ HandleConnect
      \/ HandleQuestion \/ HandleUpgrade => UNCHANGED <<loop, ui, tk>>
  BY DEF HandleSubscribe, HandleUnsubscribe, HandleResize, HandleKill, HandleSpawn, HandleConnect,
         HandleQuestion, HandleUpgrade
<1>2. Spawn \/ Answer \/ OtherSpawns \/ OtherDone \/ UpgradePhase \/ TakesOver => UNCHANGED <<loop, ui, tk>>
  BY DEF Spawn, Answer, OtherSpawns, OtherDone, UpgradePhase, TakesOver
<1>3. Connection => UNCHANGED <<loop, ui, tk>>
  BY DEF Connection, ForwardOut, Disconnect, Redial
<1>4. Faults => UNCHANGED <<loop, ui, tk>>
  BY DEF Faults, Breaks, Restarts, RedialFails, RegionExits, OtherAsks
<1> QED
  BY <1>1, <1>2, <1>3, <1>4 DEF Server

(* Of the runner only the messages on their way matter here. *)
LEMMA RunnerSame ==
    ASSUME PostedOK, tk'.posted = tk.posted, tk'.commands = tk.commands, tk'.nextReq = tk.nextReq,
           DOMAIN tk' = DOMAIN tk
    PROVE  PostedOK'
  BY DEF PostedOK

LEMMA FiltersKeep ==
    ASSUME NEW what, NEW v, DOMAIN tk = Fields
    PROVE  LET t == CheckFilters(tk, what, v)
           IN  /\ DOMAIN t = DOMAIN tk /\ t.posted = tk.posted
               /\ t.commands = tk.commands /\ t.nextReq = tk.nextReq
  BY DEF CheckFilters, Fields

LEMMA RunKeeps ==
    ASSUME NEW t, NEW prog, NEW avail, DOMAIN t = Fields
    PROVE  LET u == Run(t, prog, avail)
           IN  /\ DOMAIN u = DOMAIN t /\ u.posted = t.posted
               /\ u.commands = t.commands /\ u.nextReq = t.nextReq
  BY DEF Run, Fields

LEMMA StepIs == ASSUME NEW at \in DOMAIN Steps PROVE CallGood(Steps[at])
<1>1. at \in {"ask", "toast", "toasted", "open", "confirm", "upgrade", "follow", "failed", "shutdown",
             "await", "finish", "error", "download", "close", "end"}
  BY DEF Steps
<1>2. /\ Steps["ask"].call = "send" /\ Steps["ask"].arg = "check"
      /\ Steps["upgrade"].call = "send" /\ Steps["upgrade"].arg = "upgrade"
      /\ Steps["download"].call = "send" /\ Steps["download"].arg = "download"
  BY DEF Steps
<1>3. CallGood(Steps["ask"]) /\ CallGood(Steps["upgrade"]) /\ CallGood(Steps["download"])
  BY <1>2 DEF CallGood
<1>4. /\ Steps["toast"].call = "push" /\ Steps["toasted"].call = "pop" /\ Steps["open"].call = "push"
      /\ Steps["confirm"].call = "waitFor" /\ Steps["follow"].call = "subscribe"
      /\ Steps["failed"].call = "unsubscribe"
  BY DEF Steps
<1>5. /\ Steps["shutdown"].call = "unsubscribe" /\ Steps["await"].call = "waitFor"
      /\ Steps["finish"].call = "waitFor" /\ Steps["error"].call = "waitFor"
      /\ Steps["close"].call = "pop" /\ Steps["end"].call = "done"
  BY DEF Steps
<1>6. CallGood(Steps["toast"]) /\ CallGood(Steps["toasted"]) /\ CallGood(Steps["open"])
      /\ CallGood(Steps["confirm"]) /\ CallGood(Steps["follow"]) /\ CallGood(Steps["failed"])
  BY <1>4 DEF CallGood
<1>7. CallGood(Steps["shutdown"]) /\ CallGood(Steps["await"]) /\ CallGood(Steps["finish"])
      /\ CallGood(Steps["error"]) /\ CallGood(Steps["close"]) /\ CallGood(Steps["end"])
  BY <1>5 DEF CallGood
<1> QED
  BY <1>1, <1>3, <1>6, <1>7, Zenon

LEMMA PostedStep == ASSUME PostedOK, Next PROVE PostedOK'
<1> USE DEF PostedOK, Fields
<1>1. CASE tk' = tk
  BY <1>1
<1>2. CASE InitialSetup
  <2>1. tk' = tk \/ tk' = Run(tk, "check", {})
    BY <1>2 DEF InitialSetup, Checks
  <2> QED
    BY <1>1, <2>1, RunKeeps, RunnerSame
<1>3. CASE OnTree
  <2>1. tk' = tk \/ tk' = CheckFilters(tk, "tree", Arrived.value)
    BY <1>3 DEF OnTree, FollowPhase
  <2> QED
    BY <1>1, <2>1, FiltersKeep, RunnerSame
<1>4. CASE OnReply
  <2>1. tk' = Reply(tk, Arrived.req, Arrived.value)
    BY <1>4 DEF OnReply
  <2> QED
    BY <2>1, RunnerSame DEF Reply, Deliver
<1>5. CASE OnDisconnected
  <2>1. tk' = FailPendingReplies(tk)
    BY <1>5 DEF OnDisconnected
  <2> QED
    BY <2>1, RunnerSame DEF FailPendingReplies
<1>6. CASE OnReconnected
  <2> DEFINE woken == CheckFilters(tk, "reconnected", "ok")
  <2>1. tk' = woken \/ tk' = Run(woken, "check", {})
    BY <1>6 DEF OnReconnected
  <2>2. /\ DOMAIN woken = DOMAIN tk /\ woken.posted = tk.posted
        /\ woken.commands = tk.commands /\ woken.nextReq = tk.nextReq
    BY FiltersKeep
  <2> HIDE DEF woken
  <2> QED
    BY <2>1, <2>2, RunKeeps, RunnerSame
<1>7. CASE OnTaskMsg
  <2>1. tk' = HandleMsg(tk) /\ tk.posted # <<>>
    BY <1>7 DEF OnTaskMsg
  <2>2. tk.posted[1].call \in {"send", "push", "pop", "waitFor", "subscribe", "unsubscribe", "done"}
    BY <2>1 DEF CallGood
  <2>3. DOMAIN tk' = DOMAIN tk /\ tk'.posted = <<>> /\ tk'.nextReq \in Nat
    BY <2>1, <2>2 DEF HandleMsg
  <2>4. \/ tk'.commands = tk.commands
        \/ tk'.commands = tk.commands \union {tk.posted[1]} /\ tk.posted[1].call \in {"send", "push", "pop"}
    BY <2>1, <2>2 DEF HandleMsg
  <2>5. CallGood(tk.posted[1])
    BY <2>1
  <2> QED
    BY <2>3, <2>4, <2>5, Zenon
<1>13. CASE OnCommandMsg
  <2>1. PICK m \in tk.commands : tk' = Perform(tk, m, Len(net.out) < OutCap)
    BY <1>13 DEF OnCommandMsg
  <2>2. m.call \in {"send", "push", "pop"}
    OBVIOUS
  <2>3. DOMAIN tk' = DOMAIN tk /\ tk'.posted = tk.posted /\ tk'.nextReq \in Nat
    BY <2>1, <2>2 DEF Perform
  <2>4. tk'.commands \subseteq tk.commands
    BY <2>1, <2>2 DEF Perform
  <2> QED
    BY <2>3, <2>4, Zenon
<1>8. CASE TaskCalls
  <2>1. PICK i \in DOMAIN tk.tasks : tk.tasks[i].at \in DOMAIN Steps /\ tk' = Call(tk, i)
    BY <1>8 DEF TaskCalls
  <2> DEFINE step == Steps[tk.tasks[i].at]
  <2>2. CallGood(step)
    BY <2>1, StepIs
  <2> HIDE DEF step
  <2>3. tk' = [tk EXCEPT !.posted = <<[task |-> i, call |-> step.call, arg |-> step.arg]>>,
                         !.tasks[i].at = step.then]
    BY <2>1 DEF Call, step
  <2>4. DOMAIN tk' = DOMAIN tk /\ tk'.nextReq = tk.nextReq /\ tk'.posted[1].call = step.call
        /\ tk'.posted[1].arg = step.arg /\ tk'.commands = tk.commands
    BY <2>3
  <2> QED
    BY <2>2, <2>4 DEF CallGood
<1>9. CASE TaskReceives \/ TaskReads \/ TaskApplies
  <2>1. tk' = tk \/ (\E i, at : tk' = Recv(tk, i, at)) \/ (\E i : tk' = RecvPhase(tk, i))
        \/ (\E i : tk' = [tk EXCEPT !.tasks[i].at = "error"])
    BY <1>9 DEF TaskReceives, TaskReads, TaskApplies
  <2>2. DOMAIN tk' = DOMAIN tk /\ tk'.posted = tk.posted /\ tk'.commands = tk.commands /\ tk'.nextReq = tk.nextReq
    BY <2>1 DEF Recv, RecvPhase
  <2> QED
    BY <2>2, RunnerSame
<1>10. CASE UpgradeCommand \/ DialogKey
  <2>1. (\E avail : tk' = Run(tk, "upgrade", avail)) \/ (\E key : tk' = CheckFilters(tk, "key", key))
    BY <1>10 DEF UpgradeCommand, DialogKey
  <2> QED
    BY <2>1, RunKeeps, FiltersKeep, RunnerSame
<1>11. OnSessionConnectResponse \/ OnSpawnResponse \/ OnRetry => tk' = tk
  BY DEF OnSessionConnectResponse, OnSpawnResponse, OnRetry
<1>14. CASE OnConnected
  <2>1. tk' = Orphaned(tk)
    BY <1>14 DEF OnConnected
  <2> QED
    BY <2>1, RunnerSame DEF Orphaned
<1>12. WindowResized \/ NextTab \/ OpenTab \/ CloseTab \/ CloseSession \/ Detach \/ ConnectTo => tk' = tk
  BY DEF WindowResized, NextTab, OpenTab, CloseTab, CloseSession, Detach, ConnectTo
<1> QED
  BY <1>1, <1>2, <1>3, <1>4, <1>5, <1>6, <1>7, <1>8, <1>9, <1>10, <1>11, <1>12, <1>13, <1>14, ServerFrame
     DEF Next, System, EventLoop, TaskSteps, User

(* The server reads a request: what that does to the subscription and to   *)
(* the sizes; it may answer.                                               *)
Reads ==
    /\ net.up # <<>> /\ SrvInv' /\ Alive' = Alive /\ srv'.fresh = srv.fresh
    /\ srv'.sub = IF Request.type = "subscribe" /\ Request.region \in Alive THEN Request.region
                  ELSE IF Request.type = "unsubscribe" THEN NoRegion ELSE srv.sub
    /\ srv'.sizes = IF Request.type = "resize" /\ Request.region \in Alive
                    THEN [srv.sizes EXCEPT ![Request.region] = Request.size] ELSE srv.sizes
    /\ \E ms \in Seq(Messages) : (\A i \in DOMAIN ms : ms[i].type = "reply") /\ net' = Deliverable(Handled, ms)

LEMMA NothingDelivered == ASSUME NEW n \in NetType PROVE Deliverable(n, <<>>) = n
<1>1. n.inbound \o <<>> = n.inbound /\ n.inbound \in Seq(Messages)
  BY ConcatEmptySeq DEF NetType
<1> QED
  BY <1>1 DEF Deliverable, NetType

LEMMA ReplyIs ==
    ASSUME NEW v \in {"ok", "error"}, NEW id \in Nat
    PROVE  LET ms == <<Message("reply", <<>>, v, id)>>
           IN  ms \in Seq(Messages) /\ \A i \in DOMAIN ms : ms[i].type = "reply"
<1> DEFINE m == Message("reply", <<>>, v, id)
<1>0. <<>> \in Seq(Regions)
  OBVIOUS
<1>1. m \in Messages /\ m.type = "reply"
  BY <1>0 DEF Message, Messages
<1> HIDE DEF m
<1>2. <<m>> \in Seq(Messages) /\ \A i \in DOMAIN <<m>> : <<m>>[i] = m
  BY <1>1
<1> QED
  BY <1>1, <1>2 DEF m

LEMMA ReadsIs ==
    ASSUME TypesOK, SrvInv,
           HandleSubscribe \/ HandleUnsubscribe \/ HandleResize \/ HandleKill \/ HandleSpawn \/ HandleConnect
           \/ HandleQuestion \/ HandleUpgrade
    PROVE  Reads
<1> DEFINE x == Request
<1>0. net.up # <<>> /\ srv.me.at = "idle"
  BY DEF Next1, HandleSubscribe, HandleUnsubscribe, HandleResize, HandleKill, HandleSpawn, HandleConnect,
         HandleQuestion, HandleUpgrade
<1>1. x \in Requests /\ Handled \in NetType
  BY <1>0, HandledIs
<1>2. <<>> \in Seq(Messages) /\ DOMAIN <<>> = {} /\ Deliverable(Handled, <<>>) = Handled
  BY <1>1, NothingDelivered
<1>3. \A r : Exists(srv, r) <=> r \in Alive
  BY DEF Exists, Alive
<1>4. srv \in SrvType /\ ToSet(srv.regions) = Alive /\ Alive \subseteq Regions /\ srv.sub \in Alive \union {NoRegion}
  <2>1. srv \in SrvType /\ srv.regions \in Seq(Regions) /\ srv.sub \in Alive \union {NoRegion}
    BY DEF SrvInv, SrvType, ServerOK
  <2>2. ToSet(srv.regions) \subseteq Regions
    BY <2>1, ElementOfSeq, LenProperties DEF ToSet
  <2> QED
    BY <2>1, <2>2 DEF Alive
<1>5. ASSUME net' = Handled
      PROVE  \E ms \in Seq(Messages) : (\A i \in DOMAIN ms : ms[i].type = "reply") /\ net' = Deliverable(Handled, ms)
  BY <1>2, <1>5
<1> DEFINE Job2(j) == [srv EXCEPT !.me = j]
<1>6. ASSUME NEW j \in Job, j.at \in {"spawn", "create", "connected"},
             j.at = "create" => srv.regions = <<>> /\ ~Creating(srv.other), srv' = Job2(j)
      PROVE  SrvInv' /\ Alive' = Alive /\ srv'.fresh = srv.fresh /\ srv'.sub = srv.sub /\ srv'.sizes = srv.sizes
  <2>1. srv' \in SrvType
    BY <1>4, <1>6 DEF SrvType
  <2>2. /\ srv'.regions = srv.regions /\ srv'.fresh = srv.fresh /\ srv'.sub = srv.sub /\ srv'.sizes = srv.sizes
        /\ srv'.me = j /\ srv'.other = srv.other /\ srv'.defaults = srv.defaults
    BY <1>4, <1>6 DEF SrvType
  <2>3. SrvInv'
    BY <1>4, <1>6, <2>1, <2>2, SrvGoesOn DEF Creating
  <2> QED
    BY <2>2, <2>3 DEF Alive
<1> HIDE DEF Job2
<1>7. CASE HandleSubscribe
  <2> DEFINE r == IF Exists(srv, x.region) THEN x.region ELSE srv.sub
  <2>1. r \in Alive \union {NoRegion} /\ r \in Regions \union {NoRegion}
    BY <1>3, <1>4 DEF SrvType
  <2>2. srv' = [srv EXCEPT !.sub = r] /\ x.type = "subscribe" /\ net' = Handled
    BY <1>4, <1>7 DEF HandleSubscribe, Next1, Request, SrvType
  <2>3. r = IF x.region \in Alive THEN x.region ELSE srv.sub
    BY <1>3
  <2> HIDE DEF r, x
  <2>4. srv' \in SrvType
    BY <1>4, <2>1, <2>2 DEF SrvType
  <2>5. /\ srv'.regions = srv.regions /\ srv'.fresh = srv.fresh /\ srv'.sub = r /\ srv'.sizes = srv.sizes
        /\ srv'.me = srv.me /\ srv'.other = srv.other /\ srv'.defaults = srv.defaults
    BY <1>4, <2>2 DEF SrvType
  <2>6. SrvInv'
    BY <1>0, <1>4, <2>1, <2>4, <2>5, SrvGoesOn
  <2> QED
    BY <1>0, <1>5, <2>2, <2>3, <2>5, <2>6 DEF Reads, Alive, x
<1>8. CASE HandleUnsubscribe
  <2>2. srv' = [srv EXCEPT !.sub = NoRegion] /\ x.type = "unsubscribe" /\ net' = Handled
    BY <1>8 DEF HandleUnsubscribe, Next1, Request
  <2> HIDE DEF x
  <2>4. srv' \in SrvType
    BY <1>4, <2>2 DEF SrvType
  <2>5. /\ srv'.regions = srv.regions /\ srv'.fresh = srv.fresh /\ srv'.sub = NoRegion /\ srv'.sizes = srv.sizes
        /\ srv'.me = srv.me /\ srv'.other = srv.other /\ srv'.defaults = srv.defaults
    BY <1>4, <2>2 DEF SrvType
  <2>6. SrvInv'
    BY <1>0, <1>4, <2>4, <2>5, SrvGoesOn
  <2> QED
    BY <1>0, <1>5, <2>2, <2>5, <2>6 DEF Reads, Alive, x
<1>9. CASE HandleResize
  <2> DEFINE sizes == IF x.region \in Alive THEN [srv.sizes EXCEPT ![x.region] = x.size] ELSE srv.sizes
  <2>1. sizes \in [Regions -> Nat]
    BY <1>1, <1>4 DEF SrvType, Requests
  <2>2. srv' = [srv EXCEPT !.sizes = sizes] /\ x.type = "resize" /\ net' = Handled
    <3>1. x.type = "resize" /\ net' = Handled
      BY <1>9 DEF HandleResize, Next1, Request
    <3>2. srv' = IF x.region \in Alive THEN [srv EXCEPT !.sizes[x.region] = x.size] ELSE srv
      BY <1>3, <1>9 DEF HandleResize
    <3>3. srv = [srv EXCEPT !.sizes = srv.sizes]
      BY <1>4 DEF SrvType
    <3> QED
      BY <1>4, <3>1, <3>2, <3>3 DEF SrvType
  <2> HIDE DEF x
  <2>3. sizes = IF x.type = "resize" /\ x.region \in Alive
                THEN [srv.sizes EXCEPT ![x.region] = x.size] ELSE srv.sizes
    BY <2>2
  <2> HIDE DEF sizes
  <2>4. srv' \in SrvType
    BY <1>4, <2>1, <2>2 DEF SrvType
  <2>5. /\ srv'.regions = srv.regions /\ srv'.fresh = srv.fresh /\ srv'.sub = srv.sub /\ srv'.sizes = sizes
        /\ srv'.me = srv.me /\ srv'.other = srv.other /\ srv'.defaults = srv.defaults
    BY <1>4, <2>2 DEF SrvType
  <2>6. SrvInv'
    BY <1>0, <1>4, <2>4, <2>5, SrvGoesOn
  <2>7. srv'.sub = IF x.type = "subscribe" /\ x.region \in Alive THEN x.region
                   ELSE IF x.type = "unsubscribe" THEN NoRegion ELSE srv.sub
    BY <2>2, <2>5
  <2> QED
    BY <1>0, <1>5, <2>2, <2>3, <2>5, <2>6, <2>7 DEF Reads, Alive, x
<1>10. CASE HandleKill
  <2> DEFINE dying == IF x.region \in Alive THEN srv.dying \union {x.region} ELSE srv.dying
  <2>1. dying \in SUBSET Regions
    BY <1>4 DEF SrvType
  <2>2. srv' = [srv EXCEPT !.dying = dying] /\ x.type = "kill" /\ net' = Handled
    <3>1. srv = [srv EXCEPT !.dying = srv.dying]
      BY <1>4 DEF SrvType
    <3> QED
      BY <1>3, <1>10, <3>1 DEF HandleKill, Next1, Request
  <2> HIDE DEF x, dying
  <2>4. srv' \in SrvType
    BY <1>4, <2>1, <2>2 DEF SrvType
  <2>5. /\ srv'.regions = srv.regions /\ srv'.fresh = srv.fresh /\ srv'.sub = srv.sub /\ srv'.sizes = srv.sizes
        /\ srv'.me = srv.me /\ srv'.other = srv.other /\ srv'.defaults = srv.defaults
    BY <1>4, <2>2 DEF SrvType
  <2>6. SrvInv'
    BY <1>0, <1>4, <2>4, <2>5, SrvGoesOn
  <2> QED
    BY <1>0, <1>5, <2>2, <2>5, <2>6 DEF Reads, Alive, x
<1>11. CASE HandleSpawn
  <2> DEFINE j == [NoJob EXCEPT !.at = "spawn"]
  <2>1. j \in Job /\ j.at = "spawn"
    BY NoJobIs DEF Job
  <2>2. srv' = Job2(j) /\ x.type = "spawn" /\ net' = Handled
    BY <1>11 DEF HandleSpawn, Next1, Request, Job2
  <2> HIDE DEF x, j
  <2> QED
    BY <1>0, <1>5, <1>6, <2>1, <2>2 DEF Reads, x
<1>12. CASE HandleConnect
  <2> DEFINE j == findOrCreateSession(srv, x.size)
  <2>1. j \in Job /\ j.at \in {"create", "connected"} /\ (j.at = "create" => srv.regions = <<>>)
    BY <1>1, NoJobIs DEF findOrCreateSession, Job, Requests
  <2>2. srv' = Job2(j) /\ x.type = "connect" /\ net' = Handled /\ ~Creating(srv.other)
    BY <1>12 DEF HandleConnect, Next1, Request, Free, Creating, Job2
  <2> HIDE DEF x, j
  <2> QED
    BY <1>0, <1>5, <1>6, <2>1, <2>2 DEF Reads, x
<1>13. CASE HandleQuestion
  <2>1. PICK v \in {"ok", "error"} : net' = Deliverable(Handled, <<Message("reply", <<>>, v, x.id)>>)
    BY <1>13 DEF HandleQuestion
  <2>2. x.type \in {"check", "download"} /\ srv' = srv
    BY <1>13 DEF HandleQuestion, Next1, Request
  <2>3. x.id \in Nat
    BY <1>1 DEF Requests
  <2> DEFINE ms == <<Message("reply", <<>>, v, x.id)>>
  <2>4. ms \in Seq(Messages) /\ \A i \in DOMAIN ms : ms[i].type = "reply"
    BY <2>3, ReplyIs
  <2> HIDE DEF x, ms
  <2>5. \E m \in Seq(Messages) : (\A i \in DOMAIN m : m[i].type = "reply") /\ net' = Deliverable(Handled, m)
    BY <2>1, <2>4 DEF ms
  <2>6. SrvInv' /\ Alive' = Alive
    BY <2>2 DEF SrvInv, ServerOK, CreatedOnce, Alive, Old
  <2> QED
    BY <1>0, <2>2, <2>5, <2>6 DEF Reads, x
<1>14. CASE HandleUpgrade
  <2>1. PICK v \in {"ok", "error"} :
            /\ net' = Deliverable(Handled, <<Message("reply", <<>>, v, x.id)>>)
            /\ srv' = IF v = "ok" /\ srv.phase \notin {"starting", "shutting down"}
                      THEN [srv EXCEPT !.phase = "signalled"] ELSE srv
    BY <1>14 DEF HandleUpgrade
  <2>2. x.type = "upgrade"
    BY <1>14 DEF HandleUpgrade, Next1, Request
  <2>3. x.id \in Nat
    BY <1>1 DEF Requests
  <2> DEFINE ms == <<Message("reply", <<>>, v, x.id)>>
  <2>4. ms \in Seq(Messages) /\ \A i \in DOMAIN ms : ms[i].type = "reply"
    BY <2>3, ReplyIs
  <2> HIDE DEF x, ms
  <2>5. \E m \in Seq(Messages) : (\A i \in DOMAIN m : m[i].type = "reply") /\ net' = Deliverable(Handled, m)
    BY <2>1, <2>4 DEF ms
  <2>6. srv' \in SrvType
    BY <1>4, <2>1 DEF SrvType, Phases
  <2>7. /\ srv'.regions = srv.regions /\ srv'.fresh = srv.fresh /\ srv'.sub = srv.sub /\ srv'.sizes = srv.sizes
        /\ srv'.me = srv.me /\ srv'.other = srv.other /\ srv'.defaults = srv.defaults
    BY <1>4, <2>1 DEF SrvType
  <2>8. SrvInv'
    BY <1>0, <1>4, <2>6, <2>7, SrvGoesOn
  <2> QED
    BY <1>0, <2>2, <2>5, <2>7, <2>8 DEF Reads, Alive, x
<1> QED
  BY <1>7, <1>8, <1>9, <1>10, <1>11, <1>12, <1>13, <1>14

(* Regions come and go, and the client hears of it; or it is answered. *)
Publishes ==
    /\ SrvInv'
    /\ Alive' \subseteq Alive \union {srv.fresh} /\ srv.fresh <= srv'.fresh
    /\ srv'.sub = IF srv.sub \in Alive' THEN srv.sub ELSE NoRegion
    /\ \A r \in Alive : srv'.sizes[r] = srv.sizes[r]
    /\ \E ms \in Seq(Messages) :
          /\ net' = Deliverable(net, ms)
          /\ \A i \in DOMAIN ms :
                /\ IsTree(ms[i]) => Shown(ms[i]) = Alive'
                /\ ms[i].type = "spawned" => ms[i].value \in Regions
          /\ Alive' # Alive => Len(ms) \in DOMAIN ms /\ IsTree(ms[Len(ms)])

LEMMA TreeMessageIs ==
    ASSUME NEW s \in SrvType
    PROVE  TreeMessage(s) \in Messages /\ IsTree(TreeMessage(s)) /\ Shown(TreeMessage(s)) = ToSet(s.regions)
<1>1. s.regions \in Seq(Regions) /\ s.phase \in Phases
  BY DEF SrvType
<1> QED
  BY <1>1 DEF TreeMessage, Message, Messages, IsTree, Shown

LEMMA ServerIs ==
    ASSUME SrvInv
    PROVE  /\ srv \in SrvType /\ Alive = ToSet(srv.regions) /\ Alive \subseteq Regions /\ Alive \subseteq Old
           /\ srv.fresh \in 1 .. MaxRegions + 1 /\ MaxRegions \in Nat /\ srv.fresh \notin Old /\ srv.fresh \notin Alive
           /\ srv.sub \in Alive \union {NoRegion} /\ NoRegion \notin Alive
           /\ srv.defaults \subseteq Old
<1>1. srv \in SrvType /\ srv.regions \in Seq(Regions) /\ srv.fresh \in 1 .. MaxRegions + 1 /\ MaxRegions \in Nat
  BY ClientAssumption DEF SrvInv, SrvType
<1>2. Alive \subseteq Regions
  BY <1>1, ElementOfSeq, LenProperties DEF Alive, ToSet
<1>3. srv.fresh \notin Old
  BY <1>1 DEF Old
<1> QED
  BY <1>1, <1>2, <1>3, ClientAssumption DEF SrvInv, ServerOK, Alive

LEMMA RegionIsBorn ==
    ASSUME SrvInv, srv' \in SrvType, ToSet(srv'.regions) = Alive \union {srv.fresh}, srv'.fresh = srv.fresh + 1,
           srv'.sub = srv.sub, srv'.me.at = "spawned" => srv'.me.region \in Regions,
           NEW b \in BOOLEAN, srv'.defaults = IF b THEN srv.defaults \union {srv.fresh} ELSE srv.defaults,
           b => (Creating(srv.me) \/ Creating(srv.other)) /\ ~Creating(srv'.me) /\ ~Creating(srv'.other),
           Creating(srv'.me) => Creating(srv.me), Creating(srv'.other) => Creating(srv.other)
    PROVE  SrvInv'
<1>1. Alive' = Alive \union {srv.fresh} /\ Old' = Old \union {srv.fresh}
  <2>1. 1 .. (srv.fresh + 1) - 1 = (1 .. srv.fresh - 1) \union {srv.fresh}
    BY ServerIs
  <2> QED
    BY <2>1 DEF Alive, Old
<1>2. ServerOK'
  BY <1>1, ServerIs DEF ServerOK
<1>3. CASE b
  <2>1. srv.defaults \intersect Alive = {}
    BY <1>3 DEF SrvInv, CreatedOnce
  <2>2. srv'.defaults \intersect Alive' \subseteq {srv.fresh}
    BY <1>1, <1>3, <2>1, ServerIs
  <2> QED
    BY <1>2, <1>3, <2>2 DEF SrvInv, CreatedOnce
<1>4. CASE ~b
  <2>1. srv'.defaults \intersect Alive' = srv.defaults \intersect Alive
    BY <1>1, <1>4, ServerIs
  <2> QED
    BY <1>2, <1>4, <2>1 DEF SrvInv, CreatedOnce
<1> QED
  BY <1>3, <1>4

(* The messages of a step in which a region is born. *)
LEMMA BirthPublished ==
    ASSUME SrvInv, SrvInv', net \in NetType, srv.fresh \in Regions, NEW s \in SrvType,
           ToSet(s.regions) = Alive \union {srv.fresh}, srv'.regions = s.regions, srv'.fresh = srv.fresh + 1,
           srv'.sub = srv.sub, srv'.sizes = s.sizes, \A r \in Regions \ {srv.fresh} : s.sizes[r] = srv.sizes[r],
           \/ net' = Deliverable(net, <<TreeMessage(s)>>)
           \/ net' = Deliverable(net, <<Message("spawned", <<>>, srv.fresh, 0), TreeMessage(s)>>)
    PROVE  Publishes
<1> DEFINE tree == TreeMessage(s)
           answer == Message("spawned", <<>>, srv.fresh, 0)
<1>1. tree \in Messages /\ IsTree(tree) /\ Shown(tree) = Alive'
  BY TreeMessageIs DEF Alive
<1>2. tree.type = "tree"
  BY <1>1 DEF IsTree
<1>3. answer \in Messages /\ answer.type = "spawned" /\ answer.value = srv.fresh
  <2>1. <<>> \in Seq(Regions)
    OBVIOUS
  <2> QED
    BY <2>1 DEF Message, Messages
<1> HIDE DEF tree, answer
<1>4. \E ms \in Seq(Messages) :
          /\ net' = Deliverable(net, ms)
          /\ \A i \in DOMAIN ms :
                /\ IsTree(ms[i]) => Shown(ms[i]) = Alive'
                /\ ms[i].type = "spawned" => ms[i].value \in Regions
          /\ Alive' # Alive => Len(ms) \in DOMAIN ms /\ IsTree(ms[Len(ms)])
  <2>1. CASE net' = Deliverable(net, <<tree>>)
    <3> DEFINE ms == <<tree>>
    <3>1. ms \in Seq(Messages) /\ DOMAIN ms = {1} /\ Len(ms) = 1 /\ ms[1] = tree
      BY <1>1
    <3> HIDE DEF ms
    <3>2. net' = Deliverable(net, ms)
      BY <2>1 DEF ms
    <3> QED
      BY <1>1, <1>2, <3>1, <3>2
  <2>2. CASE net' = Deliverable(net, <<answer, tree>>)
    <3> DEFINE ms == <<answer, tree>>
    <3>1. ms \in Seq(Messages) /\ DOMAIN ms = {1, 2} /\ Len(ms) = 2 /\ ms[1] = answer /\ ms[2] = tree
      BY <1>1, <1>3
    <3> HIDE DEF ms
    <3>2. net' = Deliverable(net, ms)
      BY <2>2 DEF ms
    <3>3. ~IsTree(answer)
      BY <1>3 DEF IsTree
    <3> QED
      BY <1>1, <1>2, <1>3, <3>1, <3>2, <3>3
  <2> QED
    BY <2>1, <2>2 DEF tree, answer
<1>5. Alive' = Alive \union {srv.fresh}
  BY DEF Alive
<1>6. \A r \in Alive : srv'.sizes[r] = srv.sizes[r]
  BY ServerIs
<1>7. srv'.sub = IF srv.sub \in Alive' THEN srv.sub ELSE NoRegion
  BY <1>5, ServerIs
<1>8. srv.fresh <= srv'.fresh
  BY ServerIs
<1> QED
  BY <1>4, <1>5, <1>6, <1>7, <1>8 DEF Publishes

LEMMA PublishesIs ==
    ASSUME TypesOK, SrvInv,
           Spawn \/ Answer \/ OtherAsks \/ OtherSpawns \/ OtherDone \/ RegionExits \/ UpgradePhase
    PROVE  Publishes
<1>0. srv \in SrvType /\ net \in NetType /\ srv.me \in Job /\ srv.other \in Job
  BY DEF TypesOK, SrvType
<1>01. \A n : n = srv.fresh => srv.fresh <= n
  BY ServerIs
<1>1. \A m \in Messages : <<m>> \in Seq(Messages) /\ DOMAIN <<m>> = {1} /\ Len(<<m>>) = 1 /\ <<m>>[1] = m
  OBVIOUS
<1> DEFINE Told(ms) == /\ net' = Deliverable(net, ms)
                       /\ \A i \in DOMAIN ms :
                             /\ IsTree(ms[i]) => Shown(ms[i]) = Alive'
                             /\ ms[i].type = "spawned" => ms[i].value \in Regions
                       /\ Alive' # Alive => Len(ms) \in DOMAIN ms /\ IsTree(ms[Len(ms)])
<1>2. ASSUME NEW m \in Messages, net' = Deliverable(net, <<m>>), IsTree(m) => Shown(m) = Alive',
             m.type = "spawned" => m.value \in Regions, Alive' # Alive => IsTree(m)
      PROVE  \E ms \in Seq(Messages) : Told(ms)
  <2> DEFINE q == <<m>>
  <2>1. q \in Seq(Messages) /\ DOMAIN q = {1} /\ Len(q) = 1 /\ q[1] = m /\ net' = Deliverable(net, q)
    BY <1>1, <1>2
  <2> HIDE DEF q
  <2> QED
    BY <1>2, <2>1
<1>3. ASSUME net' = net, Alive' = Alive PROVE \E ms \in Seq(Messages) : Told(ms)
  <2>1. <<>> \in Seq(Messages) /\ DOMAIN <<>> = {} /\ net' = Deliverable(net, <<>>)
    BY <1>0, <1>3, NothingDelivered
  <2> QED
    BY <1>3, <2>1
\* A job is given up or taken; the regions stay.
<1>4. ASSUME NEW j \in Job, NEW k \in Job, srv' = [srv EXCEPT !.me = j, !.other = k],
             j.at # "spawned", j = srv.me \/ j = NoJob, k = srv.other \/ j = srv.me,
             k.at = "create" => srv.other.at = "create" \/ (srv.regions = <<>> /\ srv.me.at # "create")
      PROVE  /\ SrvInv' /\ Alive' = Alive /\ srv'.fresh = srv.fresh /\ srv'.sizes = srv.sizes
             /\ srv'.sub = IF srv.sub \in Alive' THEN srv.sub ELSE NoRegion
  <2>1. srv' \in SrvType
    BY <1>0, <1>4 DEF SrvType
  <2>2. /\ srv'.regions = srv.regions /\ srv'.fresh = srv.fresh /\ srv'.sub = srv.sub /\ srv'.sizes = srv.sizes
        /\ srv'.me = j /\ srv'.other = k /\ srv'.defaults = srv.defaults
    BY <1>0, <1>4 DEF SrvType
  <2>3. Alive' = Alive
    BY <2>2 DEF Alive
  <2>4. SrvInv'
    BY <1>4, <2>1, <2>2, SrvGoesOn, ServerIs, NoJobIs DEF Creating
  <2> QED
    BY <2>2, <2>3, <2>4, ServerIs
<1> HIDE DEF Told
<1>5. CASE Answer
  <2> DEFINE m == Message(srv.me.at, <<>>, srv.me.region, 0)
  <2>1. srv.me.at \in {"spawned", "connected"} /\ srv' = [srv EXCEPT !.me = NoJob] /\ net' = Deliverable(net, <<m>>)
    BY <1>5 DEF Answer
  <2>2. <<>> \in Seq(Regions)
    OBVIOUS
  <2>3. srv.me.region \in Regions \union {NoRegion} /\ (srv.me.at = "spawned" => srv.me.region \in Regions)
    BY <1>0 DEF Job, SrvInv, ServerOK
  <2>4. m \in Messages /\ ~IsTree(m) /\ (m.type = "spawned" => m.value \in Regions)
    BY <2>1, <2>2, <2>3 DEF Message, Messages, IsTree
  <2> HIDE DEF m
  <2>5. srv' = [srv EXCEPT !.me = NoJob, !.other = srv.other] /\ srv' \in SrvType
    BY <1>0, <2>1, NoJobIs DEF SrvType
  <2>6. /\ srv'.regions = srv.regions /\ srv'.fresh = srv.fresh /\ srv'.sub = srv.sub /\ srv'.sizes = srv.sizes
        /\ srv'.me = NoJob /\ srv'.other = srv.other /\ srv'.defaults = srv.defaults
    BY <1>0, <2>1 DEF SrvType
  <2>7. SrvInv'
    BY <2>5, <2>6, SrvGoesOn, ServerIs, NoJobIs DEF Creating
  <2>8. Alive' = Alive
    BY <2>6 DEF Alive
  <2>9. \E ms \in Seq(Messages) : Told(ms)
    BY <1>2, <2>1, <2>4, <2>8
  <2> QED
    BY <2>6, <2>7, <2>8, <2>9, ServerIs DEF Publishes, Told
<1>6. CASE OtherAsks
  <2> DEFINE k == findOrCreateSession(srv, DefaultSize)
             l == [NoJob EXCEPT !.at = "spawn"]
  <2>1. k \in Job /\ (k.at = "create" => srv.regions = <<>>) /\ l \in Job /\ l.at = "spawn"
    BY NoJobIs DEF findOrCreateSession, Job, DefaultSize
  <2>2. PICK x \in {k, l} : srv' = [srv EXCEPT !.other = x] /\ (x.at = "create" => Free(srv)) /\ net' = net
    BY <1>6, <2>1 DEF OtherAsks
  <2>3. x \in Job /\ (x.at = "create" => srv.regions = <<>> /\ srv.me.at # "create")
    BY <2>1, <2>2 DEF Free
  <2> HIDE DEF k, l
  <2>4. srv' \in SrvType
    BY <1>0, <2>2, <2>3 DEF SrvType
  <2>5. /\ srv'.regions = srv.regions /\ srv'.fresh = srv.fresh /\ srv'.sub = srv.sub /\ srv'.sizes = srv.sizes
        /\ srv'.me = srv.me /\ srv'.other = x /\ srv'.defaults = srv.defaults
    BY <1>0, <2>2 DEF SrvType
  <2>6. SrvInv'
    BY <2>3, <2>4, <2>5, SrvGoesOn, ServerIs DEF Creating, SrvInv, ServerOK
  <2>7. Alive' = Alive
    BY <2>5 DEF Alive
  <2>8. \E ms \in Seq(Messages) : Told(ms)
    BY <1>3, <2>2, <2>7
  <2> QED
    BY <2>5, <2>6, <2>7, <2>8, ServerIs DEF Publishes, Told
<1>7. CASE OtherDone
  <2>1. srv' = [srv EXCEPT !.other = NoJob] /\ net' = net
    BY <1>7 DEF OtherDone
  <2>2. srv' \in SrvType
    BY <1>0, <2>1, NoJobIs DEF SrvType
  <2>3. /\ srv'.regions = srv.regions /\ srv'.fresh = srv.fresh /\ srv'.sub = srv.sub /\ srv'.sizes = srv.sizes
        /\ srv'.me = srv.me /\ srv'.other = NoJob /\ srv'.defaults = srv.defaults
    BY <1>0, <2>1 DEF SrvType
  <2>4. SrvInv'
    BY <2>2, <2>3, SrvGoesOn, ServerIs, NoJobIs DEF Creating, SrvInv, ServerOK
  <2>5. Alive' = Alive
    BY <2>3 DEF Alive
  <2>6. \E ms \in Seq(Messages) : Told(ms)
    BY <1>3, <2>1, <2>5
  <2> QED
    BY <2>3, <2>4, <2>5, <2>6, ServerIs DEF Publishes, Told
<1>8. CASE UpgradePhase
  <2>1. PICK p \in {"starting", "failed", "shutting down"} : srv' = [srv EXCEPT !.phase = p]
    BY <1>8 DEF UpgradePhase
  <2>2. srv' \in SrvType
    BY <1>0, <2>1 DEF SrvType, Phases
  <2>3. /\ srv'.regions = srv.regions /\ srv'.fresh = srv.fresh /\ srv'.sub = srv.sub /\ srv'.sizes = srv.sizes
        /\ srv'.me = srv.me /\ srv'.other = srv.other /\ srv'.defaults = srv.defaults
    BY <1>0, <2>1 DEF SrvType
  <2>4. SrvInv'
    BY <2>2, <2>3, SrvGoesOn, ServerIs DEF Creating, SrvInv, ServerOK
  <2>5. Alive' = Alive
    BY <2>3 DEF Alive
  <2>6. TreeMessage(srv') \in Messages /\ IsTree(TreeMessage(srv')) /\ Shown(TreeMessage(srv')) = Alive'
    BY <2>2, TreeMessageIs DEF Alive
  <2>7. net' = Deliverable(net, <<TreeMessage(srv')>>)
    BY <1>8 DEF UpgradePhase
  <2>8. \E ms \in Seq(Messages) : Told(ms)
    BY <1>2, <2>6, <2>7 DEF IsTree
  <2>9. srv'.sub = IF srv.sub \in Alive' THEN srv.sub ELSE NoRegion
    BY <2>3, <2>5, ServerIs
  <2>10. srv.fresh <= srv'.fresh
    BY <1>01, <2>3
  <2> QED
    BY <2>3, <2>4, <2>5, <2>8, <2>9, <2>10 DEF Publishes, Told
<1>9. CASE RegionExits
  <2>1. PICK r \in ToSet(srv.regions) : srv' = Exited(srv, r) /\ net' = Deliverable(net, <<TreeMessage(Exited(srv, r))>>)
    BY <1>9 DEF RegionExits
  <2>2. r \in Regions /\ Alive = ToSet(srv.regions)
    BY ServerIs
  <2>3. /\ srv' \in SrvType /\ ToSet(srv'.regions) = Alive \ {r} /\ srv'.fresh = srv.fresh
        /\ srv'.sub = (IF srv.sub = r THEN NoRegion ELSE srv.sub) /\ srv'.me = srv.me /\ srv'.other = srv.other
        /\ srv'.defaults = srv.defaults /\ srv'.sizes = srv.sizes
    BY <1>0, <2>1, <2>2, ExitedIs
  <2>4. Alive' = Alive \ {r}
    BY <2>3 DEF Alive
  <2>5. SrvInv'
    BY <2>3, <2>4, ServerIs DEF SrvInv, ServerOK, CreatedOnce, Old
  <2>6. TreeMessage(srv') \in Messages /\ IsTree(TreeMessage(srv')) /\ Shown(TreeMessage(srv')) = Alive'
    BY <2>3, TreeMessageIs DEF Alive
  <2>7. \E ms \in Seq(Messages) : Told(ms)
    BY <1>2, <2>1, <2>6 DEF IsTree
  <2>8. srv'.sub = IF srv.sub \in Alive' THEN srv.sub ELSE NoRegion
    BY <2>2, <2>3, <2>4, ServerIs
  <2> QED
    BY <2>3, <2>4, <2>5, <2>7, <2>8, ServerIs DEF Publishes, Told
<1>10. CASE OtherSpawns
  <2> DEFINE b == srv.other.at = "create"
             s == WithRegion(srv, srv.other.size, b)
  <2>1. srv.fresh \in Regions /\ srv' = [s EXCEPT !.other = NoJob] /\ net' = Deliverable(net, <<TreeMessage(s)>>)
    BY <1>10 DEF OtherSpawns, Spawnable
  <2>2. srv.other.size \in Nat /\ b \in BOOLEAN
    BY <1>0 DEF Job
  <2> HIDE DEF b
  <2>3. /\ s \in SrvType /\ ToSet(s.regions) = Alive \union {srv.fresh}
        /\ s.fresh = srv.fresh + 1 /\ s.sub = srv.sub /\ s.me = srv.me /\ s.other = srv.other
        /\ s.defaults = (IF b THEN srv.defaults \union {srv.fresh} ELSE srv.defaults)
        /\ \A r \in Regions \ {srv.fresh} : s.sizes[r] = srv.sizes[r]
    <3>1. LET u == WithRegion(srv, srv.other.size, b)
          IN  /\ u \in SrvType /\ ToSet(u.regions) = ToSet(srv.regions) \union {srv.fresh}
              /\ u.fresh = srv.fresh + 1 /\ u.sub = srv.sub /\ u.me = srv.me /\ u.other = srv.other
              /\ u.defaults = (IF b THEN srv.defaults \union {srv.fresh} ELSE srv.defaults)
              /\ \A r \in Regions \ {srv.fresh} : u.sizes[r] = srv.sizes[r]
      BY <1>0, <2>1, <2>2, WithRegionIs, ZenonT(40)
    <3> QED
      BY <3>1 DEF Alive
  <2> HIDE DEF s
  <2>4. srv' \in SrvType
    BY <2>1, <2>3, NoJobIs DEF SrvType
  <2>5. /\ srv'.regions = s.regions /\ srv'.fresh = srv.fresh + 1 /\ srv'.sub = srv.sub /\ srv'.sizes = s.sizes
        /\ srv'.me = srv.me /\ srv'.other = NoJob /\ srv'.defaults = s.defaults
    BY <2>1, <2>3 DEF SrvType
  <2>6. b => Creating(srv.other) /\ ~Creating(srv.me)
    BY DEF Creating, SrvInv, CreatedOnce, b
  <2>7. SrvInv'
    <3>1. srv'.me.at = "spawned" => srv'.me.region \in Regions
      BY <2>5 DEF SrvInv, ServerOK
    <3>2. ToSet(srv'.regions) = Alive \union {srv.fresh}
      BY <2>3, <2>5
    <3>3. srv'.defaults = IF b THEN srv.defaults \union {srv.fresh} ELSE srv.defaults
      BY <2>3, <2>5
    <3>4. ~Creating(srv'.other) /\ (Creating(srv'.me) => Creating(srv.me))
      BY <2>5, NoJobIs DEF Creating
    <3> QED
      BY <2>2, <2>4, <2>5, <2>6, <3>1, <3>2, <3>3, <3>4, RegionIsBorn
  <2> QED
    BY <1>0, <2>1, <2>3, <2>5, <2>7, BirthPublished
<1>11. CASE Spawn
  <2> DEFINE b == srv.me.at = "create"
             s == WithRegion(srv, srv.me.size, b)
             at == IF srv.me.at = "spawn" THEN "spawned" ELSE "connected"
             j == [s.me EXCEPT !.at = at, !.region = srv.fresh]
  <2>1. srv.fresh \in Regions
    BY <1>11 DEF Spawn, Spawnable
  <2>2. srv.me.size \in Nat /\ b \in BOOLEAN
    BY <1>0 DEF Job
  <2> HIDE DEF b
  <2>3. /\ s \in SrvType /\ ToSet(s.regions) = Alive \union {srv.fresh}
        /\ s.fresh = srv.fresh + 1 /\ s.sub = srv.sub /\ s.me = srv.me /\ s.other = srv.other
        /\ s.defaults = (IF b THEN srv.defaults \union {srv.fresh} ELSE srv.defaults)
        /\ \A r \in Regions \ {srv.fresh} : s.sizes[r] = srv.sizes[r]
    <3>1. LET u == WithRegion(srv, srv.me.size, b)
          IN  /\ u \in SrvType /\ ToSet(u.regions) = ToSet(srv.regions) \union {srv.fresh}
              /\ u.fresh = srv.fresh + 1 /\ u.sub = srv.sub /\ u.me = srv.me /\ u.other = srv.other
              /\ u.defaults = (IF b THEN srv.defaults \union {srv.fresh} ELSE srv.defaults)
              /\ \A r \in Regions \ {srv.fresh} : u.sizes[r] = srv.sizes[r]
      BY <1>0, <2>1, <2>2, WithRegionIs, ZenonT(40)
    <3> QED
      BY <3>1 DEF Alive
  <2>4. \/ srv' = [s EXCEPT !.me.at = at, !.me.region = srv.fresh] /\ net' = Deliverable(net, <<TreeMessage(s)>>)
        \/ /\ srv' = [s EXCEPT !.me = NoJob] /\ ~b
           /\ net' = Deliverable(net, <<Message("spawned", <<>>, srv.fresh, 0), TreeMessage(s)>>)
    BY <1>11 DEF Spawn, b
  <2>5. j \in Job /\ j.at \in {"spawned", "connected"} /\ j.region = srv.fresh
    BY <1>0, <2>1, <2>3 DEF Job
  <2> HIDE DEF s
  <2>6. PICK x \in {j, NoJob} : srv' = [s EXCEPT !.me = x]
    <3>1. [s EXCEPT !.me.at = at, !.me.region = srv.fresh] = [s EXCEPT !.me = j]
      BY <2>3 DEF SrvType
    <3> QED
      BY <2>4, <3>1
  <2> HIDE DEF j, at
  <2>7. srv' \in SrvType
    BY <2>3, <2>5, <2>6, NoJobIs DEF SrvType
  <2>8. /\ srv'.regions = s.regions /\ srv'.fresh = srv.fresh + 1 /\ srv'.sub = srv.sub /\ srv'.sizes = s.sizes
        /\ srv'.me = x /\ srv'.other = srv.other /\ srv'.defaults = s.defaults
    BY <2>3, <2>6 DEF SrvType
  <2>9. b => Creating(srv.me) /\ ~Creating(srv.other)
    BY DEF Creating, SrvInv, CreatedOnce, b
  <2>10. SrvInv'
    <3>1. srv'.me.at = "spawned" => srv'.me.region \in Regions
      BY <2>1, <2>5, <2>8, NoJobIs
    <3>2. ToSet(srv'.regions) = Alive \union {srv.fresh}
      BY <2>3, <2>8
    <3>3. srv'.defaults = IF b THEN srv.defaults \union {srv.fresh} ELSE srv.defaults
      BY <2>3, <2>8
    <3>4. ~Creating(srv'.me) /\ (Creating(srv'.other) => Creating(srv.other))
      BY <2>5, <2>8, NoJobIs DEF Creating
    <3>5. b => ~Creating(srv'.other)
      BY <2>8, <2>9
    <3> QED
      BY <2>2, <2>7, <2>8, <2>9, <3>1, <3>2, <3>3, <3>4, <3>5, RegionIsBorn
  <2> QED
    BY <1>0, <2>1, <2>3, <2>4, <2>8, <2>10, BirthPublished
<1> QED
  BY <1>5, <1>6, <1>7, <1>8, <1>9, <1>10, <1>11

(* The connection breaks; the server may have started anew. *)
Cuts ==
    /\ SrvInv' /\ srv'.fresh = srv.fresh /\ srv'.sub = NoRegion
    /\ Alive' \subseteq Alive /\ \A r \in Alive' : srv'.sizes[r] = srv.sizes[r]
    /\ \E k \in 0 .. Len(net.inbound) :
           net' = [net EXCEPT !.link = "broken", !.up = <<>>, !.inbound = SubSeq(net.inbound, 1, k)]

(* Breaks, for a server s that is this one or another. *)
LEMMA BrokenIs ==
    ASSUME NEW s \in SrvType, NEW k, srv.me \in Job, net \in NetType, Broken(s, net, k)
    PROVE  /\ srv' \in SrvType /\ srv'.regions = s.regions /\ srv'.sub = NoRegion /\ srv'.sizes = s.sizes
           /\ srv'.fresh = s.fresh /\ srv'.defaults = s.defaults /\ srv'.me = NoJob
           /\ srv'.other = IF s.me = NoJob THEN s.other ELSE s.me
           /\ net' = [net EXCEPT !.link = "broken", !.up = <<>>, !.inbound = SubSeq(net.inbound, 1, k)]
<1> DEFINE o == IF s.me = NoJob THEN s.other ELSE s.me
<1>1. o \in Job
  BY DEF SrvType
<1>2. srv' = [s EXCEPT !.sub = NoRegion, !.me = NoJob, !.other = o]
  BY DEF Broken, SrvType
<1>3. net' = [net EXCEPT !.link = "broken", !.up = <<>>, !.inbound = SubSeq(net.inbound, 1, k)]
  BY DEF Broken, NetType
<1> HIDE DEF o
<1>4. srv' \in SrvType
  BY <1>1, <1>2, NoJobIs DEF SrvType
<1>5. /\ srv'.regions = s.regions /\ srv'.sub = NoRegion /\ srv'.sizes = s.sizes
      /\ srv'.fresh = s.fresh /\ srv'.defaults = s.defaults /\ srv'.me = NoJob /\ srv'.other = o
  BY <1>2 DEF SrvType
<1> QED
  BY <1>3, <1>4, <1>5 DEF o

LEMMA CutsIs ==
    ASSUME TypesOK, SrvInv, Breaks \/ Restarts \/ TakesOver
    PROVE  Cuts
<1>0. srv \in SrvType /\ net \in NetType /\ srv.me \in Job /\ Len(net.inbound) \in 0 .. Len(net.inbound)
  <2>1. net.inbound \in Seq(Messages)
    BY DEF TypesOK, NetType
  <2>2. Len(net.inbound) \in Nat
    BY <2>1, LenProperties
  <2> QED
    BY <2>2 DEF TypesOK, SrvType
\* The server goes on.
<1>1. ASSUME NEW s \in SrvType, NEW k \in 0 .. Len(net.inbound), Broken(s, net, k),
             s.regions = srv.regions, s.sizes = srv.sizes, s.fresh = srv.fresh, s.defaults = srv.defaults,
             s.me = srv.me, s.other = srv.other
      PROVE  Cuts
  <2>1. /\ srv' \in SrvType /\ srv'.regions = srv.regions /\ srv'.sub = NoRegion /\ srv'.sizes = srv.sizes
        /\ srv'.fresh = srv.fresh /\ srv'.defaults = srv.defaults /\ srv'.me = NoJob
        /\ srv'.other = IF srv.me = NoJob THEN srv.other ELSE srv.me
        /\ net' = [net EXCEPT !.link = "broken", !.up = <<>>, !.inbound = SubSeq(net.inbound, 1, k)]
    BY <1>0, <1>1, BrokenIs
  <2>2. Creating(srv'.other) => Creating(srv.other) \/ (Creating(srv.me) /\ ~Creating(srv'.me))
    BY <2>1, NoJobIs DEF Creating
  <2>3. SrvInv'
    BY <2>1, <2>2, NoJobIs, SrvGoesOn, ServerIs DEF Creating
  <2> QED
    BY <2>1, <2>3 DEF Cuts, Alive
<1>2. CASE Breaks
  <2>1. PICK k \in 0 .. Len(net.inbound) : Broken(srv, net, k)
    BY <1>2 DEF Breaks
  <2> QED
    BY <1>0, <1>1, <2>1
<1>3. CASE TakesOver
  <2> DEFINE s == [srv EXCEPT !.phase = ""]
  <2>1. s \in SrvType
    BY <1>0 DEF SrvType, Phases
  <2>2. s.regions = srv.regions /\ s.sizes = srv.sizes /\ s.fresh = srv.fresh /\ s.defaults = srv.defaults
        /\ s.me = srv.me /\ s.other = srv.other
    BY <1>0 DEF SrvType
  <2>3. Broken(s, net, Len(net.inbound))
    BY <1>3 DEF TakesOver
  <2> HIDE DEF s
  <2> QED
    BY <1>0, <1>1, <2>1, <2>2, <2>3
<1>4. CASE Restarts
  <2> DEFINE s == [NewServer EXCEPT !.fresh = srv.fresh]
  <2>1. PICK k \in 0 .. Len(net.inbound) : Broken(s, net, k)
    BY <1>4 DEF Restarts
  <2>2. /\ s \in SrvType /\ s.regions = <<>> /\ ToSet(s.regions) = {} /\ s.defaults = {}
        /\ s.fresh = srv.fresh /\ s.me = NoJob /\ s.other = NoJob
    BY NewServerIs, ServerIs
  <2> HIDE DEF s
  <2>3. /\ srv' \in SrvType /\ srv'.regions = s.regions /\ srv'.sub = NoRegion /\ srv'.fresh = srv.fresh
        /\ srv'.defaults = {} /\ srv'.me = NoJob /\ srv'.other = NoJob
        /\ net' = [net EXCEPT !.link = "broken", !.up = <<>>, !.inbound = SubSeq(net.inbound, 1, k)]
    BY <1>0, <2>1, <2>2, BrokenIs
  <2>4. Alive' = {}
    BY <2>2, <2>3 DEF Alive
  <2>5. SrvInv'
    BY <2>3, <2>4, NoJobIs DEF SrvInv, ServerOK, CreatedOnce, Creating
  <2> QED
    BY <2>3, <2>4, <2>5 DEF Cuts
<1> QED
  BY <1>2, <1>3, <1>4

-----------------------------------------------------------------------------
(* The client. *)

\* Requests that change neither the subscription nor a size.
Quiet == {x \in Requests : x.type \in {"connect", "kill", "spawn", "check", "upgrade", "download"}}

UiInv == ui \in UiType /\ SessionOK /\ ChosenOK

(* The connection that a step of the client starts from: one message of it *)
(* may have been read, and the store has the tree of that.                 *)
From(n) ==
    /\ n \in NetType /\ n.out = net.out /\ n.up = net.up /\ n.link = net.link
    /\ \/ n.inbound = net.inbound /\ ui'.tree = ui.tree
       \/ /\ net.inbound # <<>> /\ n.inbound = Tail(net.inbound)
          /\ ToSet(ui'.tree.regions) = IF IsTree(Head(net.inbound)) THEN Shown(Head(net.inbound))
                                       ELSE ToSet(ui.tree.regions)

(* How a step of the client changes what is shown, with what it sends:     *)
(* the same region is shown, at the same size or at another one; another   *)
(* region is; or none is, because none is left or the user has left.       *)
Stayed(sends) ==
    /\ sends \in Seq(Quiet) /\ Active' = Active /\ (ui'.size = ui.size \/ Active = NoRegion)
    /\ InTouch' => InTouch \/ Active = NoRegion

Resized(sends) ==
    /\ Active' = Active /\ (InTouch' => InTouch)
    /\ sends \in Seq(Requests) /\ \A x \in ToSet(sends) : x.type = "resize" /\ x.size = ui'.size
    /\ \E x \in ToSet(sends) : x.region = Active

Steered(sends) ==
    HasSession' /\ Session'.tabs # <<>> /\ \E pre \in Seq(Plain) : sends = pre \o Activate(Session')

Emptied(sends) ==
    /\ Active' = NoRegion /\ sends = <<>>
    /\ net.inbound # <<>> /\ IsTree(Head(net.inbound)) /\ Shown(Head(net.inbound)) = {}

Left(sends) ==
    \/ Active' = NoRegion /\ \E pre \in Seq(Quiet), x \in Leaving : sends = pre \o <<x>>
    \/ Active' = Active /\ Active # NoRegion /\ loop' = "stopped" /\ sends \in Seq(Requests) /\ Asked(sends) = {}

Changes(sends) ==
    Stayed(sends) \/ Resized(sends) \/ Steered(sends) \/ Emptied(sends) \/ Left(sends)

Moves ==
    /\ srv' = srv /\ UiInv'
    /\ \E n \in NetType, sends \in Seq(Requests) :
          From(n) /\ net' = Send(n, sends) /\ Asked(sends) \subseteq ToSet(ui'.tree.regions) /\ Changes(sends)

LEMMA QuietIs ==
    ASSUME NEW q \in Seq(Quiet)
    PROVE  q \in Seq(Requests) /\ ToSet(q) \subseteq Quiet /\ Asked(q) = {}
<1>1. Quiet \subseteq Requests
  BY DEF Quiet
<1>2. q \in Seq(Requests)
  BY <1>1, SeqMonotonic
<1>3. ToSet(q) \subseteq Quiet
  BY ElementOfSeq, LenProperties DEF ToSet
<1>4. Asked(q) = {}
  BY <1>3 DEF Asked, Quiet
<1> QED
  BY <1>2, <1>3, <1>4

LEMMA NoneSent == <<>> \in Seq(Quiet) /\ <<>> \in Seq(Requests) /\ Asked(<<>>) = {} /\ ToSet(<<>>) = {}
  BY DEF Asked, ToSet

(* Server.Send keeps the rest of the connection as it is. *)
LEMMA SendType ==
    ASSUME NEW n \in NetType, NEW sends \in Seq(Requests)
    PROVE  /\ Send(n, sends) \in NetType
           /\ Send(n, sends).up = n.up /\ Send(n, sends).link = n.link /\ Send(n, sends).life = n.life
           /\ Send(n, sends).inbound = n.inbound
<1> DEFINE room == OutCap - Len(n.out)
           more == IF Len(sends) <= room THEN sends ELSE SubSeq(sends, 1, room)
<1>1. n.out \in Seq(Requests) /\ Len(n.out) \in Nat /\ Len(sends) \in Nat /\ room \in Int
  <2>1. n.out \in Seq(Requests)
    BY DEF NetType
  <2>2. Len(n.out) \in Nat /\ Len(sends) \in Nat /\ OutCap \in Nat
    BY <2>1, ClientAssumption, LenProperties
  <2> QED
    BY <2>1, <2>2
<1> HIDE DEF room
<1>2. more \in Seq(Requests)
  <2>1. CASE Len(sends) <= room
    BY <2>1
  <2>2. CASE ~(Len(sends) <= room)
    <3>1. \A i \in 1 .. room : sends[i] \in Requests
      BY <1>1, <2>2, ElementOfSeq
    <3>2. SubSeq(sends, 1, room) \in Seq(Requests)
      BY <1>1, <3>1, SubSeqProperties
    <3> QED
      BY <2>2, <3>2
  <2> QED
    BY <2>1, <2>2
<1>3. n.out \o more \in Seq(Requests)
  BY <1>1, <1>2, ConcatProperties
<1>4. Send(n, sends) = [n EXCEPT !.out = n.out \o more]
  BY DEF Send, room, NetType
<1> HIDE DEF more
<1> QED
  BY <1>3, <1>4 DEF NetType

(* Sending keeps the connection as it was: the client is in touch after it only if it was before. *)
LEMMA TouchKept ==
    ASSUME NEW n \in NetType, NEW sends \in Seq(Requests), net' = Send(n, sends),
           n.link = net.link, n.life = net.life, loop' = loop
    PROVE  InTouch' => InTouch
<1>1. Send(n, sends).link = n.link /\ Send(n, sends).life = n.life
  BY SendType
<1>2. net'.link = net.link /\ net'.life = net.life
  BY <1>1
<1> QED
  BY <1>2 DEF InTouch

(* A session with one tab or more is shown, and no other. *)
LEMMA OneSession ==
    ASSUME NEW s \in SessionType
    PROVE  <<s>> \in Seq(SessionType) /\ <<s>> # <<>> /\ Len(<<s>>) = 1 /\ <<s>>[1] = s
  OBVIOUS

LEMMA SessionIs ==
    ASSUME UiInv, HasSession
    PROVE  Session \in SessionType /\ TabsGood(Session) /\ Active = activeRegionID(Session)
           /\ ToSet(Session.tabs) \subseteq ToSet(ui.tree.regions) /\ Session.size = ui.size
<1>1. ui.sessions \in Seq(SessionType) /\ ui.sessions # <<>>
  BY DEF UiInv, UiType, HasSession
<1>2. Session \in SessionType
  BY <1>1, HeadTailProperties, TailOf DEF Session
<1> QED
  BY <1>2 DEF UiInv, SessionOK, Active

(* What is asked for is to see one of the tabs. *)
LEMMA SteeredAsks ==
    ASSUME NEW s \in SessionType, TabsGood(s), NEW pre \in Seq(Plain)
    PROVE  pre \o Activate(s) \in Seq(Requests) /\ Asked(pre \o Activate(s)) \subseteq ToSet(s.tabs)
<1>1. pre \in Seq(Requests) /\ Asked(pre) = {} /\ Activate(s) \in Seq(Requests)
  BY PlainIs, ActivateIs
<1>2. Asked(pre \o Activate(s)) = Asked(Activate(s)) /\ pre \o Activate(s) \in Seq(Requests)
  <2> DEFINE a == Activate(s)
  <2> HIDE DEF a
  <2>1. pre \in Seq(Requests) /\ Asked(pre) = {} /\ a \in Seq(Requests)
    BY <1>1 DEF a
  <2>2. pre \o a \in Seq(Requests)
    BY <2>1, ConcatProperties
  <2>3. Asked(pre \o a) = Asked(pre) \union Asked(a)
    BY <2>1, AskedConcat
  <2> QED
    BY <2>1, <2>2, <2>3 DEF a
<1>3. Asked(Activate(s)) \subseteq ToSet(s.tabs)
  <2>1. CASE s.tabs = <<>>
    BY <2>1, ActivateIs, NoneSent
  <2>2. CASE s.tabs # <<>>
    <3>1. activeRegionID(s) \in ToSet(s.tabs)
      BY <2>2, ActiveIs
    <3> QED
      BY <2>2, <3>1, ActivateIs DEF Asked, Ask
  <2> QED
    BY <2>1, <2>2
<1> QED
  BY <1>2, <1>3

(* A change of the session that leaves it its tabs, or its last tab goes.  *)
LEMMA SyncShown ==
    ASSUME UiInv, HasSession, NEW named \in {Session, [Session EXCEPT !.name = "main"]},
           NEW regions \in Seq(Regions), NEW r, r = syncFromTree(named, regions),
           ui'.sessions = Kept(r.session), ui'.chosen = StillChosen(r.session), ui'.size = ui.size,
           ui'.tree.regions = regions, ui' = [ui EXCEPT !.tree = ui'.tree, !.sessions = ui'.sessions, !.chosen = ui'.chosen],
           ui'.tree \in [valid : BOOLEAN, regions : Seq(Regions)],
           loop' = loop, loop # "setup", InTouch' => InTouch
    PROVE  /\ UiInv' /\ r.sends \in Seq(Requests) /\ Asked(r.sends) \subseteq ToSet(regions)
           /\ Stayed(r.sends) \/ Steered(r.sends)
              \/ (Active' = NoRegion /\ r.sends = <<>> /\ regions = <<>> /\ Session.tabs # <<>>)
<1> DEFINE s == r.session
<1>1. Session \in SessionType /\ TabsGood(Session) /\ Active = activeRegionID(Session) /\ Session.size = ui.size
  BY SessionIs
<1>2. named \in SessionType /\ TabsGood(named) /\ named.tabs = Session.tabs /\ named.pending = Session.pending
      /\ named.active = Session.active /\ named.size = Session.size
  BY <1>1 DEF SessionType, TabsGood
<1>3. activeRegionID(named) = Active
  BY <1>1, <1>2 DEF activeRegionID
<1>4. /\ s \in SessionType /\ TabsGood(s) /\ r.sends \in Seq(Requests) /\ Steers(named, r)
      /\ s.size = ui.size /\ ToSet(s.tabs) \subseteq ToSet(regions)
      /\ s.tabs = <<>> => named.tabs = <<>> \/ regions = <<>>
      /\ s.pending \in {named.pending, NoRegion}
      /\ named.pending # NoRegion /\ s.pending = NoRegion => activeRegionID(s) = named.pending
      /\ named.pending = NoRegion /\ activeRegionID(named) \in ToSet(s.tabs) => activeRegionID(s) = activeRegionID(named)
  BY <1>1, <1>2, SyncIs
<1>5. Steers(named, r) => \/ r.sends = <<>> /\ (activeRegionID(s) = Active \/ s.tabs = <<>>)
                          \/ s.tabs # <<>> /\ \E pre \in Seq(Plain) : r.sends = pre \o Activate(s)
  BY <1>3 DEF Steers
<1> HIDE DEF s
<1>6. activeRegionID(s) \in Regions \union {NoRegion} /\ (s.tabs = <<>> => activeRegionID(s) = NoRegion)
  BY <1>4, ActiveIs
<1>7. ui.chosen \in Regions \union {NoRegion} /\ Session.pending \in Regions \union {NoRegion} /\ ui \in UiType
  BY <1>1 DEF UiInv, UiType, SessionType
<1>8. ui'.chosen = StillChosen(s) /\ ui'.sessions = Kept(s)
  BY DEF s
<1>9. ui'.chosen \in Regions \union {NoRegion}
  BY <1>6, <1>7, <1>8 DEF StillChosen
<1>10. s.pending = NoRegion => ui'.chosen = activeRegionID(s)
  <2>1. CASE Session.pending # NoRegion /\ s.pending = NoRegion
    BY <1>2, <1>4, <1>8, <2>1 DEF StillChosen
  <2>2. CASE Session.pending = NoRegion /\ s.pending = NoRegion
    <3>1. Active = ui.chosen
      BY <2>2 DEF UiInv, ChosenOK
    <3>2. ui'.chosen = IF ui.chosen \in ToSet(s.tabs) THEN ui.chosen ELSE activeRegionID(s)
      BY <1>8, <2>2 DEF StillChosen
    <3> QED
      BY <1>2, <1>3, <1>4, <2>2, <3>1, <3>2
  <2> QED
    BY <2>1, <2>2
<1>11. Asked(r.sends) \subseteq ToSet(regions)
  <2>1. CASE r.sends = <<>>
    BY <2>1, NoneSent
  <2>2. ASSUME NEW pre \in Seq(Plain), r.sends = pre \o Activate(s) PROVE Asked(r.sends) \subseteq ToSet(s.tabs)
    BY <1>4, <2>2, SteeredAsks
  <2> QED
    BY <1>4, <1>5, <2>1, <2>2
<1>12. CASE s.tabs = <<>> /\ Session.tabs # <<>>
  <2>1. ui'.sessions = <<>> /\ regions = <<>> /\ <<>> \in Seq(SessionType)
    <3>1. regions = <<>>
      BY <1>2, <1>4, <1>12
    <3>2. ui'.sessions = <<>>
      BY <1>8, <1>12 DEF Kept
    <3> QED
      BY <3>1, <3>2
  <2>2. ~HasSession' /\ Active' = NoRegion
    BY <2>1 DEF HasSession, Active
  <2>3. ui' \in UiType
    BY <1>7, <1>9, <2>1 DEF UiType
  <2>4. UiInv'
    BY <2>2, <2>3 DEF UiInv, SessionOK, ChosenOK
  <2>5. r.sends = <<>>
    BY <1>4, <1>5, <1>12
  <2> QED
    BY <1>4, <1>11, <1>12, <2>1, <2>2, <2>4, <2>5
<1>13. CASE ~(s.tabs = <<>> /\ Session.tabs # <<>>)
  <2>0. ui'.sessions = <<s>>
    BY <1>8, <1>13 DEF Kept
  <2>1. ui'.sessions \in Seq(SessionType) /\ HasSession' /\ Session' = s /\ Len(ui'.sessions) = 1
    BY <1>4, <2>0, OneSession DEF HasSession, Session
  <2>2. Active' = activeRegionID(s)
    BY <2>1 DEF Active
  <2>3. ui' \in UiType
    BY <1>7, <1>9, <2>1 DEF UiType
  <2>4. SessionOK'
    <3>1. s.size = ui'.size /\ ToSet(s.tabs) \subseteq ToSet(ui'.tree.regions)
      BY <1>4
    <3> QED
      BY <1>4, <2>1, <3>1 DEF SessionOK
  <2>5. ChosenOK'
    BY <1>10, <2>1, <2>2 DEF ChosenOK
  <2>6. UiInv'
    BY <2>3, <2>4, <2>5 DEF UiInv
  <2>7. Stayed(r.sends) \/ Steered(r.sends)
    <3>1. CASE r.sends = <<>> /\ (activeRegionID(s) = Active \/ s.tabs = <<>>)
      <4>1. Active' = Active
        <5>1. CASE s.tabs = <<>>
          <6>1. Active = NoRegion
            BY <1>1, <1>13, <5>1, ActiveIs
          <6> QED
            BY <1>6, <2>2, <5>1, <6>1
        <5> QED
          BY <2>2, <3>1, <5>1
      <4> QED
        BY <3>1, <4>1, NoneSent DEF Stayed
    <3>2. CASE s.tabs # <<>> /\ \E pre \in Seq(Plain) : r.sends = pre \o Activate(s)
      BY <2>1, <3>2 DEF Steered
    <3> QED
      BY <1>4, <1>5, <3>1, <3>2
  <2> QED
    BY <1>4, <1>11, <2>6, <2>7
<1> QED
  BY <1>12, <1>13

LEMMA SendNothing == ASSUME NEW n \in NetType PROVE Send(n, <<>>) = n
<1>1. n.out \in Seq(Requests) /\ n.out \o <<>> = n.out
  <2>1. n.out \in Seq(Requests)
    BY DEF NetType
  <2> QED
    BY <2>1, ConcatEmptySeq
<1>2. Len(n.out) \in Nat /\ OutCap \in Nat
  BY <1>1, ClientAssumption, LenProperties
<1> DEFINE room == OutCap - Len(n.out)
           more == IF Len(<<>>) <= room THEN <<>> ELSE SubSeq(<<>>, 1, room)
<1>3. more = <<>>
  <2>1. room \in Int
    BY <1>2
  <2> HIDE DEF room
  <2>2. CASE Len(<<>>) <= room
    BY <2>2
  <2>3. CASE ~(Len(<<>>) <= room)
    <3>1. Len(<<>>) = 0 /\ ~(1 <= room)
      BY <2>1, <2>3
    <3>2. SubSeq(<<>>, 1, room) = <<>>
      BY <2>1, <3>1, SubSeqEmpty
    <3> QED
      BY <2>3, <3>2
  <2> QED
    BY <2>2, <2>3
<1>4. Send(n, <<>>) = [n EXCEPT !.out = n.out \o more]
  BY DEF Send, NetType
<1> HIDE DEF more
<1> QED
  BY <1>1, <1>3, <1>4 DEF NetType

LEMMA TakenIs ==
    ASSUME TypesOK, net.inbound # <<>>
    PROVE  /\ Taken \in NetType /\ Arrived \in Messages /\ Arrived = Head(net.inbound)
           /\ Taken.out = net.out /\ Taken.up = net.up /\ Taken.link = net.link /\ Taken.life = net.life
           /\ Taken.inbound = Tail(net.inbound)
<1>1. net.inbound \in Seq(Messages) /\ net \in NetType
  BY DEF TypesOK, NetType
<1>2. Tail(net.inbound) \in Seq(Messages) /\ Head(net.inbound) \in Messages
  BY <1>1, HeadTailProperties
<1> QED
  BY <1>1, <1>2 DEF Taken, Arrived, NetType

LEMMA AnnouncedIs ==
    ASSUME TypesOK, net.life # <<>>
    PROVE  /\ Announced \in NetType
           /\ Announced.out = net.out /\ Announced.up = net.up /\ Announced.link = net.link
           /\ Announced.life = Tail(net.life) /\ Announced.inbound = net.inbound
<1> DEFINE lives == {"disconnected", "reconnected"}
<1>1. net.life \in Seq(lives) /\ net \in NetType
  BY DEF TypesOK, NetType
<1>2. Tail(net.life) \in Seq(lives)
  BY <1>1, HeadTailProperties
<1> QED
  BY <1>1, <1>2 DEF Announced, NetType

(* The session stays as it is. *)
LEMMA SessionSame ==
    ASSUME UiInv, ui' \in UiType, ui'.sessions = ui.sessions, ui'.chosen = ui.chosen,
           HasSession => ui'.size = ui.size /\ ui'.tree = ui.tree, loop' = "setup" => loop = "setup"
    PROVE  UiInv' /\ Active' = Active
<1>1. (HasSession' <=> HasSession) /\ Session' = Session /\ Active' = Active
  BY DEF HasSession, Session, Active
<1>2. SessionOK' /\ ChosenOK'
  BY <1>1 DEF UiInv, SessionOK, ChosenOK
<1> QED
  BY <1>1, <1>2 DEF UiInv

LEMMA NoneActive == ASSUME ~HasSession PROVE Active = NoRegion
  BY DEF Active

LEMMA TreeMoves ==
    ASSUME TypesOK, UiInv, InboundOK, OnTree
    PROVE  Moves
<1> DEFINE tree == [valid |-> TRUE, regions |-> Arrived.regions]
           r == syncFromTree(Session, Arrived.regions)
<1>1. srv' = srv /\ net.inbound # <<>> /\ IsTree(Head(net.inbound)) /\ loop' = loop /\ loop # "setup"
  BY DEF OnTree, Arrives, IsTree
<1>2. /\ Taken \in NetType /\ Arrived \in Messages /\ Arrived = Head(net.inbound)
      /\ Taken.out = net.out /\ Taken.up = net.up /\ Taken.link = net.link /\ Taken.life = net.life
      /\ Taken.inbound = Tail(net.inbound)
  BY <1>1, TakenIs
<1>3. Arrived.regions \in Seq(Regions) /\ Shown(Head(net.inbound)) = ToSet(Arrived.regions) /\ ui \in UiType
  BY <1>2 DEF Messages, Shown, UiInv
<1>4. tree \in [valid : BOOLEAN, regions : Seq(Regions)] /\ tree.regions = Arrived.regions
  BY <1>3
<1>5. CASE HasSession
  <2>1. ui' = [ui EXCEPT !.tree = tree, !.sessions = Kept(r.session), !.chosen = StillChosen(r.session)]
        /\ net' = Send(Taken, r.sends)
    BY <1>5 DEF OnTree
  <2>2. ui'.tree = tree /\ ui'.sessions = Kept(r.session) /\ ui'.chosen = StillChosen(r.session) /\ ui'.size = ui.size
    BY <1>3, <2>1 DEF UiType
  <2>3. ui' = [ui EXCEPT !.tree = ui'.tree, !.sessions = ui'.sessions, !.chosen = ui'.chosen]
    BY <2>1, <2>2
  <2> HIDE DEF tree, r
  <2>4. r = syncFromTree(Session, Arrived.regions)
    BY DEF r
  <2>5. r.sends \in Seq(Requests)
    <3>1. Session \in SessionType /\ TabsGood(Session)
      BY <1>5, SessionIs
    <3> QED
      BY <1>3, <2>4, <3>1, SyncIs
  <2>6. InTouch' => InTouch
    BY <1>1, <1>2, <2>1, <2>5, TouchKept
  <2>7. /\ UiInv' /\ Asked(r.sends) \subseteq ToSet(Arrived.regions)
        /\ Stayed(r.sends) \/ Steered(r.sends)
           \/ (Active' = NoRegion /\ r.sends = <<>> /\ Arrived.regions = <<>> /\ Session.tabs # <<>>)
    BY <1>1, <1>3, <1>4, <1>5, <2>2, <2>3, <2>4, <2>6, SyncShown
  <2>8. Changes(r.sends)
    BY <1>1, <1>3, <2>7, NoneSent DEF Changes, Emptied
  <2>9. From(Taken)
    BY <1>1, <1>2, <1>3, <1>4, <2>2 DEF From
  <2>10. Asked(r.sends) \subseteq ToSet(ui'.tree.regions)
    BY <1>4, <2>2, <2>7
  <2> QED
    BY <1>1, <1>2, <2>1, <2>5, <2>7, <2>8, <2>9, <2>10 DEF Moves
<1>6. CASE ~HasSession
  <2>1. ui' = [ui EXCEPT !.tree = tree] /\ net' = Taken
    BY <1>6 DEF OnTree
  <2> HIDE DEF tree
  <2>2. ui' \in UiType /\ ui'.tree = tree /\ ui'.sessions = ui.sessions /\ ui'.chosen = ui.chosen /\ ui'.size = ui.size
    BY <1>3, <1>4, <2>1 DEF UiType
  <2>3. UiInv' /\ Active' = Active
    BY <1>1, <1>6, <2>2, SessionSame
  <2>4. net' = Send(Taken, <<>>)
    BY <1>2, <2>1, SendNothing
  <2>5. Changes(<<>>)
    BY <1>6, <2>2, <2>3, NoneSent, NoneActive DEF Changes, Stayed
  <2>6. From(Taken)
    BY <1>1, <1>2, <1>3, <1>4, <2>2 DEF From
  <2> QED
    BY <1>1, <1>2, <2>3, <2>4, <2>5, <2>6, NoneSent DEF Moves
<1> QED
  BY <1>5, <1>6

LEMMA ConnectedMoves ==
    ASSUME TypesOK, UiInv, InboundOK, OnSessionConnectResponse
    PROVE  Moves
<1>1. srv' = srv /\ net.inbound # <<>> /\ ~IsTree(Head(net.inbound)) /\ loop' = loop /\ loop # "setup"
  BY DEF OnSessionConnectResponse, Arrives, IsTree
<1>2. /\ Taken \in NetType
      /\ Taken.out = net.out /\ Taken.up = net.up /\ Taken.link = net.link /\ Taken.life = net.life
      /\ Taken.inbound = Tail(net.inbound)
  BY <1>1, TakenIs
<1>3. ui \in UiType /\ ui.tree.regions \in Seq(Regions) /\ ui.tree \in [valid : BOOLEAN, regions : Seq(Regions)]
  BY DEF UiInv, UiType
<1>4. CASE HasSession
  <2> DEFINE named == [Session EXCEPT !.name = "main"]
             r == SessionConnectResponse(Session, ui.tree.valid, ui.tree.regions)
  <2>1. ui' = [ui EXCEPT !.sessions = Kept(r.session), !.chosen = StillChosen(r.session)] /\ net' = Send(Taken, r.sends)
    BY <1>4 DEF OnSessionConnectResponse, Shows
  <2>2. ui'.sessions = Kept(r.session) /\ ui'.chosen = StillChosen(r.session) /\ ui'.size = ui.size /\ ui'.tree = ui.tree
    BY <1>3, <2>1 DEF UiType
  <2>3. ui' = [ui EXCEPT !.tree = ui'.tree, !.sessions = ui'.sessions, !.chosen = ui'.chosen]
    BY <1>3, <2>1, <2>2 DEF UiType
  <2>4. r = IF ui.tree.valid THEN syncFromTree(named, ui.tree.regions) ELSE Same(named)
    BY DEF SessionConnectResponse
  <2>5. Session \in SessionType /\ TabsGood(Session) /\ ToSet(Session.tabs) \subseteq ToSet(ui.tree.regions)
        /\ Active = activeRegionID(Session) /\ Session.size = ui.size
    BY <1>4, SessionIs
  <2>6. named \in SessionType /\ TabsGood(named) /\ named.tabs = Session.tabs /\ named.active = Session.active
        /\ named.pending = Session.pending /\ named.size = Session.size
    BY <2>5 DEF SessionType, TabsGood
  <2>7. From(Taken)
    BY <1>1, <1>2, <2>2 DEF From
  <2> HIDE DEF r
  <2>8. CASE ui.tree.valid
    <3>1. r = syncFromTree(named, ui.tree.regions)
      BY <2>4, <2>8
    <3>2. r.sends \in Seq(Requests)
      BY <1>3, <2>6, <3>1, SyncIs
    <3>3. InTouch' => InTouch
      BY <1>1, <1>2, <2>1, <3>2, TouchKept
    <3>4. /\ UiInv' /\ Asked(r.sends) \subseteq ToSet(ui.tree.regions)
          /\ Stayed(r.sends) \/ Steered(r.sends)
             \/ (Active' = NoRegion /\ r.sends = <<>> /\ ui.tree.regions = <<>> /\ Session.tabs # <<>>)
      BY <1>1, <1>3, <1>4, <2>2, <2>3, <3>1, <3>3, SyncShown
    <3>5. ui.tree.regions = <<>> => Session.tabs = <<>>
      <4>1. CASE ui.tree.regions = <<>> /\ Session.tabs # <<>>
        <5>1. ToSet(ui.tree.regions) = {}
          BY <4>1, NoneSent
        <5>2. activeRegionID(Session) \in ToSet(Session.tabs)
          BY <2>5, <4>1, ActiveIs
        <5> QED
          BY <2>5, <5>1, <5>2
      <4> QED
        BY <4>1
    <3>6. Changes(r.sends)
      BY <3>4, <3>5 DEF Changes
    <3> QED
      BY <1>1, <1>2, <2>1, <2>2, <2>7, <3>2, <3>4, <3>6 DEF Moves
  <2>9. CASE ~ui.tree.valid
    <3>1. r.session = named /\ r.sends = <<>>
      BY <2>4, <2>9 DEF Same
    <3>2. ui'.sessions = <<named>> /\ ui'.chosen = StillChosen(named)
      BY <2>2, <2>6, <3>1 DEF Kept
    <3> HIDE DEF named
    <3>3. ui'.sessions \in Seq(SessionType) /\ HasSession' /\ Session' = named /\ Len(ui'.sessions) = 1
      BY <2>6, <3>2, OneSession DEF HasSession, Session
    <3>4. activeRegionID(named) = activeRegionID(Session) /\ Active' = activeRegionID(named)
      BY <2>6, <3>3 DEF activeRegionID, Active
    <3>5. activeRegionID(named) \in Regions \union {NoRegion} /\ ui.chosen \in Regions \union {NoRegion}
      BY <1>3, <2>6, ActiveIs DEF UiType
    <3>6. ui'.chosen \in Regions \union {NoRegion}
      BY <2>5, <2>6, <3>2, <3>5 DEF StillChosen, SessionType
    <3>7. ui' \in UiType
      BY <1>3, <2>3, <2>2, <3>3, <3>6 DEF UiType
    <3>8. SessionOK'
      BY <1>1, <2>2, <2>5, <2>6, <3>3 DEF SessionOK
    <3>9. ChosenOK'
      BY <1>4, <2>5, <2>6, <3>2, <3>3, <3>4 DEF ChosenOK, StillChosen, UiInv
    <3>10. InTouch' => InTouch
      <4>1. net' = Send(Taken, r.sends) /\ r.sends \in Seq(Requests)
        BY <2>1, <3>1, NoneSent
      <4> QED
        BY <1>1, <1>2, <4>1, TouchKept
    <3>11. Changes(r.sends)
      BY <2>2, <2>5, <3>1, <3>4, <3>10, NoneSent DEF Changes, Stayed
    <3> QED
      BY <1>1, <1>2, <2>1, <2>7, <3>1, <3>7, <3>8, <3>9, <3>11, NoneSent DEF Moves, UiInv
  <2> QED
    BY <2>8, <2>9
<1>5. CASE ~HasSession
  <2>1. ui' = ui /\ net' = Taken
    BY <1>5 DEF OnSessionConnectResponse
  <2>2. UiInv' /\ Active' = Active
    BY <1>1, <1>3, <2>1, SessionSame
  <2>3. net' = Send(Taken, <<>>)
    BY <1>2, <2>1, SendNothing
  <2>4. Changes(<<>>)
    BY <1>5, <2>1, <2>2, NoneSent, NoneActive DEF Changes, Stayed
  <2>5. From(Taken)
    BY <1>1, <1>2, <2>1 DEF From
  <2> QED
    BY <1>1, <1>2, <2>2, <2>3, <2>4, <2>5, NoneSent DEF Moves
<1> QED
  BY <1>4, <1>5

(* Another tab is shown. *)
LEMMA SwitchShown ==
    ASSUME UiInv, HasSession, NEW idx, NEW r, r = switchToTab(Session, idx),
           NEW chosen \in Regions \union {NoRegion},
           ui' = [ui EXCEPT !.sessions = Kept(r.session), !.chosen = chosen],
           chosen = activeRegionID(r.session), loop' = loop, loop # "setup", InTouch' => InTouch
    PROVE  /\ UiInv' /\ ui'.tree = ui.tree
           /\ r.sends \in Seq(Requests) /\ Asked(r.sends) \subseteq ToSet(ui.tree.regions)
           /\ Stayed(r.sends) \/ Steered(r.sends)
<1> DEFINE s == r.session
<1>1. Session \in SessionType /\ TabsGood(Session) /\ Active = activeRegionID(Session) /\ Session.size = ui.size
      /\ ToSet(Session.tabs) \subseteq ToSet(ui.tree.regions)
  BY SessionIs
<1>2. s \in SessionType /\ TabsGood(s) /\ r.sends \in Seq(Requests) /\ Steers(Session, r)
  BY <1>1, SwitchIs
<1>3. s.tabs = Session.tabs /\ s.size = Session.size /\ s.pending = Session.pending
  BY <1>1, SwitchIs
<1>4. ui \in UiType
  BY DEF UiInv
<1>5. ui'.sessions = <<s>> /\ ui'.chosen = chosen /\ ui'.tree = ui.tree /\ ui'.size = ui.size
  BY <1>3, <1>4 DEF Kept, UiType
<1>6. Steers(Session, r) => \/ r.sends = <<>> /\ (activeRegionID(s) = Active \/ s.tabs = <<>>)
                            \/ s.tabs # <<>> /\ \E pre \in Seq(Plain) : r.sends = pre \o Activate(s)
  BY <1>1 DEF Steers
<1>7. chosen = activeRegionID(s)
  OBVIOUS
<1> HIDE DEF s
<1>8. ui'.sessions \in Seq(SessionType) /\ HasSession' /\ Session' = s /\ Len(ui'.sessions) = 1
  BY <1>2, <1>5, OneSession DEF HasSession, Session
<1>9. Active' = activeRegionID(s)
  BY <1>8 DEF Active
<1>10. ui' \in UiType
  BY <1>4, <1>5, <1>8 DEF UiType
<1>11. UiInv'
  BY <1>1, <1>2, <1>3, <1>5, <1>7, <1>8, <1>9, <1>10 DEF UiInv, SessionOK, ChosenOK
<1>12. CASE r.sends = <<>> /\ (activeRegionID(s) = Active \/ s.tabs = <<>>)
  <2>1. Active' = Active
    BY <1>1, <1>2, <1>3, <1>9, <1>12, ActiveIs
  <2>2. Stayed(r.sends)
    BY <1>5, <1>12, <2>1, NoneSent DEF Stayed
  <2> QED
    BY <1>2, <1>5, <1>11, <1>12, <2>2, NoneSent
<1>13. CASE s.tabs # <<>> /\ \E pre \in Seq(Plain) : r.sends = pre \o Activate(s)
  <2>1. Steered(r.sends)
    BY <1>8, <1>13 DEF Steered
  <2>2. Asked(r.sends) \subseteq ToSet(s.tabs)
    BY <1>2, <1>13, SteeredAsks
  <2> QED
    BY <1>1, <1>2, <1>3, <1>5, <1>11, <2>1, <2>2
<1> QED
  BY <1>2, <1>6, <1>12, <1>13

LEMMA SpawnedMoves ==
    ASSUME TypesOK, UiInv, InboundOK, OnSpawnResponse
    PROVE  Moves
<1>1. srv' = srv /\ net.inbound # <<>> /\ ~IsTree(Head(net.inbound)) /\ loop' = loop /\ loop # "setup"
      /\ Arrived.type = "spawned"
  BY DEF OnSpawnResponse, Arrives, IsTree, Arrived
<1>2. /\ Taken \in NetType /\ Arrived = Head(net.inbound)
      /\ Taken.out = net.out /\ Taken.up = net.up /\ Taken.link = net.link /\ Taken.life = net.life
      /\ Taken.inbound = Tail(net.inbound)
  BY <1>1, TakenIs
<1>3. Arrived.value \in Regions
  <2>1. 1 \in DOMAIN net.inbound /\ Arrived = net.inbound[1]
    <3>1. net.inbound \in Seq(Messages)
      BY DEF TypesOK, NetType
    <3> QED
      BY <1>1, <1>2, <3>1, TailOf
  <2> QED
    BY <1>1, <2>1 DEF InboundOK, InboundGood
<1>4. ui \in UiType
  BY DEF UiInv
<1>5. CASE HasSession
  <2> DEFINE v == Arrived.value
             r == SpawnResponse(Session, v)
  <2>1. ui' = [ui EXCEPT !.sessions = Kept(r.session), !.chosen = v] /\ net' = Send(Taken, r.sends)
    BY <1>5 DEF OnSpawnResponse, Shows
  <2>2. Session \in SessionType /\ TabsGood(Session) /\ ToSet(Session.tabs) \subseteq ToSet(ui.tree.regions)
        /\ Active = activeRegionID(Session) /\ Session.size = ui.size
    BY <1>5, SessionIs
  <2>3. v \in Regions
    BY <1>3
  <2> HIDE DEF v
  <2>4. CASE v \in ToSet(Session.tabs)
    <3> DEFINE idx == findTabIndex(Session, v)
    <3>1. idx \in DOMAIN Session.tabs /\ Session.tabs[idx] = v
      BY <2>4 DEF findTabIndex, ToSet
    <3>2. r = switchToTab(Session, idx)
      BY <2>4 DEF SpawnResponse
    <3> HIDE DEF r, idx
    <3>3. r.sends \in Seq(Requests) /\ activeRegionID(r.session) = v
      BY <2>2, <3>1, <3>2, SwitchIs
    <3>4. InTouch' => InTouch
      BY <1>1, <1>2, <2>1, <3>3, TouchKept
    <3>5. v \in Regions \union {NoRegion} /\ v = activeRegionID(r.session)
      BY <2>3, <3>3
    <3>6. /\ UiInv' /\ ui'.tree = ui.tree /\ Asked(r.sends) \subseteq ToSet(ui.tree.regions)
          /\ Stayed(r.sends) \/ Steered(r.sends)
      BY <1>1, <1>5, <2>1, <3>2, <3>4, <3>5, SwitchShown
    <3>7. From(Taken)
      BY <1>1, <1>2, <3>6 DEF From
    <3> QED
      BY <1>1, <1>2, <2>1, <3>3, <3>6, <3>7 DEF Moves, Changes
  <2>5. CASE v \notin ToSet(Session.tabs)
    <3> DEFINE s == [Session EXCEPT !.pending = v]
    <3>1. r.session = s /\ r.sends = <<>>
      BY <2>5 DEF SpawnResponse, Same
    <3>2. s \in SessionType /\ s.tabs = Session.tabs /\ s.active = Session.active /\ s.size = Session.size
          /\ s.name = Session.name /\ s.pending = v
      BY <2>2, <2>3 DEF SessionType
    <3> HIDE DEF s, r
    <3>3. ui'.sessions = <<s>> /\ ui'.chosen = v /\ ui'.tree = ui.tree /\ ui'.size = ui.size
      BY <1>4, <2>1, <3>1, <3>2 DEF Kept, UiType
    <3>4. ui'.sessions \in Seq(SessionType) /\ HasSession' /\ Session' = s /\ Len(ui'.sessions) = 1
      BY <3>2, <3>3, OneSession DEF HasSession, Session
    <3>5. Active' = Active
      BY <2>2, <3>2, <3>4 DEF Active, activeRegionID
    <3>6. ui' \in UiType
      BY <1>4, <2>1, <2>3, <3>1, <3>3, <3>4 DEF UiType
    <3>7. TabsGood(s) /\ s.pending # NoRegion
      BY <2>2, <2>3, <3>2, ClientAssumption DEF TabsGood
    <3>8. UiInv'
      BY <1>1, <2>2, <3>2, <3>3, <3>4, <3>6, <3>7 DEF UiInv, SessionOK, ChosenOK
    <3>9. InTouch' => InTouch
      <4>1. net' = Send(Taken, r.sends) /\ r.sends \in Seq(Requests)
        BY <2>1, <3>1, NoneSent
      <4> QED
        BY <1>1, <1>2, <4>1, TouchKept
    <3>10. Changes(r.sends)
      BY <3>1, <3>3, <3>5, <3>9, NoneSent DEF Changes, Stayed
    <3>11. From(Taken)
      BY <1>1, <1>2, <3>3 DEF From
    <3> QED
      BY <1>1, <1>2, <2>1, <3>1, <3>8, <3>10, <3>11, NoneSent DEF Moves
  <2> QED
    BY <2>4, <2>5
<1>6. CASE ~HasSession
  <2>1. ui' = ui /\ net' = Taken
    BY <1>6 DEF OnSpawnResponse
  <2>2. UiInv' /\ Active' = Active
    BY <1>1, <1>4, <2>1, SessionSame
  <2>3. net' = Send(Taken, <<>>)
    BY <1>2, <2>1, SendNothing
  <2>4. Changes(<<>>)
    BY <1>6, <2>1, <2>2, NoneSent, NoneActive DEF Changes, Stayed
  <2>5. From(Taken)
    BY <1>1, <1>2, <2>1 DEF From
  <2> QED
    BY <1>1, <1>2, <2>2, <2>3, <2>4, <2>5, NoneSent DEF Moves
<1> QED
  BY <1>5, <1>6

(* A message is read, or an event of the connection, that changes nothing  *)
(* of the session; or nothing is read at all.                              *)
LEMMA NothingMoves ==
    ASSUME TypesOK, UiInv, srv' = srv, From(net'), ui' \in UiType, ui'.sessions = ui.sessions,
           ui'.chosen = ui.chosen, HasSession => ui'.size = ui.size /\ ui'.tree = ui.tree,
           loop' = "setup" => loop = "setup", InTouch' => InTouch \/ Active = NoRegion
    PROVE  Moves
<1>1. UiInv' /\ Active' = Active
  BY SessionSame
<1>2. net' \in NetType /\ net' = Send(net', <<>>)
  BY SendNothing DEF From
<1>3. ui'.size = ui.size \/ Active = NoRegion
  BY NoneActive
<1>4. Changes(<<>>)
  BY <1>1, <1>3, NoneSent DEF Changes, Stayed
<1> QED
  BY <1>1, <1>2, <1>4, NoneSent DEF Moves

LEMMA ReplyMoves ==
    ASSUME TypesOK, UiInv, OnReply
    PROVE  Moves
<1>1. srv' = srv /\ ui' = ui /\ loop' = loop /\ net' = Taken /\ net.inbound # <<>> /\ ~IsTree(Head(net.inbound))
  BY DEF OnReply, Arrives, IsTree
<1>2. From(net') /\ (InTouch' => InTouch)
  BY <1>1, TakenIs DEF From, InTouch
<1> QED
  BY <1>1, <1>2, NothingMoves DEF UiInv

LEMMA DisconnectedMoves ==
    ASSUME TypesOK, UiInv, OnDisconnected \/ OnRetry
    PROVE  Moves
<1>1. srv' = srv /\ ui' = ui /\ loop' = "reconnect" /\ net' = Announced /\ net.life # <<>>
  BY DEF OnDisconnected, OnRetry, Announces
<1>2. From(net') /\ ~InTouch'
  BY <1>1, AnnouncedIs DEF From, InTouch
<1> QED
  BY <1>1, <1>2, NothingMoves DEF UiInv

LEMMA ReconnectIs ==
    ASSUME NEW s \in SessionType
    PROVE  Reconnect(s) \in Seq(Plain) /\ Reconnect(s) \in Seq(Quiet)
<1> DEFINE x == Ask("connect", NoRegion, s.size)
<1>0. s.size \in Nat
  BY DEF SessionType
<1>1. x \in Requests /\ x.type = "connect"
  BY <1>0, AskIs
<1>2. Reconnect(s) = <<x>>
  BY DEF Reconnect
<1> HIDE DEF x
<1>3. x \in Plain /\ x \in Quiet
  BY <1>1 DEF Plain, Quiet
<1> QED
  BY <1>2, <1>3

LEMMA ReconnectedMoves ==
    ASSUME TypesOK, UiInv, OnReconnected
    PROVE  Moves
<1>1. srv' = srv /\ ui' = ui /\ loop' = "run" /\ net.life # <<>>
  BY DEF OnReconnected, Announces
<1>2. /\ Announced \in NetType
      /\ Announced.out = net.out /\ Announced.up = net.up /\ Announced.link = net.link
      /\ Announced.life = Tail(net.life) /\ Announced.inbound = net.inbound
  BY <1>1, AnnouncedIs
<1>3. From(Announced)
  BY <1>1, <1>2 DEF From
<1>4. UiInv' /\ Active' = Active /\ (HasSession' <=> HasSession) /\ Session' = Session
  BY <1>1, SessionSame DEF UiInv, HasSession, Session
<1>5. CASE ~HasSession
  <2>1. net' = Announced
    BY <1>5 DEF OnReconnected
  <2> QED
    BY <1>1, <1>3, <1>5, <2>1, NoneActive, NothingMoves DEF UiInv
<1>6. CASE HasSession
  <2> DEFINE a == Activate(Session)
             c == Reconnect(Session)
  <2>1. net' = Send(Announced, c \o a)
    BY <1>6 DEF OnReconnected
  <2>2. Session \in SessionType /\ TabsGood(Session) /\ ToSet(Session.tabs) \subseteq ToSet(ui.tree.regions)
        /\ Active = activeRegionID(Session)
    BY <1>6, SessionIs
  <2>3. c \in Seq(Plain) /\ c \in Seq(Quiet)
    BY <2>2, ReconnectIs
  <2> HIDE DEF c
  <2>4. c \o a \in Seq(Requests) /\ Asked(c \o a) \subseteq ToSet(ui'.tree.regions)
    BY <1>1, <2>2, <2>3, SteeredAsks
  <2>5. Changes(c \o a)
    <3>1. CASE Session.tabs = <<>>
      <4>1. a = <<>> /\ Active = NoRegion
        BY <2>2, <3>1, ActivateIs, ActiveIs
      <4>2. c \o a = c
        BY <2>3, <4>1, ConcatEmptySeq
      <4> QED
        BY <1>1, <1>4, <2>3, <4>1, <4>2 DEF Changes, Stayed
    <3>2. CASE Session.tabs # <<>>
      BY <1>4, <1>6, <2>3, <3>2 DEF Changes, Steered
    <3> QED
      BY <3>1, <3>2
  <2> HIDE DEF a
  <2> QED
    BY <1>1, <1>2, <1>3, <1>4, <2>1, <2>4, <2>5 DEF Moves
<1> QED
  BY <1>5, <1>6

(* Nothing is read, and nothing changes but what is sent. *)
LEMMA QuietMoves ==
    ASSUME TypesOK, UiInv, srv' = srv, ui' = ui, loop' = "setup" => loop = "setup", loop' = loop,
           NEW sends \in Seq(Quiet), net' = Send(net, sends)
    PROVE  Moves
<1>1. UiInv' /\ Active' = Active
  BY SessionSame DEF UiInv
<1>2. net \in NetType /\ From(net)
  BY DEF TypesOK, From
<1>3. sends \in Seq(Requests) /\ Asked(sends) = {}
  BY QuietIs
<1>4. InTouch' => InTouch
  BY <1>2, <1>3, TouchKept
<1>5. Changes(sends)
  BY <1>1, <1>4 DEF Changes, Stayed
<1> QED
  BY <1>1, <1>2, <1>3, <1>5 DEF Moves

LEMMA SetupMoves ==
    ASSUME TypesOK, UiInv, InitialSetup
    PROVE  Moves
<1> DEFINE s == [Session EXCEPT !.size = 1]
<1>1. loop = "setup" /\ loop' = "run" /\ srv' = srv /\ ui' = [ui EXCEPT !.size = 1, !.sessions = <<s>>]
      /\ net' = Send(net, Reconnect(s))
  BY DEF InitialSetup
<1>2. HasSession /\ Session.tabs = <<>>
  BY <1>1 DEF UiInv, SessionOK
<1>3. Session \in SessionType /\ TabsGood(Session) /\ Active = activeRegionID(Session) /\ ui \in UiType
  BY <1>2, SessionIs DEF UiInv
<1>4. s \in SessionType /\ s.tabs = Session.tabs /\ s.active = Session.active /\ s.size = 1
      /\ s.name = Session.name /\ s.pending = Session.pending
  BY <1>3 DEF SessionType
<1> HIDE DEF s
<1>5. <<s>> \in Seq(SessionType) /\ <<s>> # <<>> /\ Len(<<s>>) = 1 /\ <<s>>[1] = s
  BY <1>4, OneSession
<1>6. ui'.sessions = <<s>> /\ ui'.size = 1 /\ ui'.tree = ui.tree /\ ui'.chosen = ui.chosen
  BY <1>1, <1>3 DEF UiType
<1>7. ui' \in UiType
  BY <1>1, <1>3, <1>5 DEF UiType
<1>8. HasSession' /\ Session' = s /\ Len(ui'.sessions) = 1
  BY <1>5, <1>6 DEF HasSession, Session
<1>9. Active = NoRegion /\ Active' = Active
  BY <1>2, <1>3, <1>4, <1>8 DEF Active, activeRegionID
<1>10. UiInv'
  <2>1. TabsGood(s)
    BY <1>3, <1>4 DEF TabsGood
  <2>2. ToSet(s.tabs) = {}
    BY <1>2, <1>4, NoneSent
  <2>3. SessionOK'
    BY <1>1, <1>4, <1>6, <1>8, <2>1, <2>2 DEF SessionOK
  <2>4. ChosenOK'
    BY <1>2, <1>4, <1>6, <1>8, <1>9 DEF UiInv, ChosenOK
  <2> QED
    BY <1>7, <2>3, <2>4 DEF UiInv
<1>11. Reconnect(s) \in Seq(Quiet)
  BY <1>4, ReconnectIs
<1>12. Reconnect(s) \in Seq(Requests) /\ Asked(Reconnect(s)) = {}
  BY <1>11, QuietIs
<1>13. Changes(Reconnect(s))
  BY <1>9, <1>11 DEF Changes, Stayed
<1>14. net \in NetType /\ From(net)
  BY <1>6 DEF TypesOK, From
<1> QED
  BY <1>1, <1>10, <1>12, <1>13, <1>14 DEF Moves

(* A request for each of the tabs. *)
ForEach(type, s, size) == [i \in DOMAIN s.tabs |-> Ask(type, s.tabs[i], size)]

LEMMA AsksOf ==
    ASSUME NEW type \in {"kill", "resize"}, NEW s \in SessionType, NEW size \in Nat,
           NEW q, q = ForEach(type, s, size)
    PROVE  /\ q \in Seq(Requests) /\ (s.tabs = <<>> \/ type = "kill" => q \in Seq(Quiet))
           /\ \A x \in ToSet(q) : x.type = type /\ x.size = size
           /\ \A r \in ToSet(s.tabs) : \E x \in ToSet(q) : x.region = r
<1>1. s.tabs \in Seq(Regions) /\ DOMAIN s.tabs = 1 .. Len(s.tabs) /\ Len(s.tabs) \in Nat
      /\ \A i \in DOMAIN s.tabs : s.tabs[i] \in Regions
  <2>1. s.tabs \in Seq(Regions)
    BY DEF SessionType
  <2> QED
    BY <2>1, LenProperties, ElementOfSeq
<1>2. \A i \in DOMAIN s.tabs : q[i] \in Requests /\ q[i].type = type /\ q[i].size = size /\ q[i].region = s.tabs[i]
  BY <1>1, AskIs DEF ForEach
<1>3. DOMAIN q = DOMAIN s.tabs /\ q = [i \in 1 .. Len(s.tabs) |-> q[i]]
  BY <1>1 DEF ForEach
<1>4. q \in Seq(Requests)
  <2>1. q \in [1 .. Len(s.tabs) -> Requests]
    BY <1>1, <1>2, <1>3
  <2> QED
    BY <1>1, <2>1, SeqDef
<1>5. s.tabs = <<>> \/ type = "kill" => q \in Seq(Quiet)
  <2>1. ASSUME s.tabs = <<>> \/ type = "kill", NEW i \in 1 .. Len(s.tabs) PROVE q[i] \in Quiet
    <3>1. s.tabs # <<>>
      BY <1>1, EmptySeq
    <3> QED
      BY <1>1, <1>2, <2>1, <3>1 DEF Quiet
  <2>2. s.tabs = <<>> \/ type = "kill" => q \in [1 .. Len(s.tabs) -> Quiet]
    BY <1>3, <2>1
  <2> QED
    BY <1>1, <2>2, SeqDef
<1>6. ASSUME NEW x \in ToSet(q) PROVE x.type = type /\ x.size = size
  <2>1. PICK i \in DOMAIN s.tabs : x = q[i]
    BY <1>3 DEF ToSet
  <2> QED
    BY <1>2, <2>1
<1>7. ASSUME NEW r \in ToSet(s.tabs) PROVE \E x \in ToSet(q) : x.region = r
  <2>1. PICK i \in DOMAIN s.tabs : r = s.tabs[i]
    BY DEF ToSet
  <2>2. q[i] \in ToSet(q) /\ q[i].region = r
    BY <1>2, <1>3, <2>1 DEF ToSet
  <2> QED
    BY <2>2
<1> QED
  BY <1>4, <1>5, <1>6, <1>7

LEMMA ResizedMoves ==
    ASSUME TypesOK, UiInv, WindowResized
    PROVE  Moves
<1>1. PICK size \in 1 .. 2 :
          IF HasSession
          THEN /\ ui' = [ui EXCEPT !.size = size, !.sessions = <<WindowSize(Session, size).session>>]
               /\ net' = Send(net, WindowSize(Session, size).sends)
          ELSE ui' = [ui EXCEPT !.size = size] /\ net' = net
  BY DEF WindowResized
<1>2. loop' = loop /\ loop # "setup" /\ srv' = srv /\ ui \in UiType /\ net \in NetType /\ size \in Nat
  BY DEF WindowResized, Listening, UiInv, TypesOK
<1>3. CASE ~HasSession
  <2>1. ui' = [ui EXCEPT !.size = size] /\ net' = net
    BY <1>1, <1>3
  <2>2. ui' \in UiType /\ ui'.sessions = ui.sessions /\ ui'.chosen = ui.chosen /\ ui'.tree = ui.tree
    BY <1>2, <2>1 DEF UiType
  <2>3. From(net')
    BY <1>2, <2>1, <2>2 DEF From
  <2> QED
    BY <1>2, <1>3, <2>1, <2>2, <2>3, NoneActive, NothingMoves
<1>4. CASE HasSession
  <2> DEFINE s == [Session EXCEPT !.size = size]
             q == ForEach("resize", Session, size)
  <2>1. ui' = [ui EXCEPT !.size = size, !.sessions = <<s>>] /\ net' = Send(net, q)
    BY <1>1, <1>4 DEF WindowSize, ForEach
  <2>2. Session \in SessionType /\ TabsGood(Session) /\ Active = activeRegionID(Session)
        /\ ToSet(Session.tabs) \subseteq ToSet(ui.tree.regions)
    BY <1>4, SessionIs
  <2>3. s \in SessionType /\ s.tabs = Session.tabs /\ s.active = Session.active /\ s.size = size
        /\ s.name = Session.name /\ s.pending = Session.pending
    BY <1>2, <2>2 DEF SessionType
  <2>4. /\ q \in Seq(Requests) /\ (Session.tabs = <<>> => q \in Seq(Quiet))
        /\ \A x \in ToSet(q) : x.type = "resize" /\ x.size = size
        /\ \A r \in ToSet(Session.tabs) : \E x \in ToSet(q) : x.region = r
    BY <1>2, <2>2, AsksOf, SMTT(30)
  <2> HIDE DEF s, q
  <2>5. <<s>> \in Seq(SessionType) /\ <<s>> # <<>> /\ Len(<<s>>) = 1 /\ <<s>>[1] = s
    BY <2>3, OneSession
  <2>6. ui' \in UiType /\ ui'.sessions = <<s>> /\ ui'.size = size /\ ui'.tree = ui.tree /\ ui'.chosen = ui.chosen
    BY <1>2, <2>1, <2>5 DEF UiType
  <2>7. HasSession' /\ Session' = s /\ Len(ui'.sessions) = 1
    BY <2>5, <2>6 DEF HasSession, Session
  <2>8. Active' = Active
    BY <2>2, <2>3, <2>7 DEF Active, activeRegionID
  <2>9. TabsGood(s)
    BY <2>2, <2>3 DEF TabsGood
  <2>10. UiInv'
    BY <1>2, <1>4, <2>2, <2>3, <2>6, <2>7, <2>8, <2>9 DEF UiInv, SessionOK, ChosenOK
  <2>11. Asked(q) = {}
    BY <2>4 DEF Asked
  <2>12. InTouch' => InTouch
    BY <1>2, <2>1, <2>4, TouchKept
  <2>13. Changes(q)
    <3>1. CASE Session.tabs = <<>>
      <4>1. Active = NoRegion
        BY <2>2, <3>1, ActiveIs
      <4> QED
        BY <2>4, <2>8, <3>1, <4>1 DEF Changes, Stayed
    <3>2. CASE Session.tabs # <<>>
      <4>1. Active \in ToSet(Session.tabs)
        BY <2>2, <3>2, ActiveIs
      <4>2. Resized(q)
        BY <2>4, <2>6, <2>8, <2>12, <4>1 DEF Resized
      <4> QED
        BY <4>2 DEF Changes
    <3> QED
      BY <3>1, <3>2
  <2>14. From(net)
    BY <1>2, <2>6 DEF From
  <2> QED
    BY <1>2, <2>1, <2>4, <2>10, <2>11, <2>13, <2>14 DEF Moves
<1> QED
  BY <1>3, <1>4

LEMMA TabMoves ==
    ASSUME TypesOK, UiInv, NextTab
    PROVE  Moves
<1> DEFINE idx == (Session.active % Len(Session.tabs)) + 1
           r == nextTab(Session)
           chosen == activeRegionID(r.session)
<1>1. HasSession /\ srv' = srv /\ loop' = loop /\ loop # "setup" /\ net \in NetType
      /\ ui' = [ui EXCEPT !.sessions = Kept(r.session), !.chosen = chosen] /\ net' = Send(net, r.sends)
  BY DEF NextTab, Typing, Listening, Shows, TypesOK
<1>2. Session \in SessionType /\ TabsGood(Session)
  BY <1>1, SessionIs
<1>3. r = switchToTab(Session, idx)
  <2>1. Len(Session.tabs) > 1 /\ Len(Session.tabs) \in Nat
    <3>1. Session.tabs \in Seq(Regions)
      BY <1>2 DEF SessionType
    <3> QED
      BY <3>1, LenProperties DEF NextTab
  <2> QED
    BY <2>1 DEF nextTab
<1> HIDE DEF r, idx
<1>4. r.session \in SessionType /\ TabsGood(r.session) /\ r.sends \in Seq(Requests)
  BY <1>2, <1>3, SwitchIs
<1>5. chosen \in Regions \union {NoRegion}
  BY <1>4, ActiveIs
<1>6. InTouch' => InTouch
  BY <1>1, <1>4, SendType DEF InTouch
<1>7. chosen = activeRegionID(r.session)
  OBVIOUS
<1> HIDE DEF chosen
<1>8. /\ UiInv' /\ ui'.tree = ui.tree /\ Asked(r.sends) \subseteq ToSet(ui.tree.regions)
      /\ Stayed(r.sends) \/ Steered(r.sends)
  BY <1>1, <1>3, <1>5, <1>6, <1>7, SwitchShown
<1>9. From(net)
  BY <1>1, <1>8 DEF From
<1> QED
  BY <1>1, <1>4, <1>8, <1>9 DEF Moves, Changes

LEMMA OpenMoves ==
    ASSUME TypesOK, UiInv, OpenTab \/ CloseTab
    PROVE  Moves
<1>1. srv' = srv /\ ui' = ui /\ loop' = loop /\ HasSession
  BY DEF OpenTab, CloseTab
<1>2. Session \in SessionType /\ TabsGood(Session)
  BY <1>1, SessionIs
<1>3. PICK type \in {"spawn", "kill"}, r \in Regions \union {NoRegion} : net' = Send(net, <<Ask(type, r, 0)>>)
  BY <1>2, ActiveIs DEF OpenTab, CloseTab, DefaultSize
<1>4. Ask(type, r, 0) \in Requests /\ Ask(type, r, 0).type = type
  BY AskIs
<1> DEFINE x == Ask(type, r, 0)
<1>5. x \in Quiet
  BY <1>4 DEF Quiet
<1> HIDE DEF x
<1>6. <<x>> \in Seq(Quiet) /\ net' = Send(net, <<x>>)
  BY <1>3, <1>5 DEF x
<1> QED
  BY <1>1, <1>6, QuietMoves

LEMMA CloseMoves ==
    ASSUME TypesOK, UiInv, CloseSession
    PROVE  Moves
<1> DEFINE p == KillAllRegions(Session)
           d == Deactivate(Session)
<1>1. HasSession /\ srv' = srv /\ loop' = loop /\ loop # "setup" /\ net \in NetType /\ ui \in UiType
      /\ ui' = [ui EXCEPT !.sessions = <<>>] /\ net' = Send(net, p \o d)
  BY DEF CloseSession, Typing, Listening, TypesOK
<1>2. Session \in SessionType /\ TabsGood(Session) /\ Active = activeRegionID(Session)
  BY <1>1, SessionIs
<1>3. p = ForEach("kill", Session, 0)
  BY DEF KillAllRegions, ForEach
<1>4. p \in Seq(Quiet) /\ p \in Seq(Requests) /\ Asked(p) = {}
  <2>1. p \in Seq(Quiet)
    BY <1>2, <1>3, AsksOf
  <2> QED
    BY <2>1, QuietIs
<1>5. d \in Seq(Plain) /\ d \in Seq(Requests) /\ Asked(d) = {}
  BY <1>2, DeactivateIs, PlainIs
<1> HIDE DEF p
<1>6. p \o d \in Seq(Requests) /\ Asked(p \o d) = {}
  <2> HIDE DEF d
  <2> QED
    BY <1>4, <1>5, AskedConcat, ConcatProperties
<1>7. ui'.sessions = <<>> /\ ui'.tree = ui.tree /\ ui'.size = ui.size /\ <<>> \in Seq(SessionType)
  BY <1>1 DEF UiType
<1>8. ~HasSession' /\ Active' = NoRegion
  BY <1>7 DEF HasSession, Active
<1>9. UiInv'
  <2>1. ui' \in UiType
    BY <1>1, <1>7 DEF UiType
  <2> QED
    BY <1>1, <1>8, <2>1 DEF UiInv, SessionOK, ChosenOK
<1>10. InTouch' => InTouch
  <2> HIDE DEF d
  <2> QED
    BY <1>1, <1>6, SendType DEF InTouch
<1>11. Changes(p \o d)
  <2>1. CASE Session.tabs = <<>>
    <3>1. d = <<>> /\ Active = NoRegion
      BY <1>2, <2>1, DeactivateIs, ActiveIs
    <3>2. p \o d = p
      BY <1>4, <3>1, ConcatEmptySeq
    <3> QED
      BY <1>4, <1>7, <1>8, <1>10, <3>1, <3>2 DEF Changes, Stayed
  <2>2. CASE Session.tabs # <<>>
    <3> DEFINE x == Ask("unsubscribe", activeRegionID(Session), 0)
    <3>1. x \in Requests /\ x.type = "unsubscribe"
      BY <1>2, ActiveIs, AskIs
    <3>2. d = <<x>>
      BY <2>2 DEF Deactivate
    <3> HIDE DEF d, x
    <3>3. x \in Leaving /\ p \o d = p \o <<x>>
      BY <3>1, <3>2 DEF Leaving
    <3> QED
      BY <1>4, <1>8, <3>3 DEF Changes, Left
  <2> QED
    BY <2>1, <2>2
<1> HIDE DEF d
<1>12. From(net)
  BY <1>1, <1>7 DEF From
<1> QED
  BY <1>1, <1>6, <1>9, <1>11, <1>12 DEF Moves

LEMMA DetachMoves ==
    ASSUME TypesOK, UiInv, Detach
    PROVE  Moves
<1>1. srv' = srv /\ ui' = ui /\ loop' = "stopped" /\ net \in NetType
      /\ net' = IF HasSession THEN Send(net, Deactivate(Session)) ELSE net
  BY DEF Detach, TypesOK
<1>2. From(net) /\ ~InTouch'
  BY <1>1 DEF From, InTouch
<1>3. CASE Active = NoRegion
  <2>1. net' = net
    <3>1. CASE HasSession
      <4>1. Session \in SessionType /\ TabsGood(Session) /\ Active = activeRegionID(Session)
        BY <3>1, SessionIs
      <4>2. Deactivate(Session) = <<>>
        BY <1>3, <4>1, ActiveIs, DeactivateIs
      <4> QED
        BY <1>1, <3>1, <4>2, SendNothing
    <3> QED
      BY <1>1, <3>1
  <2> QED
    BY <1>1, <1>2, <2>1, NothingMoves DEF UiInv
<1>4. CASE Active # NoRegion
  <2>1. HasSession
    BY <1>4, NoneActive
  <2>2. Session \in SessionType /\ TabsGood(Session)
    BY <2>1, SessionIs
  <2> DEFINE d == Deactivate(Session)
  <2>3. d \in Seq(Requests) /\ Asked(d) = {}
    BY <2>2, DeactivateIs, PlainIs
  <2> HIDE DEF d
  <2>4. UiInv' /\ Active' = Active
    BY <1>1, SessionSame DEF UiInv
  <2>5. Changes(d)
    BY <1>1, <1>4, <2>3, <2>4 DEF Changes, Left
  <2>6. net' = Send(net, d)
    BY <1>1, <2>1 DEF d
  <2> QED
    BY <1>1, <1>2, <2>3, <2>4, <2>5, <2>6 DEF Moves
<1> QED
  BY <1>3, <1>4

LEMMA TaskMoves ==
    ASSUME TypesOK, UiInv, PostedOK, OnTaskMsg \/ OnCommandMsg
    PROVE  Moves
<1>1. srv' = srv /\ ui' = ui /\ loop' = loop /\ net \in NetType /\ loop # "setup"
  BY DEF OnTaskMsg, OnCommandMsg, Listening, TypesOK
<1>2. ASSUME NEW m \in tk.commands, m.call = "send",
             net' = Send(net, <<[Ask(m.arg, NoRegion, 0) EXCEPT !.id = tk.nextReq + 1]>>)
      PROVE  Moves
  <2> DEFINE arg == m.arg
             id == tk.nextReq + 1
             x == [Ask(arg, NoRegion, 0) EXCEPT !.id = id]
  <2>1. arg \in {"check", "upgrade", "download"} /\ id \in Nat
    BY <1>2 DEF PostedOK, CallGood
  <2>2. net' = Send(net, <<x>>)
    BY <1>2
  <2> HIDE DEF arg, id
  <2>3. x \in Quiet
    BY <2>1 DEF Ask, Quiet, Requests
  <2> HIDE DEF x
  <2>4. <<x>> \in Seq(Quiet)
    BY <2>3
  <2> QED
    BY <1>1, <2>2, <2>4, QuietMoves
<1>3. CASE net' = net
  <2>2. From(net')
    BY <1>1, <1>3 DEF From
  <2>3. InTouch' => InTouch
    BY <1>1, <1>3 DEF InTouch
  <2> QED
    BY <1>1, <2>2, <2>3, NothingMoves DEF UiInv
<1>4. CASE OnTaskMsg
  BY <1>3, <1>4 DEF OnTaskMsg
<1>5. CASE OnCommandMsg
  <2>1. PICK m \in tk.commands :
           net' = IF m.call = "send"
                  THEN Send(net, <<[Ask(m.arg, NoRegion, 0) EXCEPT !.id = tk.nextReq + 1]>>)
                  ELSE net
    BY <1>5 DEF OnCommandMsg
  <2> QED
    BY <2>1, <1>2, <1>3
<1> QED
  BY <1>4, <1>5

LEMMA OtherMoves ==
    ASSUME TypesOK, UiInv,
           TaskCalls \/ TaskReceives \/ TaskReads \/ UpgradeCommand \/ DialogKey \/ (ConnectTo /\ loop # "overlay")
    PROVE  Moves
<1>1. srv' = srv /\ loop' = loop /\ net' = net /\ (ui' = ui \/ ui' = [ui EXCEPT !.dials = @ + 1])
  BY DEF TaskCalls, TaskReceives, TaskReads, UpgradeCommand, DialogKey, ConnectTo
<1>2. ui \in UiType /\ net \in NetType
  BY DEF UiInv, TypesOK
<1>3. ui' \in UiType /\ ui'.sessions = ui.sessions /\ ui'.chosen = ui.chosen /\ ui'.size = ui.size /\ ui'.tree = ui.tree
  BY <1>1, <1>2 DEF UiType
<1>4. From(net') /\ (InTouch' => InTouch)
  BY <1>1, <1>2, <1>3 DEF From, InTouch
<1> QED
  BY <1>1, <1>3, <1>4, NothingMoves

-----------------------------------------------------------------------------
(* Every step is of one of these kinds.                                    *)

\* A server of the user's choice, empty as yet.
AdoptsOne == Adopts /\ loop # "setup" /\ loop' \in {"run", "reconnect"}

LEMMA Kinds ==
    ASSUME SrvInv, UiInv, PostedOK, TypesOK, InboundOK, Next
    PROVE  \/ (Reads \/ Publishes \/ Cuts) /\ loop' = loop /\ ui' = ui
           \/ ForwardOut \/ Disconnect \/ RedialFails \/ Redial
           \/ Moves \/ AdoptsOne \/ TaskApplies
<1>1. CASE Server \/ Faults
  <2>1. loop' = loop /\ ui' = ui
    BY <1>1, ServerFrame
  <2> QED
    BY <1>1, <2>1, ReadsIs, PublishesIs, CutsIs DEF Server, Faults
<1>2. CASE Connection
  BY <1>2 DEF Connection
<1>3. CASE EventLoop
  <2>1. OnConnected => AdoptsOne
    BY DEF OnConnected, AdoptsOne
  <2> QED
    BY <1>3, <2>1, SetupMoves, TreeMoves, ConnectedMoves, SpawnedMoves, ReplyMoves, DisconnectedMoves,
       ReconnectedMoves, TaskMoves DEF EventLoop
<1>4. CASE TaskSteps
  BY <1>4, OtherMoves DEF TaskSteps
<1>5. CASE User
  <2>1. ConnectTo /\ loop = "overlay" => AdoptsOne
    BY DEF ConnectTo, AdoptsOne
  <2> QED
    BY <1>5, <2>1, ResizedMoves, TabMoves, OpenMoves, CloseMoves, DetachMoves, OtherMoves DEF User
<1> QED
  BY <1>1, <1>2, <1>3, <1>4, <1>5 DEF Next, System

LEMMA BaseIs ==
    /\ Base <=> SrvInv /\ UiInv /\ PostedOK /\ net \in NetType /\ InboundOK
    /\ Base' <=> SrvInv' /\ UiInv' /\ PostedOK' /\ net' \in NetType /\ InboundOK'
  BY DEF Base, SrvInv, UiInv, TypesOK

LEMMA InboundMore ==
    ASSUME NEW inb \in Seq(Messages), NEW ms \in Seq(Messages), NEW n \in Int, NEW m \in Int, n <= m,
           InboundGood(inb, n), InboundGood(ms, m)
    PROVE  InboundGood(inb \o ms, m)
<1>1. 1 .. n - 1 \subseteq 1 .. m - 1
  OBVIOUS
<1>2. InboundGood(inb, m)
  BY <1>1 DEF InboundGood
<1> SUFFICES ASSUME NEW i \in DOMAIN (inb \o ms)
             PROVE  /\ IsTree((inb \o ms)[i]) => Shown((inb \o ms)[i]) \subseteq 1 .. m - 1
                    /\ (inb \o ms)[i].type = "spawned" => (inb \o ms)[i].value \in Regions
  BY DEF InboundGood
<1>3. CASE i \in DOMAIN inb
  <2>1. (inb \o ms)[i] = inb[i]
    BY <1>3, ConcatOf
  <2> QED
    BY <1>2, <1>3, <2>1 DEF InboundGood
<1>4. CASE i \notin DOMAIN inb
  <2>1. PICK k \in DOMAIN ms : (inb \o ms)[i] = ms[k]
    BY <1>4, ConcatOf
  <2> QED
    BY <2>1 DEF InboundGood
<1> QED
  BY <1>3, <1>4

LEMMA InboundLess ==
    ASSUME NEW inb \in Seq(Messages), NEW n, InboundGood(inb, n)
    PROVE  /\ inb # <<>> => InboundGood(Tail(inb), n)
           /\ \A k \in 0 .. Len(inb) : InboundGood(SubSeq(inb, 1, k), n)
<1>1. ASSUME inb # <<>> PROVE InboundGood(Tail(inb), n)
  BY <1>1, TailOf DEF InboundGood
<1>2. ASSUME NEW k \in 0 .. Len(inb) PROVE InboundGood(SubSeq(inb, 1, k), n)
  <2> DEFINE q == SubSeq(inb, 1, k)
  <2>1. \A i \in DOMAIN q : i \in DOMAIN inb /\ q[i] = inb[i]
    BY PrefixOf
  <2> HIDE DEF q
  <2>2. InboundGood(q, n)
    BY <2>1 DEF InboundGood
  <2> QED
    BY <2>2 DEF q
<1> QED
  BY <1>1, <1>2

(* What is delivered is well formed. *)
LEMMA DeliveredGood ==
    ASSUME NEW n \in NetType, NEW ms \in Seq(Messages), NEW k \in Int, NEW m \in Int, k <= m,
           InboundGood(n.inbound, k), InboundGood(ms, m), net' = Deliverable(n, ms), srv'.fresh = m
    PROVE  net' \in NetType /\ InboundOK'
<1>1. n.inbound \in Seq(Messages) /\ <<>> \in Seq(Messages)
  BY DEF NetType
<1>2. net' \in NetType /\ net'.inbound = IF n.link = "up" THEN n.inbound \o ms ELSE n.inbound
  BY DeliverableIs
<1>3. InboundGood(n.inbound \o ms, m)
  BY <1>1, InboundMore
<1>4. InboundGood(n.inbound, m)
  <2>1. 1 .. k - 1 \subseteq 1 .. m - 1
    OBVIOUS
  <2> QED
    BY <2>1 DEF InboundGood
<1> QED
  BY <1>2, <1>3, <1>4 DEF InboundOK

LEMMA AdoptedIs ==
    ASSUME SrvInv
    PROVE  LET tree == TreeMessage([NewServer EXCEPT !.fresh = srv.fresh])
           IN  /\ tree \in Messages /\ IsTree(tree) /\ Shown(tree) = {}
               /\ Adopted \in NetType /\ Adopted.inbound = <<tree>> /\ Adopted.out = <<>> /\ Adopted.up = <<>>
               /\ Adopted.link = "up" /\ Adopted.life = <<>>
<1> DEFINE s == [NewServer EXCEPT !.fresh = srv.fresh]
           tree == TreeMessage(s)
<1>1. s \in SrvType /\ ToSet(s.regions) = {}
  BY ServerIs, NewServerIs
<1> HIDE DEF s
<1>2. tree \in Messages /\ IsTree(tree) /\ Shown(tree) = {}
  BY <1>1, TreeMessageIs
<1> HIDE DEF tree
<1>3. <<tree>> \in Seq(Messages)
  BY <1>2
<1>4. Adopted = [link |-> "up", out |-> <<>>, life |-> <<>>, inbound |-> <<tree>>, up |-> <<>>]
  BY DEF Adopted, NewNet, tree, s
<1>5. <<>> \in Seq(Requests) /\ <<>> \in Seq({"disconnected", "reconnected"})
  OBVIOUS
<1>6. Adopted \in NetType
  BY <1>3, <1>4, <1>5 DEF NetType
<1> QED
  BY <1>2, <1>4, <1>6 DEF tree, s

LEMMA AdoptsBase ==
    ASSUME SrvInv, UiInv, AdoptsOne
    PROVE  /\ SrvInv' /\ UiInv' /\ net' \in NetType /\ InboundOK'
           /\ Alive' = {} /\ srv'.sub = NoRegion /\ srv'.fresh = srv.fresh /\ Active' = NoRegion
           /\ ui'.tree = ui.tree
<1> DEFINE tree == TreeMessage([NewServer EXCEPT !.fresh = srv.fresh])
           s == NewSession(ui.size)
<1>1. /\ tree \in Messages /\ IsTree(tree) /\ Shown(tree) = {}
      /\ Adopted \in NetType /\ Adopted.inbound = <<tree>>
  BY AdoptedIs
<1> HIDE DEF tree
<1>2. /\ srv' \in SrvType /\ ToSet(srv'.regions) = {} /\ srv'.sub = NoRegion /\ srv'.defaults = {}
      /\ srv'.fresh = srv.fresh /\ srv'.me = NoJob /\ srv'.other = NoJob
  BY ServerIs, NewServerIs DEF AdoptsOne, Adopts
<1>3. Alive' = {} /\ SrvInv'
  <2>1. Alive' = {}
    BY <1>2 DEF Alive
  <2> QED
    BY <1>2, <2>1, NoJobIs DEF SrvInv, ServerOK, CreatedOnce, Creating
<1>4. ui \in UiType /\ ui.size \in Nat /\ ui.dials \in Int
  BY DEF UiInv, UiType
<1>5. s \in SessionType /\ s.tabs = <<>> /\ s.active = 1 /\ s.size = ui.size /\ s.pending = NoRegion /\ s.name = ""
  <2>1. <<>> \in Seq(Regions)
    OBVIOUS
  <2> QED
    BY <1>4, <2>1 DEF NewSession, SessionType
<1>6. net' = Send(Adopted, Reconnect(s)) /\ loop' # "setup"
  BY DEF AdoptsOne, Adopts
<1> HIDE DEF s
<1>7. \E d \in Int : ui' = [ui EXCEPT !.sessions = <<s>>, !.chosen = NoRegion, !.dials = d]
  <2>1. ui.dials - 1 \in Int
    BY <1>4
  <2> DEFINE e == IF loop = "overlay" THEN 1 ELSE ui.dials - 1
  <2>2. e \in Int
    BY <2>1
  <2>3. ui' = [ui EXCEPT !.sessions = <<s>>, !.chosen = NoRegion, !.dials = e]
    BY DEF AdoptsOne, Adopts, s
  <2> HIDE DEF e
  <2> QED
    BY <2>2, <2>3
<1>8. <<s>> \in Seq(SessionType) /\ <<s>> # <<>> /\ Len(<<s>>) = 1 /\ <<s>>[1] = s
  BY <1>5, OneSession
<1>9. ui' \in UiType /\ ui'.sessions = <<s>> /\ ui'.chosen = NoRegion /\ ui'.size = ui.size /\ ui'.tree = ui.tree
  BY <1>4, <1>7, <1>8 DEF UiType
<1>10. HasSession' /\ Session' = s /\ Active' = NoRegion
  BY <1>5, <1>8, <1>9 DEF HasSession, Session, Active, activeRegionID
<1>11. UiInv'
  <2>1. ToSet(s.tabs) = {} /\ TabsGood(s)
    BY <1>5, NoneSent DEF TabsGood
  <2> QED
    BY <1>5, <1>6, <1>8, <1>9, <1>10, <2>1 DEF UiInv, SessionOK, ChosenOK
<1>12. net' \in NetType /\ net'.inbound = <<tree>>
  <2>1. Reconnect(s) \in Seq(Requests)
    BY <1>5, ReconnectIs, QuietIs
  <2> QED
    BY <1>1, <1>6, <2>1, SendType
<1>13. InboundOK'
  <2>1. \A i \in DOMAIN <<tree>> : <<tree>>[i] = tree
    OBVIOUS
  <2>2. tree.type = "tree"
    BY <1>1 DEF IsTree
  <2> QED
    BY <1>1, <1>12, <2>1, <2>2 DEF InboundOK, InboundGood
<1> QED
  BY <1>2, <1>3, <1>9, <1>10, <1>11, <1>12, <1>13

LEMMA LinkBase ==
    ASSUME SrvInv, net \in NetType, InboundOK, ForwardOut \/ Disconnect \/ RedialFails \/ Redial \/ TaskApplies
    PROVE  net' \in NetType /\ InboundOK' /\ srv' = srv /\ ui' = ui /\ (loop' = loop \/ loop' = "stopped")
<1> DEFINE lives == {"disconnected", "reconnected"}
<1>0. net.out \in Seq(Requests) /\ net.up \in Seq(Requests) /\ net.inbound \in Seq(Messages) /\ net.life \in Seq(lives)
  BY DEF NetType
<1>1. srv' = srv /\ ui' = ui /\ (loop' = loop \/ loop' = "stopped")
  BY DEF ForwardOut, Disconnect, RedialFails, Redial, TaskApplies
<1>2. ASSUME net'.inbound = net.inbound PROVE InboundOK'
  BY <1>1, <1>2 DEF InboundOK
<1>3. CASE ForwardOut
  <2>1. Tail(net.out) \in Seq(Requests) /\ Head(net.out) \in Requests
    BY <1>0, <1>3, HeadTailProperties DEF ForwardOut
  <2>2. Append(net.up, Head(net.out)) \in Seq(Requests)
    BY <1>0, <2>1, AppendProperties
  <2> DEFINE up == IF net.link = "up" THEN Append(net.up, Head(net.out)) ELSE net.up
  <2>3. up \in Seq(Requests)
    BY <1>0, <2>2
  <2>4. net' = [net EXCEPT !.out = Tail(net.out), !.up = up]
    BY <1>3 DEF ForwardOut, NetType
  <2> HIDE DEF up
  <2>5. net' \in NetType /\ net'.inbound = net.inbound
    BY <2>1, <2>3, <2>4 DEF NetType
  <2> QED
    BY <1>1, <1>2, <2>5
<1>4. CASE Disconnect \/ RedialFails
  <2>1. Append(net.life, "disconnected") \in Seq(lives)
    BY <1>0, AppendProperties
  <2>2. PICK link \in {"down", net.link} : net' = [net EXCEPT !.link = link, !.life = Append(net.life, "disconnected")]
    <3>1. [net EXCEPT !.life = Append(net.life, "disconnected")]
          = [net EXCEPT !.link = net.link, !.life = Append(net.life, "disconnected")]
      BY DEF NetType
    <3> QED
      BY <1>4, <3>1 DEF Disconnect, RedialFails, NetType
  <2>3. net' \in NetType /\ net'.inbound = net.inbound
    BY <2>1, <2>2 DEF NetType
  <2> QED
    BY <1>1, <1>2, <2>3
<1>5. CASE TaskApplies
  <2>1. net' = [net EXCEPT !.link = "none"]
    BY <1>5 DEF TaskApplies
  <2>2. net' \in NetType /\ net'.inbound = net.inbound
    BY <2>1 DEF NetType
  <2> QED
    BY <1>1, <1>2, <2>2
<1>6. CASE Redial
  <2> DEFINE m == TreeMessage(srv)
  <2>1. m \in Messages /\ IsTree(m) /\ Shown(m) = Alive
    BY ServerIs, TreeMessageIs
  <2>2. net' = [net EXCEPT !.link = "up", !.life = Append(net.life, "reconnected"), !.inbound = Append(net.inbound, m)]
    BY <1>6 DEF Redial, NetType
  <2> HIDE DEF m
  <2>3. Append(net.life, "reconnected") \in Seq(lives)
    BY <1>0, AppendProperties
  <2>4. Append(net.inbound, m) = net.inbound \o <<m>> /\ <<m>> \in Seq(Messages)
    BY <1>0, <2>1, AppendIsConcat
  <2>5. Append(net.inbound, m) \in Seq(Messages)
    BY <1>0, <2>1, AppendProperties
  <2>6. net' \in NetType /\ net'.inbound = Append(net.inbound, m)
    BY <2>2, <2>3, <2>5 DEF NetType
  <2>7. InboundGood(<<m>>, srv.fresh)
    <3>1. \A i \in DOMAIN <<m>> : <<m>>[i] = m
      OBVIOUS
    <3>2. m.type = "tree" /\ Shown(m) \subseteq 1 .. srv.fresh - 1
      BY <2>1, ServerIs DEF IsTree, Old
    <3> QED
      BY <3>1, <3>2 DEF InboundGood
  <2>8. srv.fresh \in Int /\ srv.fresh <= srv.fresh
    BY ServerIs
  <2>9. InboundGood(net.inbound \o <<m>>, srv.fresh)
    BY <1>0, <2>4, <2>7, <2>8, InboundMore DEF InboundOK
  <2> QED
    BY <1>1, <2>4, <2>6, <2>9 DEF InboundOK
<1> QED
  BY <1>3, <1>4, <1>5, <1>6

LEMMA BaseStep == ASSUME Base, Next PROVE Base'
<1>0. SrvInv /\ UiInv /\ PostedOK /\ net \in NetType /\ InboundOK /\ TypesOK /\ srv.fresh \in Int
  BY BaseIs, ServerIs DEF Base
<1>1. PostedOK'
  BY <1>0, PostedStep
<1>2. ASSUME loop' = loop, ui' = ui PROVE UiInv'
  BY <1>0, <1>2, SessionSame DEF UiInv
<1>3. CASE Reads /\ loop' = loop /\ ui' = ui
  <2>1. PICK ms \in Seq(Messages) : (\A i \in DOMAIN ms : ms[i].type = "reply") /\ net' = Deliverable(Handled, ms)
    BY <1>3 DEF Reads
  <2>2. SrvInv' /\ srv'.fresh = srv.fresh /\ net.up # <<>>
    BY <1>3 DEF Reads
  <2>3. Handled \in NetType /\ Handled.inbound = net.inbound
    BY <1>0, <2>2, HandledIs
  <2>4. InboundGood(ms, srv.fresh)
    BY <2>1 DEF InboundGood, IsTree
  <2>5. srv.fresh <= srv.fresh
    BY <1>0
  <2>6. net' \in NetType /\ InboundOK'
    BY <1>0, <2>1, <2>2, <2>3, <2>4, <2>5, DeliveredGood DEF InboundOK
  <2> QED
    BY <1>1, <1>2, <1>3, <2>2, <2>6, BaseIs
<1>4. CASE Publishes /\ loop' = loop /\ ui' = ui
  <2>1. PICK ms \in Seq(Messages) :
            /\ net' = Deliverable(net, ms)
            /\ \A i \in DOMAIN ms :
                  /\ IsTree(ms[i]) => Shown(ms[i]) = Alive'
                  /\ ms[i].type = "spawned" => ms[i].value \in Regions
    BY <1>4 DEF Publishes
  <2>2. SrvInv' /\ srv.fresh <= srv'.fresh
    BY <1>4 DEF Publishes
  <2>3. Alive' \subseteq 1 .. srv'.fresh - 1
    BY <2>2 DEF SrvInv, ServerOK, Old
  <2>4. srv'.fresh \in Int
    BY <2>2, ClientAssumption DEF SrvInv, SrvType
  <2>5. InboundGood(ms, srv'.fresh)
    BY <2>1, <2>3 DEF InboundGood
  <2>6. net' \in NetType /\ InboundOK'
    BY <1>0, <2>1, <2>2, <2>4, <2>5, DeliveredGood DEF InboundOK
  <2> QED
    BY <1>1, <1>2, <1>4, <2>2, <2>6, BaseIs
<1>5. CASE Cuts /\ loop' = loop /\ ui' = ui
  <2>1. PICK k \in 0 .. Len(net.inbound) :
            net' = [net EXCEPT !.link = "broken", !.up = <<>>, !.inbound = SubSeq(net.inbound, 1, k)]
    BY <1>5 DEF Cuts
  <2>2. SrvInv' /\ srv'.fresh = srv.fresh
    BY <1>5 DEF Cuts
  <2> DEFINE q == SubSeq(net.inbound, 1, k)
  <2>3. net.inbound \in Seq(Messages)
    BY <1>0 DEF NetType
  <2>4. q \in Seq(Messages) /\ InboundGood(q, srv.fresh)
    BY <1>0, <2>3, PrefixOf, InboundLess DEF InboundOK
  <2> HIDE DEF q
  <2>5. net' = [net EXCEPT !.link = "broken", !.up = <<>>, !.inbound = q] /\ <<>> \in Seq(Requests)
    BY <2>1 DEF q
  <2>6. net' \in NetType /\ net'.inbound = q
    BY <1>0, <2>4, <2>5 DEF NetType
  <2> QED
    BY <1>1, <1>2, <1>5, <2>2, <2>4, <2>6, BaseIs DEF InboundOK
<1>6. CASE ForwardOut \/ Disconnect \/ RedialFails \/ Redial \/ TaskApplies
  <2>1. net' \in NetType /\ InboundOK' /\ srv' = srv /\ ui' = ui /\ (loop' = loop \/ loop' = "stopped")
    BY <1>0, <1>6, LinkBase
  <2>2. UiInv'
    BY <1>0, <2>1, SessionSame DEF UiInv
  <2>3. SrvInv'
    BY <1>0, <2>1 DEF SrvInv, ServerOK, CreatedOnce, Alive, Old
  <2> QED
    BY <1>1, <2>1, <2>2, <2>3, BaseIs
<1>7. CASE Moves
  <2>1. PICK n \in NetType, sends \in Seq(Requests) : From(n) /\ net' = Send(n, sends)
    BY <1>7 DEF Moves
  <2>2. srv' = srv /\ UiInv'
    BY <1>7 DEF Moves
  <2>3. SrvInv'
    BY <1>0, <2>2 DEF SrvInv, ServerOK, CreatedOnce, Alive, Old
  <2>4. net.inbound \in Seq(Messages)
    BY <1>0 DEF NetType
  <2>5. InboundGood(n.inbound, srv.fresh)
    BY <1>0, <2>1, <2>4, InboundLess DEF From, InboundOK
  <2>6. net' \in NetType /\ net'.inbound = n.inbound
    BY <2>1, SendType
  <2> QED
    BY <1>1, <2>2, <2>3, <2>5, <2>6, BaseIs DEF InboundOK
<1>8. CASE AdoptsOne
  BY <1>0, <1>1, <1>8, AdoptsBase, BaseIs
<1> QED
  BY <1>0, <1>3, <1>4, <1>5, <1>6, <1>7, <1>8, Kinds

LEMMA BaseInit == ASSUME Init PROVE Base
<1> DEFINE tree == TreeMessage(NewServer)
           s == NewSession(DefaultSize)
<1>1. /\ NewServer \in SrvType /\ NewServer.regions = <<>> /\ NewServer.defaults = {} /\ NewServer.sub = NoRegion
      /\ NewServer.fresh = 1 /\ NewServer.me = NoJob /\ NewServer.other = NoJob
  <2>1. NewServer = [regions |-> <<>>, sub |-> NoRegion, sizes |-> [r \in Regions |-> DefaultSize],
                     dying |-> {}, defaults |-> {}, fresh |-> 1, phase |-> "", me |-> NoJob, other |-> NoJob]
    BY DEF NewServer
  <2>2. [r \in Regions |-> DefaultSize] \in [Regions -> Nat]
    BY DEF DefaultSize
  <2>3. NoJob \in Job /\ <<>> \in Seq(Regions) /\ 1 \in 1 .. MaxRegions + 1
    BY NoJobIs, ClientAssumption
  <2> QED
    BY <2>1, <2>2, <2>3 DEF SrvType, Phases
<1>2. tree \in Messages /\ IsTree(tree) /\ Shown(tree) = {}
  BY <1>1, TreeMessageIs, NoneSent
<1> HIDE DEF tree
<1>3. srv = NewServer /\ Alive = {}
  BY <1>1, NoneSent DEF Init, Alive
<1>4. srv \in SrvType /\ ServerOK /\ CreatedOnce
  BY <1>1, <1>3, NoJobIs DEF ServerOK, CreatedOnce, Creating
<1>5. \E inb \in {<<>>, <<tree>>}, link \in {"none", "up"} : net = NewNet(link, inb)
  BY DEF Init, tree
<1>6. net \in NetType /\ InboundOK
  <2>1. PICK inb \in {<<>>, <<tree>>}, link \in {"none", "up"} : net = NewNet(link, inb)
    BY <1>5
  <2>2. inb \in Seq(Messages) /\ \A i \in DOMAIN inb : inb[i] = tree
    <3>1. CASE inb = <<>>
      BY <3>1
    <3>2. CASE inb = <<tree>>
      BY <1>2, <3>2
    <3> QED
      BY <2>1, <3>1, <3>2
  <2>3. <<>> \in Seq(Requests) /\ <<>> \in Seq({"disconnected", "reconnected"})
    OBVIOUS
  <2>4. net \in NetType /\ net.inbound = inb
    BY <2>1, <2>2, <2>3 DEF NewNet, NetType
  <2>5. tree.type = "tree"
    BY <1>2 DEF IsTree
  <2> QED
    BY <1>2, <2>2, <2>4, <2>5 DEF InboundOK, InboundGood
<1>7. s \in SessionType /\ s.tabs = <<>> /\ s.active = 1 /\ s.size = DefaultSize /\ s.pending = NoRegion /\ s.name = ""
  <2>1. <<>> \in Seq(Regions)
    OBVIOUS
  <2> QED
    BY <2>1 DEF NewSession, SessionType, DefaultSize
<1> HIDE DEF s
<1>8. <<s>> \in Seq(SessionType) /\ <<s>> # <<>> /\ Len(<<s>>) = 1 /\ <<s>>[1] = s
  BY <1>7, OneSession
<1>9. PICK q \in {<<>>, <<s>>} :
          /\ ui = [size |-> DefaultSize, tree |-> NoTree, chosen |-> NoRegion, dials |-> 0, sessions |-> q]
          /\ loop = "setup" => q = <<s>>
  BY DEF Init, s
<1>10. ui \in UiType /\ ui.sessions = q /\ ui.size = DefaultSize /\ ui.chosen = NoRegion
  <2>1. q \in Seq(SessionType)
    <3>1. <<>> \in Seq(SessionType)
      OBVIOUS
    <3> QED
      BY <1>8, <1>9, <3>1
  <2>2. <<>> \in Seq(Regions)
    OBVIOUS
  <2> QED
    BY <1>9, <2>1, <2>2 DEF UiType, NoTree, DefaultSize
<1>11. HasSession => Session = s
  BY <1>8, <1>10 DEF HasSession, Session
<1>12. SessionOK /\ ChosenOK
  <2>1. ToSet(s.tabs) = {} /\ TabsGood(s)
    BY <1>7, NoneSent DEF TabsGood
  <2>2. loop = "setup" => HasSession
    BY <1>8, <1>9, <1>10 DEF HasSession
  <2>3. HasSession => Len(ui.sessions) = 1
    BY <1>8, <1>10 DEF HasSession
  <2>4. Active = NoRegion
    BY <1>7, <1>11 DEF Active, activeRegionID
  <2> QED
    BY <1>7, <1>10, <1>11, <2>1, <2>2, <2>3, <2>4 DEF SessionOK, ChosenOK
<1>13. PostedOK
  BY DEF Init, NewRunner, PostedOK, Fields
<1> QED
  BY <1>4, <1>6, <1>10, <1>12, <1>13 DEF Base, TypesOK

\* What Base says is said of these variables.
LEMMA BaseStutter == ASSUME Base, UNCHANGED vars PROVE Base'
<1>1. loop' = loop /\ ui' = ui /\ net' = net /\ srv' = srv /\ tk' = tk
  BY DEF vars
<1>2. SrvInv' /\ UiInv' /\ PostedOK' /\ net' \in NetType /\ InboundOK'
  BY <1>1, BaseIs, SessionSame DEF SrvInv, ServerOK, CreatedOnce, Alive, Old, UiInv, PostedOK, InboundOK
<1> QED
  BY <1>2, BaseIs

LEMMA BaseAlways == Spec => []Base
<1>1. Init => Base
  BY BaseInit
<1>2. Base /\ [Next]_vars => Base'
  BY BaseStep, BaseStutter
<1> QED
  BY <1>1, <1>2, PTL DEF Spec

(* However many clients connect to a session that no one has created, one  *)
(* of them creates it: findOrCreateSession looks and creates under the     *)
(* mutex of the name.                                                      *)
THEOREM CreatedByOne == Spec => []SessionCreatedOnce
<1>1. Base => SessionCreatedOnce
  <2> SUFFICES ASSUME Base PROVE Cardinality(srv.defaults \intersect ToSet(srv.regions)) <= 1
    BY DEF SessionCreatedOnce
  <2>1. \A r, s \in srv.defaults \intersect ToSet(srv.regions) : r = s
    BY DEF Base, CreatedOnce, Alive
  <2> DEFINE created == srv.defaults \intersect ToSet(srv.regions)
  <2>2. created = {} \/ \E r : created = {r}
    BY <2>1
  <2> HIDE DEF created
  <2>3. Cardinality({}) = 0 /\ \A r : Cardinality({r}) = 1
    BY FS_EmptySet, FS_Singleton
  <2>4. Cardinality(created) \in {0, 1}
    BY <2>2, <2>3
  <2> QED
    BY <2>4 DEF created
<1> QED
  BY <1>1, BaseAlways, PTL

(* What the client shows is what its user last chose or spawned, whatever  *)
(* order the tree and the responses come in and whatever is lost: in every *)
(* state, and so in those of VisibleIsChosen (syncFromTree, SpawnResponse, *)
(* switchToTab).                                                           *)
THEOREM ChosenIsShown == Spec => []VisibleIsChosen
<1>1. Base => VisibleIsChosen
  BY DEF Base, ChosenOK, VisibleIsChosen, Active, activeRegionID
<1> QED
  BY <1>1, BaseAlways, PTL

-----------------------------------------------------------------------------
(* Flow: what needs Server.ch never to fill. *)

LEMMA FlowIs ==
    ASSUME Base
    PROVE  /\ net.up \in Seq(Requests) /\ net.out \in Seq(Requests) /\ Reqs \in Seq(Requests)
           /\ net.inbound \in Seq(Messages)
           /\ Alive \subseteq Regions /\ NoRegion \notin Alive /\ NoRegion \notin Regions
           /\ srv.sizes \in [Regions -> Nat]
           /\ Active \in Alive => Active \in Known
<1>1. net.up \in Seq(Requests) /\ net.out \in Seq(Requests) /\ net.inbound \in Seq(Messages)
      /\ srv.sizes \in [Regions -> Nat] /\ ui.sessions \in Seq(SessionType)
  BY DEF Base, TypesOK, NetType, SrvType, UiType
<1>2. Reqs \in Seq(Requests)
  BY <1>1, ConcatProperties DEF Reqs
<1>3. Alive \subseteq Regions /\ NoRegion \notin Alive
  BY ServerIs, BaseIs
<1>4. ASSUME Active \in Alive PROVE Active \in Known
  <2>1. Active # NoRegion
    BY <1>3, <1>4
  <2>2. HasSession /\ Session.tabs # <<>> /\ Active = Session.tabs[Session.active]
    BY <2>1 DEF Active, activeRegionID
  <2>3. Session.active \in DOMAIN Session.tabs /\ ToSet(Session.tabs) \subseteq ToSet(ui.tree.regions)
    BY <2>2 DEF Base, SessionOK, TabsGood
  <2>4. Active \in ToSet(Session.tabs)
    BY <2>2, <2>3 DEF ToSet
  <2> QED
    BY <2>1, <2>3, <2>4 DEF Known
<1> QED
  BY <1>1, <1>2, <1>3, <1>4, ClientAssumption

LEMMA ServedIs ==
    ASSUME Active' = NoRegion => Will(srv'.sub = NoRegion, Reqs', Leaving \union Watching(Alive'), Leaving),
           InTouch' /\ Active' \in Alive' =>
               /\ Will(srv'.sub = Active', Reqs', Leaving \union Watching(Alive'), Watching({Active'}))
               /\ Will(srv'.sizes[Active'] = ui'.size, Reqs', Sizing(Active'), Sized(ui'.size))
    PROVE  ServedOK'
  BY DEF ServedOK, WillLeave, WillSee, WillSize

(* The regions known are no more than they were. *)
LEMMA AskedLess ==
    ASSUME NEW p \in Seq(Requests), NEW q \in Seq(Requests), ToSet(p) \subseteq ToSet(q)
    PROVE  Asked(p) \subseteq Asked(q)
  BY DEF Asked

(* The server reads a request. *)
LEMMA ReadsFlow ==
    ASSUME Base, Flow, Reads, loop' = loop, ui' = ui
    PROVE  Flow'
<1> DEFINE x == Request
<1>0. TypesOK /\ SrvInv /\ net \in NetType
  BY BaseIs DEF Base
<1>1. PICK ms \in Seq(Messages) : (\A i \in DOMAIN ms : ms[i].type = "reply") /\ net' = Deliverable(Handled, ms)
  BY DEF Reads
<1>2. net.up # <<>> /\ Alive' = Alive /\ srv'.fresh = srv.fresh
  BY DEF Reads
<1>3. /\ Handled \in NetType /\ x \in Requests
      /\ Handled.up = Tail(net.up) /\ Handled.out = net.out /\ Handled.link = net.link
      /\ Handled.life = net.life /\ Handled.inbound = net.inbound
      /\ Reqs \in Seq(Requests) /\ Reqs # <<>> /\ Head(Reqs) = x
      /\ Tail(net.up) \o net.out = Tail(Reqs)
  BY <1>0, <1>2, HandledIs
<1>4. /\ net'.up = Tail(net.up) /\ net'.out = net.out /\ net'.link = net.link /\ net'.life = net.life
      /\ net'.inbound = IF net.link = "up" THEN net.inbound \o ms ELSE net.inbound
  BY <1>1, <1>3, DeliverableIs
<1>5. Reqs' = Tail(Reqs)
  BY <1>3, <1>4 DEF Reqs
<1>6. Active' = Active /\ (InTouch' <=> InTouch) /\ Old' = Old
  BY <1>2, <1>4 DEF Active, HasSession, Session, InTouch, Old
<1>7. /\ srv'.sub = IF x.type = "subscribe" /\ x.region \in Alive THEN x.region
                    ELSE IF x.type = "unsubscribe" THEN NoRegion ELSE srv.sub
      /\ srv'.sizes = IF x.type = "resize" /\ x.region \in Alive
                      THEN [srv.sizes EXCEPT ![x.region] = x.size] ELSE srv.sizes
  BY DEF Reads
<1> HIDE DEF x
<1>8. Tail(Reqs) \in Seq(Requests) /\ ToSet(Tail(Reqs)) \subseteq ToSet(Reqs) /\ x \in ToSet(Reqs)
  <2>1. Tail(Reqs) \in Seq(Requests)
    BY <1>3, HeadTailProperties
  <2>2. ToSet(Tail(Reqs)) \subseteq ToSet(Reqs) /\ Head(Reqs) \in ToSet(Reqs)
    BY <1>3, TailOf DEF ToSet
  <2> QED
    BY <1>3, <2>1, <2>2
<1>9. Known' \subseteq Known
  <2>1. Asked(Reqs') \subseteq Asked(Reqs)
    BY <1>3, <1>5, <1>8, AskedLess
  <2>2. srv'.sub \in {NoRegion, srv.sub} \union Asked(Reqs)
    BY <1>7, <1>8 DEF Asked
  <2> QED
    BY <2>1, <2>2 DEF Known
<1>10. LinkOK' /\ KnownOld'
  <2>1. net.link \notin {"broken", "down"}
    BY <1>2 DEF Flow, LinkOK
  <2> QED
    BY <1>4, <1>6, <1>9, <2>1 DEF Flow, LinkOK, KnownOld
<1>11. net.inbound \in Seq(Messages) /\ \A i \in DOMAIN ms : ~IsTree(ms[i])
  BY <1>1, FlowIs DEF IsTree
<1>12. KnownStay'
  <2>1. Stays(Known, Alive, net.inbound \o ms) /\ Stays(Known, Alive, net.inbound)
    BY <1>11, StaysAppend DEF Flow, KnownStay
  <2>2. Stays(Known, Alive, net'.inbound)
    BY <1>4, <2>1
  <2> QED
    BY <1>2, <1>9, <2>2, StaysLess DEF KnownStay
<1>13. LastTree'
  <2>1. net.link = "up" => Latest(ToSet(ui.tree.regions), Alive, net.inbound \o ms)
    BY <1>11, LatestMore DEF Flow, LastTree
  <2> QED
    BY <1>2, <1>4, <2>1 DEF LastTree
<1>14. ServedOK'
  <2>1. ASSUME Active = NoRegion
        PROVE  Will(srv'.sub = NoRegion, Tail(Reqs), Leaving \union Watching(Alive), Leaving)
    <3>1. Will(srv.sub = NoRegion, Reqs, Leaving \union Watching(Alive), Leaving)
      BY <2>1 DEF Flow, ServedOK, WillLeave
    <3>2. x \in Leaving => srv'.sub = NoRegion
      BY <1>7 DEF Leaving
    <3>3. x \notin Leaving \union Watching(Alive) => srv'.sub = srv.sub
      BY <1>3, <1>7 DEF Leaving, Watching
    <3> QED
      BY <1>3, <3>1, <3>2, <3>3, WillTail
  <2>2. ASSUME InTouch, Active \in Alive
        PROVE  /\ Will(srv'.sub = Active, Tail(Reqs), Leaving \union Watching(Alive), Watching({Active}))
               /\ Will(srv'.sizes[Active] = ui.size, Tail(Reqs), Sizing(Active), Sized(ui.size))
    <3>1. /\ Will(srv.sub = Active, Reqs, Leaving \union Watching(Alive), Watching({Active}))
          /\ Will(srv.sizes[Active] = ui.size, Reqs, Sizing(Active), Sized(ui.size))
      BY <2>2 DEF Flow, ServedOK, WillSee, WillSize
    <3>2. x \in Watching({Active}) => srv'.sub = Active
      BY <1>7, <2>2 DEF Watching
    <3>3. x \notin Leaving \union Watching(Alive) => srv'.sub = srv.sub
      BY <1>3, <1>7 DEF Leaving, Watching
    <3>4. x \in Sizing(Active) /\ x \in Sized(ui.size) => srv'.sizes[Active] = ui.size
      BY <1>7, <2>2, FlowIs DEF Sizing, Sized
    <3>5. x \notin Sizing(Active) => srv'.sizes[Active] = srv.sizes[Active]
      BY <1>3, <1>7, <2>2, FlowIs DEF Sizing
    <3>6. Will(srv'.sub = Active, Tail(Reqs), Leaving \union Watching(Alive), Watching({Active}))
      BY <1>3, <3>1, <3>2, <3>3, WillTail
    <3>7. Will(srv'.sizes[Active] = ui.size, Tail(Reqs), Sizing(Active), Sized(ui.size))
      BY <1>3, <3>1, <3>4, <3>5, WillTail
    <3> QED
      BY <3>6, <3>7
  <2> QED
    BY <1>2, <1>5, <1>6, <2>1, <2>2, ServedIs
<1> QED
  BY <1>10, <1>12, <1>13, <1>14 DEF Flow

(* Regions are born, and die. *)
LEMMA PublishesFlow ==
    ASSUME Base, Flow, Publishes, loop' = loop, ui' = ui
    PROVE  Flow'
<1>0. SrvInv /\ net \in NetType /\ net.inbound \in Seq(Messages) /\ NoRegion \notin Alive'
  <2>1. srv'.regions \in Seq(Regions)
    BY DEF Publishes, SrvInv, SrvType
  <2>2. Alive' \subseteq Regions
    BY <2>1, ElementOfSeq, LenProperties DEF Alive, ToSet
  <2> QED
    BY <2>2, BaseIs, FlowIs
<1>1. PICK ms \in Seq(Messages) :
          /\ net' = Deliverable(net, ms)
          /\ \A i \in DOMAIN ms : IsTree(ms[i]) => Shown(ms[i]) = Alive'
          /\ Alive' # Alive => Len(ms) \in DOMAIN ms /\ IsTree(ms[Len(ms)])
  BY DEF Publishes
<1>2. /\ net'.up = net.up /\ net'.out = net.out /\ net'.link = net.link /\ net'.life = net.life
      /\ net'.inbound = IF net.link = "up" THEN net.inbound \o ms ELSE net.inbound
  BY <1>0, <1>1, DeliverableIs
<1>3. Reqs' = Reqs /\ Active' = Active /\ (InTouch' <=> InTouch)
  BY <1>2 DEF Reqs, Active, HasSession, Session, InTouch
<1>4. /\ Alive' \subseteq Alive \union {srv.fresh}
      /\ srv'.sub = IF srv.sub \in Alive' THEN srv.sub ELSE NoRegion
      /\ \A r \in Alive : srv'.sizes[r] = srv.sizes[r]
  BY DEF Publishes
<1>5. Known' \subseteq Known
  BY <1>3, <1>4 DEF Known
<1>6. Old \subseteq Old' /\ srv.fresh \notin Known
  <2>1. srv.fresh \notin Old /\ srv.fresh \in Int
    BY <1>0, ServerIs
  <2>2. srv'.fresh \in Int /\ srv.fresh <= srv'.fresh
    BY ClientAssumption DEF Publishes, SrvInv, SrvType
  <2>3. 1 .. srv.fresh - 1 \subseteq 1 .. srv'.fresh - 1
    BY <2>1, <2>2
  <2> QED
    BY <2>1, <2>3 DEF Old, Flow, KnownOld
<1>7. LinkOK' /\ KnownOld'
  BY <1>2, <1>4, <1>5, <1>6 DEF Flow, LinkOK, KnownOld
<1>8. KnownStay'
  <2>1. \A i \in DOMAIN net.inbound : IsTree(net.inbound[i]) => srv.fresh \notin Shown(net.inbound[i])
    BY <1>0, ServerIs DEF Base, InboundOK, InboundGood, Old
  <2>2. Stays(Known, Alive', net.inbound)
    BY <1>4, <1>6, <2>1, StaysSame DEF Flow, KnownStay
  <2>3. Stays(Known, Alive', net.inbound \o ms)
    BY <1>0, <1>1, <2>2, StaysAppend
  <2>4. Stays(Known, Alive', net'.inbound)
    BY <1>2, <2>2, <2>3
  <2> QED
    BY <1>5, <2>4, StaysLess DEF KnownStay
<1>9. LastTree'
  <2>1. net.link = "up" => Latest(ToSet(ui.tree.regions), Alive', net.inbound \o ms)
    BY <1>0, <1>1, LatestMore DEF Flow, LastTree
  <2> QED
    BY <1>2, <2>1 DEF LastTree
<1>10. \A x \in ToSet(Reqs) : x \in Watching(Alive') => x \in Watching(Alive)
  <2>1. ASSUME NEW x \in ToSet(Reqs), x \in Watching(Alive') PROVE x \in Watching(Alive)
    <3>1. x.region \in Known
      BY <1>0, <2>1 DEF Known, Asked, Watching
    <3> QED
      BY <1>4, <1>6, <2>1, <3>1 DEF Watching
  <2> QED
    BY <2>1
<1>11. ServedOK'
  <2>1. ASSUME Active = NoRegion
        PROVE  Will(srv'.sub = NoRegion, Reqs, Leaving \union Watching(Alive'), Leaving)
    <3>1. Will(srv.sub = NoRegion, Reqs, Leaving \union Watching(Alive), Leaving)
      BY <2>1 DEF Flow, ServedOK, WillLeave
    <3>2. srv.sub = NoRegion => srv'.sub = NoRegion
      BY <1>4
    <3>3. \A x \in ToSet(Reqs) :
              /\ x \in Leaving \union Watching(Alive') => x \in Leaving \union Watching(Alive)
              /\ x \in Leaving => x \in Leaving \union Watching(Alive')
      BY <1>10
    <3> QED
      BY <3>1, <3>2, <3>3, WillChange
  <2>2. ASSUME InTouch, Active \in Alive'
        PROVE  /\ Will(srv'.sub = Active, Reqs, Leaving \union Watching(Alive'), Watching({Active}))
               /\ Will(srv'.sizes[Active] = ui.size, Reqs, Sizing(Active), Sized(ui.size))
    <3>1. Active \in Alive
      <4>1. Active \in Known
        <5>1. HasSession /\ Session.tabs # <<>> /\ Active = Session.tabs[Session.active]
          BY <1>0, <2>2 DEF Active, activeRegionID
        <5>2. Session.active \in DOMAIN Session.tabs /\ ToSet(Session.tabs) \subseteq ToSet(ui.tree.regions)
          BY <5>1 DEF Base, SessionOK, TabsGood
        <5>3. Active \in ToSet(Session.tabs)
          BY <5>1, <5>2 DEF ToSet
        <5> QED
          BY <1>0, <2>2, <5>2, <5>3 DEF Known
      <4> QED
        BY <1>4, <1>6, <2>2, <4>1
    <3>2. /\ Will(srv.sub = Active, Reqs, Leaving \union Watching(Alive), Watching({Active}))
          /\ Will(srv.sizes[Active] = ui.size, Reqs, Sizing(Active), Sized(ui.size))
      BY <2>2, <3>1 DEF Flow, ServedOK, WillSee, WillSize
    <3>3. srv.sub = Active => srv'.sub = Active
      BY <1>4, <2>2
    <3>4. \A x \in ToSet(Reqs) :
              /\ x \in Leaving \union Watching(Alive') => x \in Leaving \union Watching(Alive)
              /\ x \in Watching({Active}) => x \in Leaving \union Watching(Alive')
      <4>1. \A x \in Watching({Active}) : x \in Watching(Alive')
        BY <2>2 DEF Watching
      <4> QED
        BY <1>10, <4>1
    <3>5. Will(srv'.sub = Active, Reqs, Leaving \union Watching(Alive'), Watching({Active}))
      BY <3>2, <3>3, <3>4, WillChange
    <3>6. srv'.sizes[Active] = srv.sizes[Active]
      BY <1>4, <3>1
    <3> QED
      BY <3>2, <3>5, <3>6
  <2> QED
    BY <1>3, <2>1, <2>2, ServedIs
<1> QED
  BY <1>7, <1>8, <1>9, <1>11 DEF Flow

(* The connection breaks. *)
LEMMA CutsFlow ==
    ASSUME Base, Flow, Cuts, loop' = loop, ui' = ui
    PROVE  Flow'
<1>0. net \in NetType /\ net.up \in Seq(Requests) /\ net.out \in Seq(Requests) /\ net.inbound \in Seq(Messages)
  BY BaseIs, FlowIs
<1>1. PICK k \in 0 .. Len(net.inbound) :
          net' = [net EXCEPT !.link = "broken", !.up = <<>>, !.inbound = SubSeq(net.inbound, 1, k)]
  BY DEF Cuts
<1>2. net'.link = "broken" /\ net'.up = <<>> /\ net'.out = net.out /\ net'.inbound = SubSeq(net.inbound, 1, k)
  BY <1>0, <1>1 DEF NetType
<1>3. /\ srv'.sub = NoRegion /\ srv'.fresh = srv.fresh /\ Alive' \subseteq Alive
  BY DEF Cuts
<1>4. Reqs' = net.out
  BY <1>0, <1>2, ConcatEmptySeq DEF Reqs
<1>5. Active' = Active /\ ~InTouch' /\ Old' = Old
  BY <1>2, <1>3 DEF Active, HasSession, Session, InTouch, Old
<1>6. Known' \subseteq Known
  <2>1. Asked(net.out) \subseteq Asked(Reqs)
    BY <1>0, AskedConcat DEF Reqs
  <2> QED
    BY <1>3, <1>4, <2>1 DEF Known
<1>7. LinkOK' /\ KnownOld' /\ LastTree'
  BY <1>2, <1>3, <1>5, <1>6 DEF Flow, LinkOK, KnownOld, LastTree
<1>8. KnownStay'
  <2>1. Stays(Known, Alive, net'.inbound)
    BY <1>0, <1>1, <1>2, StaysPrefix DEF Flow, KnownStay
  <2> QED
    BY <1>3, <1>6, <2>1, StaysLess DEF KnownStay
<1>9. ServedOK'
  <2>1. ASSUME Active = NoRegion
        PROVE  Will(srv'.sub = NoRegion, net.out, Leaving \union Watching(Alive'), Leaving)
    <3>1. Will(srv.sub = NoRegion, net.up \o net.out, Leaving \union Watching(Alive), Leaving)
      BY <2>1 DEF Flow, ServedOK, WillLeave, Reqs
    <3>2. Will(srv'.sub = NoRegion, net.out, Leaving \union Watching(Alive), Leaving)
      BY <1>0, <1>3, <3>1, WillSuffix
    <3>3. \A x \in ToSet(net.out) : x \in Watching(Alive') => x \in Watching(Alive)
      BY <1>3 DEF Watching
    <3> QED
      BY <3>2, <3>3, WillChange
  <2> QED
    BY <1>4, <1>5, <2>1, ServedIs
<1> QED
  BY <1>7, <1>8, <1>9 DEF Flow

LEMMA HeadFirst ==
    ASSUME NEW E, NEW q \in Seq(E), q # <<>>
    PROVE  Head(q) \in E /\ Tail(q) \in Seq(E) /\ q = <<Head(q)>> \o Tail(q)
<1> DEFINE h == <<Head(q)>>
           p == h \o Tail(q)
<1>1. Head(q) \in E /\ Tail(q) \in Seq(E)
  BY HeadTailProperties
<1>2. PICK n \in Nat : n = Len(q)
  BY LenProperties
<1>3. n # 0 /\ Head(q) = q[1] /\ Len(Tail(q)) = n - 1 /\ \A i \in 1 .. n - 1 : Tail(q)[i] = q[i + 1]
  BY <1>2, EmptySeq, HeadTailProperties
<1>4. h \in Seq(E) /\ Len(h) = 1 /\ h[1] = Head(q)
  BY <1>1
<1> HIDE DEF h
<1>5. p \in Seq(E) /\ Len(p) = 1 + (n - 1) /\ \A i \in 1 .. 1 + (n - 1) : p[i] = IF i <= 1 THEN h[i] ELSE Tail(q)[i - 1]
  BY <1>1, <1>3, <1>4, ConcatProperties, SMTT(30)
<1> HIDE DEF p
<1>6. \A i \in 1 .. n : p[i] = q[i]
  <2>1. ASSUME NEW i \in 1 .. n PROVE p[i] = q[i]
    <3>1. CASE i = 1
      BY <1>3, <1>4, <1>5, <3>1
    <3>2. CASE i # 1
      <4>1. i - 1 \in 1 .. n - 1 /\ (i - 1) + 1 = i /\ i \in 1 .. 1 + (n - 1) /\ ~(i <= 1)
        BY <3>2
      <4>2. p[i] = Tail(q)[i - 1]
        BY <1>5, <4>1
      <4> QED
        BY <1>3, <4>1, <4>2
    <3> QED
      BY <3>1, <3>2
  <2> QED
    BY <2>1
<1>7. Len(p) = Len(q) /\ Len(q) = n
  BY <1>2, <1>5
<1>8. q = p
  BY <1>5, <1>6, <1>7, SeqEqual
<1> QED
  BY <1>1, <1>8 DEF p, h

(* A request goes out, or is lost with the connection. *)
LEMMA ForwardFlow == ASSUME Base, Flow, ForwardOut PROVE Flow'
<1>0. /\ net \in NetType /\ net.up \in Seq(Requests) /\ net.out \in Seq(Requests) /\ net.out # <<>>
      /\ Reqs \in Seq(Requests)
  BY BaseIs, FlowIs DEF ForwardOut
<1>1. srv' = srv /\ ui' = ui /\ loop' = loop /\ Alive' = Alive /\ Old' = Old /\ Active' = Active
  BY DEF ForwardOut, Alive, Old, Active, HasSession, Session
<1> DEFINE h == Head(net.out)
<1>2. h \in Requests /\ Tail(net.out) \in Seq(Requests) /\ net.out = <<h>> \o Tail(net.out)
  BY <1>0, HeadFirst
<1> HIDE DEF h
<1>3. ASSUME net'.up \in Seq(Requests), net'.out \in Seq(Requests), net'.link = net.link, net'.life = net.life,
             net'.inbound = net.inbound, Reqs' = Reqs \/ (~InTouch' /\ srv.sub = NoRegion /\ Reqs' = Tail(Reqs) /\ Reqs # <<>>),
             net.link \in {"broken", "down"} => net'.up = <<>>
      PROVE  Flow'
  <2>1. InTouch' <=> InTouch
    BY <1>1, <1>3 DEF InTouch
  <2>2. Asked(Reqs') \subseteq Asked(Reqs)
    <3>1. ASSUME Reqs' = Tail(Reqs), Reqs # <<>> PROVE ToSet(Reqs') \subseteq ToSet(Reqs)
      BY <1>0, <3>1, TailOf DEF ToSet
    <3>2. ToSet(Reqs') \subseteq ToSet(Reqs)
      BY <1>3, <3>1
    <3> QED
      BY <3>2 DEF Asked
  <2>3. Known' \subseteq Known
    BY <1>1, <2>2 DEF Known
  <2>4. LinkOK' /\ KnownOld' /\ LastTree'
    BY <1>1, <1>3, <2>3 DEF Flow, LinkOK, KnownOld, LastTree
  <2>5. KnownStay'
    BY <1>1, <1>3, <2>3, StaysLess DEF Flow, KnownStay
  <2>6. ASSUME Active = NoRegion
        PROVE  Will(srv.sub = NoRegion, Reqs', Leaving \union Watching(Alive), Leaving)
    <3>1. Will(srv.sub = NoRegion, Reqs, Leaving \union Watching(Alive), Leaving)
      BY <2>6 DEF Flow, ServedOK, WillLeave
    <3>2. ASSUME srv.sub = NoRegion, Reqs # <<>>
          PROVE  Will(srv.sub = NoRegion, Tail(Reqs), Leaving \union Watching(Alive), Leaving)
      BY <1>0, <3>1, <3>2, WillTail
    <3>3. CASE Reqs' = Reqs
      BY <3>1, <3>3
    <3>4. CASE Reqs' # Reqs
      BY <1>3, <3>2, <3>4
    <3> QED
      BY <3>3, <3>4
  <2>7. ASSUME InTouch', Active \in Alive
        PROVE  /\ Will(srv.sub = Active, Reqs', Leaving \union Watching(Alive), Watching({Active}))
               /\ Will(srv.sizes[Active] = ui.size, Reqs', Sizing(Active), Sized(ui.size))
    BY <1>3, <2>1, <2>7 DEF Flow, ServedOK, WillSee, WillSize
  <2> QED
    BY <1>1, <2>4, <2>5, <2>6, <2>7, ServedIs DEF Flow
<1>4. CASE net.link = "up"
  <2>1. net' = [net EXCEPT !.out = Tail(net.out), !.up = Append(net.up, h)]
    BY <1>4 DEF ForwardOut, NetType, h
  <2>2. Append(net.up, h) \in Seq(Requests) /\ Append(net.up, h) = net.up \o <<h>> /\ <<h>> \in Seq(Requests)
    BY <1>0, <1>2, AppendProperties, AppendIsConcat
  <2>3. /\ net'.up = net.up \o <<h>> /\ net'.out = Tail(net.out) /\ net'.link = net.link /\ net'.life = net.life
        /\ net'.inbound = net.inbound
    BY <1>0, <2>1, <2>2 DEF NetType
  <2>4. Reqs' = (net.up \o <<h>>) \o Tail(net.out)
    BY <2>3 DEF Reqs
  <2>5. (net.up \o <<h>>) \o Tail(net.out) = net.up \o (<<h>> \o Tail(net.out))
    <3>1. net.up \in Seq(Requests) /\ <<h>> \in Seq(Requests) /\ Tail(net.out) \in Seq(Requests)
      BY <1>0, <1>2, <2>2
    <3> QED
      BY <3>1, Associates
  <2> QED
    BY <1>2, <1>3, <1>4, <2>2, <2>3, <2>4, <2>5 DEF Reqs
<1>5. CASE net.link = "broken"
  <2>1. net' = [net EXCEPT !.out = Tail(net.out), !.up = net.up]
    BY <1>5 DEF ForwardOut, NetType
  <2>2. net.up = <<>> /\ srv.sub = NoRegion
    BY <1>5 DEF Flow, LinkOK
  <2>3. /\ net'.up = <<>> /\ net'.out = Tail(net.out) /\ net'.link = net.link /\ net'.life = net.life
        /\ net'.inbound = net.inbound
    BY <1>0, <2>1, <2>2 DEF NetType
  <2>4. Reqs = net.out /\ Reqs' = Tail(net.out)
    BY <1>0, <1>2, <2>2, <2>3, ConcatEmptySeq DEF Reqs
  <2>5. ~InTouch' /\ <<>> \in Seq(Requests)
    BY <1>5, <2>3 DEF InTouch
  <2> QED
    BY <1>0, <1>2, <1>3, <2>2, <2>3, <2>4, <2>5
<1> QED
  BY <1>4, <1>5 DEF ForwardOut

(* The connection ends, is tried again, or comes back with a snapshot. *)
LEMMA LinkFlow ==
    ASSUME Base, Flow, Disconnect \/ RedialFails \/ Redial \/ TaskApplies
    PROVE  Flow'
<1>0. net \in NetType /\ net.inbound \in Seq(Messages) /\ SrvInv
  BY BaseIs, FlowIs
<1>1. srv' = srv /\ ui' = ui /\ Alive' = Alive /\ Old' = Old /\ Active' = Active
  BY DEF Disconnect, RedialFails, Redial, TaskApplies, Alive, Old, Active, HasSession, Session
<1>2. ASSUME net'.up = net.up, net'.out = net.out, net'.link \in {"broken", "down"} => net.link \in {"broken", "down"},
             KnownStay', LastTree', ~InTouch'
      PROVE  Flow'
  <2>1. Reqs' = Reqs /\ Known' = Known
    BY <1>1, <1>2 DEF Reqs, Known
  <2>2. LinkOK' /\ KnownOld'
    BY <1>1, <1>2, <2>1 DEF Flow, LinkOK, KnownOld
  <2>3. Active = NoRegion => Will(srv.sub = NoRegion, Reqs, Leaving \union Watching(Alive), Leaving)
    BY DEF Flow, ServedOK, WillLeave
  <2> QED
    BY <1>1, <1>2, <2>1, <2>2, <2>3, ServedIs DEF Flow
<1>3. ASSUME net'.up = net.up, net'.out = net.out PROVE Known' = Known
  BY <1>1, <1>3 DEF Known, Reqs
<1>4. CASE Disconnect \/ RedialFails \/ TaskApplies
  <2>1. /\ net'.up = net.up /\ net'.out = net.out /\ net'.inbound = net.inbound
        /\ net'.link \in {"down", "none"} /\ (net'.link = "down" => net.link \in {"broken", "down"})
    <3>1. CASE Disconnect
      <4>1. net' = [net EXCEPT !.link = "down", !.life = Append(net.life, "disconnected")]
        BY <3>1 DEF Disconnect, NetType
      <4> QED
        BY <1>0, <3>1, <4>1 DEF Disconnect, NetType
    <3>2. CASE RedialFails
      <4>1. net' = [net EXCEPT !.life = Append(net.life, "disconnected")]
        BY <3>2 DEF RedialFails, NetType
      <4> QED
        BY <1>0, <3>2, <4>1 DEF RedialFails, NetType
    <3>3. CASE TaskApplies
      BY <1>0, <3>3 DEF TaskApplies, NetType
    <3> QED
      BY <1>4, <3>1, <3>2, <3>3
  <2>2. KnownStay'
    BY <1>1, <1>3, <2>1 DEF Flow, KnownStay
  <2>3. LastTree' /\ ~InTouch'
    BY <2>1 DEF LastTree, InTouch
  <2> QED
    BY <1>2, <2>1, <2>2, <2>3
<1>5. CASE Redial
  <2> DEFINE m == TreeMessage(srv)
  <2>1. m \in Messages /\ IsTree(m) /\ Shown(m) = Alive
    BY <1>0, ServerIs, TreeMessageIs
  <2>2. net' = [net EXCEPT !.link = "up", !.life = Append(net.life, "reconnected"), !.inbound = Append(net.inbound, m)]
    BY <1>5 DEF Redial, NetType
  <2> HIDE DEF m
  <2>3. Append(net.inbound, m) = net.inbound \o <<m>> /\ <<m>> \in Seq(Messages)
        /\ DOMAIN <<m>> = {1} /\ \A i \in DOMAIN <<m>> : <<m>>[i] = m
    BY <1>0, <2>1, AppendIsConcat
  <2>4. /\ net'.up = net.up /\ net'.out = net.out /\ net'.link = "up" /\ net'.life = Append(net.life, "reconnected")
        /\ net'.inbound = net.inbound \o <<m>>
    BY <1>0, <2>2, <2>3 DEF NetType
  <2>5. ~InTouch'
    <3>1. net.life \in Seq({"disconnected", "reconnected"})
      BY <1>0 DEF NetType
    <3>2. Append(net.life, "reconnected") # <<>>
      BY <3>1, AppendProperties
    <3> QED
      BY <2>4, <3>2 DEF InTouch
  <2>6. KnownStay'
    <3>1. Stays(Known, Alive, net.inbound \o <<m>>)
      BY <1>0, <2>1, <2>3, StaysAppend DEF Flow, KnownStay
    <3> QED
      BY <1>1, <1>3, <2>4, <3>1 DEF KnownStay
  <2>7. LastTree'
    <3>1. \A x \in ToSet(<<m>>) : x \in Trees /\ x \in Showing(Alive)
      BY <2>1, <2>3 DEF ToSet, Trees, Showing
    <3>2. m \in ToSet(<<m>>)
      BY <2>3 DEF ToSet
    <3>3. Latest(ToSet(ui.tree.regions), Alive, net.inbound \o <<m>>)
      BY <1>0, <2>3, <3>1, <3>2, WillSet DEF Latest
    <3> QED
      BY <1>1, <2>4, <3>3 DEF LastTree
  <2> QED
    BY <1>2, <2>4, <2>5, <2>6, <2>7
<1> QED
  BY <1>4, <1>5

(* A step of the client, when what it sends finds a place. *)
LEMMA MovesFlow ==
    ASSUME Base, Base', Flow, Moves, NeverFull'
    PROVE  Flow'
<1>0. /\ TypesOK /\ net \in NetType /\ net.inbound \in Seq(Messages) /\ Reqs \in Seq(Requests)
      /\ NoRegion \notin Alive
  BY BaseIs, FlowIs DEF Base
<1>1. PICK n \in NetType, sends \in Seq(Requests) :
          From(n) /\ net' = Send(n, sends) /\ Asked(sends) \subseteq ToSet(ui'.tree.regions) /\ Changes(sends)
  BY DEF Moves
<1>2. n.out = net.out /\ n.up = net.up /\ n.link = net.link
  BY <1>1 DEF From
<1>3. Reqs' = Reqs \o sends /\ Reqs' \in Seq(Requests)
  BY <1>0, <1>1, <1>2, SendIs
<1>4. net'.up = net.up /\ net'.link = net.link /\ net'.inbound = n.inbound
  BY <1>1, <1>2, SendType
<1>5. srv' = srv /\ Alive' = Alive /\ Old' = Old
  BY DEF Moves, Alive, Old
<1> DEFINE T == ToSet(ui.tree.regions)
           S == IF IsTree(Head(net.inbound)) THEN Shown(Head(net.inbound)) ELSE {}
<1>6. \/ n.inbound = net.inbound /\ ToSet(ui'.tree.regions) = T
      \/ /\ net.inbound # <<>> /\ n.inbound = Tail(net.inbound)
         /\ ToSet(ui'.tree.regions) = IF IsTree(Head(net.inbound)) THEN Shown(Head(net.inbound)) ELSE T
  BY <1>1 DEF From
<1>7. Known' \subseteq (ToSet(ui'.tree.regions) \union Asked(Reqs) \union {srv.sub}) \ {NoRegion}
  <2>1. Asked(Reqs') = Asked(Reqs) \union Asked(sends)
    BY <1>0, <1>1, <1>3, AskedConcat
  <2> QED
    BY <1>1, <1>5, <2>1 DEF Known
<1>8. \/ n.inbound = net.inbound /\ Known' \subseteq Known
      \/ net.inbound # <<>> /\ n.inbound = Tail(net.inbound) /\ Known' \subseteq Known \union S
  <2>1. CASE n.inbound = net.inbound /\ ToSet(ui'.tree.regions) = T
    BY <1>7, <2>1 DEF Known
  <2>2. CASE /\ net.inbound # <<>> /\ n.inbound = Tail(net.inbound)
             /\ ToSet(ui'.tree.regions) = IF IsTree(Head(net.inbound)) THEN Shown(Head(net.inbound)) ELSE T
    <3>1. ToSet(ui'.tree.regions) \subseteq T \union S
      BY <2>2
    <3> QED
      BY <1>7, <2>2, <3>1 DEF Known
  <2> QED
    BY <1>6, <2>1, <2>2
<1>9. net.inbound # <<>> => S \subseteq Old
  <2>1. ASSUME net.inbound # <<>>, IsTree(Head(net.inbound)) PROVE Shown(Head(net.inbound)) \subseteq Old
    <3>1. 1 \in DOMAIN net.inbound /\ Head(net.inbound) = net.inbound[1]
      BY <1>0, <2>1, TailOf
    <3> QED
      BY <2>1, <3>1 DEF Base, InboundOK, InboundGood, Old
  <2> QED
    BY <2>1
<1>10. LinkOK' /\ KnownOld'
  BY <1>4, <1>5, <1>8, <1>9 DEF Flow, LinkOK, KnownOld
<1>11. KnownStay'
  <2>1. CASE n.inbound = net.inbound /\ Known' \subseteq Known
    BY <1>4, <1>5, <2>1, StaysLess DEF Flow, KnownStay
  <2>2. CASE net.inbound # <<>> /\ n.inbound = Tail(net.inbound) /\ Known' \subseteq Known \union S
    <3>1. Stays(Known', Alive, Tail(net.inbound))
      BY <1>0, <2>2, StaysTail DEF Flow, KnownStay
    <3> QED
      BY <1>4, <1>5, <2>2, <3>1 DEF KnownStay
  <2> QED
    BY <1>8, <2>1, <2>2
<1>12. LastTree'
  <2>1. ASSUME net.link = "up" PROVE Latest(ToSet(ui'.tree.regions), Alive, n.inbound)
    <3>1. Latest(T, Alive, net.inbound)
      BY <2>1 DEF Flow, LastTree
    <3>2. CASE n.inbound = net.inbound /\ ToSet(ui'.tree.regions) = T
      BY <3>1, <3>2
    <3>3. CASE /\ net.inbound # <<>> /\ n.inbound = Tail(net.inbound)
               /\ ToSet(ui'.tree.regions) = IF IsTree(Head(net.inbound)) THEN Shown(Head(net.inbound)) ELSE T
      <4>1. Latest(ToSet(ui'.tree.regions), Alive, Tail(net.inbound))
        BY <1>0, <3>1, <3>3, LatestTail
      <4> QED
        BY <3>3, <4>1
    <3> QED
      BY <1>6, <3>2, <3>3
  <2> QED
    BY <1>4, <1>5, <2>1 DEF LastTree
<1> DEFINE Cl == Leaving \union Watching(Alive)
           See(q, r) == Will(srv.sub = r, q, Cl, Watching({r}))
           Size(q, r) == Will(srv.sizes[r] = ui'.size, q, Sizing(r), Sized(ui'.size))
           Leave(q) == Will(srv.sub = NoRegion, q, Cl, Leaving)
<1> HIDE DEF T, S
<1>13. Active = NoRegion => Leave(Reqs)
  BY DEF Flow, ServedOK, WillLeave
<1>14. InTouch /\ Active \in Alive => See(Reqs, Active) /\ (ui'.size = ui.size => Size(Reqs, Active))
  BY DEF Flow, ServedOK, WillSee, WillSize
<1> HIDE DEF See, Size, Leave
<1>15. ASSUME Active' = NoRegion => Leave(Reqs \o sends),
              InTouch' /\ Active' \in Alive => See(Reqs \o sends, Active') /\ Size(Reqs \o sends, Active')
       PROVE  Flow'
  <2>1. ServedOK'
    BY <1>3, <1>5, <1>15, ServedIs DEF See, Size, Leave
  <2> QED
    BY <1>10, <1>11, <1>12, <2>1 DEF Flow
<1>16. CASE Stayed(sends)
  <2>1. ToSet(sends) \subseteq Quiet /\ Active' = Active
    BY <1>16, QuietIs DEF Stayed
  <2>2. \A x \in ToSet(sends) : x \notin Cl /\ \A r : x \notin Sizing(r)
    BY <2>1 DEF Quiet, Leaving, Watching, Sizing
  <2>3. Active = NoRegion => Leave(Reqs \o sends)
    BY <1>0, <1>1, <1>13, <2>2, WillAppend DEF Leave
  <2>4. ASSUME InTouch', Active \in Alive PROVE See(Reqs \o sends, Active) /\ Size(Reqs \o sends, Active)
    <3>1. InTouch /\ ui'.size = ui.size
      BY <1>0, <1>16, <2>4 DEF Stayed
    <3>2. See(Reqs, Active) /\ Size(Reqs, Active)
      BY <1>14, <2>4, <3>1
    <3>3. See(Reqs \o sends, Active)
      BY <1>0, <1>1, <2>2, <3>2, WillAppend DEF See
    <3>4. Size(Reqs \o sends, Active)
      BY <1>0, <1>1, <2>2, <3>2, WillAppend DEF Size
    <3> QED
      BY <3>3, <3>4
  <2> QED
    BY <1>15, <2>1, <2>3, <2>4
<1>17. CASE Resized(sends)
  <2>1. /\ Active' = Active /\ (InTouch' => InTouch)
        /\ \A x \in ToSet(sends) : x.type = "resize" /\ x.size = ui'.size
        /\ \E x \in ToSet(sends) : x.region = Active
    BY <1>17 DEF Resized
  <2>2. \A x \in ToSet(sends) : x \in Requests
    BY <1>1, ElementOfSeq, LenProperties DEF ToSet
  <2>3. \A x \in ToSet(sends) : x \notin Cl /\ x \in Sized(ui'.size)
    BY <2>1, <2>2 DEF Leaving, Watching, Sized
  <2>4. Active = NoRegion => Leave(Reqs \o sends)
    BY <1>0, <1>1, <1>13, <2>3, WillAppend DEF Leave
  <2>5. InTouch' /\ Active \in Alive => See(Reqs \o sends, Active)
    BY <1>0, <1>1, <1>14, <2>1, <2>3, WillAppend DEF See
  <2>6. \E x \in ToSet(sends) : x \in Sizing(Active)
    BY <2>1, <2>2 DEF Sizing
  <2>7. Size(Reqs \o sends, Active)
    BY <1>0, <1>1, <2>3, <2>6, WillSet DEF Size
  <2> QED
    BY <1>15, <2>1, <2>4, <2>5, <2>7
<1>18. CASE Steered(sends)
  <2> DEFINE see == Ask("subscribe", Active', 0)
             size == Ask("resize", Active', ui'.size)
  <2>1. PICK pre \in Seq(Plain) : sends = pre \o Activate(Session')
    BY <1>18 DEF Steered
  <2>2. HasSession' /\ Session'.tabs # <<>> /\ Session'.size = ui'.size /\ Active' = activeRegionID(Session')
    BY <1>18 DEF Steered, Base, SessionOK, Active
  <2>3. Activate(Session') = <<see, size>>
    BY <2>2 DEF Activate
  <2>4. Active' \in Regions
    <3>1. Session'.tabs \in Seq(Regions)
      <4>1. ui'.sessions \in Seq(SessionType) /\ ui'.sessions # <<>>
        BY <2>2 DEF Base, TypesOK, UiType, HasSession
      <4>2. ui'.sessions[1] \in SessionType
        BY <4>1, TailOf, ElementOfSeq
      <4> QED
        BY <4>2 DEF Session, SessionType
    <3>2. Session'.active \in DOMAIN Session'.tabs
      BY <2>2 DEF Base, SessionOK, TabsGood
    <3>3. Session'.tabs[Session'.active] \in Regions
      BY <3>1, <3>2, ElementOfSeq, LenProperties
    <3> QED
      BY <2>2, <3>3 DEF activeRegionID
  <2>5. ui'.size \in Nat
    BY DEF Base, TypesOK, UiType
  <2>6. /\ see \in Requests /\ see.type = "subscribe" /\ see.region = Active'
        /\ size \in Requests /\ size.type = "resize" /\ size.region = Active' /\ size.size = ui'.size
    BY <2>4, <2>5 DEF Ask, Requests
  <2> HIDE DEF see, size
  <2>7. <<see, size>> \in Seq(Requests) /\ ToSet(<<see, size>>) = {see, size}
    BY <2>6 DEF ToSet
  <2>8. pre \in Seq(Requests) /\ Reqs \o pre \in Seq(Requests) /\ Reqs \o sends = (Reqs \o pre) \o <<see, size>>
    <3>1. pre \in Seq(Requests)
      BY <2>1, PlainIs
    <3>3. Reqs \in Seq(Requests) /\ Reqs \o pre \in Seq(Requests)
      BY <1>0, <3>1, ConcatProperties
    <3>4. sends = pre \o <<see, size>>
      BY <2>1, <2>3
    <3>5. (Reqs \o pre) \o <<see, size>> = Reqs \o (pre \o <<see, size>>)
      BY <2>7, <3>1, <3>3, Associates
    <3> QED
      BY <3>1, <3>3, <3>4, <3>5
  <2>9. ASSUME Active' \in Alive
        PROVE  See((Reqs \o pre) \o <<see, size>>, Active') /\ Size((Reqs \o pre) \o <<see, size>>, Active')
    <3>1. see \in Cl /\ see \in Watching({Active'}) /\ size \notin Cl
      BY <2>6, <2>9 DEF Leaving, Watching
    <3>2. see \notin Sizing(Active') /\ size \in Sizing(Active') /\ size \in Sized(ui'.size)
      BY <2>6 DEF Sizing, Sized
    <3>3. See((Reqs \o pre) \o <<see, size>>, Active')
      BY <2>7, <2>8, <3>1, WillSet DEF See
    <3>4. Size((Reqs \o pre) \o <<see, size>>, Active')
      BY <2>7, <2>8, <3>2, WillSet DEF Size
    <3> QED
      BY <3>3, <3>4
  <2>10. Active' # NoRegion
    BY <2>4, ClientAssumption
  <2> QED
    BY <1>15, <2>8, <2>9, <2>10
<1>19. CASE Emptied(sends)
  <2>1. /\ Active' = NoRegion /\ sends = <<>>
        /\ net.inbound # <<>> /\ IsTree(Head(net.inbound)) /\ Shown(Head(net.inbound)) = {}
    BY <1>19 DEF Emptied
  <2>2. 1 \in DOMAIN net.inbound /\ Head(net.inbound) = net.inbound[1]
    BY <1>0, <2>1, TailOf
  <2>3. Known \intersect Alive = {}
    BY <2>1, <2>2 DEF Flow, KnownStay, Stays
  <2>4. srv.sub = NoRegion
    <3>1. srv.sub \in Alive \union {NoRegion}
      BY DEF Base, ServerOK
    <3> QED
      BY <2>3, <3>1 DEF Known
  <2>5. \A x \in ToSet(Reqs) : x \notin Watching(Alive)
    <3>1. ASSUME NEW x \in ToSet(Reqs), x \in Watching(Alive) PROVE FALSE
      <4>1. x.region \in Known /\ x.region \in Alive
        BY <1>0, <3>1 DEF Known, Asked, Watching
      <4> QED
        BY <2>3, <4>1
    <3> QED
      BY <3>1
  <2>6. Leave(Reqs)
    BY <2>4, <2>5, WillAll DEF Leave
  <2>7. Reqs \o sends = Reqs
    BY <1>0, <2>1, ConcatEmptySeq
  <2> QED
    BY <1>0, <1>15, <2>1, <2>6, <2>7
<1>20. CASE Left(sends)
  <2>1. CASE Active' = NoRegion /\ \E pre \in Seq(Quiet), x \in Leaving : sends = pre \o <<x>>
    <3>1. PICK pre \in Seq(Quiet), x \in Leaving : sends = pre \o <<x>>
      BY <2>1
    <3>2. <<x>> \in Seq(Requests) /\ ToSet(<<x>>) = {x} /\ pre \in Seq(Requests)
      BY <3>1, QuietIs DEF Leaving, ToSet
    <3>3. Reqs \o pre \in Seq(Requests) /\ Reqs \o sends = (Reqs \o pre) \o <<x>>
      <4>1. Reqs \o pre \in Seq(Requests)
        BY <1>0, <3>2, ConcatProperties
      <4> QED
        BY <1>0, <3>1, <3>2, <4>1, Associates
    <3>4. Leave((Reqs \o pre) \o <<x>>)
      BY <3>1, <3>2, <3>3, WillSet DEF Leave
    <3> QED
      BY <1>0, <1>15, <2>1, <3>3, <3>4
  <2>2. CASE Active' = Active /\ Active # NoRegion /\ loop' = "stopped"
    BY <1>15, <2>2 DEF InTouch
  <2> QED
    BY <1>20, <2>1, <2>2 DEF Left
<1> QED
  BY <1>1, <1>16, <1>17, <1>18, <1>19, <1>20 DEF Changes

(* Another server, empty as yet, and nothing but the request for a session. *)
LEMMA AdoptsFlow == ASSUME Base, Flow, AdoptsOne, NeverFull' PROVE Flow'
<1> DEFINE tree == TreeMessage([NewServer EXCEPT !.fresh = srv.fresh])
           s == NewSession(ui.size)
<1>0. SrvInv /\ UiInv /\ TypesOK
  BY BaseIs DEF Base
<1>1. /\ tree \in Messages /\ IsTree(tree) /\ Shown(tree) = {}
      /\ Adopted \in NetType /\ Adopted.inbound = <<tree>> /\ Adopted.out = <<>> /\ Adopted.up = <<>>
      /\ Adopted.link = "up"
  BY <1>0, AdoptedIs
<1> HIDE DEF tree
<1>2. /\ Alive' = {} /\ srv'.sub = NoRegion /\ srv'.fresh = srv.fresh /\ Active' = NoRegion /\ ui'.tree = ui.tree
  BY <1>0, AdoptsBase
<1>3. net' = Send(Adopted, Reconnect(s)) /\ s \in SessionType
  <2>1. <<>> \in Seq(Regions) /\ ui.size \in Nat
    BY <1>0 DEF UiInv, UiType
  <2>2. s \in SessionType
    BY <2>1 DEF NewSession, SessionType
  <2>3. net' = Send(Adopted, Reconnect(s))
    BY DEF AdoptsOne, Adopts
  <2> QED
    BY <2>2, <2>3
<1> DEFINE asks == Reconnect(s)
<1>4. asks \in Seq(Requests) /\ ToSet(asks) \subseteq Quiet /\ Asked(asks) = {}
  <2> HIDE DEF s
  <2>1. asks \in Seq(Quiet)
    BY <1>3, ReconnectIs
  <2> QED
    BY <2>1, QuietIs
<1> HIDE DEF asks
<1>5. net' = [Adopted EXCEPT !.out = Adopted.out \o asks]
  BY <1>0, <1>1, <1>3, <1>4, SendIs DEF asks
<1>6. net'.up = <<>> /\ net'.out = asks /\ net'.link = "up" /\ net'.inbound = <<tree>>
  <2>1. Adopted.out \o asks = asks
    BY <1>1, <1>4, ConcatEmptySeq
  <2> QED
    BY <1>1, <1>5, <2>1 DEF NetType
<1>7. Reqs' = asks
  BY <1>4, <1>6, ConcatEmptySeq DEF Reqs
<1>8. Known' \subseteq Known
  BY <1>2, <1>4, <1>7 DEF Known
<1>9. LinkOK' /\ KnownOld'
  BY <1>2, <1>6, <1>8 DEF LinkOK, KnownOld, Flow, Old
<1>10. KnownStay'
  BY <1>2, <1>6 DEF KnownStay, Stays
<1>11. LastTree'
  <2>1. DOMAIN <<tree>> = {1} /\ <<tree>>[1] = tree
    OBVIOUS
  <2>2. tree \in Trees /\ tree \in Showing({})
    BY <1>1 DEF Trees, Showing
  <2>3. Latest(ToSet(ui'.tree.regions), {}, <<tree>>)
    BY <2>1, <2>2 DEF Latest, Will
  <2> QED
    BY <1>2, <1>6, <2>3 DEF LastTree
<1>12. ServedOK'
  <2>1. \A x \in ToSet(asks) : x \notin Leaving \union Watching(Alive')
    BY <1>4 DEF Quiet, Leaving, Watching
  <2>2. Will(srv'.sub = NoRegion, asks, Leaving \union Watching(Alive'), Leaving)
    BY <1>2, <2>1, WillAll
  <2> QED
    BY <1>2, <1>7, <2>2, ServedIs
<1> QED
  BY <1>9, <1>10, <1>11, <1>12 DEF Flow

LEMMA FlowStep == ASSUME Base, Flow, Next, NeverFull' PROVE Flow'
<1>1. SrvInv /\ UiInv /\ PostedOK /\ TypesOK /\ InboundOK /\ Base'
  BY BaseIs, BaseStep DEF Base
<1> QED
  BY <1>1, Kinds, ReadsFlow, PublishesFlow, CutsFlow, ForwardFlow, LinkFlow, MovesFlow, AdoptsFlow

LEMMA FlowInit == ASSUME Init PROVE Flow
<1>1. srv = NewServer /\ srv.regions = <<>> /\ srv.sub = NoRegion /\ srv.fresh = 1 /\ Alive = {}
  BY NoneSent DEF Init, NewServer, Alive
<1>2. net.up = <<>> /\ net.out = <<>> /\ net.link \in {"up", "none"} /\ Reqs = <<>>
  BY ConcatEmptySeq DEF Init, NewNet, Reqs
<1>3. \A i \in DOMAIN net.inbound : net.inbound[i] = TreeMessage(NewServer)
  BY DEF Init, NewNet
<1>4. ToSet(ui.tree.regions) = {} /\ Known = {}
  BY <1>1, <1>2, NoneSent DEF Init, NoTree, Known
<1>5. Active = NoRegion
  BY BaseInit DEF Init, Active, HasSession, Session, activeRegionID, NewSession
<1>6. LinkOK /\ KnownOld /\ KnownStay
  BY <1>1, <1>2, <1>4 DEF LinkOK, KnownOld, KnownStay, Stays
<1>7. LastTree
  <2>1. NewServer \in SrvType
    BY <1>1, BaseInit DEF Base, TypesOK
  <2>2. TreeMessage(NewServer) \in Showing({})
    BY <1>1, <2>1, TreeMessageIs, NoneSent DEF Showing
  <2>3. Latest({}, {}, net.inbound)
    BY <1>3, <2>2 DEF Latest, Will
  <2> QED
    BY <1>1, <1>4, <2>3 DEF LastTree
<1>8. ServedOK
  BY <1>1, <1>2, <1>5, NoneSent, WillAll, FlowIs, BaseInit DEF ServedOK, WillLeave
<1> QED
  BY <1>6, <1>7, <1>8 DEF Flow

LEMMA FlowStutter == ASSUME Flow, UNCHANGED vars PROVE Flow'
<1>1. loop' = loop /\ ui' = ui /\ net' = net /\ srv' = srv
  BY DEF vars
<1>2. Alive' = Alive /\ Old' = Old /\ Reqs' = Reqs /\ Active' = Active /\ (InTouch' <=> InTouch) /\ Known' = Known
  BY <1>1 DEF Alive, Old, Reqs, Active, HasSession, Session, InTouch, Known
<1>3. LinkOK' /\ KnownOld' /\ KnownStay' /\ LastTree'
  BY <1>1, <1>2 DEF Flow, LinkOK, KnownOld, KnownStay, LastTree
<1>4. ServedOK'
  BY <1>1, <1>2, ServedIs DEF Flow, ServedOK, WillLeave, WillSee, WillSize
<1> QED
  BY <1>3, <1>4 DEF Flow

LEMMA Served == ASSUME IInv PROVE VisibleServed
<1> SUFFICES ASSUME Settled
             PROVE  /\ srv.sub = IF HasSession THEN activeRegionID(Session) ELSE NoRegion
                    /\ HasSession /\ Session.tabs # <<>> => srv.sizes[activeRegionID(Session)] = ui.size
  BY DEF VisibleServed
<1>0. Base /\ Flow
  BY DEF IInv
<1>1. Reqs = <<>> /\ net.inbound = <<>> /\ InTouch
  BY ConcatEmptySeq DEF Settled, Reqs, InTouch
<1>2. ToSet(ui.tree.regions) = Alive
  <2>1. Will(ToSet(ui.tree.regions) = Alive, <<>>, Trees, Showing(Alive))
    BY <1>0, <1>1 DEF Flow, LastTree, Latest, InTouch
  <2> QED
    BY <2>1, WillNow
<1>3. CASE Active = NoRegion
  <2>1. Will(srv.sub = NoRegion, <<>>, Leaving \union Watching(Alive), Leaving)
    BY <1>0, <1>1, <1>3 DEF Flow, ServedOK, WillLeave
  <2>2. srv.sub = NoRegion
    BY <2>1, WillNow
  <2>3. ~(HasSession /\ Session.tabs # <<>>)
    <3> SUFFICES ASSUME HasSession, Session.tabs # <<>> PROVE FALSE
      OBVIOUS
    <3>1. Active = Session.tabs[Session.active]
      BY DEF Active, activeRegionID
    <3>2. Session.active \in DOMAIN Session.tabs /\ ToSet(Session.tabs) \subseteq Alive
      BY <1>0, <1>2 DEF Base, SessionOK, TabsGood
    <3>3. Active \in Alive
      BY <3>1, <3>2 DEF ToSet
    <3> QED
      BY <1>0, <1>3, <3>3, FlowIs
  <2> QED
    BY <1>3, <2>2, <2>3 DEF Active
<1>4. CASE Active # NoRegion
  <2>1. HasSession /\ Session.tabs # <<>> /\ Active = Session.tabs[Session.active]
    BY <1>4 DEF Active, activeRegionID
  <2>2. Session.active \in DOMAIN Session.tabs /\ ToSet(Session.tabs) \subseteq Alive
    BY <1>0, <1>2, <2>1 DEF Base, SessionOK, TabsGood
  <2>3. Active \in Alive
    BY <2>1, <2>2 DEF ToSet
  <2>4. /\ Will(srv.sub = Active, <<>>, Leaving \union Watching(Alive), Watching({Active}))
        /\ Will(srv.sizes[Active] = ui.size, <<>>, Sizing(Active), Sized(ui.size))
    BY <1>0, <1>1, <2>3 DEF Flow, ServedOK, WillSee, WillSize
  <2>5. srv.sub = Active
    BY <2>4, WillNow
  <2>6. srv.sizes[Active] = ui.size
    BY <2>4, WillNow
  <2> QED
    BY <2>1, <2>5, <2>6 DEF Active, activeRegionID
<1> QED
  BY <1>3, <1>4

(* The server sends the client the output of the region that it shows, and *)
(* of no other, and that region has the size of its window, as soon as     *)
(* nothing is on its way (Activate, Deactivate, syncFromTree,              *)
(* ReconnectAllMsg, tea.WindowSizeMsg); so long as no request was dropped  *)
(* because Server.ch was full.                                             *)
THEOREM ShownIsServed == Spec /\ []NeverFull => []VisibleServed
<1>1. Init => Flow
  BY FlowInit
<1>2. Base /\ Flow /\ NeverFull' /\ [Next]_vars => Flow'
  BY FlowStep, FlowStutter
<1>3. Base /\ Flow => VisibleServed
  BY Served DEF IInv
<1> QED
  BY <1>1, <1>2, <1>3, BaseAlways, PTL DEF Spec
=============================================================================
