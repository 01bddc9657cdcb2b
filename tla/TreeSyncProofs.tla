--------------------------- MODULE TreeSyncProofs ---------------------------
(***************************************************************************)
(* Proof that tree replication (TreeSync) implements its abstract          *)
(* specification (TreeReplica), for any number of connections, regions,    *)
(* sessions, programs, commits, frames and server replacements, and any    *)
(* capacity of the transport and of writeCh, of which 2 places are needed. *)
(***************************************************************************)
EXTENDS TreeSync, WellFoundedInduction, TLAPS

ApplyNext(p, t, op) == ApplyOp(t, op)
Trees == INSTANCE FoldLaws WITH Op <- ApplyNext

(* identify and the snapshot fit into a new client's writeCh. *)
RoomToGreet == \A s \in Setups : s.writeCap >= 2

IsSeq(s) == s \in Seq({s[i] : i \in DOMAIN s})

-----------------------------------------------------------------------------
(* The inductive invariant, of queues w (the wire) and q (writeCh), the    *)
(* history h of the server e and the viewer's copy st.                     *)

IsTree(t) == DOMAIN t = {"regions", "sessions", "clients", "programs", "upgrade"}

TreeOK(t) == IsTree(t) /\ DOMAIN t.clients \subseteq Conn

(* c says what t says, beyond names with a "/". *)
Copies(c, t) == IsTree(c) /\ Plain(c) = Plain(t)

(* A transaction that started from the tree t0: its operations take every  *)
(* copy of t0 to a copy of the tree it made.                               *)
TxOK(t0, tx) ==
    /\ IsSeq(tx.ops)
    /\ \A c : Copies(c, t0) => Copies(ApplyOps(c, tx.ops), tx.tree)
    /\ tx.ops = <<>> => tx.tree = t0
    /\ TreeOK(tx.tree)

HistoryOK(h) == IsSeq(h) /\ Len(h) > 0 /\ \A i \in 1 .. Len(h) : TreeOK(h[i])

(* A snapshot carries a committed tree, events lead from one to the next.  *)
MsgOK(m, h, e) ==
    \/ m.type \in {"identify", "frame"}
    \/ /\ m.type = "snapshot" /\ m.epoch = e
       /\ m.version \in 0 .. Len(h) - 1 /\ m.tree = h[m.version + 1]
    \/ /\ m.type = "events" /\ m.epoch = e
       /\ m.version \in 1 .. Len(h) - 1
       /\ \A c : Copies(c, h[m.version]) => Copies(ApplyOps(c, m.ops), h[m.version + 1])

Carries(m) == m.type \in {"snapshot", "events"}

(* Versions never fall along a queue, nor from one queue to the next.      *)
Rising(s) ==
    \A i, j \in 1 .. Len(s) :
        i < j /\ Carries(s[i]) /\ Carries(s[j]) => s[i].version <= s[j].version

Before(w, q) ==
    \A i \in 1 .. Len(w), j \in 1 .. Len(q) :
        Carries(w[i]) /\ Carries(q[j]) => w[i].version <= q[j].version

NotOlder(s, v) == \A i \in 1 .. Len(s) : Carries(s[i]) => s[i].version >= v

QueueOK(s, h, e) == IsSeq(s) /\ (\A i \in 1 .. Len(s) : MsgOK(s[i], h, e)) /\ Rising(s)

HasSnapshot(s) == \E i \in 1 .. Len(s) : s[i].type = "snapshot"

(* No events come before the first snapshot. *)
Introduced(s) ==
    \A i \in 1 .. Len(s) : s[i].type = "events" => \E j \in 1 .. i - 1 : s[j].type = "snapshot"

(* The copy is one of the present server's trees. *)
Here(st, e) == st.valid /\ st.epoch = e

StoreOK(st, h, e) ==
    /\ st.epoch \in Nat /\ e \in Nat /\ st.epoch <= e
    /\ Here(st, e) => st.version \in 0 .. Len(h) - 1 /\ Copies(st.tree, h[st.version + 1])

(* live says that what is queued in writeCh still reaches the viewer.      *)
QueuesOK(w, q, h, e, st, live) ==
    /\ QueueOK(w, h, e) /\ QueueOK(q, h, e) /\ Before(w, q)
    /\ Here(st, e) => NotOlder(w, st.version) /\ NotOlder(q, st.version)
    /\ ~Here(st, e) => Introduced(w)
    /\ live /\ ~Here(st, e) => HasSnapshot(w) \/ (HasSnapshot(q) /\ Introduced(q))

Live == conn # NoConn /\ ~writeFailed

IInv ==
    /\ setup \in Setups
    /\ HistoryOK(history)
    /\ version = Len(history) - 1
    /\ tree = history[Len(history)]
    /\ conn \in Conn \union {NoConn}
    /\ conn = NoConn => writeCh = <<>>
    /\ StoreOK(store, history, epoch)
    /\ QueuesOK(wire, writeCh, history, epoch, store, Live)

-----------------------------------------------------------------------------
(* Sequences. *)

LEMMA SeqIs == ASSUME NEW E, NEW s \in Seq(E) PROVE IsSeq(s)
  BY DEF IsSeq

LEMMA SeqFacts ==
    ASSUME NEW s, IsSeq(s)
    PROVE  Len(s) \in Nat /\ DOMAIN s = 1 .. Len(s)
  BY DEF IsSeq

LEMMA AppendFacts ==
    ASSUME NEW s, IsSeq(s), NEW e
    PROVE  /\ IsSeq(Append(s, e)) /\ Len(Append(s, e)) = Len(s) + 1
           /\ Append(s, e)[Len(s) + 1] = e
           /\ \A i \in 1 .. Len(s) : Append(s, e)[i] = s[i]
           /\ SubSeq(Append(s, e), 1, Len(s)) = s
<1> DEFINE E == {s[i] : i \in DOMAIN s} \union {e}
<1>1. s \in Seq(E)
  BY DEF IsSeq
<1>2. Append(s, e) \in Seq(E) /\ Len(Append(s, e)) = Len(s) + 1 /\ Append(s, e)[Len(s) + 1] = e
      /\ \A i \in 1 .. Len(s) : Append(s, e)[i] = s[i]
  <2> HIDE DEF E
  <2>1. e \in E
    BY DEF E
  <2> QED
    BY <1>1, <2>1
<1>3. SubSeq(Append(s, e), 1, Len(s)) = s
  BY <1>1, <1>2
<1> QED
  BY <1>2, <1>3, SeqIs

LEMMA TailFacts ==
    ASSUME NEW s, IsSeq(s), s # <<>>
    PROVE  /\ IsSeq(Tail(s)) /\ Len(s) > 0 /\ Len(Tail(s)) = Len(s) - 1 /\ Head(s) = s[1]
           /\ \A i \in 1 .. Len(s) - 1 : Tail(s)[i] = s[i + 1]
<1>1. PICK E : s \in Seq(E)
  BY DEF IsSeq
<1>2. Tail(s) \in Seq(E) /\ Len(s) > 0 /\ Len(Tail(s)) = Len(s) - 1 /\ Head(s) = s[1]
      /\ \A i \in 1 .. Len(s) - 1 : Tail(s)[i] = s[i + 1]
  BY <1>1
<1> QED
  BY <1>2, SeqIs

-----------------------------------------------------------------------------
(* The queues. *)

(* A commit makes nothing of what is queued wrong. *)
LEMMA MsgExtend ==
    ASSUME NEW h, IsSeq(h), Len(h) > 0, NEW t, NEW m, NEW e, MsgOK(m, h, e)
    PROVE  MsgOK(m, Append(h, t), e)
<1> DEFINE g == Append(h, t)
<1>1. Len(h) \in Nat /\ Len(g) = Len(h) + 1 /\ \A i \in 1 .. Len(h) : g[i] = h[i]
  BY AppendFacts, SeqFacts
<1> HIDE DEF g
<1>2. CASE m.type \in {"identify", "frame"}
  BY <1>2 DEF MsgOK
<1>3. CASE m.type = "snapshot"
  BY <1>1, <1>3 DEF MsgOK
<1>4. CASE m.type = "events"
  BY <1>1, <1>4 DEF MsgOK
<1> QED
  BY <1>2, <1>3, <1>4 DEF MsgOK

LEMMA QueuesExtend ==
    ASSUME NEW h, IsSeq(h), Len(h) > 0, NEW t, NEW w, NEW q, NEW e, NEW st, NEW live,
           QueuesOK(w, q, h, e, st, live)
    PROVE  QueuesOK(w, q, Append(h, t), e, st, live)
  BY MsgExtend DEF QueuesOK, QueueOK

(* A message that may be queued when the history is h: one that carries no *)
(* version, or the newest.                                                 *)
Newest(m, h, e) == MsgOK(m, h, e) /\ (Carries(m) => m.version = Len(h) - 1)

LEMMA QueueAppend ==
    ASSUME NEW h, IsSeq(h), NEW s, NEW e, QueueOK(s, h, e), NEW m, Newest(m, h, e)
    PROVE  QueueOK(Append(s, m), h, e)
<1> DEFINE r == Append(s, m)
           n == Len(s)
<1>1. /\ n \in Nat /\ IsSeq(r) /\ Len(r) = n + 1 /\ r[n + 1] = m
      /\ \A i \in 1 .. n : r[i] = s[i]
  BY AppendFacts, SeqFacts DEF QueueOK
<1> HIDE DEF r, n
<1>2. Len(h) \in Nat
  BY SeqFacts
<1>3. \A i \in 1 .. n + 1 : i \in 1 .. n \/ i = n + 1
  BY <1>1
<1>4. \A i \in 1 .. n : MsgOK(s[i], h, e)
  BY DEF QueueOK, n
<1>5. \A i \in 1 .. Len(r) : MsgOK(r[i], h, e)
  BY <1>1, <1>3, <1>4 DEF Newest
<1>6. Rising(r)
  <2> SUFFICES ASSUME NEW i \in 1 .. n + 1, NEW j \in 1 .. n + 1, i < j, Carries(r[i]), Carries(r[j])
               PROVE  r[i].version <= r[j].version
    BY <1>1 DEF Rising
  <2>1. i \in 1 .. n
    BY <1>1
  <2>2. CASE j \in 1 .. n
    BY <1>1, <2>1, <2>2 DEF QueueOK, Rising, n
  <2>3. CASE j = n + 1
    <3>1. r[j].version = Len(h) - 1
      BY <1>1, <2>3 DEF Newest
    <3>2. MsgOK(r[i], h, e)
      BY <1>1, <1>4, <2>1
    <3> QED
      BY <1>2, <3>1, <3>2 DEF MsgOK, Carries
  <2> QED
    BY <1>1, <2>2, <2>3
<1> QED
  BY <1>1, <1>5, <1>6 DEF QueueOK, r

LEMMA QueueTail ==
    ASSUME NEW h, NEW s, NEW e, QueueOK(s, h, e), s # <<>>
    PROVE  /\ QueueOK(Tail(s), h, e)
           /\ Carries(Head(s)) => NotOlder(Tail(s), Head(s).version)
<1> DEFINE r == Tail(s)
<1>1. /\ Len(s) \in Nat /\ Len(s) > 0 /\ IsSeq(r) /\ Len(r) = Len(s) - 1 /\ Head(s) = s[1]
      /\ \A i \in 1 .. Len(s) - 1 : r[i] = s[i + 1]
  BY TailFacts, SeqFacts DEF QueueOK
<1> HIDE DEF r
<1>2. \A i \in 1 .. Len(r) : i + 1 \in 1 .. Len(s) /\ r[i] = s[i + 1]
  BY <1>1
<1>3. \A i \in 1 .. Len(r) : MsgOK(r[i], h, e)
  BY <1>2 DEF QueueOK
<1>4. Rising(r)
  <2> SUFFICES ASSUME NEW i \in 1 .. Len(r), NEW j \in 1 .. Len(r), i < j, Carries(r[i]), Carries(r[j])
               PROVE  r[i].version <= r[j].version
    BY DEF Rising
  <2>1. r[i] = s[i + 1] /\ r[j] = s[j + 1] /\ i + 1 \in 1 .. Len(s) /\ j + 1 \in 1 .. Len(s) /\ i + 1 < j + 1
    BY <1>2
  <2> QED
    BY <2>1 DEF QueueOK, Rising
<1>5. Carries(Head(s)) => NotOlder(r, Head(s).version)
  <2> SUFFICES ASSUME Carries(Head(s)), NEW i \in 1 .. Len(r), Carries(r[i])
               PROVE  r[i].version >= Head(s).version
    BY DEF NotOlder
  <2>1. r[i] = s[i + 1] /\ i + 1 \in 1 .. Len(s) /\ 1 \in 1 .. Len(s) /\ 1 < i + 1
    BY <1>1, <1>2
  <2>2. s[1].version <= s[i + 1].version
    BY <1>1, <2>1 DEF QueueOK, Rising
  <2>3. MsgOK(s[1], h, e) /\ MsgOK(s[i + 1], h, e)
    BY <2>1 DEF QueueOK
  <2>4. s[1].version \in Int /\ s[i + 1].version \in Int
    BY <1>1, <2>1, <2>3 DEF MsgOK, Carries
  <2> QED
    BY <1>1, <2>1, <2>2, <2>4
<1> QED
  BY <1>1, <1>3, <1>4, <1>5 DEF QueueOK, r

(* Queueing a message of the newest version at the end of writeCh.         *)
LEMMA QueuesSend ==
    ASSUME NEW h, IsSeq(h), NEW w, NEW q, NEW e, NEW st, NEW live, NEW m,
           StoreOK(st, h, e), QueuesOK(w, q, h, e, st, live), Newest(m, h, e)
    PROVE  QueuesOK(w, Append(q, m), h, e, st, live)
<1> DEFINE r == Append(q, m)
           n == Len(q)
<1>1. /\ n \in Nat /\ Len(r) = n + 1 /\ r[n + 1] = m /\ \A i \in 1 .. n : r[i] = q[i]
  BY AppendFacts, SeqFacts DEF QueuesOK, QueueOK
<1>2. QueueOK(r, h, e)
  BY QueueAppend DEF QueuesOK
<1> HIDE DEF r
<1>3. Len(h) \in Nat
  BY SeqFacts
<1>4. \A i \in 1 .. Len(r) : i \in 1 .. n \/ i = n + 1
  BY <1>1
<1> USE DEF n
<1>5. Before(w, r)
  <2> SUFFICES ASSUME NEW i \in 1 .. Len(w), NEW j \in 1 .. Len(r), Carries(w[i]), Carries(r[j])
               PROVE  w[i].version <= r[j].version
    BY DEF Before
  <2>1. CASE j \in 1 .. n
    BY <1>1, <2>1 DEF QueuesOK, Before
  <2>2. CASE j = n + 1
    <3>1. r[j].version = Len(h) - 1
      BY <1>1, <2>2 DEF Newest
    <3>2. MsgOK(w[i], h, e)
      BY DEF QueuesOK, QueueOK
    <3> QED
      BY <1>3, <3>1, <3>2 DEF MsgOK, Carries
  <2> QED
    BY <1>4, <2>1, <2>2
<1>6. Here(st, e) => NotOlder(r, st.version)
  <2> SUFFICES ASSUME Here(st, e), NEW j \in 1 .. Len(r), Carries(r[j])
               PROVE  r[j].version >= st.version
    BY DEF NotOlder
  <2>1. CASE j \in 1 .. n
    BY <1>1, <2>1 DEF QueuesOK, NotOlder
  <2>2. CASE j = n + 1
    <3>1. r[j].version = Len(h) - 1
      BY <1>1, <2>2 DEF Newest
    <3> QED
      BY <1>3, <3>1 DEF StoreOK
  <2> QED
    BY <1>4, <2>1, <2>2
<1>7. ASSUME HasSnapshot(q), Introduced(q) PROVE HasSnapshot(r) /\ Introduced(r)
  <2>1. HasSnapshot(r)
    BY <1>1, <1>7 DEF HasSnapshot
  <2>2. ASSUME NEW i \in 1 .. Len(r), r[i].type = "events"
        PROVE  \E j \in 1 .. i - 1 : r[j].type = "snapshot"
    <3>1. CASE i \in 1 .. n
      <4>1. PICK j \in 1 .. i - 1 : q[j].type = "snapshot"
        BY <1>1, <1>7, <2>2, <3>1 DEF Introduced
      <4>2. j \in 1 .. n
        BY <1>1, <3>1
      <4> QED
        BY <1>1, <4>1, <4>2
    <3>2. CASE i = n + 1
      BY <1>1, <1>7, <3>2 DEF HasSnapshot
    <3> QED
      BY <1>4, <3>1, <3>2
  <2> QED
    BY <2>1, <2>2 DEF Introduced
<1> QED
  BY <1>2, <1>5, <1>6, <1>7 DEF QueuesOK, r

(* writeLoop loses the head of writeCh, and nothing more reaches the wire. *)
LEMMA QueuesDiscard ==
    ASSUME NEW h, NEW w, NEW q, NEW e, NEW st, NEW live,
           q # <<>>, QueuesOK(w, q, h, e, st, live)
    PROVE  QueuesOK(w, Tail(q), h, e, st, FALSE)
<1> DEFINE r == Tail(q)
<1>1. QueueOK(r, h, e)
  BY QueueTail DEF QueuesOK
<1>2. \A i \in 1 .. Len(r) : i + 1 \in 1 .. Len(q) /\ r[i] = q[i + 1]
  BY TailFacts, SeqFacts DEF QueuesOK, QueueOK
<1> HIDE DEF r
<1>3. Before(w, r)
  BY <1>2 DEF QueuesOK, Before
<1>4. Here(st, e) => NotOlder(r, st.version)
  BY <1>2 DEF QueuesOK, NotOlder
<1> QED
  BY <1>1, <1>3, <1>4 DEF QueuesOK, r

(* writeLoop moves the head of writeCh to the wire. *)
LEMMA QueuesMove ==
    ASSUME NEW h, NEW w, NEW q, NEW e, NEW st,
           q # <<>>, QueuesOK(w, q, h, e, st, TRUE)
    PROVE  QueuesOK(Append(w, Head(q)), Tail(q), h, e, st, TRUE)
<1> DEFINE m == Head(q)
           r == Tail(q)
           u == Append(w, m)
           n == Len(w)
<1>1. /\ n \in Nat /\ IsSeq(u) /\ Len(u) = n + 1 /\ u[n + 1] = m /\ \A i \in 1 .. n : u[i] = w[i]
  BY AppendFacts, SeqFacts DEF QueuesOK, QueueOK
<1>2. QueueOK(r, h, e) /\ (Carries(m) => NotOlder(r, m.version))
  BY QueueTail DEF QueuesOK
<1>3. /\ Len(q) \in Nat /\ Len(q) > 0 /\ m = q[1] /\ Len(r) = Len(q) - 1
      /\ \A i \in 1 .. Len(r) : i + 1 \in 1 .. Len(q) /\ r[i] = q[i + 1]
  BY TailFacts, SeqFacts DEF QueuesOK, QueueOK
<1> HIDE DEF r, m, u, n
<1>4. \A i \in 1 .. n + 1 : i \in 1 .. n \/ i = n + 1
  BY <1>1
<1>5. MsgOK(m, h, e) /\ 1 \in 1 .. Len(q)
  BY <1>3 DEF QueuesOK, QueueOK
<1>6. QueueOK(u, h, e)
  <2>1. \A i \in 1 .. Len(u) : MsgOK(u[i], h, e)
    BY <1>1, <1>4, <1>5 DEF QueuesOK, QueueOK, n
  <2>2. Rising(u)
    <3> SUFFICES ASSUME NEW i \in 1 .. n + 1, NEW j \in 1 .. n + 1, i < j, Carries(u[i]), Carries(u[j])
                 PROVE  u[i].version <= u[j].version
      BY <1>1 DEF Rising
    <3>1. i \in 1 .. n
      BY <1>1
    <3>2. CASE j \in 1 .. n
      BY <1>1, <3>1, <3>2 DEF QueuesOK, QueueOK, Rising, n
    <3>3. CASE j = n + 1
      BY <1>1, <1>3, <1>5, <3>1, <3>3 DEF QueuesOK, Before, n
    <3> QED
      BY <1>4, <3>2, <3>3
  <2> QED
    BY <1>1, <2>1, <2>2 DEF QueueOK
<1>7. Before(u, r)
  <2> SUFFICES ASSUME NEW i \in 1 .. n + 1, NEW j \in 1 .. Len(r), Carries(u[i]), Carries(r[j])
               PROVE  u[i].version <= r[j].version
    BY <1>1 DEF Before
  <2>1. CASE i \in 1 .. n
    BY <1>1, <1>3, <2>1 DEF QueuesOK, Before, n
  <2>2. CASE i = n + 1
    <3>1. r[j].version >= m.version
      BY <1>1, <1>2, <2>2 DEF NotOlder
    <3>2. r[j].version \in Int /\ m.version \in Int
      <4>1. MsgOK(r[j], h, e) /\ Carries(m)
        BY <1>1, <1>2, <2>2 DEF QueueOK
      <4> QED
        BY <1>5, <4>1 DEF MsgOK, Carries
    <3> QED
      BY <1>1, <2>2, <3>1, <3>2
  <2> QED
    BY <1>4, <2>1, <2>2
<1>8. Here(st, e) => NotOlder(u, st.version) /\ NotOlder(r, st.version)
  <2> SUFFICES ASSUME Here(st, e) PROVE NotOlder(u, st.version) /\ NotOlder(r, st.version)
    OBVIOUS
  <2>1. NotOlder(w, st.version) /\ NotOlder(q, st.version)
    BY DEF QueuesOK
  <2>2. NotOlder(r, st.version)
    BY <1>3, <2>1 DEF NotOlder
  <2>3. NotOlder(u, st.version)
    BY <1>1, <1>3, <1>4, <1>5, <2>1 DEF NotOlder, n
  <2> QED
    BY <2>2, <2>3
<1>9. ASSUME ~Here(st, e)
      PROVE  Introduced(u) /\ (HasSnapshot(u) \/ (HasSnapshot(r) /\ Introduced(r)))
  <2>1. Introduced(w) /\ (HasSnapshot(w) \/ (HasSnapshot(q) /\ Introduced(q)))
    BY <1>9 DEF QueuesOK
  <2>2. m.type = "events" => HasSnapshot(w)
    BY <1>3, <1>5, <2>1 DEF Introduced
  <2>3. Introduced(u)
    <3> SUFFICES ASSUME NEW i \in 1 .. n + 1, u[i].type = "events"
                 PROVE  \E j \in 1 .. i - 1 : u[j].type = "snapshot"
      BY <1>1 DEF Introduced
    <3>1. CASE i \in 1 .. n
      <4>1. PICK j \in 1 .. i - 1 : w[j].type = "snapshot"
        BY <1>1, <2>1, <3>1 DEF Introduced, n
      <4>2. j \in 1 .. n
        BY <1>1, <3>1
      <4> QED
        BY <1>1, <4>1, <4>2
    <3>2. CASE i = n + 1
      BY <1>1, <2>2, <3>2 DEF HasSnapshot, n
    <3> QED
      BY <1>4, <3>1, <3>2
  <2>4. CASE HasSnapshot(w) \/ m.type = "snapshot"
    <3>1. HasSnapshot(u)
      BY <1>1, <2>4 DEF HasSnapshot, n
    <3> QED
      BY <2>3, <3>1
  <2>5. CASE ~HasSnapshot(w) /\ m.type # "snapshot"
    <3>1. HasSnapshot(q) /\ Introduced(q) /\ m.type # "events"
      BY <2>1, <2>2, <2>5
    <3>2. PICK k \in 1 .. Len(q) : q[k].type = "snapshot"
      BY <3>1 DEF HasSnapshot
    <3>3. k # 1 /\ k - 1 \in 1 .. Len(r) /\ r[k - 1] = q[k]
      BY <1>3, <2>5, <3>2
    <3>4. HasSnapshot(r)
      BY <3>2, <3>3 DEF HasSnapshot
    <3>5. Introduced(r)
      <4> SUFFICES ASSUME NEW i \in 1 .. Len(r), r[i].type = "events"
                   PROVE  \E j \in 1 .. i - 1 : r[j].type = "snapshot"
        BY DEF Introduced
      <4>1. PICK j \in 1 .. (i + 1) - 1 : q[j].type = "snapshot"
        BY <1>3, <3>1 DEF Introduced
      <4>2. j # 1 /\ j - 1 \in 1 .. i - 1 /\ j - 1 \in 1 .. Len(r) /\ r[j - 1] = q[j]
        BY <1>3, <2>5, <4>1
      <4> QED
        BY <4>1, <4>2
    <3> QED
      BY <2>3, <3>4, <3>5
  <2> QED
    BY <2>4, <2>5
<1> QED
  BY <1>2, <1>6, <1>7, <1>8, <1>9 DEF QueuesOK, u, r, m

(* The first message on the wire: events come to a copy that is one of the *)
(* present server's trees.                                                 *)
LEMMA HeadFacts ==
    ASSUME NEW h, NEW w, NEW q, NEW e, NEW st, NEW live,
           w # <<>>, QueuesOK(w, q, h, e, st, live)
    PROVE  /\ MsgOK(Head(w), h, e)
           /\ Head(w).type = "events" => Here(st, e)
           /\ Carries(Head(w)) /\ Here(st, e) => Head(w).version >= st.version
<1>1. Len(w) \in Nat /\ Len(w) > 0 /\ Head(w) = w[1]
  BY TailFacts, SeqFacts DEF QueuesOK, QueueOK
<1>2. 1 \in 1 .. Len(w)
  BY <1>1
<1> QED
  BY <1>1, <1>2 DEF QueuesOK, QueueOK, Introduced, NotOlder

(* The viewer takes it, and its copy moves to the version it carries, or   *)
(* stays as it is if the message is not a snapshot.                        *)
LEMMA QueuesReceive ==
    ASSUME NEW h, NEW w, NEW q, NEW e, NEW st, NEW live, NEW new,
           w # <<>>, QueuesOK(w, q, h, e, st, live),
           \/ Carries(Head(w)) /\ Here(new, e) /\ new.version = Head(w).version
           \/ Head(w).type # "snapshot" /\ new = st
    PROVE  QueuesOK(Tail(w), q, h, e, new, live)
<1> DEFINE m == Head(w)
           r == Tail(w)
<1>1. QueueOK(r, h, e) /\ (Carries(m) => NotOlder(r, m.version))
  BY QueueTail DEF QueuesOK
<1>2. /\ Len(w) \in Nat /\ Len(w) > 0 /\ m = w[1] /\ Len(r) = Len(w) - 1
      /\ \A i \in 1 .. Len(r) : i + 1 \in 1 .. Len(w) /\ r[i] = w[i + 1]
  BY TailFacts, SeqFacts DEF QueuesOK, QueueOK
<1>3. MsgOK(m, h, e) /\ 1 \in 1 .. Len(w)
  BY <1>2, HeadFacts
<1> HIDE DEF m, r
<1>4. Before(r, q)
  BY <1>2 DEF QueuesOK, Before
<1>5. CASE Carries(m) /\ Here(new, e) /\ new.version = m.version
  <2>1. NotOlder(q, m.version)
    <3> SUFFICES ASSUME NEW j \in 1 .. Len(q), Carries(q[j]) PROVE q[j].version >= m.version
      BY DEF NotOlder
    <3>1. w[1].version <= q[j].version
      BY <1>2, <1>3, <1>5 DEF QueuesOK, Before
    <3>2. MsgOK(q[j], h, e)
      BY DEF QueuesOK, QueueOK
    <3>3. q[j].version \in Int /\ m.version \in Int
      BY <1>3, <1>5, <3>2 DEF MsgOK, Carries
    <3> QED
      BY <1>2, <3>1, <3>3
  <2> QED
    BY <1>1, <1>4, <1>5, <2>1 DEF QueuesOK, r
<1>6. CASE m.type # "snapshot" /\ new = st
  <2>1. Here(st, e) => NotOlder(r, st.version)
    BY <1>2 DEF QueuesOK, NotOlder
  <2>2. ASSUME ~Here(st, e) PROVE Introduced(r)
    <3> SUFFICES ASSUME NEW i \in 1 .. Len(r), r[i].type = "events"
                 PROVE  \E j \in 1 .. i - 1 : r[j].type = "snapshot"
      BY DEF Introduced
    <3>1. PICK j \in 1 .. (i + 1) - 1 : w[j].type = "snapshot"
      BY <1>2, <2>2 DEF QueuesOK, Introduced
    <3>2. j # 1 /\ j - 1 \in 1 .. i - 1 /\ j - 1 \in 1 .. Len(r) /\ r[j - 1] = w[j]
      BY <1>2, <1>6, <3>1
    <3> QED
      BY <3>1, <3>2
  <2>3. HasSnapshot(w) => HasSnapshot(r)
    <3> SUFFICES ASSUME NEW k \in 1 .. Len(w), w[k].type = "snapshot" PROVE HasSnapshot(r)
      BY DEF HasSnapshot
    <3>1. k # 1 /\ k - 1 \in 1 .. Len(r) /\ r[k - 1] = w[k]
      BY <1>2, <1>6
    <3> QED
      BY <3>1 DEF HasSnapshot
  <2> QED
    BY <1>1, <1>4, <1>6, <2>1, <2>2, <2>3 DEF QueuesOK, r
<1> QED
  BY <1>5, <1>6 DEF m

(* Queues of a new connection, or of none, are empty. *)
LEMMA QueuesEmpty ==
    ASSUME NEW h, NEW e, NEW st
    PROVE  QueuesOK(<<>>, <<>>, h, e, st, FALSE)
<1>1. Len(<<>>) = 0 /\ <<>> \in Seq({}) /\ 1 .. 0 = {}
  OBVIOUS
<1>2. IsSeq(<<>>)
  BY <1>1, SeqIs
<1> QED
  BY <1>1, <1>2 DEF QueuesOK, QueueOK, Rising, Before, NotOlder, Introduced

-----------------------------------------------------------------------------
(* Transactions: what the viewer makes of the operations that the mutators *)
(* emit is what the mutators make of the server's tree.                    *)

(* A set of naturals without a smallest element is empty (WellFoundedInduction). *)
LEMMA NaturalInduction == Trees!Induction
<1> DEFINE R == {z \in Nat \X Nat : z[1] < z[2]}
<1>1. IsWellFoundedOn(R, Nat)
  BY NatLessThanWellFounded DEF OpToRel
<1> SUFFICES ASSUME NEW S, 0 \in S, \A n \in Nat : n \in S => n + 1 \in S, NEW k \in Nat \ S PROVE FALSE
  BY DEF Trees!Induction
<1> DEFINE U == Nat \ S
<1>2. U \subseteq Nat /\ U # {}
  OBVIOUS
<1>3. PICK x \in U : \A y \in U : ~(<<y, x>> \in R)
  <2> HIDE DEF U, R
  <2> QED
    BY <1>1, <1>2, WFMin
<1>4. x # 0 /\ x - 1 \in Nat
  OBVIOUS
<1>5. x - 1 \in U
  BY <1>4
<1>6. <<x - 1, x>> \in R
  BY <1>4
<1> QED
  BY <1>3, <1>5, <1>6

LEMMA ApplyOpsFold == \A b, s : ApplyOps(b, s) = Trees!Fold(0, b, s)
  BY DEF ApplyOps, FoldLeft, MapThenFoldSet, Max, Trees!Fold, Trees!Greatest, ApplyNext

LEMMA ApplyNone == ASSUME NEW t PROVE ApplyOps(t, <<>>) = t
  BY ApplyOpsFold, NaturalInduction, Trees!FoldEmpty

(* An operation takes every copy of t to a copy of u. *)
Leads(o, t, u) == \A c : Copies(c, t) => Copies(ApplyOp(c, o), u)

LEMMA EmitOK ==
    ASSUME NEW t0, NEW tx, TxOK(t0, tx), NEW t, TreeOK(t), NEW o, Leads(o, tx.tree, t)
    PROVE  TxOK(t0, Emit(tx, t, o))
<1> DEFINE E == {tx.ops[i] : i \in DOMAIN tx.ops} \union {o}
<1>1. tx.ops \in Seq(E) /\ o \in E
  BY DEF TxOK, IsSeq
<1> HIDE DEF E
<1>2. \A c : ApplyOps(c, Append(tx.ops, o)) = ApplyOp(ApplyOps(c, tx.ops), o)
  BY <1>1, ApplyOpsFold, NaturalInduction, Trees!FoldAppend DEF ApplyNext
<1>3. IsSeq(Append(tx.ops, o)) /\ Append(tx.ops, o) # <<>>
  BY <1>1, AppendFacts DEF TxOK
<1>4. \A c : Copies(c, t0) => Copies(ApplyOps(c, Append(tx.ops, o)), t)
  BY <1>2 DEF TxOK, Leads
<1>5. Emit(tx, t, o).tree = t /\ Emit(tx, t, o).ops = Append(tx.ops, o)
  BY DEF Emit
<1> QED
  BY <1>3, <1>4, <1>5 DEF TxOK

LEMMA StartOK == ASSUME NEW t, TreeOK(t) PROVE TxOK(t, StartTx(t))
<1>1. IsSeq(<<>>)
  <2>1. <<>> \in Seq({})
    OBVIOUS
  <2> QED
    BY <2>1, SeqIs
<1> QED
  BY <1>1, ApplyNone DEF TxOK, StartTx

(* Two trees that differ in one part lead to trees that differ in it.      *)
LEMMA CopiesParts ==
    ASSUME NEW c, NEW t
    PROVE  Copies(c, t) <=>
             /\ IsTree(c)
             /\ c.regions = t.regions /\ c.clients = t.clients /\ c.upgrade = t.upgrade
             /\ Unslashed(c.sessions) = Unslashed(t.sessions)
             /\ c.programs \ Slashed = t.programs \ Slashed
<1> DEFINE a == Unslashed(c.sessions)
           b == Unslashed(t.sessions)
<1>1. Plain(c) = [regions |-> c.regions, sessions |-> a, clients |-> c.clients,
                  programs |-> c.programs \ Slashed, upgrade |-> c.upgrade]
  BY DEF Plain
<1>2. Plain(t) = [regions |-> t.regions, sessions |-> b, clients |-> t.clients,
                  programs |-> t.programs \ Slashed, upgrade |-> t.upgrade]
  BY DEF Plain
<1> HIDE DEF a, b
<1>3. Plain(c) = Plain(t) <=>
             /\ c.regions = t.regions /\ c.clients = t.clients /\ c.upgrade = t.upgrade
             /\ a = b /\ c.programs \ Slashed = t.programs \ Slashed
  BY <1>1, <1>2
<1> QED
  BY <1>3 DEF Copies, a, b

LEMMA RegionsLead ==
    ASSUME NEW t, IsTree(t), NEW o, o.kind = "regions", NEW m, m = ApplyMapOp(t.regions, o)
    PROVE  Leads(o, t, [t EXCEPT !.regions = m])
<1> DEFINE u == [t EXCEPT !.regions = m]
<1> SUFFICES ASSUME NEW c, Copies(c, t) PROVE Copies(ApplyOp(c, o), u)
  BY DEF Leads
<1>1. ApplyOp(c, o) = [c EXCEPT !.regions = ApplyMapOp(c.regions, o)]
  BY DEF ApplyOp, Recognised
<1> QED
  BY <1>1, CopiesParts DEF IsTree

LEMMA ClientsLead ==
    ASSUME NEW t, IsTree(t), NEW o, o.kind = "clients", NEW m, m = ApplyMapOp(t.clients, o)
    PROVE  Leads(o, t, [t EXCEPT !.clients = m])
<1> DEFINE u == [t EXCEPT !.clients = m]
<1> SUFFICES ASSUME NEW c, Copies(c, t) PROVE Copies(ApplyOp(c, o), u)
  BY DEF Leads
<1>1. ApplyOp(c, o) = [c EXCEPT !.clients = ApplyMapOp(c.clients, o)]
  BY DEF ApplyOp, Recognised
<1> QED
  BY <1>1, CopiesParts DEF IsTree

LEMMA UpgradeLeads ==
    ASSUME NEW t, IsTree(t), NEW o, o.kind = "upgrade"
    PROVE  Leads(o, t, [t EXCEPT !.upgrade = o.value])
<1> DEFINE u == [t EXCEPT !.upgrade = o.value]
<1> SUFFICES ASSUME NEW c, Copies(c, t) PROVE Copies(ApplyOp(c, o), u)
  BY DEF Leads
<1>1. ApplyOp(c, o) = [c EXCEPT !.upgrade = o.value]
  BY DEF ApplyOp, Recognised
<1> QED
  BY <1>1, CopiesParts DEF IsTree

(* Sessions and programs: what an operation on an unslashed name makes of  *)
(* the unslashed part; one on a slashed name leaves that part alone.       *)
LEMMA SessionsLead ==
    ASSUME NEW t, IsTree(t), NEW o, o.kind = "sessions", NEW m,
           o.key \in Slashed => Unslashed(m) = Unslashed(t.sessions),
           o.key \notin Slashed =>
             \A n : Unslashed(n) = Unslashed(t.sessions)
                       => Unslashed(ApplySessionOp(n, o)) = Unslashed(m)
    PROVE  Leads(o, t, [t EXCEPT !.sessions = m])
<1> DEFINE u == [t EXCEPT !.sessions = m]
<1> SUFFICES ASSUME NEW c, Copies(c, t) PROVE Copies(ApplyOp(c, o), u)
  BY DEF Leads
<1>1. u.sessions = m /\ u.regions = t.regions /\ u.clients = t.clients
      /\ u.programs = t.programs /\ u.upgrade = t.upgrade
  BY DEF IsTree
<1> HIDE DEF u
<1>2. CASE o.key \in Slashed
  <2>1. ApplyOp(c, o) = c
    BY <1>2 DEF ApplyOp, Recognised
  <2> QED
    BY <1>1, <1>2, <2>1, CopiesParts
<1>3. CASE o.key \notin Slashed
  <2> DEFINE n == ApplySessionOp(c.sessions, o)
             d == [c EXCEPT !.sessions = n]
  <2>1. ApplyOp(c, o) = d
    BY <1>3 DEF ApplyOp, Recognised
  <2>2. Unslashed(n) = Unslashed(m)
    BY <1>3, CopiesParts
  <2> HIDE DEF n
  <2>3. IsTree(c)
    BY DEF Copies
  <2>4. /\ IsTree(d) /\ d.sessions = n /\ d.regions = c.regions /\ d.clients = c.clients
        /\ d.programs = c.programs /\ d.upgrade = c.upgrade
    BY <2>3 DEF IsTree
  <2> HIDE DEF d
  <2>5. Copies(d, u)
    BY <1>1, <2>2, <2>4, CopiesParts
  <2> QED
    BY <2>1, <2>5
<1> QED
  BY <1>2, <1>3

LEMMA ProgramsLead ==
    ASSUME NEW t, IsTree(t), NEW o, o.kind = "programs", NEW m,
           m = ApplyProgramOp(t.programs, o)
    PROVE  Leads(o, t, [t EXCEPT !.programs = m])
<1> DEFINE u == [t EXCEPT !.programs = m]
<1> SUFFICES ASSUME NEW c, Copies(c, t) PROVE Copies(ApplyOp(c, o), u)
  BY DEF Leads
<1>1. u.sessions = t.sessions /\ u.regions = t.regions /\ u.clients = t.clients
      /\ u.programs = m /\ u.upgrade = t.upgrade
  BY DEF IsTree
<1> HIDE DEF u
<1>2. CASE o.key \in Slashed
  <2>1. ApplyOp(c, o) = c
    BY <1>2 DEF ApplyOp, Recognised
  <2>2. m \ Slashed = t.programs \ Slashed
    BY <1>2 DEF ApplyProgramOp
  <2> QED
    BY <1>1, <2>1, <2>2, CopiesParts
<1>3. CASE o.key \notin Slashed
  <2> DEFINE n == ApplyProgramOp(c.programs, o)
             d == [c EXCEPT !.programs = n]
  <2>1. ApplyOp(c, o) = d
    BY <1>3 DEF ApplyOp, Recognised
  <2>2. c.programs \ Slashed = t.programs \ Slashed
    BY CopiesParts
  <2>3. n \ Slashed = m \ Slashed
    BY <1>3, <2>2 DEF ApplyProgramOp
  <2> HIDE DEF n
  <2>4. IsTree(c)
    BY DEF Copies
  <2>5. /\ IsTree(d) /\ d.programs = n /\ d.regions = c.regions /\ d.clients = c.clients
        /\ d.sessions = c.sessions /\ d.upgrade = c.upgrade
    BY <2>4 DEF IsTree
  <2> HIDE DEF d
  <2>6. Copies(d, u)
    BY <1>1, <2>3, <2>5, CopiesParts
  <2> QED
    BY <2>1, <2>6
<1> QED
  BY <1>2, <1>3

(* Regions. *)
LEMMA SetRegionOK ==
    ASSUME NEW t0, NEW tx, TxOK(t0, tx), NEW r, NEW node
    PROVE  TxOK(t0, SetRegion(tx, r, node))
<1> DEFINE m == MapSet(tx.tree.regions, r, node)
           t == [tx.tree EXCEPT !.regions = m]
           o == TreeOp("set", "regions", r, node)
<1>1. o.kind = "regions" /\ ApplyMapOp(tx.tree.regions, o) = m
  BY DEF ApplyMapOp, TreeOp
<1>2. TreeOK(t) /\ IsTree(tx.tree)
  BY DEF TxOK, TreeOK, IsTree
<1>3. SetRegion(tx, r, node) = Emit(tx, t, o)
  BY DEF SetRegion
<1> HIDE DEF m, o
<1>4. Leads(o, tx.tree, t)
  BY <1>1, <1>2, RegionsLead
<1> QED
  BY <1>2, <1>3, <1>4, EmitOK

LEMMA DeleteRegionOK ==
    ASSUME NEW t0, NEW tx, TxOK(t0, tx), NEW r
    PROVE  TxOK(t0, DeleteRegion(tx, r))
<1> DEFINE m == MapDelete(tx.tree.regions, r)
           t == [tx.tree EXCEPT !.regions = m]
           o == TreeOp("delete", "regions", r, "")
<1>1. o.kind = "regions" /\ ApplyMapOp(tx.tree.regions, o) = m
  BY DEF ApplyMapOp, TreeOp
<1>2. TreeOK(t) /\ IsTree(tx.tree)
  BY DEF TxOK, TreeOK, IsTree
<1>3. DeleteRegion(tx, r) = Emit(tx, t, o)
  BY DEF DeleteRegion
<1> HIDE DEF m, o
<1>4. Leads(o, tx.tree, t)
  BY <1>1, <1>2, RegionsLead
<1> QED
  BY <1>2, <1>3, <1>4, EmitOK

(* Sessions. *)
LEMMA UnslashedIs ==
    ASSUME NEW n
    PROVE  /\ DOMAIN Unslashed(n) = DOMAIN n \ Slashed
           /\ \A j \in DOMAIN n \ Slashed : Unslashed(n)[j] = n[j]
  BY DEF Unslashed

(* Maps with the same unslashed part have the same unslashed names.        *)
LEMMA UnslashedSame ==
    ASSUME NEW n, NEW p, Unslashed(n) = Unslashed(p)
    PROVE  /\ DOMAIN n \ Slashed = DOMAIN p \ Slashed
           /\ \A j \in DOMAIN n \ Slashed : n[j] = p[j]
  BY UnslashedIs

LEMMA UnslashedEqual ==
    ASSUME NEW n, NEW p, DOMAIN n \ Slashed = DOMAIN p \ Slashed,
           \A j \in DOMAIN n \ Slashed : n[j] = p[j]
    PROVE  Unslashed(n) = Unslashed(p)
  BY DEF Unslashed

LEMMA EnsureSessionOK ==
    ASSUME NEW t0, NEW tx, TxOK(t0, tx), NEW s
    PROVE  TxOK(t0, EnsureSession(tx, s))
<1> DEFINE ss == tx.tree.sessions
           m == MapSet(ss, s, <<>>)
           t == [tx.tree EXCEPT !.sessions = m]
           o == TreeOp("set", "sessions", s, <<>>)
<1>1. o.kind = "sessions" /\ o.key = s /\ \A n : ApplySessionOp(n, o) = MapSet(n, s, <<>>)
  BY DEF ApplySessionOp, TreeOp
<1>2. TreeOK(t) /\ IsTree(tx.tree)
  BY DEF TxOK, TreeOK, IsTree
<1>3. EnsureSession(tx, s) \in {tx, Emit(tx, t, o)}
  BY DEF EnsureSession
<1> HIDE DEF o
<1>4. ASSUME s \in Slashed PROVE Unslashed(m) = Unslashed(ss)
  BY <1>4, UnslashedEqual DEF MapSet
<1>5. ASSUME s \notin Slashed, NEW n, Unslashed(n) = Unslashed(ss)
      PROVE  Unslashed(ApplySessionOp(n, o)) = Unslashed(m)
  <2>1. DOMAIN n \ Slashed = DOMAIN ss \ Slashed /\ \A j \in DOMAIN n \ Slashed : n[j] = ss[j]
    BY <1>5, UnslashedSame
  <2>2. Unslashed(MapSet(n, s, <<>>)) = Unslashed(m)
    BY <2>1 DEF MapSet, Unslashed
  <2> QED
    BY <1>1, <2>2
<1> HIDE DEF m
<1>6. Leads(o, tx.tree, t)
  BY <1>1, <1>2, <1>4, <1>5, SessionsLead
<1> HIDE DEF t
<1> QED
  BY <1>2, <1>3, <1>6, EmitOK

LEMMA DeleteSessionOK ==
    ASSUME NEW t0, NEW tx, TxOK(t0, tx), NEW s
    PROVE  TxOK(t0, DeleteSession(tx, s))
<1> DEFINE ss == tx.tree.sessions
           m == MapDelete(ss, s)
           t == [tx.tree EXCEPT !.sessions = m]
           o == TreeOp("delete", "sessions", s, "")
<1>1. o.kind = "sessions" /\ o.key = s /\ \A n : ApplySessionOp(n, o) = MapDelete(n, s)
  BY DEF ApplySessionOp, TreeOp
<1>2. TreeOK(t) /\ IsTree(tx.tree)
  BY DEF TxOK, TreeOK, IsTree
<1>3. DeleteSession(tx, s) = Emit(tx, t, o)
  BY DEF DeleteSession
<1> HIDE DEF o
<1>4. ASSUME s \in Slashed PROVE Unslashed(m) = Unslashed(ss)
  BY <1>4, UnslashedEqual DEF MapDelete
<1>5. ASSUME s \notin Slashed, NEW n, Unslashed(n) = Unslashed(ss)
      PROVE  Unslashed(ApplySessionOp(n, o)) = Unslashed(m)
  <2>1. DOMAIN n \ Slashed = DOMAIN ss \ Slashed /\ \A j \in DOMAIN n \ Slashed : n[j] = ss[j]
    BY <1>5, UnslashedSame
  <2>2. Unslashed(MapDelete(n, s)) = Unslashed(m)
    BY <2>1 DEF MapDelete, Unslashed
  <2> QED
    BY <1>1, <2>2
<1> HIDE DEF m
<1>6. Leads(o, tx.tree, t)
  BY <1>1, <1>2, <1>4, <1>5, SessionsLead
<1> HIDE DEF t
<1> QED
  BY <1>2, <1>3, <1>6, EmitOK

LEMMA AddRegionToSessionOK ==
    ASSUME NEW t0, NEW tx, TxOK(t0, tx), NEW s, NEW r
    PROVE  TxOK(t0, AddRegionToSession(tx, s, r))
<1> DEFINE ss == tx.tree.sessions
           m == [ss EXCEPT ![s] = Append(@, r)]
           t == [tx.tree EXCEPT !.sessions = m]
           o == TreeOp("add", "sessions", s, r)
<1>1. o.kind = "sessions" /\ o.key = s
      /\ \A n : s \in DOMAIN n => ApplySessionOp(n, o) = [n EXCEPT ![s] = Append(@, r)]
  BY DEF ApplySessionOp, TreeOp
<1>2. TreeOK(t) /\ IsTree(tx.tree)
  BY DEF TxOK, TreeOK, IsTree
<1>3. IF s \in DOMAIN ss THEN AddRegionToSession(tx, s, r) = Emit(tx, t, o)
      ELSE AddRegionToSession(tx, s, r) = tx
  BY DEF AddRegionToSession
<1> HIDE DEF o
<1>4. ASSUME s \in Slashed PROVE Unslashed(m) = Unslashed(ss)
  BY <1>4, UnslashedEqual
<1>5. ASSUME s \in DOMAIN ss, s \notin Slashed, NEW n, Unslashed(n) = Unslashed(ss)
      PROVE  Unslashed(ApplySessionOp(n, o)) = Unslashed(m)
  <2>1. DOMAIN n \ Slashed = DOMAIN ss \ Slashed /\ \A j \in DOMAIN n \ Slashed : n[j] = ss[j]
    BY <1>5, UnslashedSame
  <2>2. Unslashed([n EXCEPT ![s] = Append(@, r)]) = Unslashed(m)
    BY <1>5, <2>1 DEF Unslashed
  <2> QED
    BY <1>1, <1>5, <2>1, <2>2
<1> HIDE DEF m
<1>6. s \in DOMAIN ss => Leads(o, tx.tree, t)
  BY <1>1, <1>2, <1>4, <1>5, SessionsLead
<1> HIDE DEF t
<1> QED
  BY <1>2, <1>3, <1>6, EmitOK

LEMMA RemoveRegionFromSessionOK ==
    ASSUME NEW t0, NEW tx, TxOK(t0, tx), NEW s, NEW r
    PROVE  TxOK(t0, RemoveRegionFromSession(tx, s, r))
<1> DEFINE ss == tx.tree.sessions
           m == [ss EXCEPT ![s] = removeString(@, r)]
           t == [tx.tree EXCEPT !.sessions = m]
           o == TreeOp("remove", "sessions", s, r)
<1>1. o.kind = "sessions" /\ o.key = s
      /\ \A n : s \in DOMAIN n => ApplySessionOp(n, o) = [n EXCEPT ![s] = removeString(@, r)]
  BY DEF ApplySessionOp, TreeOp
<1>2. TreeOK(t) /\ IsTree(tx.tree)
  BY DEF TxOK, TreeOK, IsTree
<1>3. IF s \in DOMAIN ss THEN RemoveRegionFromSession(tx, s, r) = Emit(tx, t, o)
      ELSE RemoveRegionFromSession(tx, s, r) = tx
  BY DEF RemoveRegionFromSession
<1> HIDE DEF o
<1>4. ASSUME s \in Slashed PROVE Unslashed(m) = Unslashed(ss)
  BY <1>4, UnslashedEqual
<1>5. ASSUME s \in DOMAIN ss, s \notin Slashed, NEW n, Unslashed(n) = Unslashed(ss)
      PROVE  Unslashed(ApplySessionOp(n, o)) = Unslashed(m)
  <2>1. DOMAIN n \ Slashed = DOMAIN ss \ Slashed /\ \A j \in DOMAIN n \ Slashed : n[j] = ss[j]
    BY <1>5, UnslashedSame
  <2>2. Unslashed([n EXCEPT ![s] = removeString(@, r)]) = Unslashed(m)
    BY <1>5, <2>1 DEF Unslashed
  <2> QED
    BY <1>1, <1>5, <2>1, <2>2
<1> HIDE DEF m
<1>6. s \in DOMAIN ss => Leads(o, tx.tree, t)
  BY <1>1, <1>2, <1>4, <1>5, SessionsLead
<1> HIDE DEF t
<1> QED
  BY <1>2, <1>3, <1>6, EmitOK

(* Programs and the upgrade phase. *)
LEMMA ProgramsOK ==
    ASSUME NEW t0, NEW tx, TxOK(t0, tx), NEW p
    PROVE  TxOK(t0, SetProgram(tx, p)) /\ TxOK(t0, DeleteProgram(tx, p))
<1> DEFINE more == tx.tree.programs \union {p}
           less == tx.tree.programs \ {p}
           t == [tx.tree EXCEPT !.programs = more]
           u == [tx.tree EXCEPT !.programs = less]
           o == TreeOp("set", "programs", p, "")
           d == TreeOp("delete", "programs", p, "")
<1>1. /\ o.kind = "programs" /\ ApplyProgramOp(tx.tree.programs, o) = more
      /\ d.kind = "programs" /\ ApplyProgramOp(tx.tree.programs, d) = less
  BY DEF ApplyProgramOp, TreeOp
<1>2. TreeOK(t) /\ TreeOK(u) /\ IsTree(tx.tree)
  BY DEF TxOK, TreeOK, IsTree
<1>3. SetProgram(tx, p) = Emit(tx, t, o) /\ DeleteProgram(tx, p) = Emit(tx, u, d)
  BY DEF SetProgram, DeleteProgram
<1> HIDE DEF more, less, o, d
<1>4. Leads(o, tx.tree, t) /\ Leads(d, tx.tree, u)
  BY <1>1, <1>2, ProgramsLead
<1> QED
  BY <1>2, <1>3, <1>4, EmitOK

LEMMA SetUpgradeOK ==
    ASSUME NEW t0, NEW tx, TxOK(t0, tx), NEW u
    PROVE  TxOK(t0, SetUpgrade(tx, u))
<1> DEFINE t == [tx.tree EXCEPT !.upgrade = u]
           o == TreeOp("set", "upgrade", "", u)
<1>1. o.kind = "upgrade" /\ o.value = u
  BY DEF TreeOp
<1>2. TreeOK(t) /\ IsTree(tx.tree)
  BY DEF TxOK, TreeOK, IsTree
<1>3. SetUpgrade(tx, u) = Emit(tx, t, o)
  BY DEF SetUpgrade
<1> HIDE DEF o
<1>4. Leads(o, tx.tree, t)
  BY <1>1, <1>2, UpgradeLeads
<1> QED
  BY <1>2, <1>3, <1>4, EmitOK

(* Clients. *)
LEMMA AddClientOK ==
    ASSUME NEW t0, NEW tx, TxOK(t0, tx), NEW c \in Conn, NEW node
    PROVE  TxOK(t0, AddClient(tx, c, node)) /\ c \in DOMAIN AddClient(tx, c, node).tree.clients
<1> DEFINE m == MapSet(tx.tree.clients, c, node)
           t == [tx.tree EXCEPT !.clients = m]
           o == TreeOp("set", "clients", c, node)
<1>1. o.kind = "clients" /\ ApplyMapOp(tx.tree.clients, o) = m
  BY DEF ApplyMapOp, TreeOp
<1>2. TreeOK(t) /\ c \in DOMAIN t.clients /\ IsTree(tx.tree)
  BY DEF TxOK, TreeOK, IsTree, MapSet
<1>3. AddClient(tx, c, node) = Emit(tx, t, o)
  BY DEF AddClient
<1> HIDE DEF m, o
<1>4. Leads(o, tx.tree, t)
  BY <1>1, <1>2, ClientsLead
<1>5. Emit(tx, t, o).tree = t
  BY DEF Emit
<1> HIDE DEF t
<1> QED
  BY <1>2, <1>3, <1>4, <1>5, EmitOK

LEMMA DeleteClientOK ==
    ASSUME NEW t0, NEW tx, TxOK(t0, tx), NEW c
    PROVE  TxOK(t0, DeleteClient(tx, c))
<1> DEFINE m == MapDelete(tx.tree.clients, c)
           t == [tx.tree EXCEPT !.clients = m]
           o == TreeOp("delete", "clients", c, "")
<1>1. o.kind = "clients" /\ ApplyMapOp(tx.tree.clients, o) = m
  BY DEF ApplyMapOp, TreeOp
<1>2. TreeOK(t) /\ IsTree(tx.tree)
  BY DEF TxOK, TreeOK, IsTree, MapDelete
<1>3. DeleteClient(tx, c) = Emit(tx, t, o)
  BY DEF DeleteClient
<1> HIDE DEF m, o
<1>4. Leads(o, tx.tree, t)
  BY <1>1, <1>2, ClientsLead
<1> QED
  BY <1>2, <1>3, <1>4, EmitOK

LEMMA SetClientFieldOK ==
    ASSUME NEW t0, NEW tx, TxOK(t0, tx), NEW c, NEW field, NEW value
    PROVE  TxOK(t0, SetClientField(tx, c, field, value))
<1> DEFINE node == [tx.tree.clients[c] EXCEPT ![field] = value]
           m == [tx.tree.clients EXCEPT ![c] = node]
           t == [tx.tree EXCEPT !.clients = m]
           o == TreeOp("set", "clients", c, node)
<1>1. c \notin DOMAIN tx.tree.clients => SetClientField(tx, c, field, value) = tx
  BY DEF SetClientField
<1>2. c \in DOMAIN tx.tree.clients => SetClientField(tx, c, field, value) = Emit(tx, t, o)
  BY DEF SetClientField
<1> HIDE DEF node
<1>3. ASSUME c \in DOMAIN tx.tree.clients
      PROVE  o.kind = "clients" /\ ApplyMapOp(tx.tree.clients, o) = m
  <2>1. DOMAIN tx.tree.clients \union {c} = DOMAIN tx.tree.clients
    BY <1>3
  <2>2. MapSet(tx.tree.clients, c, node) = m
    BY <2>1 DEF MapSet
  <2> QED
    BY <2>2 DEF ApplyMapOp, TreeOp
<1>4. TreeOK(t) /\ IsTree(tx.tree)
  BY DEF TxOK, TreeOK, IsTree
<1> HIDE DEF m, o
<1>5. c \in DOMAIN tx.tree.clients => Leads(o, tx.tree, t)
  BY <1>3, <1>4, ClientsLead
<1> QED
  BY <1>1, <1>2, <1>4, <1>5, EmitOK

(* The handlers. *)
LEMMA SpawnRegionOK ==
    ASSUME NEW t0, NEW tx, TxOK(t0, tx), NEW r, NEW s, NEW size
    PROVE  TxOK(t0, SpawnRegion(tx, r, s, size))
  BY SetRegionOK, EnsureSessionOK, AddRegionToSessionOK DEF SpawnRegion

LEMMA DestroyRegionOK ==
    ASSUME NEW t0, NEW tx, TxOK(t0, tx), NEW r
    PROVE  TxOK(t0, DestroyRegion(tx, r))
<1> DEFINE s == tx.tree.regions[r].session
           t1 == RemoveRegionFromSession(DeleteRegion(tx, r), s, r)
<1>1. TxOK(t0, t1)
  BY DeleteRegionOK, RemoveRegionFromSessionOK
<1>2. TxOK(t0, DeleteSession(t1, s))
  BY <1>1, DeleteSessionOK
<1> HIDE DEF t1
<1> QED
  BY <1>1, <1>2 DEF DestroyRegion, t1

LEMMA OtherHandlersOK ==
    ASSUME NEW t0, NEW tx, TxOK(t0, tx)
    PROVE  /\ \A r, size : TxOK(t0, SetRegionGeometry(tx, r, size))
           /\ \A p : TxOK(t0, AddProgram(tx, p)) /\ TxOK(t0, RemoveProgram(tx, p))
  BY SetRegionOK, ProgramsOK DEF SetRegionGeometry, AddProgram, RemoveProgram

-----------------------------------------------------------------------------
(* The actions. *)

LEMMA Initial == Init => IInv
<1> SUFFICES ASSUME Init PROVE IInv
  OBVIOUS
<1> DEFINE t == NewServerTree(setup.programs)
<1>1. TreeOK(t)
  BY DEF NewServerTree, TreeOK, IsTree, EmptyMap
<1> HIDE DEF t
<1>2. history = <<t>> /\ tree = t /\ version = 0 /\ epoch = 0
  BY DEF Init, t
<1>3. Len(<<t>>) = 1 /\ <<t>>[1] = t /\ <<t>> \in Seq({t})
  OBVIOUS
<1>8. IsSeq(<<t>>)
  BY <1>3, SeqIs
<1>4. HistoryOK(history)
  BY <1>1, <1>2, <1>3, <1>8 DEF HistoryOK
<1>5. StoreOK(store, history, epoch)
  BY <1>2 DEF Init, StoreOK, Here
<1>6. ~Live /\ QueuesOK(wire, writeCh, history, epoch, store, Live)
  BY QueuesEmpty DEF Init, Live
<1> QED
  BY <1>2, <1>3, <1>4, <1>5, <1>6 DEF Init, IInv

(* What SendMessage does is nothing or an Append. *)
LEMMA SendOK ==
    ASSUME NEW h, IsSeq(h), NEW w, NEW q, NEW e, NEW st, NEW live, NEW m,
           StoreOK(st, h, e), QueuesOK(w, q, h, e, st, live), Newest(m, h, e)
    PROVE  QueuesOK(w, SendMessage(q, m), h, e, st, live)
<1>1. SendMessage(q, m) \in {q, Append(q, m)}
  BY DEF SendMessage
<1> QED
  BY <1>1, QueuesSend

LEMMA SnapshotNewest == IInv => Newest(SnapshotMsg, history, epoch)
<1> SUFFICES ASSUME IInv PROVE Newest(SnapshotMsg, history, epoch)
  OBVIOUS
<1>1. IsSeq(history) /\ Len(history) \in Nat /\ Len(history) > 0 /\ version = Len(history) - 1
      /\ tree = history[Len(history)]
  BY SeqFacts DEF IInv, HistoryOK
<1> QED
  BY <1>1 DEF Newest, MsgOK, Carries, SnapshotMsg

(* commitAndBroadcast, whatever the queues w and ch were made of before.   *)
LEMMA CommitOK ==
    ASSUME IInv, NEW tx, TxOK(tree, tx), NEW c, NEW w, NEW ch, NEW live,
           QueuesOK(w, ch, history, epoch, store, live), Commit(tx, c, ch)
    PROVE  /\ HistoryOK(history') /\ version' = Len(history') - 1
           /\ tree' = history'[Len(history')]
           /\ StoreOK(store, history', epoch)
           /\ QueuesOK(w, writeCh', history', epoch, store, live)
           /\ c \notin Conn => writeCh' = ch
<1> DEFINE n == Len(history)
<1>1. IsSeq(history) /\ n \in Nat /\ n > 0 /\ version = n - 1 /\ tree = history[n] /\ TreeOK(tree)
      /\ (\A i \in 1 .. n : TreeOK(history[i])) /\ StoreOK(store, history, epoch)
  BY SeqFacts DEF IInv, HistoryOK
<1>2. IsSeq(tx.ops) /\ TreeOK(tx.tree)
      /\ \A x : Copies(x, tree) => Copies(ApplyOps(x, tx.ops), tx.tree)
  BY DEF TxOK
<1>3. CASE tx.ops = <<>>
  <2>1. tx.tree = tree
    BY <1>3 DEF TxOK
  <2> QED
    BY <1>1, <1>3, <2>1 DEF Commit, HistoryOK
<1>4. CASE tx.ops # <<>>
  <2> DEFINE m == [type |-> "events", version |-> version + 1, ops |-> tx.ops, epoch |-> epoch]
             h == Append(history, tx.tree)
  <2>1. /\ tree' = tx.tree /\ version' = version + 1 /\ history' = h
        /\ writeCh' = IF c \in DOMAIN tx.tree.clients THEN SendMessage(ch, m) ELSE ch
    BY <1>4 DEF Commit
  <2>2. IsSeq(h) /\ Len(h) = n + 1 /\ h[n + 1] = tx.tree /\ \A i \in 1 .. n : h[i] = history[i]
    BY <1>1, AppendFacts
  <2>3. QueuesOK(w, ch, h, epoch, store, live)
    BY <1>1, QueuesExtend
  <2> HIDE DEF h
  <2>4. StoreOK(store, h, epoch)
    BY <1>1, <2>2 DEF StoreOK
  <2>5. Newest(m, h, epoch)
    <3>1. n \in 1 .. n /\ h[n] = tree
      BY <1>1, <2>2
    <3> QED
      BY <1>1, <1>2, <2>2, <3>1 DEF Newest, MsgOK
  <2> HIDE DEF m
  <2>6. QueuesOK(w, SendMessage(ch, m), h, epoch, store, live)
    BY <2>2, <2>3, <2>4, <2>5, SendOK
  <2>7. c \notin Conn => c \notin DOMAIN tx.tree.clients
    BY <1>2 DEF TreeOK
  <2> QED
    BY <1>1, <1>2, <2>1, <2>2, <2>3, <2>4, <2>6, <2>7 DEF HistoryOK
<1> QED
  BY <1>3, <1>4

(* A commit for the present connection. *)
LEMMA CommitHere ==
    ASSUME IInv, NEW tx, TxOK(tree, tx), Commit(tx, conn, writeCh),
           UNCHANGED <<conn, wire, writeFailed, store>>
    PROVE  IInv'
<1>1. QueuesOK(wire, writeCh, history, epoch, store, Live)
  BY DEF IInv
<1>2. /\ HistoryOK(history') /\ version' = Len(history') - 1 /\ tree' = history'[Len(history')]
      /\ StoreOK(store, history', epoch)
      /\ QueuesOK(wire, writeCh', history', epoch, store, Live)
      /\ conn \notin Conn => writeCh' = writeCh
  BY <1>1, CommitOK
<1>3. UNCHANGED <<setup, epoch>>
  BY DEF Commit
<1> QED
  BY <1>2, <1>3, TreeSyncAssumption DEF IInv, Live

LEMMA RemoveClientStep == ASSUME IInv, NEW c \in Conn, RemoveClient(c) PROVE IInv'
<1>1. TxOK(tree, StartTx(tree))
  BY StartOK DEF IInv, HistoryOK
<1>2. TxOK(tree, DeleteClient(StartTx(tree), c))
  BY <1>1, DeleteClientOK
<1> QED
  BY <1>2, CommitHere DEF RemoveClient, viewerVars

LEMMA HandleRequestStep == ASSUME IInv, HandleRequest PROVE IInv'
<1> DEFINE tx == StartTx(tree)
<1>1. TxOK(tree, tx)
  BY StartOK DEF IInv, HistoryOK
<1> HIDE DEF tx
<1>2. \E new : TxOK(tree, new) /\ Commit(new, conn, writeCh)
  <2>1. CASE \E r \in setup.regions \ DOMAIN tree.regions, s \in setup.sessions, z \in Size :
               Commit(SpawnRegion(tx, r, s, z), conn, writeCh)
    BY <1>1, <2>1, SpawnRegionOK
  <2>2. CASE \E r \in setup.regions : Commit(DestroyRegion(tx, r), conn, writeCh)
    BY <1>1, <2>2, DestroyRegionOK
  <2>3. CASE \E r \in setup.regions, z \in Size : Commit(SetRegionGeometry(tx, r, z), conn, writeCh)
    BY <1>1, <2>3, OtherHandlersOK
  <2>4. CASE \E p \in setup.programs : Commit(AddProgram(tx, p), conn, writeCh)
    BY <1>1, <2>4, OtherHandlersOK
  <2>5. CASE \E p \in setup.programs : Commit(RemoveProgram(tx, p), conn, writeCh)
    BY <1>1, <2>5, OtherHandlersOK
  <2>6. CASE \E c, field, value : Commit(SetClientField(tx, c, field, value), conn, writeCh)
    BY <1>1, <2>6, SetClientFieldOK
  <2>7. CASE \E u \in {"active", "none"} : Commit(SetUpgrade(tx, u), conn, writeCh)
    BY <1>1, <2>7, SetUpgradeOK
  <2> QED
    BY <2>1, <2>2, <2>3, <2>4, <2>5, <2>6, <2>7 DEF HandleRequest, tx
<1>3. UNCHANGED <<conn, wire, writeFailed, store>>
  BY DEF HandleRequest, viewerVars
<1> QED
  BY <1>2, <1>3, CommitHere

(* A new connection: identify and the snapshot are queued, and fit.        *)
LEMMA ConnectStep ==
    ASSUME IInv, RoomToGreet, NEW c \in Conn, Connect(c)
    PROVE  IInv'
<1> DEFINE tx == AddClient(StartTx(tree), c, ClientNode)
<1>1. PICK queue \in {<<>>, <<IdentifyMsg>>} :
          /\ wire' = IF queue = <<>> THEN <<IdentifyMsg>> ELSE <<>>
          /\ Commit(tx, c, SendMessage(queue, SnapshotMsg))
  BY DEF Connect
<1>2. conn' = c /\ conn' # NoConn /\ Live' /\ UNCHANGED store
  BY TreeSyncAssumption DEF Connect, Live, viewerVars
<1>3. TxOK(tree, StartTx(tree))
  BY StartOK DEF IInv, HistoryOK
<1>4. TxOK(tree, tx)
  BY <1>3, AddClientOK
<1> HIDE DEF tx
<1>5. setup.writeCap \in Nat /\ setup.writeCap >= 2
  BY TreeSyncAssumption DEF IInv, RoomToGreet
<1> DEFINE first == SendMessage(queue, SnapshotMsg)
<1>6. first = Append(queue, SnapshotMsg)
  <2>1. Len(<<>>) = 0 /\ Len(<<IdentifyMsg>>) = 1
    OBVIOUS
  <2>2. Len(queue) = 0 \/ Len(queue) = 1
    BY <2>1
  <2>3. \A n, k : (n = 0 \/ n = 1) /\ k \in Nat /\ k >= 2 => n < k
    OBVIOUS
  <2>4. Len(queue) < setup.writeCap
    BY <1>5, <2>2, <2>3
  <2> QED
    BY <2>4 DEF SendMessage
<1>7. QueuesOK(wire', first, history, epoch, store, TRUE)
  <2>1. IsSeq(history) /\ StoreOK(store, history, epoch)
    BY DEF IInv, HistoryOK
  <2>2. Newest(SnapshotMsg, history, epoch)
    BY SnapshotNewest
  <2>3. Newest(IdentifyMsg, history, epoch)
    BY DEF Newest, MsgOK, Carries, IdentifyMsg
  <2>4. QueuesOK(<<>>, <<>>, history, epoch, store, FALSE)
    BY QueuesEmpty
  <2>5. <<IdentifyMsg>> = Append(<<>>, IdentifyMsg)
    OBVIOUS
  <2>6. QueuesOK(<<>>, <<IdentifyMsg>>, history, epoch, store, FALSE)
    BY <2>1, <2>3, <2>4, <2>5, QueuesSend
  <2>7. QueuesOK(<<IdentifyMsg>>, <<>>, history, epoch, store, FALSE)
    <3>1. QueueOK(<<IdentifyMsg>>, history, epoch) /\ QueueOK(<<>>, history, epoch)
      BY <2>4, <2>6 DEF QueuesOK
    <3>2. Len(<<>>) = 0 /\ 1 .. 0 = {} /\ Len(<<IdentifyMsg>>) = 1
          /\ \A i \in 1 .. 1 : <<IdentifyMsg>>[i] = IdentifyMsg
      OBVIOUS
    <3>3. IdentifyMsg.type = "identify"
      BY DEF IdentifyMsg
    <3>4. Before(<<IdentifyMsg>>, <<>>) /\ Introduced(<<IdentifyMsg>>)
      BY <3>2, <3>3 DEF Before, Introduced
    <3>5. \A v : NotOlder(<<IdentifyMsg>>, v) /\ NotOlder(<<>>, v)
      BY <3>2, <3>3 DEF NotOlder, Carries
    <3> QED
      BY <3>1, <3>4, <3>5 DEF QueuesOK
  <2>8. QueuesOK(wire', queue, history, epoch, store, FALSE)
    BY <1>1, <2>6, <2>7
  <2>9. QueuesOK(wire', first, history, epoch, store, FALSE)
    BY <1>6, <2>1, <2>2, <2>8, QueuesSend
  <2>10. HasSnapshot(first) /\ Introduced(first)
    <3>1. CASE queue = <<>>
      <4>1. first = <<SnapshotMsg>>
        BY <1>6, <3>1
      <4>2. Len(<<SnapshotMsg>>) = 1 /\ \A i \in 1 .. 1 : <<SnapshotMsg>>[i] = SnapshotMsg
        OBVIOUS
      <4>3. SnapshotMsg.type = "snapshot"
        BY DEF SnapshotMsg
      <4> HIDE DEF first
      <4> QED
        BY <4>1, <4>2, <4>3 DEF HasSnapshot, Introduced
    <3>2. CASE queue = <<IdentifyMsg>>
      <4>1. IsSeq(<<IdentifyMsg>>) /\ Len(<<IdentifyMsg>>) = 1 /\ <<IdentifyMsg>>[1] = IdentifyMsg
        <5>1. <<IdentifyMsg>> \in Seq({IdentifyMsg})
          OBVIOUS
        <5> QED
          BY <5>1, SeqIs
      <4> HIDE DEF first
      <4>2. Len(first) = 1 + 1 /\ first[1] = IdentifyMsg /\ first[1 + 1] = SnapshotMsg
        <5>1. 1 \in 1 .. 1
          OBVIOUS
        <5> QED
          BY <1>6, <3>2, <4>1, <5>1, AppendFacts
      <4>3. SnapshotMsg.type = "snapshot" /\ IdentifyMsg.type = "identify" /\ 1 .. 2 = {1, 2}
        BY DEF SnapshotMsg, IdentifyMsg
      <4> QED
        BY <4>2, <4>3 DEF HasSnapshot, Introduced
    <3> QED
      BY <3>1, <3>2
  <2> QED
    BY <2>9, <2>10 DEF QueuesOK
<1>8. /\ HistoryOK(history') /\ version' = Len(history') - 1 /\ tree' = history'[Len(history')]
      /\ StoreOK(store, history', epoch)
      /\ QueuesOK(wire', writeCh', history', epoch, store, TRUE)
  <2> HIDE DEF first
  <2>1. Commit(tx, c, first)
    BY <1>1 DEF first
  <2> QED
    BY <1>4, <1>7, <2>1, CommitOK
<1>9. UNCHANGED <<setup, epoch>>
  BY <1>1 DEF Commit
<1>10. QueuesOK(wire', writeCh', history', epoch, store, Live')
  BY <1>2, <1>8 DEF QueuesOK
<1> QED
  BY <1>2, <1>8, <1>9, <1>10 DEF IInv

LEMMA HandleResyncStep == ASSUME IInv, HandleResync PROVE IInv'
<1>1. UNCHANGED <<setup, tree, version, history, epoch, conn, wire, writeFailed, store>>
  BY DEF HandleResync, serverVars
<1>2. QueuesOK(wire, SendMessage(writeCh, SnapshotMsg), history, epoch, store, Live)
  BY SendOK, SnapshotNewest DEF IInv, HistoryOK
<1>3. QueuesOK(wire, writeCh', history, epoch, store, Live)
  BY <1>2 DEF HandleResync, IInv
<1>4. conn = NoConn => writeCh' = <<>>
  <2>1. NoConn \notin DOMAIN tree.clients
    BY TreeSyncAssumption DEF IInv, HistoryOK, TreeOK
  <2> QED
    BY <2>1 DEF HandleResync, IInv
<1> QED
  BY <1>1, <1>3, <1>4 DEF IInv, Live

LEMMA QueueFrameStep == ASSUME IInv, QueueFrame PROVE IInv'
<1>1. UNCHANGED <<setup, tree, version, history, epoch, conn, wire, writeFailed, store>>
      /\ conn # NoConn /\ writeCh' = SendMessage(writeCh, FrameMsg)
  BY DEF QueueFrame, serverVars, viewerVars
<1>2. Newest(FrameMsg, history, epoch)
  BY DEF Newest, MsgOK, Carries, FrameMsg
<1>3. QueuesOK(wire, writeCh', history, epoch, store, Live)
  BY <1>1, <1>2, SendOK DEF IInv, HistoryOK
<1> QED
  BY <1>1, <1>3 DEF IInv, Live

LEMMA WriteLoopStep == ASSUME IInv, WriteLoop PROVE IInv'
<1>1. UNCHANGED <<setup, tree, version, history, epoch, conn, writeFailed, store>>
      /\ writeCh # <<>> /\ wire' = Append(wire, Head(writeCh)) /\ writeCh' = Tail(writeCh)
  BY DEF WriteLoop, serverVars, viewerVars
<1>2. conn # NoConn /\ Live = TRUE
  BY DEF WriteLoop, IInv, Live
<1>3. QueuesOK(wire, writeCh, history, epoch, store, TRUE)
  BY <1>2 DEF IInv
<1>4. QueuesOK(wire', writeCh', history, epoch, store, TRUE)
  BY <1>1, <1>3, QueuesMove
<1>5. Live' = TRUE
  BY <1>1, <1>2 DEF Live
<1> QED
  BY <1>1, <1>2, <1>4, <1>5 DEF IInv

LEMMA WriteLoopFailedStep == ASSUME IInv, WriteLoopFailed PROVE IInv'
<1>1. UNCHANGED <<setup, tree, version, history, epoch, conn, wire, store>>
      /\ writeCh # <<>> /\ writeCh' = Tail(writeCh) /\ writeFailed'
  BY DEF WriteLoopFailed, serverVars, viewerVars
<1>2. conn # NoConn /\ Live' = FALSE
  BY <1>1 DEF IInv, Live
<1>3. QueuesOK(wire, writeCh', history, epoch, store, FALSE)
  BY <1>1, QueuesDiscard DEF IInv
<1> QED
  BY <1>1, <1>2, <1>3 DEF IInv

(* The copy st says what version v of the present server says. *)
Shows(st, v) ==
    /\ st.valid /\ st.epoch = epoch /\ st.version = v
    /\ Copies(st.tree, history[v + 1])

(* processServerMsg: what the viewer's copy becomes. *)
LEMMA ReceiveStore ==
    ASSUME IInv, Receive
    PROVE  LET m == Head(wire)
           IN  \/ /\ Carries(m) /\ m.version \in 0 .. Len(history) - 1
                  /\ Shows(store', m.version)
                  /\ Here(store, epoch) => m.version >= store.version
               \/ m.type # "snapshot" /\ store' = store
<1> DEFINE m == Head(wire)
<1>1. /\ MsgOK(m, history, epoch)
      /\ m.type = "events" => Here(store, epoch)
      /\ Carries(m) /\ Here(store, epoch) => m.version >= store.version
  BY HeadFacts DEF IInv, Receive
<1>2. Len(history) \in Nat
  BY SeqFacts DEF IInv, HistoryOK
<1>3. CASE m.type = "snapshot"
  <2>1. HandleSnapshot(m)
    BY <1>3 DEF Receive
  <2> HIDE DEF m
  <2>2. m.version \in 0 .. Len(history) - 1 /\ m.tree = history[m.version + 1] /\ m.epoch = epoch
    BY <1>1, <1>3 DEF MsgOK
  <2>3. Copies(m.tree, history[m.version + 1])
    <3>1. m.version + 1 \in 1 .. Len(history)
      BY <1>2, <2>2
    <3> QED
      BY <2>2, <3>1 DEF IInv, HistoryOK, TreeOK, Copies
  <2>4. Shows(store', m.version)
    BY <2>1, <2>2, <2>3 DEF HandleSnapshot, Shows
  <2> QED
    BY <1>1, <1>3, <2>2, <2>4 DEF Carries, m
<1>4. CASE m.type = "events"
  <2>1. HandleEvents(m)
    BY <1>4 DEF Receive
  <2>2. Here(store, epoch) /\ store.version \in 0 .. Len(history) - 1
        /\ Copies(store.tree, history[store.version + 1])
    BY <1>1, <1>4 DEF IInv, StoreOK
  <2>3. /\ m.epoch = epoch /\ m.version \in 1 .. Len(history) - 1
        /\ \A c : Copies(c, history[m.version]) => Copies(ApplyOps(c, m.ops), history[m.version + 1])
    BY <1>1, <1>4 DEF MsgOK
  <2> HIDE DEF m
  <2>4. CASE Applies(m)
    <3>1. m.version = store.version + 1
      BY <2>4 DEF Applies
    <3>2. Copies(ApplyOps(store.tree, m.ops), history[m.version + 1])
      BY <2>2, <2>3, <3>1
    <3>3. Shows(store', m.version)
      BY <2>1, <2>3, <2>4, <3>2 DEF HandleEvents, Shows
    <3> QED
      BY <1>1, <1>2, <1>4, <2>3, <3>3 DEF Carries, m
  <2>5. CASE ~Applies(m)
    BY <1>4, <2>1, <2>5 DEF HandleEvents, m
  <2> QED
    BY <2>4, <2>5
<1>5. CASE m.type \in {"identify", "frame"}
  BY <1>5 DEF Receive, viewerVars
<1> QED
  BY <1>1, <1>3, <1>4, <1>5 DEF MsgOK

LEMMA ReceiveStep == ASSUME IInv, Receive PROVE IInv'
<1> DEFINE m == Head(wire)
<1>1. UNCHANGED <<setup, tree, version, history, epoch, conn, writeCh, writeFailed>>
      /\ wire # <<>> /\ wire' = Tail(wire)
  BY DEF Receive, serverVars
<1>2. \/ /\ Carries(m) /\ m.version \in 0 .. Len(history) - 1
         /\ Shows(store', m.version)
      \/ m.type # "snapshot" /\ store' = store
  BY ReceiveStore
<1>3. \/ Carries(m) /\ Here(store', epoch) /\ store'.version = m.version
      \/ m.type # "snapshot" /\ store' = store
  BY <1>2 DEF Here, Shows
<1>4. StoreOK(store', history, epoch)
  BY <1>2 DEF IInv, StoreOK, Here, Shows
<1>5. QueuesOK(wire', writeCh, history, epoch, store', Live)
  BY <1>1, <1>3, QueuesReceive DEF IInv
<1> HIDE DEF m
<1> QED
  BY <1>1, <1>4, <1>5 DEF IInv, Live

LEMMA LoseConnectionStep == ASSUME IInv, LoseConnection PROVE IInv'
<1>1. UNCHANGED <<setup, tree, version, history, epoch, store>>
      /\ conn' = NoConn /\ writeCh' = <<>> /\ wire' = <<>>
  BY DEF LoseConnection, serverVars
<1>2. Live' = FALSE
  BY <1>1 DEF Live
<1> QED
  BY <1>1, <1>2, QueuesEmpty DEF IInv

LEMMA ReplaceServerStep == ASSUME IInv, ReplaceServer PROVE IInv'
<1> DEFINE t == NewServerTree(setup.programs)
<1>1. /\ UNCHANGED <<setup, store>> /\ epoch' = epoch + 1
      /\ tree' = t /\ version' = 0 /\ history' = <<t>>
      /\ conn' = NoConn /\ writeCh' = <<>> /\ wire' = <<>>
  BY DEF ReplaceServer
<1>2. TreeOK(t)
  BY DEF NewServerTree, TreeOK, IsTree, EmptyMap
<1> HIDE DEF t
<1>3. Len(<<t>>) = 1 /\ <<t>>[1] = t /\ <<t>> \in Seq({t})
  OBVIOUS
<1>4. IsSeq(<<t>>)
  BY <1>3, SeqIs
<1>5. HistoryOK(history')
  BY <1>1, <1>2, <1>3, <1>4 DEF HistoryOK
<1>6. StoreOK(store, history', epoch')
  BY <1>1 DEF IInv, StoreOK, Here
<1>7. Live' = FALSE
  BY <1>1 DEF Live
<1>8. version' = Len(history') - 1 /\ tree' = history'[Len(history')]
  BY <1>1, <1>3
<1>9. QueuesOK(wire', writeCh', history', epoch', store', FALSE)
  BY <1>1, QueuesEmpty
<1> QED
  BY <1>1, <1>5, <1>6, <1>7, <1>8, <1>9 DEF IInv

LEMMA Step == RoomToGreet /\ IInv /\ [Next]_vars => IInv'
<1> SUFFICES ASSUME RoomToGreet, IInv, [Next]_vars PROVE IInv'
  OBVIOUS
<1>1. CASE \E c \in Conn : Connect(c)
  BY <1>1, ConnectStep
<1>2. CASE \E c \in Conn : RemoveClient(c)
  BY <1>2, RemoveClientStep
<1>3. CASE HandleRequest
  BY <1>3, HandleRequestStep
<1>4. CASE HandleResync
  BY <1>4, HandleResyncStep
<1>5. CASE QueueFrame
  BY <1>5, QueueFrameStep
<1>6. CASE WriteLoop
  BY <1>6, WriteLoopStep
<1>7. CASE WriteLoopFailed
  BY <1>7, WriteLoopFailedStep
<1>8. CASE Receive
  BY <1>8, ReceiveStep
<1>9. CASE LoseConnection
  BY <1>9, LoseConnectionStep
<1>10. CASE ReplaceServer
  BY <1>10, ReplaceServerStep
<1>11. CASE UNCHANGED vars
  BY <1>11 DEF vars, IInv, Live
<1> QED
  BY <1>1, <1>2, <1>3, <1>4, <1>5, <1>6, <1>7, <1>8, <1>9, <1>10, <1>11 DEF Next

-----------------------------------------------------------------------------
(* The refinement: each step is a step of TreeReplica, or changes none of  *)
(* its variables.                                                          *)

LEMMA InitRefines == Init => Replica!ReplicaInit
<1> SUFFICES ASSUME Init PROVE Replica!ReplicaInit
  OBVIOUS
<1>1. \A t : Len(<<t>>) = 1
  OBVIOUS
<1> QED
  BY <1>1 DEF Init, Replica!ReplicaInit

LEMMA CommitRefines ==
    ASSUME IInv, NEW tx, NEW c, NEW ch, Commit(tx, c, ch), UNCHANGED store
    PROVE  [Replica!ReplicaNext]_(Replica!replicaVars)
<1>1. IsSeq(history)
  BY DEF IInv, HistoryOK
<1>2. UNCHANGED history \/ history' = Append(history, tx.tree)
  BY DEF Commit
<1>3. UNCHANGED epoch
  BY DEF Commit
<1> QED
  BY <1>1, <1>2, <1>3, AppendFacts
  DEF Replica!ReplicaNext, Replica!CommitTree, Replica!replicaVars

LEMMA ReceiveRefines ==
    ASSUME IInv, Receive
    PROVE  [Replica!ReplicaNext]_(Replica!replicaVars)
<1> DEFINE v == Head(wire).version
<1>1. UNCHANGED <<history, epoch>>
  BY DEF Receive, serverVars
<1>2. CASE /\ v \in 0 .. Len(history) - 1
           /\ Shows(store', v)
           /\ Here(store, epoch) => v >= store.version
  <2> HIDE DEF v
  <2> QED
    BY <1>1, <1>2 DEF Here, Shows, Copies, Replica!ReplicaNext, Replica!MoveForward, Replica!replicaVars
<1>3. CASE store' = store
  BY <1>1, <1>3 DEF Replica!replicaVars
<1> QED
  BY <1>2, <1>3, ReceiveStore

LEMMA StepRefines ==
    IInv /\ [Next]_vars => [Replica!ReplicaNext]_(Replica!replicaVars)
<1> SUFFICES ASSUME IInv, [Next]_vars PROVE [Replica!ReplicaNext]_(Replica!replicaVars)
  OBVIOUS
<1>1. CASE \E c \in Conn : Connect(c)
  <2>1. \E tx, c, ch : Commit(tx, c, ch)
    BY <1>1 DEF Connect
  <2> QED
    BY <1>1, <2>1, CommitRefines DEF Connect, viewerVars
<1>2. CASE \E c \in Conn : RemoveClient(c)
  <2>1. \E tx, c, ch : Commit(tx, c, ch)
    BY <1>2 DEF RemoveClient
  <2> QED
    BY <1>2, <2>1, CommitRefines DEF RemoveClient, viewerVars
<1>3. CASE HandleRequest
  <2>1. \E tx, c, ch : Commit(tx, c, ch)
    BY <1>3 DEF HandleRequest
  <2> QED
    BY <1>3, <2>1, CommitRefines DEF HandleRequest, viewerVars
<1>4. CASE HandleResync \/ QueueFrame \/ WriteLoop \/ WriteLoopFailed \/ LoseConnection
  BY <1>4 DEF HandleResync, QueueFrame, WriteLoop, WriteLoopFailed, LoseConnection,
              serverVars, viewerVars, Replica!replicaVars
<1>5. CASE Receive
  BY <1>5, ReceiveRefines
<1>6. CASE ReplaceServer
  <2>1. \A t : Len(<<t>>) = 1
    OBVIOUS
  <2> QED
    BY <1>6, <2>1 DEF ReplaceServer, Replica!ReplicaNext, Replica!NewServer
<1>7. CASE UNCHANGED vars
  BY <1>7 DEF vars, Replica!replicaVars
<1> QED
  BY <1>1, <1>2, <1>3, <1>4, <1>5, <1>6, <1>7 DEF Next

(* acceptClient, commitAndBroadcast, treeSnapshotReq and TreeStore: with   *)
(* room in writeCh for identify and the snapshot, the viewer's copy is     *)
(* always a tree the server committed and only moves forward through them, *)
(* whatever writeCh drops, writes lose and servers replace.                *)
THEOREM ReplicaImplemented == RoomToGreet => (Spec => CopyMovesForward)
<1> SUFFICES ASSUME RoomToGreet PROVE Spec => CopyMovesForward
  OBVIOUS
<1>1. Init => IInv
  BY Initial
<1>2. IInv /\ [Next]_vars => IInv'
  BY Step
<1>3. Init => Replica!ReplicaInit
  BY InitRefines
<1>4. IInv /\ [Next]_vars => [Replica!ReplicaNext]_(Replica!replicaVars)
  BY StepRefines
<1> QED
  BY <1>1, <1>2, <1>3, <1>4, PTL DEF Spec, CopyMovesForward, Replica!ReplicaSpec

(* TreeStore: whenever the copy is one of the present server's trees, it   *)
(* says exactly what the tree of the version it bears says beyond names    *)
(* with a "/".                                                             *)
CopyIsCommitted ==
    store.valid /\ store.epoch = epoch =>
        store.version \in 0 .. version /\ Plain(store.tree) = Plain(history[store.version + 1])

THEOREM CopyCommitted == RoomToGreet => (Spec => []CopyIsCommitted)
<1> SUFFICES ASSUME RoomToGreet PROVE Spec => []CopyIsCommitted
  OBVIOUS
<1>1. Init => IInv
  BY Initial
<1>2. IInv /\ [Next]_vars => IInv'
  BY Step
<1>3. IInv => CopyIsCommitted
  BY DEF IInv, StoreOK, Here, Copies, CopyIsCommitted
<1> QED
  BY <1>1, <1>2, <1>3, PTL DEF Spec

=============================================================================
