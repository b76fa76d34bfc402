----------------------------- MODULE OrderProofs -----------------------------
(***************************************************************************)
(* What the order of messages guarantees, proved about FrameLoop for every *)
(* value of the constants: the buffers that reach the compositor are       *)
(* behind an ack and at most one configuration ahead of it                 *)
(* (CommitKeepsUp), and the loop never waits without an outstanding frame  *)
(* callback (ChainAlive).                                                  *)
(***************************************************************************)
EXTENDS FrameLoopProofs

USE DEF Commit, Ack, Pong, Recreate

-----------------------------------------------------------------------------
\* Sizes.  Behind what the compositor has read come the requests of wire and outbuf;
\* behind the last ack in them come the configurations that the client has not acked.

Sent == wire \o outbuf

\* There is an ack in front of place i of the requests q, or it has been read.
AckFront(q, i, r) == r = "acked" \/ \E j \in 1 .. i - 1 : q[j].type = "ack"

\* The last ack in front of place i, or the last one read, allows the size sz.
LastAck(q, i, a, sz) ==
  \/ \E j \in 1 .. i - 1 :
       /\ q[j].type = "ack" /\ q[j].size \in {None, sz}
       /\ \A k \in j + 1 .. i - 1 : q[k].type # "ack"
  \/ (\A k \in 1 .. i - 1 : q[k].type # "ack") /\ a \in {None, sz}

\* The first ack behind place i is for the size sz.
NextAck(q, i, sz) ==
  \E j \in i + 1 .. Len(q) :
    /\ q[j].type = "ack" /\ q[j].size = sz
    /\ \A k \in i + 1 .. j - 1 : q[k].type # "ack"

NoAckBehind(q, i) == \A j \in i + 1 .. Len(q) : q[j].type # "ack"

\* Every buffer in q has the size of the ack in front of it or of the configuration that
\* follows: next is {} or the size of the first one not acked that the client has heard
\* of in a toplevel's configure.
QueueFits(q, r, a, next) ==
  \A i \in 1 .. Len(q) : IsBufferCommit(q[i]) =>
    /\ AckFront(q, i, r)
    /\ \/ LastAck(q, i, a, q[i].size)
       \/ NextAck(q, i, q[i].size)
       \/ NoAckBehind(q, i) /\ q[i].size \in next

\* So would a buffer of size sz behind q.
EndFits(q, r, a, next, sz) ==
  /\ AckFront(q, Len(q) + 1, r)
  /\ LastAck(q, Len(q) + 1, a, sz) \/ sz \in next

\* The configuration whose toplevel's configure is among the first i events of ev, or in
\* front of them, and whose surface's configure is not: as {} or its size in a set.
Half(ev, off, i) ==
  {sz \in Size \cup {None} :
     \/ \E j \in i + 1 .. Len(ev) :
          /\ ev[j].type = "configure" /\ ev[j].size = sz
          /\ \A k \in i + 1 .. j - 1 : ~Configures(ev[k])
     \/ (\A k \in i + 1 .. Len(ev) : ~Configures(ev[k])) /\ sz \in off}

\* The two kinds of configure alternate.
Alternate(ev, off) ==
  \A i \in 1 .. Len(ev) :
    /\ ev[i].type = "toplevel" => Half(ev, off, i) = {ev[i].size}
    /\ ev[i].type = "configure" => Half(ev, off, i) = {}

Ahead == Half(events, offer, 0)

SizesFit ==
  connected =>
    /\ QueueFits(Sent, role, agreed, Ahead)
    /\ ~pendingConfigure => EndFits(Sent, role, agreed, Ahead, size)
    /\ Alternate(events, offer)
    /\ Ahead \subseteq {None, size}

\* Frames are drawn only once the window is configured, and buffers wait for their
\* resize, if there is one, before they are drawn into.
DrawsSized ==
  /\ pc \in {"frame", "user"} \/ callbacks # {} => ~pendingConfigure
  /\ ~pendingResize => \A s \in Slot : buffers[s].size = size
  /\ pc = "user" => ~pendingResize

AckInv == SizesFit /\ DrawsSized
-----------------------------------------------------------------------------
\* Places in queues of requests.

\* Only what is in front of a place counts for the acks in front of it.
LEMMA SameFront ==
  ASSUME NEW q, NEW p, NEW i \in Nat, \A j \in 1 .. i - 1 : p[j] = q[j],
         NEW r, NEW a, NEW sz
  PROVE  /\ AckFront(q, i, r) => AckFront(p, i, r)
         /\ LastAck(q, i, a, sz) => LastAck(p, i, a, sz)
<1>1. AckFront(q, i, r) => AckFront(p, i, r)
  BY DEF AckFront
<1>2. CASE (\A k \in 1 .. i - 1 : q[k].type # "ack") /\ a \in {None, sz}
  BY <1>1, <1>2 DEF LastAck
<1>3. CASE \E j \in 1 .. i - 1 :
             /\ q[j].type = "ack" /\ q[j].size \in {None, sz}
             /\ \A k \in j + 1 .. i - 1 : q[k].type # "ack"
  <2> PICK j \in 1 .. i - 1 :
             /\ q[j].type = "ack" /\ q[j].size \in {None, sz}
             /\ \A k \in j + 1 .. i - 1 : q[k].type # "ack"
    BY <1>3
  <2>1. \A k \in j + 1 .. i - 1 : k \in 1 .. i - 1
    OBVIOUS
  <2> QED
    BY <1>1, <2>1 DEF LastAck
<1> QED
  BY <1>1, <1>2, <1>3 DEF LastAck

\* p is q with one more request behind it.
Longer(q, p, n, m) ==
  /\ Len(q) = n /\ Len(p) = n + 1 /\ p[n + 1] = m
  /\ \A i \in 1 .. n : p[i] = q[i]

\* p is q without its first request, which counts as read.
Read(q, p, n, r, a, rr, aa) ==
  /\ Len(q) = n /\ Len(p) = n - 1
  /\ \A i \in 1 .. n - 1 : p[i] = q[i + 1]
  /\ IF q[1].type = "ack" THEN rr = "acked" /\ aa = q[1].size
                          ELSE aa = a /\ (r = "acked" => rr = "acked")

\* What a request behind the others does to the acks behind their places.
LEMMA LongerBehind ==
  ASSUME NEW q, NEW p, NEW n \in Nat, NEW m, Longer(q, p, n, m), NEW i \in 1 .. n, NEW sz
  PROVE  /\ NextAck(q, i, sz) => NextAck(p, i, sz)
         /\ NoAckBehind(q, i) =>
              IF m.type = "ack" THEN NextAck(p, i, m.size) ELSE NoAckBehind(p, i)
<1>1. ASSUME NextAck(q, i, sz)  PROVE NextAck(p, i, sz)
  <2> PICK j \in i + 1 .. n : /\ q[j].type = "ack" /\ q[j].size = sz
                              /\ \A k \in i + 1 .. j - 1 : q[k].type # "ack"
    BY <1>1 DEF NextAck, Longer
  <2>1. j \in 1 .. n /\ j \in i + 1 .. n + 1 /\ \A k \in i + 1 .. j - 1 : k \in 1 .. n
    OBVIOUS
  <2> QED
    BY <2>1 DEF NextAck, Longer
<1>2. ASSUME NoAckBehind(q, i), m.type # "ack"  PROVE NoAckBehind(p, i)
  <2>1. \A j \in i + 1 .. n + 1 : j = n + 1 \/ (j \in i + 1 .. n /\ j \in 1 .. n)
    OBVIOUS
  <2> QED
    BY <1>2, <2>1 DEF NoAckBehind, Longer
<1>3. ASSUME NoAckBehind(q, i), m.type = "ack"  PROVE NextAck(p, i, m.size)
  <2>1. /\ n + 1 \in i + 1 .. n + 1
        /\ \A k \in i + 1 .. n + 1 - 1 : k \in i + 1 .. n /\ k \in 1 .. n
    OBVIOUS
  <2> QED
    BY <1>3, <2>1 DEF NoAckBehind, NextAck, Longer
<1> QED
  BY <1>1, <1>2, <1>3

\* A request that is no ack, and if it is a buffer's commit fits.
LEMMA LongerFits ==
  ASSUME NEW q, NEW p, NEW n \in Nat, NEW m, Longer(q, p, n, m), m.type # "ack",
         NEW r, NEW a, NEW next, QueueFits(q, r, a, next),
         IsBufferCommit(m) => EndFits(q, r, a, next, m.size), NEW sz
  PROVE  /\ QueueFits(p, r, a, next)
         /\ EndFits(q, r, a, next, sz) => EndFits(p, r, a, next, sz)
<1>1. ASSUME NEW i \in 1 .. n, IsBufferCommit(p[i])
      PROVE  /\ AckFront(p, i, r)
             /\ \/ LastAck(p, i, a, p[i].size)
                \/ NextAck(p, i, p[i].size)
                \/ NoAckBehind(p, i) /\ p[i].size \in next
  <2>1. p[i] = q[i] /\ \A j \in 1 .. i - 1 : p[j] = q[j]
    <3>1. \A j \in 1 .. i - 1 : j \in 1 .. n
      OBVIOUS
    <3> QED
      BY <3>1 DEF Longer
  <2>2. /\ AckFront(q, i, r)
        /\ \/ LastAck(q, i, a, p[i].size)
           \/ NextAck(q, i, p[i].size)
           \/ NoAckBehind(q, i) /\ p[i].size \in next
    BY <1>1, <2>1 DEF QueueFits, Longer
  <2>3. /\ AckFront(p, i, r)
        /\ LastAck(q, i, a, p[i].size) => LastAck(p, i, a, p[i].size)
    <3>1. i \in Nat
      OBVIOUS
    <3> QED
      BY <2>1, <2>2, <3>1, SameFront
  <2>4. /\ NextAck(q, i, p[i].size) => NextAck(p, i, p[i].size)
        /\ NoAckBehind(q, i) => NoAckBehind(p, i)
    BY LongerBehind
  <2> QED
    BY <2>2, <2>3, <2>4
<1>2. ASSUME NEW s
      PROVE  /\ AckFront(q, n + 1, r) => AckFront(p, n + 1, r)
             /\ LastAck(q, n + 1, a, s) => LastAck(p, n + 1, a, s)
  <2> PICK i \in Nat : i = n + 1
    OBVIOUS
  <2>1. \A j \in 1 .. i - 1 : p[j] = q[j]
    BY DEF Longer
  <2>2. /\ AckFront(q, i, r) => AckFront(p, i, r)
        /\ LastAck(q, i, a, s) => LastAck(p, i, a, s)
    BY <2>1, SameFront
  <2> QED
    BY <2>2
<1>3. ASSUME NEW s, EndFits(q, r, a, next, s)
      PROVE  /\ AckFront(p, n + 1, r) /\ (LastAck(p, n + 1, a, s) \/ s \in next)
             /\ EndFits(p, r, a, next, s)
  <2>1. AckFront(q, n + 1, r) /\ (LastAck(q, n + 1, a, s) \/ s \in next)
    BY <1>3 DEF EndFits, Longer
  <2>2. AckFront(p, n + 1, r) /\ (LastAck(p, n + 1, a, s) \/ s \in next)
    BY <1>2, <2>1
  <2>3. p[n + 1].type # "ack" /\ Len(p) + 1 = n + 1 + 1
    BY DEF Longer
  <2>4. AckFront(p, n + 1 + 1, r)
    <3>1. \A j \in 1 .. n + 1 - 1 : j \in 1 .. n + 1 + 1 - 1
      OBVIOUS
    <3> QED
      BY <2>2, <3>1 DEF AckFront
  <2>5. LastAck(p, n + 1, a, s) => LastAck(p, n + 1 + 1, a, s)
    <3>1. CASE (\A k \in 1 .. n : p[k].type # "ack") /\ a \in {None, s}
      <4>1. \A k \in 1 .. n + 1 + 1 - 1 : k \in 1 .. n \/ k = n + 1
        OBVIOUS
      <4> QED
        BY <2>3, <3>1, <4>1 DEF LastAck
    <3>2. CASE \E j \in 1 .. n : /\ p[j].type = "ack" /\ p[j].size \in {None, s}
                                 /\ \A k \in j + 1 .. n : p[k].type # "ack"
      <4> PICK j \in 1 .. n : /\ p[j].type = "ack" /\ p[j].size \in {None, s}
                              /\ \A k \in j + 1 .. n : p[k].type # "ack"
        BY <3>2
      <4>1. /\ j \in 1 .. n + 1 + 1 - 1
            /\ \A k \in j + 1 .. n + 1 + 1 - 1 : k \in j + 1 .. n \/ k = n + 1
        OBVIOUS
      <4> QED
        BY <2>3, <4>1 DEF LastAck
    <3>3. n + 1 - 1 = n
      OBVIOUS
    <3> QED
      BY <3>1, <3>2, <3>3 DEF LastAck
  <2> QED
    BY <2>2, <2>3, <2>4, <2>5 DEF EndFits
<1>4. ASSUME IsBufferCommit(m)
      PROVE  /\ AckFront(p, n + 1, r)
             /\ \/ LastAck(p, n + 1, a, m.size)
                \/ NoAckBehind(p, n + 1) /\ m.size \in next
  <2>1. AckFront(q, n + 1, r) /\ (LastAck(q, n + 1, a, m.size) \/ m.size \in next)
    BY <1>4 DEF EndFits, Longer
  <2>2. NoAckBehind(p, n + 1)
    <3>1. n + 1 + 1 .. n + 1 = {}
      OBVIOUS
    <3> QED
      BY <3>1 DEF NoAckBehind, Longer
  <2> QED
    BY <1>2, <2>1, <2>2
<1>5. QueueFits(p, r, a, next)
  <2>1. \A i \in 1 .. n + 1 : i \in 1 .. n \/ i = n + 1
    OBVIOUS
  <2> QED
    BY <1>1, <1>4, <2>1 DEF QueueFits, Longer
<1> QED
  BY <1>3, <1>5

\* An ack of the one configuration that was ahead.
LEMMA AckFits ==
  ASSUME NEW q, NEW p, NEW n \in Nat, NEW m, Longer(q, p, n, m), m.type = "ack",
         NEW r, NEW a, NEW next, QueueFits(q, r, a, next), next = {m.size},
         NEW sz, m.size \in {None, sz}
  PROVE  QueueFits(p, r, a, {}) /\ EndFits(p, r, a, {}, sz)
<1>1. ASSUME NEW i \in 1 .. n, IsBufferCommit(p[i])
      PROVE  AckFront(p, i, r) /\ (LastAck(p, i, a, p[i].size) \/ NextAck(p, i, p[i].size))
  <2>1. p[i] = q[i] /\ \A j \in 1 .. i - 1 : p[j] = q[j]
    <3>1. \A j \in 1 .. i - 1 : j \in 1 .. n
      OBVIOUS
    <3> QED
      BY <3>1 DEF Longer
  <2>2. /\ AckFront(q, i, r)
        /\ \/ LastAck(q, i, a, p[i].size)
           \/ NextAck(q, i, p[i].size)
           \/ NoAckBehind(q, i) /\ p[i].size = m.size
    BY <1>1, <2>1 DEF QueueFits, Longer
  <2>3. /\ AckFront(p, i, r)
        /\ LastAck(q, i, a, p[i].size) => LastAck(p, i, a, p[i].size)
    <3>1. i \in Nat
      OBVIOUS
    <3> QED
      BY <2>1, <2>2, <3>1, SameFront
  <2>4. /\ NextAck(q, i, p[i].size) => NextAck(p, i, p[i].size)
        /\ NoAckBehind(q, i) => NextAck(p, i, m.size)
    BY LongerBehind
  <2> QED
    BY <2>2, <2>3, <2>4
<1>2. p[n + 1].type = "ack" /\ p[n + 1].size \in {None, sz} /\ Len(p) + 1 = n + 1 + 1
  BY DEF Longer
<1>3. QueueFits(p, r, a, {})
  <2>1. \A i \in 1 .. n + 1 : i \in 1 .. n \/ i = n + 1
    OBVIOUS
  <2> QED
    BY <1>1, <1>2, <2>1 DEF QueueFits, Longer, IsBufferCommit
<1>4. n + 1 \in 1 .. n + 1 + 1 - 1 /\ \A k \in n + 1 + 1 .. n + 1 + 1 - 1 : FALSE
  OBVIOUS
<1>5. AckFront(p, n + 1 + 1, r) /\ LastAck(p, n + 1 + 1, a, sz)
  BY <1>2, <1>4 DEF AckFront, LastAck
<1> QED
  BY <1>2, <1>3, <1>5 DEF EndFits

\* What the compositor's reading does to what counts for place i + 1.
LEMMA ReadPlace ==
  ASSUME NEW q, NEW p, NEW n \in Nat \ {0}, NEW r, NEW a, NEW rr, NEW aa,
         Read(q, p, n, r, a, rr, aa), NEW i \in 1 .. n, NEW sz
  PROVE  /\ AckFront(q, i + 1, r) => AckFront(p, i, rr)
         /\ LastAck(q, i + 1, a, sz) => LastAck(p, i, aa, sz)
         /\ NextAck(q, i + 1, sz) => NextAck(p, i, sz)
         /\ NoAckBehind(q, i + 1) => NoAckBehind(p, i)
<1>1. /\ 1 \in 1 .. i /\ i + 1 - 1 = i
      /\ \A j \in 1 .. i - 1 : j + 1 \in 1 .. i /\ j \in 1 .. n - 1
      /\ \A j \in 1 .. i : j # 1 => j - 1 \in 1 .. i - 1 /\ j - 1 + 1 = j
  OBVIOUS
<1>2. \A j \in 1 .. i - 1 : p[j] = q[j + 1]
  BY <1>1 DEF Read
<1>3. ASSUME AckFront(q, i + 1, r)  PROVE AckFront(p, i, rr)
  <2>1. CASE r = "acked"
    BY <2>1 DEF Read, AckFront
  <2>2. CASE \E j \in 1 .. i : q[j].type = "ack"
    <3> PICK j \in 1 .. i : q[j].type = "ack"
      BY <2>2
    <3>1. CASE j = 1
      BY <3>1 DEF Read, AckFront
    <3>2. CASE j # 1
      <4>1. j - 1 \in 1 .. i - 1 /\ p[j - 1] = q[j]
        BY <1>1, <1>2, <3>2
      <4> QED
        BY <4>1 DEF AckFront
    <3> QED
      BY <3>1, <3>2
  <2> QED
    BY <1>1, <1>3, <2>1, <2>2 DEF AckFront
<1>4. ASSUME LastAck(q, i + 1, a, sz)  PROVE LastAck(p, i, aa, sz)
  <2>1. CASE (\A k \in 1 .. i : q[k].type # "ack") /\ a \in {None, sz}
    BY <1>1, <1>2, <2>1 DEF LastAck, Read
  <2>2. CASE \E j \in 1 .. i : /\ q[j].type = "ack" /\ q[j].size \in {None, sz}
                               /\ \A k \in j + 1 .. i : q[k].type # "ack"
    <3> PICK j \in 1 .. i : /\ q[j].type = "ack" /\ q[j].size \in {None, sz}
                            /\ \A k \in j + 1 .. i : q[k].type # "ack"
      BY <2>2
    <3>1. CASE j = 1
      <4>1. \A k \in 1 .. i - 1 : k + 1 \in j + 1 .. i
        BY <3>1
      <4>2. \A k \in 1 .. i - 1 : p[k].type # "ack"
        BY <1>2, <4>1
      <4>3. aa \in {None, sz}
        BY <3>1 DEF Read
      <4> QED
        BY <4>2, <4>3 DEF LastAck
    <3>2. CASE j # 1
      <4>1. j - 1 \in 1 .. i - 1 /\ p[j - 1] = q[j]
        BY <1>1, <1>2, <3>2
      <4>2. \A k \in j - 1 + 1 .. i - 1 : k \in 1 .. i - 1 /\ k + 1 \in j + 1 .. i
        BY <4>1
      <4>3. \A k \in j - 1 + 1 .. i - 1 : p[k].type # "ack"
        BY <1>2, <4>2
      <4> QED
        BY <4>1, <4>3 DEF LastAck
    <3> QED
      BY <3>1, <3>2
  <2> QED
    BY <1>1, <1>4, <2>1, <2>2 DEF LastAck
<1>5. ASSUME NextAck(q, i + 1, sz)  PROVE NextAck(p, i, sz)
  <2> PICK j \in i + 1 + 1 .. n : /\ q[j].type = "ack" /\ q[j].size = sz
                                  /\ \A k \in i + 1 + 1 .. j - 1 : q[k].type # "ack"
    BY <1>5 DEF NextAck, Read
  <2>1. /\ j - 1 \in i + 1 .. n - 1 /\ j - 1 \in 1 .. n - 1 /\ j - 1 + 1 = j
        /\ \A k \in i + 1 .. j - 1 - 1 : k \in 1 .. n - 1 /\ k + 1 \in i + 1 + 1 .. j - 1
    OBVIOUS
  <2>2. p[j - 1] = q[j] /\ \A k \in i + 1 .. j - 1 - 1 : p[k] = q[k + 1]
    BY <2>1 DEF Read
  <2>3. \A k \in i + 1 .. j - 1 - 1 : p[k].type # "ack"
    BY <2>1, <2>2
  <2> QED
    BY <2>1, <2>2, <2>3 DEF NextAck, Read
<1>6. ASSUME NoAckBehind(q, i + 1)  PROVE NoAckBehind(p, i)
  <2>1. \A j \in i + 1 .. n - 1 : j \in 1 .. n - 1 /\ j + 1 \in i + 1 + 1 .. n
    OBVIOUS
  <2> QED
    BY <1>6, <2>1 DEF NoAckBehind, Read
<1> QED
  BY <1>3, <1>4, <1>5, <1>6

\* The compositor reads the first request.
LEMMA ReadFits ==
  ASSUME NEW q, NEW p, NEW n \in Nat \ {0}, NEW r, NEW a, NEW rr, NEW aa,
         Read(q, p, n, r, a, rr, aa), NEW next, QueueFits(q, r, a, next), NEW sz
  PROVE  /\ QueueFits(p, rr, aa, next)
         /\ EndFits(q, r, a, next, sz) => EndFits(p, rr, aa, next, sz)
<1>1. ASSUME NEW i \in 1 .. n - 1, IsBufferCommit(p[i])
      PROVE  /\ AckFront(p, i, rr)
             /\ \/ LastAck(p, i, aa, p[i].size)
                \/ NextAck(p, i, p[i].size)
                \/ NoAckBehind(p, i) /\ p[i].size \in next
  <2>1. i \in 1 .. n /\ i + 1 \in 1 .. n
    OBVIOUS
  <2>2. p[i] = q[i + 1]
    BY DEF Read
  <2>3. /\ AckFront(q, i + 1, r)
        /\ \/ LastAck(q, i + 1, a, p[i].size)
           \/ NextAck(q, i + 1, p[i].size)
           \/ NoAckBehind(q, i + 1) /\ p[i].size \in next
    BY <1>1, <2>1, <2>2 DEF QueueFits, Read
  <2> QED
    BY <2>1, <2>3, ReadPlace
<1>2. QueueFits(p, rr, aa, next)
  BY <1>1 DEF QueueFits, Read
<1>3. ASSUME EndFits(q, r, a, next, sz)  PROVE EndFits(p, rr, aa, next, sz)
  <2>1. Len(q) + 1 = n + 1 /\ Len(p) + 1 = n /\ n \in 1 .. n
    BY DEF Read
  <2>2. AckFront(q, n + 1, r) /\ (LastAck(q, n + 1, a, sz) \/ sz \in next)
    BY <1>3, <2>1 DEF EndFits
  <2> QED
    BY <2>1, <2>2, ReadPlace DEF EndFits
<1> QED
  BY <1>2, <1>3
-----------------------------------------------------------------------------
\* What steps do to the requests.

\* The places of two queues, one behind the other.
LEMMA Joined ==
  ASSUME NEW q \in Seq(Request), NEW p \in Seq(Request)
  PROVE  /\ Len(q) \in Nat /\ Len(p) \in Nat
         /\ DOMAIN q = 1 .. Len(q) /\ DOMAIN p = 1 .. Len(p)
         /\ q \o p \in Seq(Request)
         /\ Len(q \o p) = Len(q) + Len(p) /\ DOMAIN (q \o p) = 1 .. Len(q) + Len(p)
         /\ \A i \in 1 .. Len(q) : (q \o p)[i] = q[i]
         /\ \A i \in Len(q) + 1 .. Len(q) + Len(p) :
              i - Len(q) \in 1 .. Len(p) /\ (q \o p)[i] = p[i - Len(q)]
<1>1. /\ Len(q) \in Nat /\ DOMAIN q = 1 .. Len(q)
      /\ Len(p) \in Nat /\ DOMAIN p = 1 .. Len(p)
      /\ q \o p \in Seq(Request) /\ Len(q \o p) = Len(q) + Len(p)
      /\ DOMAIN (q \o p) = 1 .. Len(q) + Len(p)
      /\ \A i \in 1 .. Len(q) + Len(p) :
           (q \o p)[i] = IF i <= Len(q) THEN q[i] ELSE p[i - Len(q)]
  BY ConcatProperties, LenProperties
<1>2. \A i \in 1 .. Len(q) : i \in 1 .. Len(q) + Len(p) /\ i <= Len(q)
  BY <1>1
<1>3. \A i \in Len(q) + 1 .. Len(q) + Len(p) :
        i \in 1 .. Len(q) + Len(p) /\ ~(i <= Len(q)) /\ i - Len(q) \in 1 .. Len(p)
  BY <1>1
<1> QED
  BY <1>1, <1>2, <1>3

\* What is flushed follows what had been sent before.
LEMMA FlushSent ==
  ASSUME SocketTypeOK, connected, NEW reqs \in Seq(Request), Flush(reqs)
  PROVE  Sent \in Seq(Request) /\ Sent' = Sent \o reqs
<1>1. Sent \in Seq(Request) /\ Sent \o reqs \in Seq(Request)
  BY Joined DEF SocketTypeOK, Sent
<1>2. wire' = Sent \o reqs /\ outbuf' = <<>>
  BY DEF Flush, Sent
<1>3. (Sent \o reqs) \o <<>> = Sent \o reqs
  BY <1>1, ConcatEmptySeq
<1> QED
  BY <1>1, <1>2, <1>3 DEF Sent

\* So does what is buffered.
LEMMA BufferedSent ==
  ASSUME SocketTypeOK, NEW m \in Request, outbuf' = Append(outbuf, m), wire' = wire
  PROVE  Sent \in Seq(Request) /\ Sent' = Sent \o <<m>>
<1>1. wire \in Seq(Request) /\ outbuf \in Seq(Request) /\ <<m>> \in Seq(Request)
  BY DEF SocketTypeOK
<1>2. outbuf' = outbuf \o <<m>>
  BY <1>1, AppendIsConcat
<1>3. wire \o (outbuf \o <<m>>) = (wire \o outbuf) \o <<m>>
  BY <1>1, ConcatAssociative
<1> QED
  BY <1>1, <1>2, <1>3, Joined DEF Sent

\* A request that joins the others.
LEMMA OneLonger ==
  ASSUME NEW q \in Seq(Request), NEW m \in Request
  PROVE  Len(q) \in Nat /\ Longer(q, q \o <<m>>, Len(q), m)
<1>1. <<m>> \in Seq(Request) /\ Len(<<m>>) = 1 /\ <<m>>[1] = m
  OBVIOUS
<1>2. /\ Len(q) \in Nat /\ Len(q \o <<m>>) = Len(q) + 1
      /\ \A i \in 1 .. Len(q) : (q \o <<m>>)[i] = q[i]
      /\ \A i \in Len(q) + 1 .. Len(q) + 1 : (q \o <<m>>)[i] = <<m>>[i - Len(q)]
  BY <1>1, Joined
<1>3. Len(q) + 1 \in Len(q) + 1 .. Len(q) + 1 /\ Len(q) + 1 - Len(q) = 1
  BY <1>2
<1> QED
  BY <1>1, <1>2, <1>3 DEF Longer

\* The compositor's reading takes the first request away.
LEMMA ReadSent ==
  ASSUME SocketTypeOK, NEW kind, Receive(kind)
  PROVE  /\ Len(Sent) \in Nat \ {0} /\ Len(Sent') = Len(Sent) - 1
         /\ Sent[1] = Head(wire)
         /\ \A i \in 1 .. Len(Sent) - 1 : Sent'[i] = Sent[i + 1]
<1>1. /\ wire \in Seq(Request) /\ outbuf \in Seq(Request) /\ wire # <<>>
      /\ wire' = Tail(wire) /\ outbuf' = outbuf
  BY DEF SocketTypeOK, Receive
<1> PICK n \in Nat \ {0} : n = Len(wire)
  BY <1>1, LenProperties, EmptySeq
<1>2. /\ wire' \in Seq(Request) /\ Len(wire') = n - 1 /\ Head(wire) = wire[1]
      /\ \A i \in 1 .. n - 1 : wire'[i] = wire[i + 1]
  BY <1>1, HeadTailProperties
<1> PICK l \in Nat : l = Len(Sent)
  BY <1>1, Joined DEF Sent
<1>3. /\ l = n + Len(outbuf) /\ Len(outbuf) \in Nat
      /\ \A i \in 1 .. n : Sent[i] = wire[i]
      /\ \A i \in n + 1 .. l : Sent[i] = outbuf[i - n]
  BY <1>1, Joined DEF Sent
<1>4. /\ Len(Sent') = n - 1 + Len(outbuf)
      /\ \A i \in 1 .. n - 1 : Sent'[i] = wire'[i]
      /\ \A i \in n - 1 + 1 .. n - 1 + Len(outbuf) : Sent'[i] = outbuf[i - (n - 1)]
  BY <1>1, <1>2, Joined DEF Sent
<1>5. ASSUME NEW i \in 1 .. l - 1  PROVE Sent'[i] = Sent[i + 1]
  <2>1. CASE i \in 1 .. n - 1
    <3>1. i + 1 \in 1 .. n
      BY <2>1
    <3> QED
      BY <1>2, <1>3, <1>4, <2>1, <3>1
  <2>2. CASE i \in n .. l - 1
    <3> PICK j \in n + 1 .. l : j = i + 1
      BY <2>2
    <3>1. i \in n - 1 + 1 .. n - 1 + Len(outbuf) /\ j - n = i - (n - 1)
      BY <1>3, <2>2
    <3>2. Sent[j] = outbuf[i - (n - 1)]
      BY <1>3, <3>1
    <3>3. Sent'[i] = outbuf[i - (n - 1)]
      BY <1>4, <3>1
    <3> QED
      BY <3>2, <3>3
  <2> QED
    BY <2>1, <2>2
<1>6. l # 0 /\ 1 \in 1 .. n /\ n - 1 + Len(outbuf) = l - 1
  BY <1>3
<1> QED
  BY <1>2, <1>3, <1>4, <1>5, <1>6
-----------------------------------------------------------------------------
\* What steps do to the configurations on their way.

\* The client takes the first event.
LEMMA TailHalf ==
  ASSUME NEW ev \in Seq(Event), ev # <<>>, NEW off, off \subseteq Size \cup {None},
         Alternate(ev, off)
  PROVE  /\ Alternate(Tail(ev), off)
         /\ ~Configures(Head(ev)) => Half(Tail(ev), off, 0) = Half(ev, off, 0)
         /\ Head(ev).type = "toplevel" =>
              Half(ev, off, 0) = {} /\ Half(Tail(ev), off, 0) = {Head(ev).size}
         /\ Head(ev).type = "configure" =>
              Half(ev, off, 0) = {Head(ev).size} /\ Half(Tail(ev), off, 0) = {}
<1> PICK n \in Nat \ {0} : n = Len(ev)
  BY LenProperties, EmptySeq
<1> PICK tail : tail = Tail(ev)
  OBVIOUS
<1> PICK e \in Event : e = Head(ev)
  BY HeadTailProperties
<1>1. /\ Len(tail) = n - 1 /\ ev[1] = e
      /\ \A i \in 1 .. n - 1 : tail[i] = ev[i + 1]
  BY HeadTailProperties
<1>2. ASSUME NEW i \in 0 .. n - 1  PROVE Half(tail, off, i) = Half(ev, off, i + 1)
  <2>1. /\ \A j \in i + 1 .. n - 1 : /\ j \in 1 .. n - 1 /\ j + 1 \in i + 1 + 1 .. n
                                     /\ \A k \in i + 1 + 1 .. j + 1 - 1 :
                                          k - 1 \in i + 1 .. j - 1 /\ k - 1 \in 1 .. n - 1
                                          /\ k - 1 + 1 = k
        /\ \A j \in i + 1 + 1 .. n : /\ j - 1 \in i + 1 .. n - 1 /\ j - 1 \in 1 .. n - 1
                                     /\ j - 1 + 1 = j
                                     /\ \A k \in i + 1 .. j - 1 - 1 :
                                          k + 1 \in i + 1 + 1 .. j - 1 /\ k \in 1 .. n - 1
    OBVIOUS
  <2>2. ASSUME NEW sz, NEW j \in i + 1 .. n - 1,
               tail[j].type = "configure", tail[j].size = sz,
               \A k \in i + 1 .. j - 1 : ~Configures(tail[k])
        PROVE  \E b \in i + 1 + 1 .. n : /\ ev[b].type = "configure" /\ ev[b].size = sz
                                         /\ \A k \in i + 1 + 1 .. b - 1 : ~Configures(ev[k])
    <3>1. /\ ev[j + 1] = tail[j]
          /\ \A k \in i + 1 + 1 .. j + 1 - 1 : ev[k] = tail[k - 1] /\ k - 1 \in i + 1 .. j - 1
      BY <1>1, <2>1
    <3> QED
      BY <2>1, <2>2, <3>1
  <2>3. ASSUME NEW sz, NEW j \in i + 1 + 1 .. n,
               ev[j].type = "configure", ev[j].size = sz,
               \A k \in i + 1 + 1 .. j - 1 : ~Configures(ev[k])
        PROVE  \E b \in i + 1 .. n - 1 : /\ tail[b].type = "configure" /\ tail[b].size = sz
                                         /\ \A k \in i + 1 .. b - 1 : ~Configures(tail[k])
    <3>1. /\ tail[j - 1] = ev[j]
          /\ \A k \in i + 1 .. j - 1 - 1 : tail[k] = ev[k + 1] /\ k + 1 \in i + 1 + 1 .. j - 1
      BY <1>1, <2>1
    <3> QED
      BY <2>1, <2>3, <3>1
  <2>4. (\A k \in i + 1 .. n - 1 : ~Configures(tail[k]))
        <=> (\A k \in i + 1 + 1 .. n : ~Configures(ev[k]))
    BY <1>1, <2>1
  <2>5. ASSUME NEW sz \in Size \cup {None}
        PROVE  sz \in Half(tail, off, i) <=> sz \in Half(ev, off, i + 1)
    <3>1. sz \in Half(tail, off, i) <=>
            \/ \E j \in i + 1 .. n - 1 : /\ tail[j].type = "configure" /\ tail[j].size = sz
                                         /\ \A k \in i + 1 .. j - 1 : ~Configures(tail[k])
            \/ (\A k \in i + 1 .. n - 1 : ~Configures(tail[k])) /\ sz \in off
      BY <1>1 DEF Half
    <3>2. sz \in Half(ev, off, i + 1) <=>
            \/ \E j \in i + 1 + 1 .. n : /\ ev[j].type = "configure" /\ ev[j].size = sz
                                         /\ \A k \in i + 1 + 1 .. j - 1 : ~Configures(ev[k])
            \/ (\A k \in i + 1 + 1 .. n : ~Configures(ev[k])) /\ sz \in off
      BY DEF Half
    <3>3. (\E j \in i + 1 .. n - 1 : /\ tail[j].type = "configure" /\ tail[j].size = sz
                                     /\ \A k \in i + 1 .. j - 1 : ~Configures(tail[k]))
          => \E j \in i + 1 + 1 .. n : /\ ev[j].type = "configure" /\ ev[j].size = sz
                                       /\ \A k \in i + 1 + 1 .. j - 1 : ~Configures(ev[k])
      BY <2>2
    <3>4. (\E j \in i + 1 + 1 .. n : /\ ev[j].type = "configure" /\ ev[j].size = sz
                                     /\ \A k \in i + 1 + 1 .. j - 1 : ~Configures(ev[k]))
          => \E j \in i + 1 .. n - 1 : /\ tail[j].type = "configure" /\ tail[j].size = sz
                                       /\ \A k \in i + 1 .. j - 1 : ~Configures(tail[k])
      BY <2>3
    <3> QED
      BY <2>4, <3>1, <3>2, <3>3, <3>4
  <2> QED
    BY <2>5 DEF Half
<1>3. Alternate(tail, off)
  <2> SUFFICES ASSUME NEW i \in 1 .. n - 1
               PROVE  /\ tail[i].type = "toplevel" => Half(tail, off, i) = {tail[i].size}
                      /\ tail[i].type = "configure" => Half(tail, off, i) = {}
    BY <1>1 DEF Alternate
  <2>1. i \in 0 .. n - 1 /\ i + 1 \in 1 .. n
    OBVIOUS
  <2> QED
    BY <1>1, <1>2, <2>1 DEF Alternate
<1>4. Half(tail, off, 0) = Half(ev, off, 1)
  <2>1. 0 \in 0 .. n - 1 /\ 0 + 1 = 1
    OBVIOUS
  <2> QED
    BY <1>2, <2>1
<1>5. /\ 1 \in 1 .. n /\ 0 + 1 = 1
      /\ \A j \in 1 .. n : j = 1 \/ j \in 1 + 1 .. n
      /\ \A j \in 1 + 1 .. n : j \in 1 .. n /\ \A k \in 1 .. j - 1 : k = 1 \/ k \in 1 + 1 .. j - 1
      /\ \A j \in 1 .. n : \A k \in 1 + 1 .. j - 1 : k \in 1 .. j - 1
      /\ \A j \in 1 + 1 .. n : 1 \in 1 .. j - 1
      /\ 1 .. 1 - 1 = {}
  OBVIOUS
<1>6. ~Configures(e) => Half(ev, off, 0) = Half(ev, off, 1)
  <2> SUFFICES ASSUME ~Configures(e), NEW sz \in Size \cup {None}
               PROVE  sz \in Half(ev, off, 0) <=> sz \in Half(ev, off, 1)
    BY DEF Half
  <2>1. ~Configures(ev[1]) /\ ev[1].type # "configure"
    BY <1>1 DEF Configures
  <2>2. (\E j \in 1 .. n : /\ ev[j].type = "configure" /\ ev[j].size = sz
                           /\ \A k \in 1 .. j - 1 : ~Configures(ev[k]))
        <=> (\E j \in 1 + 1 .. n : /\ ev[j].type = "configure" /\ ev[j].size = sz
                                   /\ \A k \in 1 + 1 .. j - 1 : ~Configures(ev[k]))
    BY <1>5, <2>1
  <2>3. (\A k \in 1 .. n : ~Configures(ev[k])) <=> (\A k \in 1 + 1 .. n : ~Configures(ev[k]))
    BY <1>5, <2>1
  <2>4. sz \in Half(ev, off, 0) <=>
          \/ \E j \in 1 .. n : /\ ev[j].type = "configure" /\ ev[j].size = sz
                               /\ \A k \in 1 .. j - 1 : ~Configures(ev[k])
          \/ (\A k \in 1 .. n : ~Configures(ev[k])) /\ sz \in off
    BY <1>5 DEF Half
  <2>5. sz \in Half(ev, off, 1) <=>
          \/ \E j \in 1 + 1 .. n : /\ ev[j].type = "configure" /\ ev[j].size = sz
                                   /\ \A k \in 1 + 1 .. j - 1 : ~Configures(ev[k])
          \/ (\A k \in 1 + 1 .. n : ~Configures(ev[k])) /\ sz \in off
    BY DEF Half
  <2> QED
    BY <2>2, <2>3, <2>4, <2>5
<1>7. e.type = "toplevel" => Half(ev, off, 0) = {} /\ Half(ev, off, 1) = {e.size}
  <2>1. e.type = "toplevel" => Half(ev, off, 0) = {}
    BY <1>1, <1>5 DEF Half, Configures
  <2>2. e.type = "toplevel" => Half(ev, off, 1) = {e.size}
    BY <1>1, <1>5 DEF Alternate
  <2> QED
    BY <2>1, <2>2
<1>8. e.type = "configure" => Half(ev, off, 0) = {e.size} /\ Half(ev, off, 1) = {}
  <2>1. ASSUME e.type = "configure"  PROVE Half(ev, off, 0) = {e.size}
    <3>1. e.size \in Size \cup {None}
      BY <2>1, EventFields
    <3> QED
      BY <1>1, <1>5, <2>1, <3>1 DEF Half, Configures
  <2>2. e.type = "configure" => Half(ev, off, 1) = {}
    BY <1>1, <1>5 DEF Alternate
  <2> QED
    BY <2>1, <2>2
<1> QED
  BY <1>3, <1>4, <1>6, <1>7, <1>8

\* The compositor sends an event: a toplevel's configure, the surface's that goes with
\* it, or another.
LEMMA AppendHalf ==
  ASSUME NEW ev \in Seq(Event), NEW e \in Event, NEW off, NEW off2, Alternate(ev, off),
         \/ ~Configures(e) /\ off2 = off /\ off \subseteq Size \cup {None}
         \/ e.type = "toplevel" /\ off = {} /\ off2 = {e.size}
         \/ e.type = "configure" /\ off = {e.size} /\ off2 = {}
  PROVE  /\ Alternate(Append(ev, e), off2)
         /\ Half(Append(ev, e), off2, 0) = Half(ev, off, 0)
<1> PICK n \in Nat : n = Len(ev)
  BY LenProperties
<1> PICK more : more = Append(ev, e)
  OBVIOUS
<1>1. /\ Len(more) = n + 1 /\ more[n + 1] = e
      /\ \A i \in 1 .. n : more[i] = ev[i]
  BY AppendProperties
<1>2. /\ off2 \subseteq Size \cup {None}
      /\ e.type = "configure" => e.size \in Size \cup {None} /\ off = {e.size} /\ off2 = {}
      /\ e.type = "toplevel" => off = {} /\ off2 = {e.size}
      /\ ~Configures(e) => off2 = off
  BY EventFields DEF Configures
<1>3. ASSUME NEW i \in 0 .. n  PROVE Half(more, off2, i) = Half(ev, off, i)
  <2>1. /\ \A j \in i + 1 .. n + 1 : j \in i + 1 .. n \/ j = n + 1
        /\ \A j \in i + 1 .. n : /\ j \in i + 1 .. n + 1 /\ j \in 1 .. n
                                 /\ \A k \in i + 1 .. j - 1 : k \in 1 .. n
        /\ n + 1 \in i + 1 .. n + 1 /\ n + 1 - 1 = n
    OBVIOUS
  <2>2. /\ \A j \in i + 1 .. n : more[j] = ev[j]
        /\ \A j \in i + 1 .. n : \A k \in i + 1 .. j - 1 : more[k] = ev[k]
    BY <1>1, <2>1
  <2>3. ASSUME NEW sz
        PROVE  (\E j \in i + 1 .. n : /\ more[j].type = "configure" /\ more[j].size = sz
                                      /\ \A k \in i + 1 .. j - 1 : ~Configures(more[k]))
               <=> (\E j \in i + 1 .. n : /\ ev[j].type = "configure" /\ ev[j].size = sz
                                          /\ \A k \in i + 1 .. j - 1 : ~Configures(ev[k]))
    BY <2>2
  <2>4. (\A k \in i + 1 .. n : ~Configures(more[k])) <=> (\A k \in i + 1 .. n : ~Configures(ev[k]))
    BY <2>2
  <2>5. ASSUME NEW sz
        PROVE  (\E j \in i + 1 .. n + 1 : /\ more[j].type = "configure" /\ more[j].size = sz
                                          /\ \A k \in i + 1 .. j - 1 : ~Configures(more[k]))
               <=> \/ \E j \in i + 1 .. n : /\ more[j].type = "configure" /\ more[j].size = sz
                                            /\ \A k \in i + 1 .. j - 1 : ~Configures(more[k])
                   \/ /\ e.type = "configure" /\ e.size = sz
                      /\ \A k \in i + 1 .. n : ~Configures(more[k])
    BY <1>1, <2>1
  <2>6. (\A k \in i + 1 .. n + 1 : ~Configures(more[k]))
        <=> (\A k \in i + 1 .. n : ~Configures(more[k])) /\ ~Configures(e)
    BY <1>1, <2>1
  <2>7. ASSUME NEW sz \in Size \cup {None}
        PROVE  sz \in Half(more, off2, i) <=> sz \in Half(ev, off, i)
    <3>1. sz \in Half(more, off2, i) <=>
            \/ \E j \in i + 1 .. n + 1 : /\ more[j].type = "configure" /\ more[j].size = sz
                                         /\ \A k \in i + 1 .. j - 1 : ~Configures(more[k])
            \/ (\A k \in i + 1 .. n + 1 : ~Configures(more[k])) /\ sz \in off2
      BY <1>1 DEF Half
    <3>2. sz \in Half(ev, off, i) <=>
            \/ \E j \in i + 1 .. n : /\ ev[j].type = "configure" /\ ev[j].size = sz
                                     /\ \A k \in i + 1 .. j - 1 : ~Configures(ev[k])
            \/ (\A k \in i + 1 .. n : ~Configures(ev[k])) /\ sz \in off
      BY DEF Half
    <3>3. (~Configures(e) /\ sz \in off2) \/ (e.type = "configure" /\ e.size = sz) <=> sz \in off
      BY <1>2 DEF Configures
    <3> QED
      BY <2>3, <2>4, <2>5, <2>6, <3>1, <3>2, <3>3
  <2> QED
    BY <2>7 DEF Half
<1>4. Half(more, off2, n + 1) = off2
  <2>1. n + 1 + 1 .. n + 1 = {}
    OBVIOUS
  <2> QED
    BY <1>1, <1>2, <2>1 DEF Half
<1>5. Alternate(more, off2)
  <2>1. ASSUME NEW i \in 1 .. n
        PROVE  /\ more[i].type = "toplevel" => Half(more, off2, i) = {more[i].size}
               /\ more[i].type = "configure" => Half(more, off2, i) = {}
    <3>1. i \in 0 .. n
      OBVIOUS
    <3> QED
      BY <1>1, <1>3, <3>1 DEF Alternate
  <2>2. \A i \in 1 .. n + 1 : i \in 1 .. n \/ i = n + 1
    OBVIOUS
  <2> QED
    BY <1>1, <1>2, <1>4, <2>1, <2>2 DEF Alternate
<1>6. 0 \in 0 .. n
  OBVIOUS
<1> QED
  BY <1>3, <1>5, <1>6

\* Every step but the two configure handlers leaves alone what the client has heard of,
\* and how far it has run ahead.
LEMMA AheadStep ==
  ASSUME TypeOK, connected, Alternate(events, offer), [Next]_vars, connected',
         ~OnToplevelConfigure, ~OnSurfaceConfigure
  PROVE  /\ Alternate(events, offer)' /\ Ahead' = Ahead
         /\ UNCHANGED <<size, pendingConfigure>>
<1>1. events \in Seq(Event) /\ offer \subseteq Size \cup {None} /\ SocketTypeOK
  BY DEF TypeOK, SocketTypeOK, CompositorTypeOK
<1>2. ASSUME UNCHANGED <<events, offer, size, pendingConfigure>>
      PROVE  /\ Alternate(events, offer)' /\ Ahead' = Ahead
             /\ UNCHANGED <<size, pendingConfigure>>
  BY <1>2 DEF Ahead
<1>3. ASSUME NEW kind \in {"release", "done", "ping", "close"}, Take(kind),
             UNCHANGED <<offer, size, pendingConfigure>>
      PROVE  Alternate(events, offer)' /\ Ahead' = Ahead
  <2>1. events # <<>> /\ events' = Tail(events) /\ ~Configures(Head(events))
    BY <1>1, <1>3, TakeFewer DEF Take, Configures
  <2> QED
    BY <1>1, <1>3, <2>1, TailHalf DEF Ahead
<1>4. ASSUME NEW e \in Event, events' = Append(events, e), ~Configures(e), offer' = offer
      PROVE  Alternate(events, offer)' /\ Ahead' = Ahead
  BY <1>1, <1>4, AppendHalf DEF Ahead
<1>5. CASE OnBufferRelease \/ OnFrameDone \/ OnPing \/ OnClose
  <2>1. UNCHANGED <<offer, size, pendingConfigure>>
    BY <1>5 DEF OnBufferRelease, OnFrameDone, OnPing, OnClose, lib, compositor
  <2> QED
    BY <1>3, <1>5, <2>1 DEF OnBufferRelease, OnFrameDone, OnPing, OnClose
<1>6. CASE Run \/ RunFails \/ Dispatch \/ OnSignal \/ OnConnectionLost \/ LoopExit
  BY <1>2, <1>6 DEF Run, RunFails, Dispatch, OnSignal, OnConnectionLost, RequestExit, LoopExit,
     lib, socket, compositor
<1>7. CASE Frame
  BY <1>2, <1>7 DEF Frame, FrameResize, RecreateAborts, FrameSkip, FrameBegin, Present,
     PresentFails, PresentSkipped, lib, socket, compositor
<1>8. CASE Destroy \/ Hangup
  BY <1>8 DEF Destroy, Hangup
<1>9. CASE \/ \E s \in Slot : GpuDone(s)
           \/ ServerReceives
  BY <1>2, <1>9 DEF GpuDone, ServerReceives, ReceiveCommit, ReceiveAck, ReceivePong,
     ReceiveRecreate, Receive, Client, lib, socket, compositor
<1>10. CASE \E sz \in Size \cup {None} : SendToplevelConfigure(sz) \/ SendSurfaceConfigure(sz)
  <2> PICK sz \in Size \cup {None} : SendToplevelConfigure(sz) \/ SendSurfaceConfigure(sz)
    BY <1>10
  <2>1. UNCHANGED <<size, pendingConfigure>>
    BY DEF SendToplevelConfigure, SendSurfaceConfigure, Client, lib
  <2>2. CASE SendToplevelConfigure(sz)
    <3> PICK e \in Event : e = [type |-> "toplevel", size |-> sz]
      BY DEF Event
    <3>1. events' = Append(events, e) /\ offer = {} /\ offer' = {sz}
          /\ e.type = "toplevel" /\ e.size = sz
      BY <2>2 DEF SendToplevelConfigure, Send
    <3> QED
      BY <1>1, <2>1, <3>1, AppendHalf DEF Ahead
  <2>3. CASE SendSurfaceConfigure(sz)
    <3> PICK e \in Event : e = [type |-> "configure", size |-> sz]
      BY DEF Event
    <3>1. events' = Append(events, e) /\ offer = {sz} /\ offer' = {}
          /\ e.type = "configure" /\ e.size = sz
      BY <2>3 DEF SendSurfaceConfigure, Send
    <3> QED
      BY <1>1, <2>1, <3>1, AppendHalf DEF Ahead
  <2> QED
    BY <2>2, <2>3
<1>11. CASE \/ \E w \in WlBuffer : SendRelease(w)
            \/ \E cb \in Callback : SendDone(cb)
            \/ SendPing \/ SendClose
  <2>1. UNCHANGED <<offer, size, pendingConfigure>>
    BY <1>11 DEF SendRelease, SendDone, SendPing, SendClose, Client, lib, compositor
  <2>2. \E e \in Event : events' = Append(events, e) /\ ~Configures(e)
    <3>1. ASSUME NEW w \in WlBuffer, SendRelease(w)
          PROVE  \E e \in Event : events' = Append(events, e) /\ ~Configures(e)
      BY <3>1 DEF SendRelease, Send, Event, Configures
    <3>2. ASSUME NEW cb \in Callback, SendDone(cb)
          PROVE  \E e \in Event : events' = Append(events, e) /\ ~Configures(e)
      BY <3>2 DEF SendDone, Send, Event, Configures
    <3>3. SendPing \/ SendClose =>
            \E e \in Event : events' = Append(events, e) /\ ~Configures(e)
      BY DEF SendPing, SendClose, Send, Event, Configures
    <3> QED
      BY <1>11, <3>1, <3>2, <3>3
  <2> QED
    BY <1>4, <2>1, <2>2
<1>12. CASE UNCHANGED vars
  BY <1>2, <1>12 DEF vars, lib, socket, compositor
<1> QED
  BY <1>5, <1>6, <1>7, <1>8, <1>9, <1>10, <1>11, <1>12 DEF Next, ClientStep, Handler
-----------------------------------------------------------------------------
\* The steps.

\* The requests still fit when they grow by one that is no ack and, if it commits a
\* buffer, has the window's size.
LEMMA SentFits ==
  ASSUME NEW q \in Seq(Request), NEW m \in Request, m.type # "ack", NEW next,
         QueueFits(q, role, agreed, next), ~pendingConfigure => EndFits(q, role, agreed, next, size),
         IsBufferCommit(m) => ~pendingConfigure /\ m.size = size
  PROVE  /\ QueueFits(q \o <<m>>, role, agreed, next)
         /\ ~pendingConfigure => EndFits(q \o <<m>>, role, agreed, next, size)
<1> PICK n \in Nat : n = Len(q) /\ Longer(q, q \o <<m>>, n, m)
  BY OneLonger
<1> QED
  BY LongerFits

\* What Present, Run and Dispatch flush keeps the sizes right.
LEMMA FlushStep ==
  ASSUME TypeOK, DrawsSized, connected, Run \/ Dispatch \/ Present, NEW next,
         QueueFits(Sent, role, agreed, next),
         ~pendingConfigure => EndFits(Sent, role, agreed, next, size)
  PROVE  /\ QueueFits(Sent', role', agreed', next)
         /\ ~pendingConfigure => EndFits(Sent', role', agreed', next, size)
<1>1. SocketTypeOK /\ role' = role /\ agreed' = agreed
  BY DEF TypeOK, Run, Dispatch, Present, compositor
<1>2. CASE Flush(<<>>)
  <2>1. Sent \in Seq(Request) /\ Sent' = Sent \o <<>>
    BY <1>1, <1>2, FlushSent, EmptySeq
  <2>2. Sent' = Sent
    BY <2>1, ConcatEmptySeq
  <2> QED
    BY <1>1, <2>2
<1>3. ASSUME NEW m \in Request, Flush(<<m>>), m.type # "ack",
             IsBufferCommit(m) => ~pendingConfigure /\ m.size = size
      PROVE  /\ QueueFits(Sent', role', agreed', next)
             /\ ~pendingConfigure => EndFits(Sent', role', agreed', next, size)
  <2>1. <<m>> \in Seq(Request)
    OBVIOUS
  <2>2. Sent \in Seq(Request) /\ Sent' = Sent \o <<m>>
    BY <1>1, <1>3, <2>1, FlushSent
  <2> QED
    BY <1>1, <1>3, <2>2, SentFits
<1>4. ASSUME NEW cb \in Callback, Flush(<<Commit(None, None, cb)>>)
      PROVE  /\ QueueFits(Sent', role', agreed', next)
             /\ ~pendingConfigure => EndFits(Sent', role', agreed', next, size)
  <2> PICK m \in Request : m = Commit(None, None, cb)
    BY DEF Request
  <2>1. m.type # "ack" /\ ~IsBufferCommit(m) /\ Flush(<<m>>)
    BY <1>4 DEF IsBufferCommit
  <2> QED
    BY <1>3, <2>1
<1>5. CASE Present
  <2>1. /\ gen \in Gen /\ curBuf \in Slot /\ ~pendingConfigure
        /\ buffers[curBuf].size = size /\ size \in Size
    BY <1>5 DEF Present, TypeOK, LibTypeOK, DrawsSized
  <2> PICK cb \in Callback : Flush(<<Commit(<<gen, curBuf>>, buffers[curBuf].size, cb)>>)
    BY <1>5 DEF Present
  <2>2. Commit(<<gen, curBuf>>, buffers[curBuf].size, cb) \in Request
    BY <2>1 DEF Request, WlBuffer
  <2> PICK m \in Request : m = Commit(<<gen, curBuf>>, buffers[curBuf].size, cb)
    BY <2>2
  <2>3. m.type # "ack" /\ m.size = size /\ Flush(<<m>>)
    BY <2>1
  <2> QED
    BY <1>3, <2>1, <2>3
<1>6. Dispatch => Flush(<<>>)
  BY DEF Dispatch
<1>7. Run => Flush(<<>>) \/ \E cb \in Callback : Flush(<<Commit(None, None, cb)>>)
  BY DEF Run
<1> QED
  BY <1>2, <1>4, <1>5, <1>6, <1>7

\* What is buffered: a pong, the destruction of buffers.
LEMMA BufferedStep ==
  ASSUME TypeOK, OnPing \/ FrameResize, NEW next,
         QueueFits(Sent, role, agreed, next),
         ~pendingConfigure => EndFits(Sent, role, agreed, next, size)
  PROVE  /\ QueueFits(Sent', role', agreed', next)
         /\ ~pendingConfigure => EndFits(Sent', role', agreed', next, size)
<1>1. UNCHANGED <<wire, role, agreed>> /\ SocketTypeOK /\ gen \in Gen
  BY DEF OnPing, FrameResize, compositor, TypeOK, LibTypeOK
<1>2. \E m \in Request : m.type \in {"pong", "recreate"} /\ outbuf' = Append(outbuf, m)
  <2>1. Pong \in Request /\ Recreate(gen) \in Request
    BY <1>1 DEF Request
  <2> QED
    BY <2>1 DEF OnPing, FrameResize
<1> PICK m \in Request : m.type \in {"pong", "recreate"} /\ outbuf' = Append(outbuf, m)
  BY <1>2
<1>3. Sent \in Seq(Request) /\ Sent' = Sent \o <<m>>
  BY <1>1, BufferedSent
<1>4. m.type # "ack" /\ ~IsBufferCommit(m)
  BY DEF IsBufferCommit
<1> QED
  BY <1>1, <1>3, <1>4, SentFits

\* What the compositor reads.
LEMMA ReadStep ==
  ASSUME TypeOK, ServerReceives, NEW next,
         QueueFits(Sent, role, agreed, next),
         ~pendingConfigure => EndFits(Sent, role, agreed, next, size)
  PROVE  /\ QueueFits(Sent', role', agreed', next)
         /\ ~pendingConfigure => EndFits(Sent', role', agreed', next, size)
<1>1. SocketTypeOK
  BY DEF TypeOK
<1>2. PICK kind \in {"commit", "ack", "pong", "recreate"} : Receive(kind)
  BY DEF ServerReceives, ReceiveCommit, ReceiveAck, ReceivePong, ReceiveRecreate
<1>3. IF Head(wire).type = "ack" THEN role' = "acked" /\ agreed' = Head(wire).size
                                 ELSE agreed' = agreed /\ (role = "acked" => role' = "acked")
  BY DEF ServerReceives, ReceiveCommit, ReceiveAck, ReceivePong, ReceiveRecreate, Receive
<1> PICK n \in Nat \ {0} : n = Len(Sent)
  BY <1>1, <1>2, ReadSent
<1>4. /\ Len(Sent') = n - 1 /\ Sent[1] = Head(wire)
      /\ \A i \in 1 .. n - 1 : Sent'[i] = Sent[i + 1]
  BY <1>1, <1>2, ReadSent
<1>5. Read(Sent, Sent', n, role, agreed, role', agreed')
  BY <1>3, <1>4 DEF Read
<1> QED
  BY <1>5, ReadFits

\* Every step but the two configure handlers keeps the requests in order.
LEMMA RequestsStep ==
  ASSUME TypeOK, DrawsSized, connected, [Next]_vars, connected',
         ~OnToplevelConfigure, ~OnSurfaceConfigure, NEW next,
         QueueFits(Sent, role, agreed, next),
         ~pendingConfigure => EndFits(Sent, role, agreed, next, size)
  PROVE  /\ QueueFits(Sent', role', agreed', next)
         /\ ~pendingConfigure => EndFits(Sent', role', agreed', next, size)
<1>1. ASSUME UNCHANGED <<wire, outbuf, role, agreed>>
      PROVE  /\ QueueFits(Sent', role', agreed', next)
             /\ ~pendingConfigure => EndFits(Sent', role', agreed', next, size)
  BY <1>1 DEF Sent
<1>2. CASE Run \/ Dispatch \/ Present
  BY <1>2, FlushStep
<1>3. CASE OnPing \/ FrameResize
  BY <1>3, BufferedStep
<1>4. CASE ServerReceives
  BY <1>4, ReadStep
<1>5. CASE OnBufferRelease \/ OnFrameDone \/ OnClose
  BY <1>1, <1>5 DEF OnBufferRelease, OnFrameDone, OnClose, compositor
<1>6. CASE RunFails \/ OnSignal \/ OnConnectionLost \/ LoopExit
  BY <1>1, <1>6 DEF RunFails, OnSignal, OnConnectionLost, RequestExit, LoopExit,
     socket, compositor
<1>7. CASE RecreateAborts \/ FrameSkip \/ FrameBegin \/ PresentFails \/ PresentSkipped
  BY <1>1, <1>7 DEF RecreateAborts, FrameSkip, FrameBegin, PresentFails, PresentSkipped,
     socket, compositor
<1>8. CASE Destroy \/ Hangup
  BY <1>8 DEF Destroy, Hangup
<1>9. CASE SendPing \/ SendClose \/ (\E s \in Slot : GpuDone(s)) \/ UNCHANGED vars
  BY <1>1, <1>9 DEF SendPing, SendClose, GpuDone, Send, vars, socket, compositor
<1>10. CASE \/ \E w \in WlBuffer : SendRelease(w)
            \/ \E cb \in Callback : SendDone(cb)
            \/ \E sz \in Size \cup {None} : SendSurfaceConfigure(sz)
  BY <1>1, <1>10 DEF SendRelease, SendDone, SendSurfaceConfigure, Send
<1>11. CASE \E sz \in Size \cup {None} : SendToplevelConfigure(sz)
  <2>1. UNCHANGED <<wire, outbuf, agreed>> /\ (role = "acked" <=> role' = "acked")
    BY <1>11 DEF SendToplevelConfigure, Send
  <2>2. Sent' = Sent
    BY <2>1 DEF Sent
  <2> QED
    BY <2>1, <2>2 DEF QueueFits, EndFits, AckFront
<1> QED
  BY <1>2, <1>3, <1>4, <1>5, <1>6, <1>7, <1>8, <1>9, <1>10, <1>11
  DEF Next, ClientStep, Handler, Frame

\* on_toplevel_configure: the client runs ahead by this one configuration.
LEMMA ToplevelStep ==
  ASSUME TypeOK, SizesFit, OnToplevelConfigure, connected
  PROVE  SizesFit'
<1>1. /\ events \in Seq(Event) /\ SocketTypeOK /\ offer \subseteq Size \cup {None}
      /\ Take("toplevel")
  BY DEF TypeOK, SocketTypeOK, CompositorTypeOK, OnToplevelConfigure
<1>2. events # <<>> /\ events' = Tail(events) /\ Head(events).type = "toplevel"
  BY <1>1, TakeFewer DEF Take
<1> PICK sz \in Size \cup {None} : sz = Head(events).size
  BY <1>1, TakeEvent, EventFields
<1>3. Alternate(events, offer)' /\ Ahead = {} /\ Ahead' = {sz}
  <2>1. Alternate(events, offer)
    BY DEF SizesFit
  <2>2. /\ Alternate(Tail(events), offer)
        /\ Half(events, offer, 0) = {} /\ Half(Tail(events), offer, 0) = {sz}
    BY <1>1, <1>2, <2>1, TailHalf
  <2>3. offer' = offer
    BY DEF OnToplevelConfigure, compositor
  <2> QED
    BY <1>2, <2>2, <2>3 DEF Ahead
<1>4. UNCHANGED <<wire, outbuf, role, agreed, pendingConfigure>>
  BY DEF OnToplevelConfigure, compositor
<1>5. size' = size \/ (sz = size' /\ sz # None)
  BY DEF OnToplevelConfigure
<1>6. sz \in {None, size'}
  BY DEF OnToplevelConfigure
<1>7. Sent' = Sent
  BY <1>4 DEF Sent
<1>8. QueueFits(Sent, role, agreed, {sz})
  BY <1>3 DEF SizesFit, QueueFits
<1>9. ~pendingConfigure => EndFits(Sent, role, agreed, {sz}, size')
  <2>1. ~pendingConfigure => EndFits(Sent, role, agreed, {}, size)
    BY <1>3 DEF SizesFit
  <2> QED
    BY <1>5, <2>1 DEF EndFits
<1> QED
  BY <1>3, <1>4, <1>6, <1>7, <1>8, <1>9 DEF SizesFit

\* on_surface_configure: the ack follows whatever was committed ahead of it.
LEMMA SurfaceStep ==
  ASSUME TypeOK, SizesFit, OnSurfaceConfigure, connected
  PROVE  SizesFit'
<1>1. /\ events \in Seq(Event) /\ SocketTypeOK /\ offer \subseteq Size \cup {None}
      /\ Take("configure")
  BY DEF TypeOK, SocketTypeOK, CompositorTypeOK, OnSurfaceConfigure
<1>2. events # <<>> /\ events' = Tail(events) /\ Head(events).type = "configure"
  BY <1>1, TakeFewer DEF Take
<1> PICK sz \in Size \cup {None} : sz = Head(events).size
  BY <1>1, TakeEvent, EventFields
<1>3. Alternate(events, offer)' /\ Ahead = {sz} /\ Ahead' = {}
  <2>1. Alternate(events, offer)
    BY DEF SizesFit
  <2>2. /\ Alternate(Tail(events), offer)
        /\ Half(events, offer, 0) = {sz} /\ Half(Tail(events), offer, 0) = {}
    BY <1>1, <1>2, <2>1, TailHalf
  <2>3. offer' = offer
    BY DEF OnSurfaceConfigure, compositor
  <2> QED
    BY <1>2, <2>2, <2>3 DEF Ahead
<1>4. UNCHANGED <<wire, role, agreed, size>> /\ outbuf' = Append(outbuf, Ack(sz))
  BY DEF OnSurfaceConfigure, compositor
<1>5. sz \in {None, size} /\ QueueFits(Sent, role, agreed, {sz})
  BY <1>3 DEF SizesFit
<1> PICK m \in Request : m = Ack(sz)
  BY DEF Request
<1>6. Sent \in Seq(Request) /\ Sent' = Sent \o <<m>>
  BY <1>1, <1>4, BufferedSent
<1> PICK n \in Nat : n = Len(Sent) /\ Longer(Sent, Sent \o <<m>>, n, m)
  BY <1>6, OneLonger
<1>7. m.type = "ack" /\ m.size = sz
  OBVIOUS
<1>8. QueueFits(Sent', role, agreed, {}) /\ EndFits(Sent', role, agreed, {}, size)
  <2> PICK q, p, sz0 : q = Sent /\ p = Sent' /\ sz0 = size
    OBVIOUS
  <2>1. Longer(q, p, n, m) /\ QueueFits(q, role, agreed, {m.size}) /\ m.size \in {None, sz0}
    BY <1>5, <1>6, <1>7
  <2>2. QueueFits(p, role, agreed, {}) /\ EndFits(p, role, agreed, {}, sz0)
    BY <1>7, <2>1, AckFits
  <2> QED
    BY <2>2
<1> QED
  BY <1>3, <1>4, <1>8 DEF SizesFit

\* Sizes over every step.
LEMMA SizesFitStep ==
  ASSUME TypeOK, AckInv, [Next]_vars
  PROVE  SizesFit'
<1> SUFFICES ASSUME connected'  PROVE SizesFit'
  BY DEF SizesFit
<1>1. connected
  BY DEF Next, ClientStep, Handler, Frame, Run, RunFails, Dispatch, OnSignal, OnConnectionLost,
     RequestExit, LoopExit, Destroy, OnBufferRelease, OnFrameDone, OnToplevelConfigure,
     OnSurfaceConfigure, OnPing, OnClose, Take, FrameResize, RecreateAborts, FrameSkip,
     FrameBegin, Present, PresentFails, PresentSkipped, GpuDone, ServerReceives, ReceiveCommit,
     ReceiveAck, ReceivePong, ReceiveRecreate, Receive, SendToplevelConfigure,
     SendSurfaceConfigure, SendRelease, SendDone, SendPing, SendClose, Send, Hangup,
     vars, socket
<1>2. SizesFit /\ DrawsSized
  BY DEF AckInv
<1>3. CASE OnToplevelConfigure
  BY <1>1, <1>2, <1>3, ToplevelStep
<1>4. CASE OnSurfaceConfigure
  BY <1>1, <1>2, <1>4, SurfaceStep
<1>5. CASE ~OnToplevelConfigure /\ ~OnSurfaceConfigure
  <2> PICK next : next = Ahead
    OBVIOUS
  <2>1. /\ QueueFits(Sent, role, agreed, next)
        /\ ~pendingConfigure => EndFits(Sent, role, agreed, next, size)
        /\ Alternate(events, offer) /\ next \subseteq {None, size}
    BY <1>1, <1>2 DEF SizesFit
  <2>2. /\ Alternate(events, offer)' /\ Ahead' = next
        /\ UNCHANGED <<size, pendingConfigure>>
    BY <1>1, <1>5, <2>1, AheadStep
  <2>3. /\ QueueFits(Sent', role', agreed', next)
        /\ ~pendingConfigure => EndFits(Sent', role', agreed', next, size)
    BY <1>1, <1>2, <1>5, <2>1, RequestsStep
  <2> QED
    BY <2>1, <2>2, <2>3 DEF SizesFit
<1> QED
  BY <1>3, <1>4, <1>5

\* The callback a "done" names exists when the handler is called.
LEMMA DoneKnown ==
  ASSUME TypeOK, PlaceInv, Take("done")
  PROVE  Head(events).cb \in callbacks
<1>1. /\ Head(events) \in Event /\ Head(events).type = "done" /\ pc # "destroyed"
  BY TakeEvent DEF TypeOK, Take
<1> PICK cb \in Callback : cb = Head(events).cb
  BY <1>1, EventFields
<1>2. 1 \in DOMAIN events /\ events[1] = Head(events)
  <2>1. events \in Seq(Event) /\ nread \in 0 .. Len(events) /\ nread > 0
    BY DEF TypeOK, SocketTypeOK, Take
  <2> QED
    BY <2>1, HeadTailProperties, LenProperties, EmptySeq
<1>3. At(events, "done", "cb", cb) # {}
  BY <1>1, <1>2 DEF At
<1> QED
  BY <1>1, <1>3 DEF CallbackOut, Somewhere, PlaceInv, Known

\* Frames, callbacks and the sizes of buffers over every step.
LEMMA SizedStep ==
  ASSUME TypeOK, PlaceInv, DrawsSized, [Next]_vars
  PROVE  DrawsSized'
<1> USE DEF DrawsSized
<1>t. buffers \in [Slot -> BufferState] /\ (pc = "user" => curBuf \in Slot)
  BY DEF TypeOK, LibTypeOK
<1>1. CASE OnBufferRelease
  <2>1. Head(events).buf \in WlBuffer
    BY <1>1, TakeEvent, EventFields DEF OnBufferRelease, TypeOK
  <2>2. \A s \in Slot : buffers'[s].size = buffers[s].size
    BY <1>1, <1>t, <2>1 DEF OnBufferRelease, WlBuffer, BufferState
  <2> QED
    BY <1>1, <2>2 DEF OnBufferRelease, lib
<1>2. CASE OnFrameDone
  <2>1. Head(events) \in Event /\ Head(events).type = "done" /\ Head(events).cb \in Callback
    BY <1>2, TakeEvent, EventFields DEF OnFrameDone, TypeOK
  <2>2. Head(events).cb \in callbacks
    BY <1>2, DoneKnown DEF OnFrameDone
  <2>3. ~pendingConfigure
    BY <2>2
  <2> QED
    BY <1>2, <2>3 DEF OnFrameDone
<1>3. CASE OnToplevelConfigure
  <2>1. pc # "user" /\ UNCHANGED <<pc, callbacks, pendingConfigure, buffers>>
    BY <1>3 DEF OnToplevelConfigure, Take
  <2>2. ~pendingResize' => ~pendingResize /\ size' = size
    BY <1>3 DEF OnToplevelConfigure
  <2> QED
    BY <2>1, <2>2
<1>3s. CASE OnSurfaceConfigure
  <2>1. pc # "user" /\ pc' # "user" /\ ~pendingConfigure'
        /\ UNCHANGED <<buffers, size, pendingResize>>
    BY <1>3s DEF OnSurfaceConfigure, Take
  <2> QED
    BY <2>1
<1>4. CASE OnPing \/ OnClose \/ OnSignal \/ OnConnectionLost
  BY <1>4 DEF OnPing, OnClose, OnSignal, OnConnectionLost, RequestExit, lib
<1>5. CASE Run
  BY <1>5 DEF Run
<1>6. CASE RunFails \/ LoopExit \/ Dispatch
  BY <1>6 DEF RunFails, LoopExit, Dispatch, lib
<1>6d. CASE Destroy
  <2>1. \A s \in Slot : buffers'[s].size = buffers[s].size
    BY <1>6d, <1>t DEF Destroy, BufferState
  <2> QED
    BY <1>6d, <2>1 DEF Destroy
<1>7. CASE FrameResize
  BY <1>7 DEF FrameResize, FreshBuffer
<1>8. CASE RecreateAborts \/ FrameSkip \/ PresentSkipped
  BY <1>8 DEF RecreateAborts, FrameSkip, PresentSkipped, lib
<1>9. CASE FrameBegin
  <2>1. \A s \in Slot : buffers'[s].size = buffers[s].size
    BY <1>9, <1>t DEF FrameBegin, BufferState
  <2> QED
    BY <1>9, <2>1 DEF FrameBegin
<1>10. CASE Present
  <2>1. \A s \in Slot : buffers'[s].size = buffers[s].size
    BY <1>10, <1>t DEF Present, BufferState
  <2> QED
    BY <1>10, <2>1 DEF Present
<1>11. CASE PresentFails
  <2> PICK c : buffers' = [buffers EXCEPT ![curBuf].cmd = c]
    BY <1>11 DEF PresentFails
  <2>1. \A s \in Slot : buffers'[s].size = buffers[s].size
    BY <1>t DEF BufferState
  <2> QED
    BY <1>11, <2>1 DEF PresentFails
<1>12. CASE \E s \in Slot : GpuDone(s)
  <2>1. \A s \in Slot : buffers'[s].size = buffers[s].size
    BY <1>12, <1>t DEF GpuDone, BufferState
  <2>2. UNCHANGED <<pc, callbacks, size, pendingConfigure, pendingResize>>
    BY <1>12 DEF GpuDone, lib
  <2> QED
    BY <2>1, <2>2
<1>13. CASE UNCHANGED Client
  BY <1>13 DEF Client, lib
<1>14. \/ ServerReceives \/ SendPing \/ SendClose \/ Hangup \/ UNCHANGED vars
       \/ \E sz \in Size \cup {None} : SendToplevelConfigure(sz) \/ SendSurfaceConfigure(sz)
       \/ \E w \in WlBuffer : SendRelease(w)
       \/ \E cb \in Callback : SendDone(cb)
       => UNCHANGED Client
  BY DEF ServerReceives, ReceiveCommit, ReceiveAck, ReceivePong, ReceiveRecreate, SendPing,
     SendClose, Hangup, SendToplevelConfigure, SendSurfaceConfigure, SendRelease, SendDone,
     vars, Client
<1> QED
  BY <1>1, <1>2, <1>3, <1>3s, <1>4, <1>5, <1>6, <1>6d, <1>7, <1>8, <1>9, <1>10, <1>11, <1>12,
     <1>13, <1>14
  DEF Next, ClientStep, Handler, Frame

\* The whole invariant over every step.
LEMMA AckInvStep == TypeOK /\ PlaceInv /\ AckInv /\ [Next]_vars => AckInv'
BY SizesFitStep, SizedStep DEF AckInv

\* Nothing has been sent that names a buffer, and nothing offered.
LEMMA AckInvInit == Init => AckInv
<1> SUFFICES ASSUME Init  PROVE AckInv
  OBVIOUS
<1>1. DrawsSized
  BY DEF Init, DrawsSized, FreshBuffer
<1>2. Len(<<>>) = 0 /\ 1 .. 0 = {} /\ 0 + 1 .. 0 = {}
  OBVIOUS
<1>3. events = <<>> /\ offer = {} /\ pendingConfigure
  BY DEF Init
<1>4. Half(<<>>, {}, 0) = {}
  BY <1>2 DEF Half
<1>5. Alternate(events, offer) /\ Ahead = {}
  BY <1>2, <1>3, <1>4 DEF Alternate, Ahead
<1>6. QueueFits(Sent, role, agreed, {})
  <2> PICK m \in Request : m = Commit(None, None, None)
    BY DEF Request
  <2>1. /\ <<m>> \in Seq(Request) /\ Len(<<m>>) = 1 /\ <<m>>[1] = m
        /\ <<>> \in Seq(Request)
    BY EmptySeq
  <2>2. Sent = <<m>>
    <3>1. <<>> \o <<m>> = <<m>>
      BY <2>1, ConcatEmptySeq
    <3> QED
      BY <3>1 DEF Init, Sent
  <2>3. ~IsBufferCommit(m)
    BY DEF IsBufferCommit
  <2>4. \A i \in 1 .. 1 : i = 1
    OBVIOUS
  <2> QED
    BY <2>1, <2>2, <2>3, <2>4 DEF QueueFits
<1> QED
  BY <1>1, <1>3, <1>5, <1>6 DEF AckInv, SizesFit

\* The invariant holds in every reachable state.
LEMMA AckInvHolds == Spec => []AckInv
BY AckInvInit, AckInvStep, TypeCorrect, PlaceInvHolds, PTL DEF Spec

\* A configuration that the client has heard of in a toplevel's configure is the next one
\* to be acked when no ack is on its way.
LEMMA AheadNext ==
  ASSUME TypeOK, NEW sz \in Ahead, \A i \in DOMAIN Sent : Sent[i].type # "ack"
  PROVE  NextToAck(sz)
<1>1. events \in Seq(Event) /\ DOMAIN events = 1 .. Len(events) /\ Len(events) \in Nat
  BY LenProperties DEF TypeOK, SocketTypeOK
<1>2. {i \in DOMAIN Sent : Sent[i].type = "ack"} = {}
  OBVIOUS
<1>3. CASE (\A k \in 0 + 1 .. Len(events) : ~Configures(events[k])) /\ sz \in offer
  <2>1. {i \in DOMAIN events : Configures(events[i])} = {}
    BY <1>1, <1>3
  <2> QED
    BY <1>2, <1>3, <2>1 DEF NextToAck, Sent
<1>4. CASE \E j \in 0 + 1 .. Len(events) :
             /\ events[j].type = "configure" /\ events[j].size = sz
             /\ \A k \in 0 + 1 .. j - 1 : ~Configures(events[k])
  <2> PICK j \in 1 .. Len(events) :
             /\ events[j].type = "configure" /\ events[j].size = sz
             /\ \A k \in 1 .. j - 1 : ~Configures(events[k])
    BY <1>4
  <2>1. j \in {i \in DOMAIN events : Configures(events[i])}
    BY <1>1 DEF Configures
  <2>2. ASSUME NEW i \in {i \in DOMAIN events : Configures(events[i])}  PROVE j <= i
    <3>1. i \in 1 .. Len(events) /\ i \notin 1 .. j - 1
      BY <1>1, <2>2
    <3> QED
      BY <1>1, <3>1
  <2> QED
    BY <1>2, <2>1, <2>2 DEF NextToAck, Sent
<1> QED
  BY <1>3, <1>4 DEF Ahead, Half

\* xdg_surface: whatever resizes are under way, a buffer reaches the compositor only
\* behind an ack, and has the size of the configure that was acked last before it or of
\* the configuration that follows that one, never of an older one or of one farther ahead.
THEOREM CommitsFitAck == Spec => []CommitKeepsUp
<1>1. TypeOK /\ AckInv => CommitKeepsUp
  <2> SUFFICES ASSUME TypeOK, AckInv, connected, wire # <<>>, IsBufferCommit(Head(wire))
               PROVE  /\ role = "acked"
                      /\ agreed \in {None, Head(wire).size} \/ NextToAck(Head(wire).size)
    BY DEF CommitKeepsUp
  <2>1. wire \in Seq(Request) /\ outbuf \in Seq(Request)
    BY DEF TypeOK, SocketTypeOK
  <2>2. Head(wire) = wire[1] /\ Len(wire) \in Nat \ {0}
    BY <2>1, HeadTailProperties, LenProperties, EmptySeq
  <2> PICK l \in Nat : l = Len(Sent)
    BY <2>1, Joined DEF Sent
  <2>3. /\ Sent[1] = Head(wire) /\ 1 \in 1 .. l /\ DOMAIN Sent = 1 .. l
    <3>1. l = Len(wire) + Len(outbuf) /\ Len(outbuf) \in Nat /\ DOMAIN Sent = 1 .. l
      BY <2>1, Joined DEF Sent
    <3>2. 1 \in 1 .. Len(wire) /\ 1 \in 1 .. l
      BY <2>2, <3>1
    <3> QED
      BY <2>1, <2>2, <3>1, <3>2, Joined DEF Sent
  <2> DEFINE sz == Head(wire).size
  <2>4. /\ AckFront(Sent, 1, role)
        /\ \/ LastAck(Sent, 1, agreed, sz)
           \/ NextAck(Sent, 1, sz)
           \/ NoAckBehind(Sent, 1) /\ sz \in Ahead
    BY <2>3 DEF AckInv, SizesFit, QueueFits
  <2> HIDE DEF sz
  <2>5. 1 .. 1 - 1 = {} /\ \A i \in 1 .. l : i = 1 \/ i \in 1 + 1 .. l
    OBVIOUS
  <2>6. Sent[1].type # "ack"
    BY <2>3 DEF IsBufferCommit
  <2>7. role = "acked" /\ (LastAck(Sent, 1, agreed, sz) => agreed \in {None, sz})
    BY <2>4, <2>5 DEF AckFront, LastAck
  <2>8. NoAckBehind(Sent, 1) /\ sz \in Ahead => NextToAck(sz)
    <3>1. NoAckBehind(Sent, 1) => \A i \in DOMAIN Sent : Sent[i].type # "ack"
      BY <2>3, <2>5, <2>6 DEF NoAckBehind
    <3> QED
      BY <3>1, AheadNext
  <2>9. ASSUME NextAck(Sent, 1, sz)  PROVE NextToAck(sz)
    <3> PICK j \in 1 + 1 .. l : /\ Sent[j].type = "ack" /\ Sent[j].size = sz
                                /\ \A k \in 1 + 1 .. j - 1 : Sent[k].type # "ack"
      BY <2>9 DEF NextAck
    <3>1. j \in {i \in DOMAIN Sent : Sent[i].type = "ack"}
      BY <2>3
    <3>2. ASSUME NEW i \in {i \in DOMAIN Sent : Sent[i].type = "ack"}  PROVE j <= i
      <4>1. i \in 1 .. l /\ i # 1 /\ i \notin 1 + 1 .. j - 1
        BY <2>3, <2>6, <3>2
      <4> QED
        BY <4>1
    <3> QED
      BY <3>1, <3>2 DEF NextToAck, Sent
  <2> QED
    BY <2>4, <2>7, <2>8, <2>9 DEF sz
<1> QED
  BY <1>1, AckInvHolds, TypeCorrect, PTL

-----------------------------------------------------------------------------
\* The chain of frames.  A frame that finds every buffer busy is skipped and asks for
\* no callback, so the loop goes on only if another callback is still to be answered.
\* It is: when the compositor has answered every callback, every buffer but the one it
\* shows has come back, and its release is in front of the last "done".

\* w is named by one of the first i messages of e.
Given(e, i, kind, f, w) == \E j \in 1 .. i : e[j].type = kind /\ e[j][f] = w

NoneBusy == \A s \in Slot : ~buffers[s].busy

\* Every commit of a buffer asks for a callback, and the buffers that are destroyed are
\* of an earlier generation.
Right(m) ==
  /\ IsBufferCommit(m) => m.cb # None
  /\ m.type = "recreate" => m.gen # gen

RequestsRight == \A m \in Range(wire) \cup Range(outbuf) : Right(m)

\* A busy buffer is one the compositor has, or has given back.
BusyLent == connected => \A s \in Slot : buffers[s].busy => BufferOut(<<gen, s>>)

LentInv == RequestsRight /\ BusyLent

\* Nothing has been drawn before the window is configured and the loop is entered.
Fresh ==
  /\ pendingConfigure \/ ~initialized =>
       callbacks = {} /\ pc \notin {"frame", "user"} /\ NoneBusy
  /\ pc = "loop" => initialized

\* Outside of a frame a callback is outstanding.
Chained == pc \in {"idle", "loop"} /\ initialized /\ ~pendingConfigure => callbacks # {}

\* A frame that ends the last chain has a free buffer, if there are two.
OneBusy ==
  pc = "frame" /\ callbacks = {} =>
    \E x \in Slot : \A s \in Slot \ {x} : ~buffers[s].busy

\* When the client gets to event i, another callback is left or, by the releases in front
\* of it, at most one buffer is busy.
Carried(i) ==
  \/ \E c \in callbacks : ~Given(events, i, "done", "cb", c)
  \/ \E x \in Slot : \A s \in Slot \ {x} :
       buffers[s].busy => Given(events, i, "release", "buf", <<gen, s>>)

DonesLast ==
  pc # "destroyed" => \A i \in DOMAIN events : events[i].type = "done" => Carried(i)

ChainInv == Fresh /\ Chained /\ OneBusy /\ DonesLast
-----------------------------------------------------------------------------
\* What is in a queue.

\* A queue that loses its head loses nothing else.
LEMMA TailKeeps ==
  ASSUME NEW M, NEW q \in Seq(M), q # <<>>, NEW kind, NEW f, NEW w,
         ~(Head(q).type = kind /\ Head(q)[f] = w), At(q, kind, f, w) # {}
  PROVE  At(Tail(q), kind, f, w) # {}
<1>1. /\ Len(q) \in Nat \ {0} /\ DOMAIN q = 1 .. Len(q) /\ Head(q) = q[1]
      /\ Tail(q) \in Seq(M) /\ DOMAIN Tail(q) = 1 .. Len(q) - 1
      /\ \A i \in 1 .. Len(q) - 1 : Tail(q)[i] = q[i + 1]
  BY HeadTailProperties, LenProperties, EmptySeq
<1> PICK i \in 1 .. Len(q) : q[i].type = kind /\ q[i][f] = w
  BY <1>1 DEF At
<1>2. i # 1
  BY <1>1
<1> PICK j \in 1 .. Len(q) - 1 : j + 1 = i
  BY <1>1, <1>2
<1>3. Tail(q)[j] = q[i]
  BY <1>1
<1>4. j \in At(Tail(q), kind, f, w)
  BY <1>1, <1>3 DEF At
<1> QED
  BY <1>4

\* The message that a queue grows by is in it.
LEMMA AppendNames ==
  ASSUME NEW M, NEW q \in Seq(M), NEW m \in M, NEW kind, NEW f, NEW w
  PROVE  /\ m.type = kind /\ m[f] = w => At(Append(q, m), kind, f, w) # {}
         /\ At(q, kind, f, w) # {} => At(Append(q, m), kind, f, w) # {}
<1>1. /\ Len(q) \in Nat /\ DOMAIN q = 1 .. Len(q)
      /\ DOMAIN Append(q, m) = 1 .. Len(q) + 1
      /\ \A i \in 1 .. Len(q) : Append(q, m)[i] = q[i]
      /\ Append(q, m)[Len(q) + 1] = m
  BY AppendProperties, LenProperties
<1>2. m.type = kind /\ m[f] = w => Len(q) + 1 \in At(Append(q, m), kind, f, w)
  BY <1>1 DEF At
<1>3. At(q, kind, f, w) \subseteq At(Append(q, m), kind, f, w)
  BY <1>1 DEF At
<1> QED
  BY <1>2, <1>3

\* The messages of a queue that grows or shrinks.
LEMMA Messages ==
  ASSUME NEW q \in Seq(Request)
  PROVE  /\ q # <<>> => Range(Tail(q)) \subseteq Range(q) /\ Head(q) \in Range(q)
         /\ \A m \in Request : Range(Append(q, m)) = Range(q) \cup {m}
         /\ \A p \in Seq(Request) : Range(q \o p) = Range(q) \cup Range(p)
         /\ Range(<<>>) = {}
<1>1. ASSUME q # <<>>  PROVE Range(Tail(q)) \subseteq Range(q) /\ Head(q) \in Range(q)
  <2>1. /\ Len(q) \in Nat \ {0} /\ DOMAIN q = 1 .. Len(q) /\ Head(q) = q[1]
        /\ DOMAIN Tail(q) = 1 .. Len(q) - 1
        /\ \A i \in 1 .. Len(q) - 1 : Tail(q)[i] = q[i + 1]
    BY <1>1, HeadTailProperties, LenProperties, EmptySeq
  <2>2. 1 \in DOMAIN q /\ \A i \in 1 .. Len(q) - 1 : i + 1 \in DOMAIN q
    BY <2>1
  <2> QED
    BY <2>1, <2>2 DEF Range
<1>2. ASSUME NEW m \in Request  PROVE Range(Append(q, m)) = Range(q) \cup {m}
  <2>1. /\ Len(q) \in Nat /\ DOMAIN q = 1 .. Len(q)
        /\ DOMAIN Append(q, m) = 1 .. Len(q) + 1
        /\ \A i \in 1 .. Len(q) : Append(q, m)[i] = q[i]
        /\ Append(q, m)[Len(q) + 1] = m
    BY AppendProperties, LenProperties
  <2>2. \A i \in 1 .. Len(q) + 1 : i \in 1 .. Len(q) \/ i = Len(q) + 1
    BY <2>1
  <2>3. Len(q) + 1 \in 1 .. Len(q) + 1 /\ \A i \in 1 .. Len(q) : i \in 1 .. Len(q) + 1
    BY <2>1
  <2> QED
    BY <2>1, <2>2, <2>3 DEF Range
<1>3. ASSUME NEW p \in Seq(Request)  PROVE Range(q \o p) = Range(q) \cup Range(p)
  <2>1. /\ Len(q) \in Nat /\ Len(p) \in Nat
        /\ DOMAIN q = 1 .. Len(q) /\ DOMAIN p = 1 .. Len(p)
        /\ DOMAIN (q \o p) = 1 .. Len(q) + Len(p)
        /\ \A i \in 1 .. Len(q) : (q \o p)[i] = q[i]
        /\ \A i \in Len(q) + 1 .. Len(q) + Len(p) :
             i - Len(q) \in 1 .. Len(p) /\ (q \o p)[i] = p[i - Len(q)]
    BY Joined
  <2>2. \A i \in 1 .. Len(q) + Len(p) : i \in 1 .. Len(q) \/ i \in Len(q) + 1 .. Len(q) + Len(p)
    BY <2>1
  <2>3. Range(q \o p) \subseteq Range(q) \cup Range(p)
    BY <2>1, <2>2 DEF Range
  <2>4. \A i \in 1 .. Len(q) : i \in 1 .. Len(q) + Len(p)
    BY <2>1
  <2>5. ASSUME NEW j \in 1 .. Len(p)  PROVE p[j] \in Range(q \o p)
    <3> PICK i \in Len(q) + 1 .. Len(q) + Len(p) : i - Len(q) = j
      <4>1. Len(q) + j \in Len(q) + 1 .. Len(q) + Len(p) /\ Len(q) + j - Len(q) = j
        BY <2>1
      <4> QED
        BY <4>1
    <3>1. i \in 1 .. Len(q) + Len(p) /\ (q \o p)[i] = p[j]
      BY <2>1
    <3> QED
      BY <2>1, <3>1 DEF Range
  <2> QED
    BY <2>1, <2>3, <2>4, <2>5 DEF Range
<1>4. Range(<<>>) = {}
  BY DEF Range
<1> QED
  BY <1>1, <1>2, <1>3, <1>4
-----------------------------------------------------------------------------
\* What is lent.

\* A flush sends what is right.
LEMMA FlushRight ==
  ASSUME SocketTypeOK, RequestsRight, NEW reqs \in Seq(Request), Flush(reqs), gen' = gen,
         \A m \in Range(reqs) : Right(m)
  PROVE  RequestsRight'
<1>1. wire \in Seq(Request) /\ outbuf \in Seq(Request) /\ wire \o outbuf \in Seq(Request)
  BY ConcatProperties DEF SocketTypeOK
<1>2. /\ Range(wire \o outbuf) = Range(wire) \cup Range(outbuf)
      /\ Range(wire \o outbuf \o reqs) = Range(wire \o outbuf) \cup Range(reqs)
      /\ Range(<<>>) = {}
  BY <1>1, Messages
<1>3. Range(wire') \cup Range(outbuf') \subseteq Range(wire) \cup Range(outbuf) \cup Range(reqs)
  BY <1>2 DEF Flush
<1>4. \A m : Right(m) => Right(m)'
  BY DEF Right
<1> QED
  BY <1>3, <1>4 DEF RequestsRight

\* So does what is buffered.
LEMMA BufferedRight ==
  ASSUME SocketTypeOK, RequestsRight, NEW m \in Request, outbuf' = Append(outbuf, m),
         wire' = wire, gen' = gen, m.type \notin {"commit", "recreate"}
  PROVE  RequestsRight'
<1>1. Range(outbuf') = Range(outbuf) \cup {m}
  BY Messages DEF SocketTypeOK
<1>2. \A r : Right(r) => Right(r)'
  BY DEF Right
<1>3. Right(m)'
  BY DEF Right, IsBufferCommit
<1> QED
  BY <1>1, <1>2, <1>3 DEF RequestsRight

\* Every commit carries a callback and no request destroys the client's buffers.
LEMMA RequestsRightStep ==
  ASSUME TypeOK, RequestsRight, [Next]_vars
  PROVE  RequestsRight'
<1>1. SocketTypeOK /\ wire \in Seq(Request) /\ outbuf \in Seq(Request) /\ gen \in Gen
  BY DEF TypeOK, SocketTypeOK, LibTypeOK
<1>2. \A m : gen' = gen /\ Right(m) => Right(m)'
  BY DEF Right
<1>3. ASSUME gen' = gen, Range(wire') \subseteq Range(wire), outbuf' = outbuf
      PROVE  RequestsRight'
  BY <1>2, <1>3 DEF RequestsRight
<1>4. ASSUME Flush(<<>>), gen' = gen  PROVE RequestsRight'
  <2>1. <<>> \in Seq(Request) /\ Range(<<>>) = {}
    BY <1>1, Messages, EmptySeq
  <2> QED
    BY <1>1, <1>4, <2>1, FlushRight
<1>5. ASSUME NEW v \in WlBuffer \cup {None}, NEW sz \in Size \cup {None}, NEW cb \in Callback,
             Flush(<<Commit(v, sz, cb)>>), gen' = gen
      PROVE  RequestsRight'
  <2>1. Commit(v, sz, cb) \in Request /\ cb # None
    BY ConstantsAssumption DEF Request
  <2> PICK m \in Request : m = Commit(v, sz, cb)
    BY <2>1
  <2>2. <<m>> \in Seq(Request) /\ Range(<<m>>) = {m} /\ Flush(<<m>>)
    BY <1>5 DEF Range
  <2>3. Right(m)
    BY <2>1 DEF Right
  <2> QED
    BY <1>1, <1>5, <2>2, <2>3, FlushRight
<1>6. CASE Run
  <2>1. gen' = gen
    BY <1>6 DEF Run
  <2>2. Flush(<<>>) \/ \E cb \in Callback : Flush(<<Commit(None, None, cb)>>)
    BY <1>6 DEF Run
  <2> QED
    BY <1>4, <1>5, <2>1, <2>2
<1>d. CASE Dispatch
  BY <1>4, <1>d DEF Dispatch, lib
<1>7. CASE Present
  <2>1. curBuf \in Slot /\ <<gen, curBuf>> \in WlBuffer /\ buffers[curBuf].size \in Size
    BY <1>7 DEF Present, TypeOK, LibTypeOK, WlBuffer, BufferState
  <2>2. /\ gen' = gen
        /\ \E cb \in Callback : Flush(<<Commit(<<gen, curBuf>>, buffers[curBuf].size, cb)>>)
    BY <1>7 DEF Present
  <2> QED
    BY <1>5, <2>1, <2>2
<1>8. CASE OnSurfaceConfigure
  <2> PICK sz \in Size \cup {None} : sz = Head(events).size
    BY <1>1, <1>8, TakeEvent, EventFields DEF OnSurfaceConfigure
  <2> PICK m \in Request : m = Ack(sz)
    BY DEF Request
  <2>1. outbuf' = Append(outbuf, m) /\ wire' = wire /\ gen' = gen
        /\ m.type \notin {"commit", "recreate"}
    BY <1>8 DEF OnSurfaceConfigure
  <2> QED
    BY <1>1, <2>1, BufferedRight
<1>9. CASE OnPing
  <2> PICK m \in Request : m = Pong
    BY DEF Request
  <2>1. outbuf' = Append(outbuf, m) /\ wire' = wire /\ gen' = gen
        /\ m.type \notin {"commit", "recreate"}
    BY <1>9 DEF OnPing, lib
  <2> QED
    BY <1>1, <2>1, BufferedRight
<1>10. CASE FrameResize
  <2> PICK m \in Request : m = Recreate(gen)
    BY <1>1 DEF Request
  <2>1. gen' \notin GensInUse /\ outbuf' = Append(outbuf, m) /\ wire' = wire
    BY <1>10 DEF FrameResize
  <2>2. Range(outbuf') = Range(outbuf) \cup {m}
        /\ Range(wire \o outbuf) = Range(wire) \cup Range(outbuf)
    BY <1>1, <2>1, Messages
  <2>3. /\ gen' # gen
        /\ \A r \in Range(wire) \cup Range(outbuf) : r.type = "recreate" => r.gen # gen'
    BY <2>1, <2>2 DEF GensInUse
  <2>4. \A r \in Range(wire) \cup Range(outbuf) : Right(r)'
    BY <2>3 DEF RequestsRight, Right
  <2>5. Right(m)'
    BY <2>3 DEF Right, IsBufferCommit
  <2> QED
    BY <2>1, <2>2, <2>4, <2>5 DEF RequestsRight
<1>11. CASE ServerReceives
  <2>1. PICK kind : Receive(kind)
    BY <1>11 DEF ServerReceives, ReceiveCommit, ReceiveAck, ReceivePong, ReceiveRecreate
  <2>2. Range(wire') \subseteq Range(wire) /\ outbuf' = outbuf
    BY <1>1, <2>1, Messages DEF Receive
  <2>3. gen' = gen
    BY <1>11 DEF ServerReceives, ReceiveCommit, ReceiveAck, ReceivePong, ReceiveRecreate,
       Client, lib
  <2> QED
    BY <1>3, <2>2, <2>3
<1>12. CASE Hangup
  <2>1. Range(wire') = {} /\ outbuf' = outbuf /\ gen' = gen
    BY <1>1, <1>12, Messages DEF Hangup, Client, lib
  <2> QED
    BY <1>3, <2>1
<1>13. CASE UNCHANGED <<gen, wire, outbuf>>
  BY <1>3, <1>13
<1>14. CASE OnBufferRelease \/ OnFrameDone \/ OnToplevelConfigure \/ OnClose
  BY <1>13, <1>14 DEF OnBufferRelease, OnFrameDone, OnToplevelConfigure, OnClose, lib
<1>15. CASE RunFails \/ OnSignal \/ OnConnectionLost \/ LoopExit \/ Destroy
  BY <1>13, <1>15 DEF RunFails, OnSignal, OnConnectionLost, RequestExit, LoopExit, Destroy,
     lib, socket
<1>16. CASE RecreateAborts \/ FrameSkip \/ FrameBegin \/ PresentFails \/ PresentSkipped
  BY <1>13, <1>16 DEF RecreateAborts, FrameSkip, FrameBegin, PresentFails, PresentSkipped,
     lib, socket
<1>17. CASE \/ \E s \in Slot : GpuDone(s)
            \/ \E sz \in Size \cup {None} : SendToplevelConfigure(sz) \/ SendSurfaceConfigure(sz)
            \/ \E w \in WlBuffer : SendRelease(w)
            \/ \E cb \in Callback : SendDone(cb)
            \/ SendPing \/ SendClose
  BY <1>13, <1>17 DEF GpuDone, SendToplevelConfigure, SendSurfaceConfigure, SendRelease,
     SendDone, SendPing, SendClose, Send, Client, lib, socket
<1>18. CASE UNCHANGED vars
  BY <1>13, <1>18 DEF vars, lib, socket
<1> QED
  BY <1>d, <1>6, <1>7, <1>8, <1>9, <1>10, <1>11, <1>12, <1>14, <1>15, <1>16, <1>17, <1>18
  DEF Next, ClientStep, Handler, Frame

\* Steps after which a busy buffer of the client is still out, because no buffer becomes
\* busy and what is out stays out.
LEMMA StaysLent ==
  ASSUME TypeOK, BusyLent, gen' = gen, connected' => connected,
         \A s \in Slot : buffers'[s].busy => buffers[s].busy,
         \A s \in Slot : buffers'[s].busy /\ BufferOut(<<gen, s>>) =>
           \/ At(wire', "commit", "buf", <<gen, s>>) # {}
           \/ At(events', "release", "buf", <<gen, s>>) # {}
           \/ <<gen, s>> \in held'
  PROVE  BusyLent'
<1> SUFFICES ASSUME connected', NEW s \in Slot, buffers'[s].busy
             PROVE  BufferOut(<<gen, s>>)'
  BY DEF BusyLent
<1>1. BufferOut(<<gen, s>>)
  BY DEF BusyLent
<1> QED
  BY <1>1 DEF BufferOut, Somewhere

\* A buffer that is still busy after a handler was busy, and the event did not name it.
LEMMA HandlerBusy ==
  ASSUME TypeOK, Handler, NEW s \in Slot, buffers'[s].busy
  PROVE  /\ buffers[s].busy
         /\ ~(Head(events).type = "release" /\ Head(events)["buf"] = <<gen, s>>)
<1>1. SocketTypeOK /\ buffers \in [Slot -> BufferState]
  BY DEF TypeOK, LibTypeOK
<1>2. CASE OnBufferRelease
  <2> PICK w \in WlBuffer : w = Head(events).buf
    BY <1>1, <1>2, TakeEvent, EventFields DEF OnBufferRelease
  <2>1. buffers' = IF w[1] = gen THEN [buffers EXCEPT ![w[2]].busy = FALSE] ELSE buffers
    BY <1>2 DEF OnBufferRelease
  <2>2. w \in Gen \X Slot
    BY DEF WlBuffer
  <2>3. w = <<gen, s>> => w[1] = gen /\ w[2] = s
    OBVIOUS
  <2>4. w # <<gen, s>>
    BY <1>1, <2>1, <2>3 DEF BufferState
  <2>5. buffers[s].busy
    BY <1>1, <2>1, <2>2 DEF BufferState
  <2> QED
    BY <2>4, <2>5
<1>3. CASE OnFrameDone \/ OnToplevelConfigure \/ OnSurfaceConfigure \/ OnPing \/ OnClose
  BY <1>3 DEF OnFrameDone, OnToplevelConfigure, OnSurfaceConfigure, OnPing, OnClose, Take
<1> QED
  BY <1>2, <1>3 DEF Handler

\* Busy buffers over what the client handles.
LEMMA HandlerLent ==
  ASSUME TypeOK, BusyLent, Handler
  PROVE  BusyLent'
<1>1. SocketTypeOK
  BY DEF TypeOK
<1> PICK kind \in {"release", "done", "toplevel", "configure", "ping", "close"} : Take(kind)
  BY DEF Handler, OnBufferRelease, OnFrameDone, OnToplevelConfigure, OnSurfaceConfigure,
     OnPing, OnClose
<1>2. /\ Head(events) \in Event /\ Head(events).type = kind
      /\ events \in Seq(Event) /\ events # <<>> /\ events' = Tail(events)
      /\ connected' = connected
  BY <1>1, TakeEvent, TakeFewer DEF Take
<1>3. UNCHANGED <<wire, held, gen>>
  BY DEF Handler, OnBufferRelease, OnFrameDone, OnToplevelConfigure, OnSurfaceConfigure,
     OnPing, OnClose, compositor, lib
<1>5. ASSUME NEW s \in Slot, buffers'[s].busy, BufferOut(<<gen, s>>)
      PROVE  \/ At(wire', "commit", "buf", <<gen, s>>) # {}
             \/ At(events', "release", "buf", <<gen, s>>) # {}
             \/ <<gen, s>> \in held'
  BY <1>2, <1>3, <1>5, HandlerBusy, TailKeeps DEF BufferOut, Somewhere
<1> QED
  BY <1>2, <1>3, <1>5, HandlerBusy, StaysLent

\* Over what the compositor reads.
LEMMA ReadLent ==
  ASSUME TypeOK, RequestsRight, BusyLent, ServerReceives
  PROVE  BusyLent'
<1>1. SocketTypeOK /\ gen \in Gen /\ UNCHANGED <<buffers, gen>>
  BY DEF ServerReceives, ReceiveCommit, ReceiveAck, ReceivePong, ReceiveRecreate, Client, lib,
     TypeOK, LibTypeOK
<1> PICK kind \in {"commit", "ack", "pong", "recreate"} : Receive(kind)
  BY DEF ServerReceives, ReceiveCommit, ReceiveAck, ReceivePong, ReceiveRecreate
<1>2. /\ wire \in Seq(Request) /\ wire # <<>> /\ wire' = Tail(wire) /\ events' = events
      /\ connected' = connected /\ Head(wire).type = kind
  BY <1>1 DEF SocketTypeOK, Receive
<1>3. ASSUME NEW s \in Slot, BufferOut(<<gen, s>>)
      PROVE  \/ At(wire', "commit", "buf", <<gen, s>>) # {}
             \/ At(events', "release", "buf", <<gen, s>>) # {}
             \/ <<gen, s>> \in held'
  <2> PICK w \in WlBuffer : w = <<gen, s>>
    BY <1>1 DEF WlBuffer
  <2>1. w[1] = gen /\ w # None
    BY ConstantsAssumption
  <2>2. At(wire, "commit", "buf", w) # {} \/ At(events, "release", "buf", w) # {} \/ w \in held
    BY <1>3 DEF BufferOut, Somewhere
  <2>3. CASE w \in held
    <3>1. CASE ReceiveRecreate
      <4>1. Head(wire).gen # gen
        <5>1. Head(wire) \in Range(wire) /\ Head(wire).type = "recreate"
          BY <1>2, <3>1, Messages DEF ReceiveRecreate, Receive
        <5> QED
          BY <5>1 DEF RequestsRight, Right
      <4> QED
        BY <2>1, <2>3, <3>1, <4>1 DEF ReceiveRecreate
    <3>2. CASE ~ReceiveRecreate
      BY <2>3, <3>2 DEF ServerReceives, ReceiveCommit, ReceiveAck, ReceivePong
    <3> QED
      BY <3>1, <3>2
  <2>4. CASE At(wire, "commit", "buf", w) # {}
    <3>1. CASE Head(wire).type = "commit" /\ Head(wire)["buf"] = w
      <4>1. ReceiveCommit
        BY <3>1 DEF ServerReceives, ReceiveAck, ReceivePong, ReceiveRecreate, Receive
      <4> QED
        BY <2>1, <3>1, <4>1 DEF ReceiveCommit
    <3>2. CASE ~(Head(wire).type = "commit" /\ Head(wire)["buf"] = w)
      BY <1>2, <2>4, <3>2, TailKeeps
    <3> QED
      BY <3>1, <3>2
  <2> QED
    BY <1>2, <2>2, <2>3, <2>4
<1> QED
  BY <1>1, <1>2, <1>3, StaysLent

\* Over what the compositor sends.
LEMMA SendLent ==
  ASSUME TypeOK, BusyLent,
         \/ \E sz \in Size \cup {None} : SendToplevelConfigure(sz) \/ SendSurfaceConfigure(sz)
         \/ \E w \in WlBuffer : SendRelease(w)
         \/ \E cb \in Callback : SendDone(cb)
         \/ SendPing \/ SendClose
  PROVE  BusyLent'
<1>1. SocketTypeOK /\ UNCHANGED <<buffers, gen, wire, connected>>
  BY DEF SendToplevelConfigure, SendSurfaceConfigure, SendRelease, SendDone, SendPing,
     SendClose, Send, Client, lib, TypeOK
<1> PICK e \in Event :
      /\ Send(e)
      /\ \A w : w \in held => w \in held' \/ (e.type = "release" /\ e["buf"] = w)
  <2>1. CASE \E w \in WlBuffer : SendRelease(w)
    <3> PICK w \in WlBuffer : SendRelease(w)
      BY <2>1
    <3>1. [type |-> "release", buf |-> w] \in Event
      BY DEF Event
    <3> QED
      BY <3>1 DEF SendRelease
  <2>2. CASE \E cb \in Callback : SendDone(cb)
    <3> PICK cb \in Callback : SendDone(cb)
      BY <2>2
    <3>1. [type |-> "done", cb |-> cb] \in Event
      BY DEF Event
    <3> QED
      BY <3>1 DEF SendDone
  <2>3. CASE \E sz \in Size \cup {None} : SendToplevelConfigure(sz) \/ SendSurfaceConfigure(sz)
    <3> PICK sz \in Size \cup {None} : SendToplevelConfigure(sz) \/ SendSurfaceConfigure(sz)
      BY <2>3
    <3>1. /\ [type |-> "toplevel", size |-> sz] \in Event
          /\ [type |-> "configure", size |-> sz] \in Event
      BY DEF Event
    <3> QED
      BY <3>1 DEF SendToplevelConfigure, SendSurfaceConfigure
  <2>4. CASE SendPing \/ SendClose
    <3>1. [type |-> "ping"] \in Event /\ [type |-> "close"] \in Event
      BY DEF Event
    <3> QED
      BY <2>4, <3>1 DEF SendPing, SendClose, compositor
  <2> QED
    BY <2>1, <2>2, <2>3, <2>4
<1>2. events \in Seq(Event) /\ events' = Append(events, e)
  BY <1>1 DEF SocketTypeOK, Send
<1>3. ASSUME NEW s \in Slot, BufferOut(<<gen, s>>)
      PROVE  \/ At(wire', "commit", "buf", <<gen, s>>) # {}
             \/ At(events', "release", "buf", <<gen, s>>) # {}
             \/ <<gen, s>> \in held'
  BY <1>1, <1>2, <1>3, AppendNames DEF BufferOut, Somewhere
<1> QED
  BY <1>1, <1>3, StaysLent

\* A present lends the buffer it makes busy.
LEMMA PresentLent ==
  ASSUME TypeOK, PlaceInv, BusyLent, Present
  PROVE  BusyLent'
<1>1. /\ SocketTypeOK /\ Unflushed /\ buffers \in [Slot -> BufferState]
      /\ curBuf \in Slot /\ gen \in Gen /\ buffers[curBuf].size \in Size
      /\ UNCHANGED <<events, held, gen, connected>>
      /\ buffers' = [buffers EXCEPT ![curBuf].cmd = "pending", ![curBuf].busy = TRUE]
  BY DEF Present, TypeOK, LibTypeOK, BufferState, PlaceInv, Places, compositor
<1> PICK cb \in Callback : Flush(<<Commit(<<gen, curBuf>>, buffers[curBuf].size, cb)>>)
  BY DEF Present
<1>2. Commit(<<gen, curBuf>>, buffers[curBuf].size, cb) \in Request
  BY <1>1 DEF Request, WlBuffer
<1> PICK m \in Request : m = Commit(<<gen, curBuf>>, buffers[curBuf].size, cb)
  BY <1>2
<1>3. Flush(<<m>>) /\ m.type = "commit" /\ m["buf"] = <<gen, curBuf>> /\ <<m>> \in Seq(Request)
  OBVIOUS
<1> SUFFICES ASSUME connected, NEW s \in Slot, buffers'[s].busy
             PROVE  BufferOut(<<gen, s>>)'
  BY <1>1 DEF BusyLent
<1>4. CASE s = curBuf
  <2>1. wire \o outbuf \in Seq(Request) /\ wire' = (wire \o outbuf) \o <<m>>
    BY <1>1, <1>3, ConcatProperties DEF SocketTypeOK, Flush
  <2>2. wire' = Append(wire \o outbuf, m)
    BY <2>1, AppendIsConcat
  <2>3. At(wire', "commit", "buf", <<gen, curBuf>>) # {}
    BY <1>3, <2>1, <2>2, AppendNames
  <2> QED
    BY <1>1, <1>4, <2>3 DEF BufferOut, Somewhere
<1>5. CASE s # curBuf
  <2> PICK w \in WlBuffer : w = <<gen, s>> /\ w = <<gen', s>>
    BY <1>1 DEF WlBuffer
  <2>1. BufferOut(w)
    BY <1>1, <1>5 DEF BusyLent, BufferState
  <2>2. At(<<m>>, "commit", "buf", w) = {}
    BY <1>3, <1>5 DEF At
  <2>3. BufferOut(w)'
    BY <1>1, <1>3, <2>1, <2>2, FlushOut
  <2> QED
    BY <2>3
<1> QED
  BY <1>4, <1>5

\* Steps that work on a buffer and leave its owner alone.
LEMMA SameBusy ==
  ASSUME TypeOK, FrameBegin \/ PresentFails \/ Destroy \/ \E s \in Slot : GpuDone(s)
  PROVE  \A s \in Slot : buffers'[s].busy = buffers[s].busy
<1>1. buffers \in [Slot -> BufferState] /\ (pc = "user" => curBuf \in Slot)
  BY DEF TypeOK, LibTypeOK
<1>2. CASE FrameBegin
  BY <1>1, <1>2 DEF FrameBegin, BufferState
<1>3. CASE PresentFails
  <2> PICK c : buffers' = [buffers EXCEPT ![curBuf].cmd = c]
    BY <1>3 DEF PresentFails
  <2> QED
    BY <1>1 DEF BufferState
<1>4. CASE \E s \in Slot : GpuDone(s)
  <2> PICK s \in Slot :
        \/ buffers' = buffers
        \/ buffers' = [buffers EXCEPT ![s].signaled = TRUE, ![s].cmd = "invalid"]
    BY <1>4 DEF GpuDone
  <2> QED
    BY <1>1 DEF BufferState
<1>5. CASE Destroy
  BY <1>1, <1>5 DEF Destroy, BufferState
<1> QED
  BY <1>2, <1>3, <1>4, <1>5

\* Busy buffers over every step.
LEMMA LentInvStep ==
  ASSUME TypeOK, PlaceInv, LentInv, [Next]_vars
  PROVE  LentInv'
<1>1. RequestsRight /\ BusyLent
  BY DEF LentInv
<1> SUFFICES BusyLent'
  BY <1>1, RequestsRightStep DEF LentInv
<1>2. ASSUME gen' = gen, UNCHANGED <<wire, events, held>>, connected' => connected,
             \A s \in Slot : buffers'[s].busy => buffers[s].busy
      PROVE  BusyLent'
  BY <1>1, <1>2, StaysLent DEF BufferOut, Somewhere
<1>t. buffers \in [Slot -> BufferState] /\ (pc = "user" => curBuf \in Slot)
  BY DEF TypeOK, LibTypeOK
<1>3. CASE Run \/ Dispatch
  <2>1. UNCHANGED <<events, held, gen, buffers, connected>>
    BY <1>3 DEF Run, Dispatch, lib, compositor
  <2> PICK reqs : Flush(reqs) /\ (reqs = <<>> \/ \E cb \in Callback :
                                                   reqs = <<Commit(None, None, cb)>>)
    BY <1>3 DEF Run, Dispatch
  <2>2. reqs \in Seq(Request)
    <3>1. \A cb \in Callback : <<Commit(None, None, cb)>> \in Seq(Request)
      BY DEF Request
    <3> QED
      BY <3>1, EmptySeq
  <2>3. \A w \in WlBuffer : At(reqs, "commit", "buf", w) = {}
    BY ConstantsAssumption DEF At
  <2>4. ASSUME NEW s \in Slot, BufferOut(<<gen, s>>)
        PROVE  BufferOut(<<gen, s>>)'
    <3> PICK w \in WlBuffer : w = <<gen, s>> /\ w = <<gen', s>>
      BY <2>1 DEF WlBuffer, TypeOK, LibTypeOK
    <3>1. BufferOut(w)'
      BY <2>1, <2>2, <2>3, <2>4, FlushOut DEF TypeOK, PlaceInv, Places
    <3> QED
      BY <3>1
  <2> QED
    BY <1>1, <2>1, <2>4 DEF BusyLent
<1>4. CASE FrameResize
  BY <1>4 DEF FrameResize, FreshBuffer, BusyLent
<1>5. CASE FrameBegin \/ PresentFails \/ Destroy \/ \E s \in Slot : GpuDone(s)
  <2>1. \A s \in Slot : buffers'[s].busy = buffers[s].busy
    BY <1>5, SameBusy
  <2>2. UNCHANGED <<wire, events, held, gen>> /\ (connected' => connected)
    <3>1. FrameBegin \/ PresentFails =>
            UNCHANGED <<wire, events, held, gen>> /\ (connected' => connected)
      BY DEF FrameBegin, PresentFails, socket, compositor
    <3>2. Destroy => UNCHANGED <<wire, events, held, gen>> /\ (connected' => connected)
      BY DEF Destroy, compositor
    <3>3. (\E s \in Slot : GpuDone(s)) =>
            UNCHANGED <<wire, events, held, gen>> /\ (connected' => connected)
      BY DEF GpuDone, lib, socket, compositor
    <3> QED
      BY <1>5, <3>1, <3>2, <3>3
  <2> QED
    BY <1>2, <2>1, <2>2
<1>6. CASE RunFails \/ OnSignal \/ OnConnectionLost \/ LoopExit \/ RecreateAborts
           \/ FrameSkip \/ PresentSkipped
  BY <1>2, <1>6 DEF RunFails, OnSignal, OnConnectionLost, RequestExit, LoopExit,
     RecreateAborts, FrameSkip, PresentSkipped, lib, socket, compositor
<1>7. CASE Hangup
  BY <1>7 DEF Hangup, BusyLent
<1>8. CASE UNCHANGED vars
  BY <1>2, <1>8 DEF vars, lib, socket, compositor
<1> QED
  BY <1>1, <1>3, <1>4, <1>5, <1>6, <1>7, <1>8, HandlerLent, ReadLent, SendLent, PresentLent
  DEF Next, ClientStep, Frame

\* Nothing is busy, and nothing sent, after libwl_create.
LEMMA LentInvInit == Init => LentInv
<1> SUFFICES ASSUME Init  PROVE LentInv
  OBVIOUS
<1>1. wire = <<>> /\ outbuf = <<Commit(None, None, None)>> /\ \A s \in Slot : ~buffers[s].busy
  BY DEF Init, FreshBuffer
<1>2. Range(wire) = {} /\ Range(outbuf) = {Commit(None, None, None)}
  BY <1>1 DEF Range
<1> QED
  BY <1>1, <1>2 DEF LentInv, RequestsRight, Right, IsBufferCommit, BusyLent
-----------------------------------------------------------------------------
\* What is read and answered.

\* The first i messages of a queue that loses its head.
LEMMA GivenTail ==
  ASSUME NEW e \in Seq(Event), e # <<>>
  PROVE  /\ 1 \in DOMAIN e /\ e[1] = Head(e)
         /\ \A i \in DOMAIN Tail(e) : i + 1 \in DOMAIN e /\ Tail(e)[i] = e[i + 1]
         /\ \A i \in DOMAIN Tail(e) : \A kind, f, w :
              /\ Given(Tail(e), i, kind, f, w) => Given(e, i + 1, kind, f, w)
              /\ Head(e).type = kind /\ Head(e)[f] = w => Given(e, i + 1, kind, f, w)
              /\ Given(e, i + 1, kind, f, w) =>
                   Given(Tail(e), i, kind, f, w) \/ (Head(e).type = kind /\ Head(e)[f] = w)
<1>1. /\ Len(e) \in Nat \ {0} /\ DOMAIN e = 1 .. Len(e) /\ Head(e) = e[1]
      /\ DOMAIN Tail(e) = 1 .. Len(e) - 1
      /\ \A i \in 1 .. Len(e) - 1 : Tail(e)[i] = e[i + 1]
  BY HeadTailProperties, LenProperties, EmptySeq
<1>2. \A i \in DOMAIN Tail(e) : i + 1 \in DOMAIN e /\ Tail(e)[i] = e[i + 1] /\ i \in Nat \ {0}
  BY <1>1
<1>3. ASSUME NEW i \in DOMAIN Tail(e), NEW kind, NEW f, NEW w
      PROVE  /\ Given(Tail(e), i, kind, f, w) => Given(e, i + 1, kind, f, w)
             /\ Head(e).type = kind /\ Head(e)[f] = w => Given(e, i + 1, kind, f, w)
             /\ Given(e, i + 1, kind, f, w) =>
                  Given(Tail(e), i, kind, f, w) \/ (Head(e).type = kind /\ Head(e)[f] = w)
  <2>1. i \in 1 .. Len(e) - 1
    BY <1>1
  <2>2. ASSUME NEW j \in 1 .. i
        PROVE  j + 1 \in 1 .. i + 1 /\ Tail(e)[j] = e[j + 1]
    BY <1>1, <2>1
  <2>3. Given(Tail(e), i, kind, f, w) => Given(e, i + 1, kind, f, w)
    BY <2>2 DEF Given
  <2>4. 1 \in 1 .. i + 1
    BY <2>1
  <2>5. ASSUME NEW j \in 1 .. i + 1, e[j].type = kind, e[j][f] = w, j # 1
        PROVE  Given(Tail(e), i, kind, f, w)
    <3> PICK k \in 1 .. i : k + 1 = j
      BY <2>1, <2>5
    <3>1. Tail(e)[k] = e[j]
      BY <2>2
    <3> QED
      BY <2>5, <3>1 DEF Given
  <2> QED
    BY <1>1, <2>3, <2>4, <2>5 DEF Given
<1> QED
  BY <1>1, <1>2, <1>3

\* The front of a queue that grows, or is cut.
LEMMA GivenFront ==
  ASSUME NEW e, NEW d, NEW i \in Nat, \A j \in 1 .. i : d[j] = e[j],
         NEW kind, NEW f, NEW w
  PROVE  Given(d, i, kind, f, w) <=> Given(e, i, kind, f, w)
BY DEF Given

\* Steps that make no buffer busy and forget no callback.
LEMMA CarriedOn ==
  ASSUME DonesLast, pc' # "destroyed" => pc # "destroyed",
         gen' = gen, callbacks \subseteq callbacks',
         \A s \in Slot : buffers'[s].busy => buffers[s].busy,
         DOMAIN events' \subseteq DOMAIN events, DOMAIN events' \subseteq Nat,
         \A j \in DOMAIN events' : events'[j] = events[j] /\ 1 .. j \subseteq DOMAIN events'
  PROVE  DonesLast'
<1> SUFFICES ASSUME pc' # "destroyed", NEW i \in DOMAIN events', events'[i].type = "done"
             PROVE  Carried(i)'
  BY DEF DonesLast
<1>1. Carried(i)
  BY DEF DonesLast
<1>2. \A kind, f, w : Given(events', i, kind, f, w) <=> Given(events, i, kind, f, w)
  BY GivenFront
<1> QED
  BY <1>1, <1>2 DEF Carried

\* The client handles an event, which may give back a buffer or a callback.
LEMMA HandlerDones ==
  ASSUME TypeOK, DonesLast, Handler
  PROVE  DonesLast'
<1>1. SocketTypeOK
  BY DEF TypeOK
<1> PICK kind \in {"release", "done", "toplevel", "configure", "ping", "close"} : Take(kind)
  BY DEF Handler, OnBufferRelease, OnFrameDone, OnToplevelConfigure, OnSurfaceConfigure,
     OnPing, OnClose
<1>2. /\ Head(events) \in Event /\ Head(events).type = kind
      /\ events \in Seq(Event) /\ events # <<>> /\ events' = Tail(events)
      /\ pc # "destroyed" /\ gen' = gen
  BY <1>1, TakeEvent, TakeFewer
  DEF Take, Handler, OnBufferRelease, OnFrameDone, OnToplevelConfigure, OnSurfaceConfigure,
      OnPing, OnClose, lib
<1>4. ASSUME NEW c \in callbacks
      PROVE  c \in callbacks' \/ (Head(events).type = "done" /\ Head(events)["cb"] = c)
  <2>1. CASE OnFrameDone
    BY <2>1 DEF OnFrameDone, Take
  <2>2. CASE OnBufferRelease \/ OnToplevelConfigure \/ OnSurfaceConfigure \/ OnPing \/ OnClose
    BY <2>2 DEF OnBufferRelease, OnToplevelConfigure, OnSurfaceConfigure, OnPing, OnClose
  <2> QED
    BY <2>1, <2>2 DEF Handler
<1> SUFFICES ASSUME NEW i \in DOMAIN Tail(events), Tail(events)[i].type = "done"
             PROVE  Carried(i)'
  BY <1>2 DEF DonesLast
<1>5. Carried(i + 1)
  BY <1>2, GivenTail DEF DonesLast
<1>6. CASE \E c \in callbacks : ~Given(events, i + 1, "done", "cb", c)
  <2> PICK c \in callbacks : ~Given(events, i + 1, "done", "cb", c)
    BY <1>6
  <2>1. /\ ~Given(Tail(events), i, "done", "cb", c)
        /\ ~(Head(events).type = "done" /\ Head(events)["cb"] = c)
    BY <1>2, GivenTail
  <2>2. c \in callbacks'
    BY <1>4, <2>1
  <2> QED
    BY <1>2, <2>1, <2>2 DEF Carried
<1>7. CASE \E x \in Slot : \A s \in Slot \ {x} :
             buffers[s].busy => Given(events, i + 1, "release", "buf", <<gen, s>>)
  <2> PICK x \in Slot : \A s \in Slot \ {x} :
             buffers[s].busy => Given(events, i + 1, "release", "buf", <<gen, s>>)
    BY <1>7
  <2>1. ASSUME NEW s \in Slot \ {x}, buffers'[s].busy
        PROVE  Given(Tail(events), i, "release", "buf", <<gen, s>>)
    <3>1. Given(events, i + 1, "release", "buf", <<gen, s>>)
      BY <2>1, HandlerBusy
    <3> QED
      BY <1>2, <2>1, <3>1, HandlerBusy, GivenTail
  <2> QED
    BY <1>2, <2>1 DEF Carried
<1> QED
  BY <1>5, <1>6, <1>7 DEF Carried

\* The handler of the last "done" leaves a callback, or all buffers but one free.
LEMMA FrameDoneOneBusy ==
  ASSUME TypeOK, PlaceInv, DonesLast, OnFrameDone
  PROVE  OneBusy'
<1>1. /\ SocketTypeOK /\ Take("done") /\ buffers' = buffers /\ gen' = gen /\ pc # "destroyed"
      /\ callbacks' = callbacks \ {Head(events).cb}
  BY DEF OnFrameDone, TypeOK, Take
<1>2. events \in Seq(Event) /\ events # <<>> /\ Head(events).type = "done"
  BY <1>1, TakeFewer DEF Take
<1>3. 1 \in DOMAIN events /\ events[1] = Head(events)
  BY <1>2, GivenTail
<1>4. Carried(1)
  BY <1>1, <1>2, <1>3 DEF DonesLast
<1>5. \A k, f, w : Given(events, 1, k, f, w) <=> Head(events).type = k /\ Head(events)[f] = w
  BY <1>3 DEF Given
<1>6. CASE \E c \in callbacks : ~Given(events, 1, "done", "cb", c)
  BY <1>1, <1>2, <1>5, <1>6 DEF OneBusy
<1>7. CASE \E x \in Slot : \A s \in Slot \ {x} :
             buffers[s].busy => Given(events, 1, "release", "buf", <<gen, s>>)
  <2> PICK x \in Slot : \A s \in Slot \ {x} :
             buffers[s].busy => Given(events, 1, "release", "buf", <<gen, s>>)
    BY <1>7
  <2>1. \A s \in Slot \ {x} : ~buffers'[s].busy
    BY <1>1, <1>2, <1>5
  <2> QED
    BY <2>1 DEF OneBusy
<1> QED
  BY <1>4, <1>6, <1>7 DEF Carried

\* The compositor sends an event that is no "done", or goes away.
LEMMA OtherSendDones ==
  ASSUME TypeOK, DonesLast,
         \/ \E sz \in Size \cup {None} : SendToplevelConfigure(sz) \/ SendSurfaceConfigure(sz)
         \/ \E w \in WlBuffer : SendRelease(w)
         \/ SendPing \/ SendClose \/ Hangup
  PROVE  DonesLast'
<1>1. /\ events \in Seq(Event) /\ Len(events) \in Nat /\ DOMAIN events = 1 .. Len(events)
      /\ nread \in 0 .. Len(events)
  BY LenProperties DEF TypeOK, SocketTypeOK
<1>2. UNCHANGED <<pc, gen, callbacks, buffers>>
  BY DEF SendToplevelConfigure, SendSurfaceConfigure, SendRelease, SendPing, SendClose,
     Hangup, Client, lib
<1>3. CASE Hangup
  <2>1. /\ DOMAIN events' = 1 .. nread /\ \A j \in 1 .. nread : events'[j] = events[j]
    BY <1>1, <1>3, SubSeqProperties DEF Hangup
  <2>2. /\ 1 .. nread \subseteq 1 .. Len(events) /\ 1 .. nread \subseteq Nat
        /\ \A j \in 1 .. nread : 1 .. j \subseteq 1 .. nread
    BY <1>1
  <2> QED
    BY <1>1, <1>2, <2>1, <2>2, CarriedOn
<1>4. CASE ~Hangup
  <2> PICK e \in Event : Send(e) /\ e.type # "done"
    <3>1. \A sz \in Size \cup {None} : /\ [type |-> "toplevel", size |-> sz] \in Event
                                      /\ [type |-> "configure", size |-> sz] \in Event
      BY DEF Event
    <3>2. \A w \in WlBuffer : [type |-> "release", buf |-> w] \in Event
      BY DEF Event
    <3>3. [type |-> "ping"] \in Event /\ [type |-> "close"] \in Event
      BY DEF Event
    <3> QED
      BY <1>4, <3>1, <3>2, <3>3 DEF SendToplevelConfigure, SendSurfaceConfigure, SendRelease,
         SendPing, SendClose
  <2>1. /\ DOMAIN events' = 1 .. Len(events) + 1 /\ events'[Len(events) + 1] = e
        /\ \A j \in 1 .. Len(events) : events'[j] = events[j]
    BY <1>1, AppendProperties, LenProperties DEF Send
  <2> SUFFICES ASSUME pc # "destroyed", NEW i \in 1 .. Len(events), events[i].type = "done"
               PROVE  Carried(i)'
    <3>1. \A i \in 1 .. Len(events) + 1 : i \in 1 .. Len(events) \/ i = Len(events) + 1
      BY <1>1
    <3> QED
      BY <1>2, <2>1, <3>1 DEF DonesLast
  <2>2. Carried(i)
    BY <1>1 DEF DonesLast
  <2>3. i \in Nat /\ \A j \in 1 .. i : events'[j] = events[j]
    BY <1>1, <2>1
  <2>4. \A kind, f, w : Given(events', i, kind, f, w) <=> Given(events, i, kind, f, w)
    BY <2>3, GivenFront
  <2> QED
    BY <1>2, <2>2, <2>4 DEF Carried
<1> QED
  BY <1>3, <1>4

\* The last callback is answered only when no commit of a buffer is on its way, since that
\* would carry another callback; so every buffer but the one shown has come back.
LEMMA LastAnswer ==
  ASSUME PromptRelease, TypeOK, PlaceInv, LentInv, pc # "destroyed",
         NEW d \in Callback, SendDone(d),
         \A c \in callbacks : c = d \/ At(events, "done", "cb", c) # {}
  PROVE  \E x \in Slot : \A s \in Slot \ {x} :
           buffers[s].busy => At(events, "release", "buf", <<gen, s>>) # {}
<1>1. /\ wire \in Seq(Request) /\ gen \in Gen /\ 0 \in Slot
      /\ connected /\ d \in frames /\ held \subseteq {current}
  BY ConstantsAssumption DEF SendDone, TypeOK, SocketTypeOK, LibTypeOK, Slot
<1>2. ASSUME NEW w \in WlBuffer  PROVE At(wire, "commit", "buf", w) = {}
  <2> SUFFICES ASSUME NEW i \in DOMAIN wire, wire[i].type = "commit", wire[i].buf = w
               PROVE  FALSE
    BY DEF At
  <2>1. wire[i] \in Request /\ w # None
    BY <1>1, ElementOfSeq, LenProperties, ConstantsAssumption
  <2>2. wire[i].cb # None
    BY <2>1 DEF LentInv, RequestsRight, Right, IsBufferCommit, Range
  <2> PICK cb \in Callback : cb = wire[i].cb
    BY <2>1, <2>2, RequestFields
  <2>3. At(wire, "commit", "cb", cb) # {}
    BY DEF At
  <2>4. OnePlace(wire, events, frames, "cb", "done", cb) /\ CallbackOut(cb)
    BY <2>3 DEF PlaceInv, Places, CallbackPlace, CallbackOut, Somewhere
  <2>5. cb \in callbacks /\ cb # d /\ At(events, "done", "cb", cb) = {}
    BY <1>1, <2>3, <2>4 DEF OnePlace, PlaceInv, Known
  <2> QED
    BY <2>5
<1> PICK x \in Slot : \A s \in Slot : current = <<gen, s>> => s = x
  <2>1. CASE \E s \in Slot : current = <<gen, s>>
    BY <2>1
  <2>2. CASE ~\E s \in Slot : current = <<gen, s>>
    BY <1>1, <2>2
  <2> QED
    BY <2>1, <2>2
<1>3. ASSUME NEW s \in Slot \ {x}, buffers[s].busy
      PROVE  At(events, "release", "buf", <<gen, s>>) # {}
  <2> PICK w \in WlBuffer : w = <<gen, s>>
    BY <1>1 DEF WlBuffer
  <2>1. BufferOut(w)
    BY <1>1, <1>3 DEF LentInv, BusyLent
  <2>2. w \notin held
    BY <1>1
  <2> QED
    BY <1>2, <2>1, <2>2 DEF BufferOut, Somewhere
<1> QED
  BY <1>3

\* The compositor answers a callback.
LEMMA SendDoneDones ==
  ASSUME PromptRelease, TypeOK, PlaceInv, LentInv, DonesLast, NEW d \in Callback, SendDone(d)
  PROVE  DonesLast'
<1> DEFINE n == Len(events)
<1>1. /\ events \in Seq(Event) /\ n \in Nat /\ DOMAIN events = 1 .. n
      /\ UNCHANGED <<pc, gen, callbacks, buffers>>
  BY LenProperties DEF TypeOK, SocketTypeOK, SendDone, Client, lib
<1> PICK e \in Event : e = [type |-> "done", cb |-> d]
  BY DEF Event
<1>2. /\ DOMAIN events' = 1 .. n + 1 /\ events'[n + 1] = e
      /\ \A j \in 1 .. n : events'[j] = events[j]
  BY <1>1, AppendProperties, LenProperties DEF SendDone, Send
<1> HIDE DEF n
<1> SUFFICES ASSUME pc # "destroyed", NEW i \in 1 .. n + 1, events'[i].type = "done"
             PROVE  Carried(i)'
  BY <1>1, <1>2 DEF DonesLast
<1>3. CASE i \in 1 .. n
  <2>1. Carried(i)
    BY <1>1, <1>2, <1>3 DEF DonesLast
  <2>2. i \in Nat /\ \A j \in 1 .. i : events'[j] = events[j]
    BY <1>1, <1>2, <1>3
  <2>3. \A kind, f, w : Given(events', i, kind, f, w) <=> Given(events, i, kind, f, w)
    BY <2>2, GivenFront
  <2> QED
    BY <1>1, <2>1, <2>3 DEF Carried
<1>4. CASE i = n + 1
  <2>1. \A j \in 1 .. n + 1 : j \in 1 .. n \/ j = n + 1
    BY <1>1
  <2>2. 1 .. n \subseteq 1 .. n + 1
    BY <1>1
  <2>3. CASE \A c \in callbacks : c = d \/ At(events, "done", "cb", c) # {}
    <3> PICK x \in Slot : \A s \in Slot \ {x} :
               buffers[s].busy => At(events, "release", "buf", <<gen, s>>) # {}
      BY <2>3, LastAnswer
    <3>1. ASSUME NEW s \in Slot \ {x}, buffers[s].busy
          PROVE  Given(events', n + 1, "release", "buf", <<gen, s>>)
      BY <1>1, <1>2, <2>2, <3>1 DEF At, Given
    <3> QED
      BY <1>1, <1>4, <3>1 DEF Carried
  <2>4. CASE \E c \in callbacks : c # d /\ At(events, "done", "cb", c) = {}
    <3> PICK c \in callbacks : c # d /\ At(events, "done", "cb", c) = {}
      BY <2>4
    <3>1. ~Given(events', n + 1, "done", "cb", c)
      BY <1>1, <1>2, <2>1 DEF At, Given
    <3> QED
      BY <1>1, <1>4, <3>1 DEF Carried
  <2> QED
    BY <2>3, <2>4
<1>5. i \in 1 .. n \/ i = n + 1
  BY <1>1
<1> QED
  BY <1>3, <1>4, <1>5
-----------------------------------------------------------------------------
\* The steps.

\* Every event in front of a place of the queue is one.
LEMMA EventPlaces ==
  ASSUME TypeOK
  PROVE  DOMAIN events \subseteq Nat /\ \A j \in DOMAIN events : 1 .. j \subseteq DOMAIN events
<1>1. Len(events) \in Nat /\ DOMAIN events = 1 .. Len(events)
  BY LenProperties DEF TypeOK, SocketTypeOK
<1> QED
  BY <1>1

\* "done" over every step: a new callback has not been answered, and new buffers are free.
LEMMA DonesLastStep ==
  ASSUME PromptRelease, TypeOK, PlaceInv, LentInv, DonesLast, [Next]_vars
  PROVE  DonesLast'
<1>1. ASSUME pc' # "destroyed" => pc # "destroyed",
             UNCHANGED <<gen, events>>, callbacks \subseteq callbacks',
             \A s \in Slot : buffers'[s].busy => buffers[s].busy
      PROVE  DonesLast'
  BY <1>1, EventPlaces, CarriedOn
<1>2. ASSUME pc # "destroyed", events' = events,
             NEW cb \in Callback \ callbacks, callbacks' = callbacks \cup {cb}
      PROVE  DonesLast'
  <2>1. At(events, "done", "cb", cb) = {}
    BY <1>2 DEF PlaceInv, Known, CallbackOut, Somewhere
  <2>2. \A i \in DOMAIN events : ~Given(events, i, "done", "cb", cb)
    BY <2>1, EventPlaces DEF At, Given
  <2> QED
    BY <1>2, <2>2 DEF DonesLast, Carried
<1>3. CASE Present
  BY <1>2, <1>3 DEF Present
<1>4. CASE Run
  BY <1>1, <1>2, <1>4 DEF Run
<1>5. CASE FrameResize
  <2>1. \A s \in Slot : ~buffers'[s].busy
    BY <1>5 DEF FrameResize, FreshBuffer
  <2>2. 0 \in Slot
    BY ConstantsAssumption DEF Slot
  <2> QED
    BY <2>1, <2>2 DEF DonesLast, Carried
<1>6. CASE FrameBegin \/ PresentFails \/ \E s \in Slot : GpuDone(s)
  <2>1. \A s \in Slot : buffers'[s].busy = buffers[s].busy
    BY <1>6, SameBusy
  <2>2. UNCHANGED <<events, gen, callbacks>> /\ (pc' # "destroyed" => pc # "destroyed")
    BY <1>6 DEF FrameBegin, PresentFails, GpuDone, lib, socket
  <2> QED
    BY <1>1, <2>1, <2>2
<1>7. CASE RunFails \/ OnSignal \/ OnConnectionLost \/ LoopExit \/ Dispatch \/ RecreateAborts
           \/ FrameSkip \/ PresentSkipped
  BY <1>1, <1>7 DEF RunFails, OnSignal, OnConnectionLost, RequestExit, LoopExit, Dispatch,
     RecreateAborts, FrameSkip, PresentSkipped, lib, socket
<1>8. CASE Destroy
  BY <1>8 DEF Destroy, DonesLast
<1>9. CASE ServerReceives \/ UNCHANGED vars
  BY <1>1, <1>9 DEF ServerReceives, ReceiveCommit, ReceiveAck, ReceivePong, ReceiveRecreate,
     Receive, Client, vars, lib, socket
<1> QED
  BY <1>3, <1>4, <1>5, <1>6, <1>7, <1>8, <1>9, HandlerDones, OtherSendDones, SendDoneDones
  DEF Next, ClientStep, Frame

\* Two buffers are enough for a frame that is drawn without a callback.
LEMMA SkipIsChained ==
  ASSUME NumBuffers > 1, OneBusy, FrameSkip
  PROVE  callbacks # {}
<1> SUFFICES ASSUME callbacks = {}  PROVE FALSE
  OBVIOUS
<1> PICK x \in Slot : \A s \in Slot \ {x} : ~buffers[s].busy
  BY DEF OneBusy, FrameSkip
<1>1. 0 \in Slot /\ 1 \in Slot /\ 0 # 1
  BY ConstantsAssumption DEF Slot
<1> PICK s \in Slot \ {x} : TRUE
  BY <1>1
<1> QED
  BY DEF FrameSkip, Free

\* The steps that neither touch a buffer's owner nor a callback nor start or end a frame.
LEMMA AsideChain ==
  ASSUME Fresh, Chained, OneBusy,
         pc' = pc \/ (pc \in {"idle", "loop"} /\ pc' \in {"idle", "destroyed"}),
         callbacks' = callbacks \/ (callbacks' \subseteq callbacks /\ pc' = "destroyed"),
         UNCHANGED <<pendingConfigure, initialized>>,
         \A s \in Slot : buffers'[s].busy => buffers[s].busy
  PROVE  Fresh' /\ Chained' /\ OneBusy'
BY DEF Fresh, Chained, OneBusy, NoneBusy

\* Handlers: the last "done" finds a free buffer, and so does the first configure.
LEMMA HandlerChain ==
  ASSUME TypeOK, PlaceInv, ChainInv, Handler
  PROVE  Fresh' /\ Chained' /\ OneBusy'
<1>1. Fresh /\ Chained /\ OneBusy /\ DonesLast
  BY DEF ChainInv
<1>2. CASE OnFrameDone
  <2>1. Head(events).cb \in callbacks
    BY <1>2, DoneKnown DEF OnFrameDone
  <2>2. initialized' /\ ~pendingConfigure' /\ pc' = "frame"
    BY <1>1, <1>2, <2>1 DEF OnFrameDone, Fresh
  <2> QED
    BY <1>1, <1>2, <2>2, FrameDoneOneBusy DEF Fresh, Chained
<1>3. CASE OnSurfaceConfigure
  <2>1. /\ UNCHANGED <<callbacks, initialized, buffers>> /\ ~pendingConfigure'
        /\ pc \in {"idle", "loop"} /\ pc' = IF initialized THEN "frame" ELSE pc
    BY <1>3 DEF OnSurfaceConfigure, Take
  <2>2. 0 \in Slot
    BY ConstantsAssumption DEF Slot
  <2> QED
    BY <1>1, <2>1, <2>2 DEF Fresh, Chained, OneBusy, NoneBusy
<1>4. CASE OnBufferRelease \/ OnToplevelConfigure \/ OnPing \/ OnClose
  <2>1. UNCHANGED <<pc, callbacks, pendingConfigure, initialized>>
    BY <1>4 DEF OnBufferRelease, OnToplevelConfigure, OnPing, OnClose, lib
  <2>2. \A s \in Slot : buffers'[s].busy => buffers[s].busy
    BY HandlerBusy
  <2> QED
    BY <1>1, <2>1, <2>2, AsideChain
<1> QED
  BY <1>2, <1>3, <1>4 DEF Handler

\* The chain over every step.
LEMMA ChainInvStep ==
  ASSUME MayFail = FALSE, PromptRelease = TRUE, NumBuffers > 1,
         TypeOK, PlaceInv, LentInv, ChainInv, [Next]_vars
  PROVE  ChainInv'
<1>1. Fresh /\ Chained /\ OneBusy /\ DonesLast
  BY DEF ChainInv
<1> SUFFICES Fresh' /\ Chained' /\ OneBusy'
  BY <1>1, DonesLastStep DEF ChainInv
<1>2. CASE Run
  <2>1. /\ pc = "idle" /\ pc' = "loop" /\ initialized' /\ UNCHANGED <<buffers, pendingConfigure>>
        /\ IF pendingConfigure THEN callbacks' = callbacks ELSE callbacks' # {}
    BY <1>2 DEF Run
  <2> QED
    BY <1>1, <2>1 DEF Fresh, Chained, OneBusy, NoneBusy
<1>3. CASE Present
  <2>1. pc' = "loop" /\ callbacks' # {} /\ UNCHANGED <<pendingConfigure, initialized>>
    BY <1>3 DEF Present
  <2>2. pc = "user"
    BY <1>3 DEF Present
  <2> QED
    BY <1>1, <2>1, <2>2 DEF Fresh, Chained, OneBusy
<1>4. CASE FrameSkip
  <2>1. /\ pc = "frame" /\ pc' = "loop"
        /\ UNCHANGED <<callbacks, pendingConfigure, initialized, buffers>>
    BY <1>4 DEF FrameSkip, lib
  <2>2. callbacks # {}
    BY <1>1, <1>4, SkipIsChained
  <2> QED
    BY <1>1, <2>1, <2>2 DEF Fresh, Chained, OneBusy
<1>5. CASE FrameResize
  <2>1. /\ pc = "frame" /\ UNCHANGED <<pc, callbacks, pendingConfigure, initialized>>
        /\ \A s \in Slot : ~buffers'[s].busy
    BY <1>5 DEF FrameResize, FreshBuffer
  <2>2. 0 \in Slot
    BY ConstantsAssumption DEF Slot
  <2> QED
    BY <1>1, <2>1, <2>2 DEF Fresh, Chained, OneBusy
<1>6. CASE FrameBegin
  <2>1. /\ pc = "frame" /\ pc' = "user" /\ UNCHANGED <<callbacks, pendingConfigure, initialized>>
    BY <1>6 DEF FrameBegin
  <2> QED
    BY <1>1, <2>1 DEF Fresh, Chained, OneBusy
<1>7. CASE \E s \in Slot : GpuDone(s)
  <2>1. \A s \in Slot : buffers'[s].busy = buffers[s].busy
    BY <1>7, SameBusy
  <2>2. UNCHANGED <<pc, callbacks, pendingConfigure, initialized>>
    BY <1>7 DEF GpuDone, lib
  <2> QED
    BY <1>1, <2>1, <2>2, AsideChain
<1>8. ~RunFails /\ ~RecreateAborts /\ ~PresentFails /\ ~PresentSkipped
  BY DEF RunFails, RecreateAborts, PresentFails, PresentSkipped
<1>9. CASE OnSignal \/ OnConnectionLost \/ LoopExit \/ Dispatch
  BY <1>1, <1>9, AsideChain DEF OnSignal, OnConnectionLost, RequestExit, LoopExit, Dispatch,
     lib
<1>9d. CASE Destroy
  <2>1. \A s \in Slot : buffers'[s].busy = buffers[s].busy
    BY <1>9d, SameBusy
  <2>2. /\ pc = "idle" /\ pc' = "destroyed" /\ callbacks' \subseteq callbacks
        /\ UNCHANGED <<pendingConfigure, initialized>>
    BY <1>9d DEF Destroy
  <2> QED
    BY <1>1, <2>1, <2>2, AsideChain
<1>10. ASSUME UNCHANGED Client  PROVE Fresh' /\ Chained' /\ OneBusy'
  BY <1>1, <1>10, AsideChain DEF Client, lib
<1>11. \/ ServerReceives \/ SendPing \/ SendClose \/ Hangup \/ UNCHANGED vars
       \/ \E sz \in Size \cup {None} : SendToplevelConfigure(sz) \/ SendSurfaceConfigure(sz)
       \/ \E w \in WlBuffer : SendRelease(w)
       \/ \E cb \in Callback : SendDone(cb)
       => UNCHANGED Client
  BY DEF ServerReceives, ReceiveCommit, ReceiveAck, ReceivePong, ReceiveRecreate, SendPing,
     SendClose, Hangup, SendToplevelConfigure, SendSurfaceConfigure, SendRelease, SendDone,
     vars, Client
<1> QED
  BY <1>2, <1>3, <1>4, <1>5, <1>6, <1>7, <1>8, <1>9, <1>9d, <1>10, <1>11,
     HandlerChain
  DEF Next, ClientStep, Frame

\* With two buffers or more, a frame callback that always presents and a compositor that
\* releases the buffers it has replaced before it answers the callback, the loop never
\* waits without an outstanding callback: on_frame_done may skip frames, and a resize or
\* a second libwl_run may start more chains, but the last chain is never the one that
\* breaks.
THEOREM ChainNeverBreaks ==
  ASSUME MayFail = FALSE, PromptRelease = TRUE, NumBuffers > 1
  PROVE  Spec => []ChainAlive
<1>1. Init => ChainInv
  <2> SUFFICES ASSUME Init  PROVE ChainInv
    OBVIOUS
  <2>1. events = <<>> /\ DOMAIN <<>> = {}
    BY DEF Init
  <2>2. NoneBusy /\ pc = "idle" /\ callbacks = {} /\ ~initialized
    BY DEF Init, FreshBuffer, NoneBusy
  <2> QED
    BY <2>1, <2>2 DEF ChainInv, Fresh, Chained, OneBusy, DonesLast
<1>2. TypeOK /\ PlaceInv /\ LentInv /\ ChainInv /\ [Next]_vars => LentInv' /\ ChainInv'
  BY LentInvStep, ChainInvStep
<1>3. ChainInv => ChainAlive
  BY DEF ChainInv, Fresh, Chained, ChainAlive
<1> QED
  BY <1>1, <1>2, <1>3, LentInvInit, TypeCorrect, PlaceInvHolds, PTL DEF Spec

=============================================================================
