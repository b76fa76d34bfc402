--------------------------- MODULE RecordingProofs ---------------------------
(***************************************************************************)
(* What a frame shows, and that its clears run in the layout they name,    *)
(* for any number of clears and colours and every order the GPU takes.     *)
(*                                                                         *)
(* The argument: while no clear by hand is followed by another one, the    *)
(* barriers leave the GPU no choice.  The commands that ran are always the *)
(* first ones, and what the image holds follows from the last of them.     *)
(***************************************************************************)
EXTENDS Recording, SequenceTheorems, TLAPS

Command == {Discard, Handover} \cup {ClearImage(c) : c \in Color}

\* Discard, clear and handover follow each other, and a frame begins with the first of
\* them and does not end with it.
WellRecorded ==
  \A i \in DOMAIN cmds :
    /\ i = 1 => cmds[i] = Discard
    /\ cmds[i] = Discard => i < Len(cmds) /\ cmds[i + 1].op = "clear"
    /\ cmds[i].op = "clear" => /\ i > 1 /\ cmds[i - 1] = Discard
                               /\ i < Len(cmds) => cmds[i + 1] = Handover
    /\ cmds[i] = Handover => /\ i > 1 /\ cmds[i - 1].op = "clear"
                             /\ i < Len(cmds) => cmds[i + 1] = Discard

\* The image once the first n commands have run.
Image(n) ==
  n > 0 => /\ cmds[n] = Discard => layout = "transfer_dst"
           /\ cmds[n].op = "clear" => layout = "transfer_dst" /\ content = cmds[n].color
           /\ cmds[n] = Handover => layout = "general" /\ content = cmds[n - 1].color

RanInOrder == \E n \in 0 .. Len(cmds) : done = 1 .. n /\ Image(n)

RecordingInv ==
  /\ pc \in {"loop", "user", "submitted"}
  /\ cmds \in Seq(Command)
  /\ pc = "user" => done = {}
  /\ ~Dangling => WellRecorded /\ RanInOrder
-----------------------------------------------------------------------------
\* The three kinds of commands.
LEMMA Kinds ==
  /\ Discard.op = "barrier" /\ Discard.from = "undefined" /\ Discard.to = "transfer_dst"
  /\ Handover.op = "barrier" /\ Handover.from = "transfer_dst" /\ Handover.to = "general"
  /\ Discard.dst = {"transfer"} /\ Handover.src = {"transfer"} /\ "transfer" \in Handover.dst
  /\ Discard # Handover
  /\ \A c \in Color : ClearImage(c).op = "clear" /\ ClearImage(c).color = c
  /\ \A m \in Command : m.op # "clear" <=> m = Discard \/ m = Handover
  /\ \A m \in Command : m.op \in {"clear", "barrier"}
BY DEF Discard, Handover, ClearImage, Barrier, Stage, Command

\* The places of a queue that grows.
LEMMA Longer ==
  ASSUME NEW q \in Seq(Command), NEW p \in Seq(Command)
  PROVE  /\ Len(q) \in Nat /\ Len(p) \in Nat /\ DOMAIN q = 1 .. Len(q) /\ DOMAIN p = 1 .. Len(p)
         /\ q \o p \in Seq(Command) /\ Len(q \o p) = Len(q) + Len(p)
         /\ DOMAIN (q \o p) = 1 .. Len(q) + Len(p)
         /\ \A i \in 1 .. Len(q) : (q \o p)[i] = q[i]
         /\ \A i \in 1 .. Len(p) : (q \o p)[Len(q) + i] = p[i]
<1>1. /\ Len(q) \in Nat /\ Len(p) \in Nat /\ DOMAIN q = 1 .. Len(q) /\ DOMAIN p = 1 .. Len(p)
      /\ q \o p \in Seq(Command) /\ Len(q \o p) = Len(q) + Len(p)
      /\ DOMAIN (q \o p) = 1 .. Len(q) + Len(p)
      /\ \A i \in 1 .. Len(q) + Len(p) :
           (q \o p)[i] = IF i <= Len(q) THEN q[i] ELSE p[i - Len(q)]
  BY ConcatProperties, LenProperties
<1>2. \A i \in 1 .. Len(q) : i \in 1 .. Len(q) + Len(p) /\ i <= Len(q)
  BY <1>1
<1>3. \A i \in 1 .. Len(p) : /\ Len(q) + i \in 1 .. Len(q) + Len(p)
                             /\ ~(Len(q) + i <= Len(q)) /\ Len(q) + i - Len(q) = i
  BY <1>1
<1> QED
  BY <1>1, <1>2, <1>3

\* A frame callback that has left no dangling clear records what is well recorded, unless
\* it had cleared by hand before.
LEMMA RecordKeeps ==
  ASSUME cmds \in Seq(Command), NEW c \in Color,
         NEW new \in {<<Discard, ClearImage(c), Handover>>, <<Discard, ClearImage(c)>>},
         cmds' = cmds \o new, ~Dangling => WellRecorded
  PROVE  cmds' \in Seq(Command) /\ (~Dangling' => WellRecorded')
<1> DEFINE l == Len(cmds)
<1>0. PICK k \in {2, 3} : /\ new \in Seq(Command) /\ Len(new) = k /\ new[1] = Discard
                          /\ new[2] = ClearImage(c) /\ (k = 3 => new[3] = Handover)
  <2>1. Discard \in Command /\ Handover \in Command /\ ClearImage(c) \in Command
    BY DEF Command
  <2> HIDE DEF Discard, Handover, ClearImage, Command
  <2>2. CASE new = <<Discard, ClearImage(c), Handover>>
    <3>1. /\ new \in Seq(Command) /\ Len(new) = 3 /\ new[1] = Discard
          /\ new[2] = ClearImage(c) /\ new[3] = Handover
      BY <2>1, <2>2
    <3> QED
      BY <3>1
  <2>3. CASE new = <<Discard, ClearImage(c)>>
    <3>1. /\ new \in Seq(Command) /\ Len(new) = 2 /\ new[1] = Discard
          /\ new[2] = ClearImage(c)
      BY <2>1, <2>3
    <3> QED
      BY <3>1
  <2> QED
    BY <2>2, <2>3
<1>1. k \in Nat /\ (k = 2 \/ k = 3)
  OBVIOUS
<1>2. /\ l \in Nat /\ DOMAIN cmds = 1 .. l
      /\ cmds' \in Seq(Command) /\ Len(cmds') = l + k /\ DOMAIN cmds' = 1 .. l + k
      /\ \A i \in 1 .. l : cmds'[i] = cmds[i]
      /\ cmds'[l + 1] = Discard /\ cmds'[l + 2] = ClearImage(c)
      /\ k = 3 => cmds'[l + 3] = Handover
  <2>1. 1 \in 1 .. k /\ 2 \in 1 .. k /\ (k = 3 => 3 \in 1 .. k)
    BY <1>1
  <2>2. /\ l \in Nat /\ DOMAIN cmds = 1 .. l
        /\ cmds' \in Seq(Command) /\ Len(cmds') = l + k /\ DOMAIN cmds' = 1 .. l + k
        /\ \A i \in 1 .. l : cmds'[i] = cmds[i]
        /\ \A i \in 1 .. k : cmds'[l + i] = new[i]
    BY <1>0, Longer
  <2> QED
    BY <1>0, <2>1, <2>2
<1> HIDE DEF l
<1>3. ASSUME ~Dangling'  PROVE WellRecorded'
  <2>1. ~Dangling
    <3> SUFFICES ASSUME NEW i \in 1 .. l, cmds[i].op = "clear", i < l, cmds[i + 1].from = "undefined"
                 PROVE  FALSE
      BY <1>2, <1>3 DEF Dangling, Clears, l
    <3>1. i \in DOMAIN cmds' /\ i + 1 \in 1 .. l /\ i < Len(cmds')
      BY <1>1, <1>2
    <3>2. cmds'[i].op = "clear" /\ cmds'[i + 1].from = "undefined"
      BY <1>2, <3>1
    <3> QED
      BY <1>3, <3>1, <3>2 DEF Dangling, Clears
  <2>2. l > 0 => cmds[l].op # "clear"
    <3> SUFFICES ASSUME l > 0, cmds[l].op = "clear"  PROVE FALSE
      OBVIOUS
    <3>1. l \in DOMAIN cmds' /\ l < Len(cmds') /\ l \in 1 .. l
      BY <1>1, <1>2
    <3>2. cmds'[l].op = "clear" /\ cmds'[l + 1].from = "undefined"
      BY <1>2, <3>1, Kinds
    <3> QED
      BY <1>3, <3>1, <3>2 DEF Dangling, Clears
  <2>3. WellRecorded
    BY <2>1
  <2>4. l > 0 => cmds[l] = Handover
    <3> SUFFICES ASSUME l > 0  PROVE cmds[l] = Handover
      OBVIOUS
    <3>1. l \in DOMAIN cmds /\ ~(l < Len(cmds)) /\ cmds[l] \in Command
      BY <1>2, ElementOfSeq DEF l
    <3> QED
      BY <2>2, <2>3, <3>1, Kinds DEF WellRecorded
  <2> SUFFICES ASSUME NEW i \in 1 .. l + k
               PROVE  /\ i = 1 => cmds'[i] = Discard
                      /\ cmds'[i] = Discard => i < Len(cmds') /\ cmds'[i + 1].op = "clear"
                      /\ cmds'[i].op = "clear" => /\ i > 1 /\ cmds'[i - 1] = Discard
                                                  /\ i < Len(cmds') => cmds'[i + 1] = Handover
                      /\ cmds'[i] = Handover => /\ i > 1 /\ cmds'[i - 1].op = "clear"
                                                /\ i < Len(cmds') => cmds'[i + 1] = Discard
    BY <1>2 DEF WellRecorded
  <2>5. CASE i \in 1 .. l - 1
    <3>1. i \in 1 .. l /\ i + 1 \in 1 .. l /\ (i > 1 => i - 1 \in 1 .. l) /\ i < l /\ i < Len(cmds')
      BY <1>1, <1>2, <2>5
    <3>2. /\ i = 1 => cmds[i] = Discard
          /\ cmds[i] = Discard => cmds[i + 1].op = "clear"
          /\ cmds[i].op = "clear" => i > 1 /\ cmds[i - 1] = Discard /\ cmds[i + 1] = Handover
          /\ cmds[i] = Handover => i > 1 /\ cmds[i - 1].op = "clear" /\ cmds[i + 1] = Discard
      BY <1>2, <2>3, <3>1 DEF WellRecorded, l
    <3>3. cmds'[i] = cmds[i] /\ cmds'[i + 1] = cmds[i + 1] /\ (i > 1 => cmds'[i - 1] = cmds[i - 1])
      BY <1>2, <3>1
    <3> QED
      BY <3>1, <3>2, <3>3
  <2>6. CASE i = l
    <3>1. l > 0 /\ l \in 1 .. l /\ (l > 1 => l - 1 \in 1 .. l)
      BY <1>2, <2>6
    <3>2. cmds'[l] = Handover /\ l > 1 /\ cmds'[l - 1].op = "clear" /\ cmds'[l + 1] = Discard
      BY <1>2, <2>3, <2>4, <3>1 DEF WellRecorded
    <3> QED
      BY <2>6, <3>2, Kinds
  <2>7. CASE i = l + 1
    <3>1. cmds'[i] = Discard /\ cmds'[i + 1].op = "clear" /\ i < Len(cmds')
      <4>1. l + 1 + 1 = l + 2 /\ l + 1 < l + k
        BY <1>1, <1>2
      <4> QED
        BY <1>2, <2>7, <4>1, Kinds
    <3> QED
      BY <3>1, Kinds
  <2>8. CASE i = l + 2
    <3>1. l + 2 - 1 = l + 1 /\ l + 2 + 1 = l + 3 /\ i > 1 /\ (i < Len(cmds') => k = 3)
      BY <1>1, <1>2, <2>8
    <3> QED
      BY <1>2, <2>8, <3>1, Kinds
  <2>9. CASE i = l + 3
    <3>1. l + 3 - 1 = l + 2 /\ i > 1 /\ ~(i < Len(cmds')) /\ k = 3
      BY <1>1, <1>2, <2>9
    <3> QED
      BY <1>2, <2>9, <3>1, Kinds
  <2>10. i \in 1 .. l - 1 \/ i = l \/ i = l + 1 \/ i = l + 2 \/ i = l + 3
    BY <1>1, <1>2
  <2> QED
    BY <2>5, <2>6, <2>7, <2>8, <2>9, <2>10
<1> QED
  BY <1>2, <1>3
-----------------------------------------------------------------------------
\* Barriers run behind nothing they do not wait for, and everything behind a barrier waits.
LEMMA Waits ==
  ASSUME cmds \in Seq(Command), NEW i \in DOMAIN cmds, NEW j \in DOMAIN cmds, i < j
  PROVE  /\ cmds[i].op # "clear" => Before(i, j)
         /\ cmds[j] = Handover => Before(i, j)
<1>1. cmds[i] \in Command /\ cmds[j] \in Command
  BY ElementOfSeq, LenProperties
<1>2. /\ cmds[i].op = "barrier" \/ cmds[i].op = "clear"
      /\ cmds[j].op = "barrier" \/ cmds[j].op = "clear"
      /\ cmds[i].op # "clear" => cmds[i] = Discard \/ cmds[i] = Handover
  BY <1>1, Kinds
<1>3. cmds[i].op # "clear" => "transfer" \in cmds[i].dst
  BY <1>2, Kinds
<1>4. cmds[j] = Handover => "transfer" \in cmds[j].src /\ cmds[j].op = "barrier"
  BY Kinds
<1> QED
  BY <1>2, <1>3, <1>4 DEF Before

\* Only the next command may run.
LEMMA NextInOrder ==
  ASSUME cmds \in Seq(Command), WellRecorded, NEW n \in 0 .. Len(cmds), done = 1 .. n,
         NEW j \in DOMAIN cmds, MayRun(j)
  PROVE  j = n + 1
<1>1. /\ Len(cmds) \in Nat /\ DOMAIN cmds = 1 .. Len(cmds) /\ j \notin 1 .. n
      /\ \A i \in DOMAIN cmds : Before(i, j) => i \in 1 .. n
  BY LenProperties DEF MayRun
<1> SUFFICES ASSUME j # n + 1  PROVE FALSE
  OBVIOUS
<1>2. n + 1 \in DOMAIN cmds /\ n + 1 < j /\ n + 1 \notin 1 .. n /\ n + 2 \notin 1 .. n
  BY <1>1
<1>3. cmds[n + 1].op = "clear"
  BY <1>1, <1>2, Waits
<1>4. n + 2 \in DOMAIN cmds /\ n + 1 < Len(cmds) /\ n + 1 + 1 = n + 2
  BY <1>1, <1>2
<1>5. cmds[n + 2] = Handover
  <2> PICK k \in DOMAIN cmds : k = n + 1
    BY <1>2
  <2>1. cmds[k + 1] = Handover /\ k + 1 = n + 2
    BY <1>3, <1>4 DEF WellRecorded
  <2> QED
    BY <2>1
<1>6. CASE j = n + 2
  <2>1. Before(n + 1, j)
    BY <1>2, <1>5, <1>6, Waits
  <2> QED
    BY <1>1, <1>2, <2>1
<1>7. CASE n + 2 < j
  <2>1. Before(n + 2, j)
    BY <1>4, <1>5, <1>7, Waits, Kinds
  <2> QED
    BY <1>1, <1>2, <1>4, <2>1
<1>8. j = n + 2 \/ n + 2 < j
  BY <1>1, <1>2
<1> QED
  BY <1>6, <1>7, <1>8

\* What the next command makes of the image.
LEMMA NextImage ==
  ASSUME cmds \in Seq(Command), WellRecorded, NEW n \in 0 .. Len(cmds), Image(n),
         NEW j \in DOMAIN cmds, j = n + 1, Execute(j)
  PROVE  Image(j)'
<1>1. /\ cmds[j] \in Command /\ cmds' = cmds /\ j > 0 /\ j - 1 = n
      /\ Len(cmds) \in Nat /\ DOMAIN cmds = 1 .. Len(cmds)
  BY ElementOfSeq, LenProperties DEF Execute
<1>2. CASE cmds[j] = Discard
  BY <1>1, <1>2, Kinds DEF Execute, Image
<1>3. CASE cmds[j].op = "clear"
  <2>1. n > 0 /\ cmds[n] = Discard
    BY <1>1, <1>3 DEF WellRecorded
  <2>2. layout = "transfer_dst"
    BY <2>1 DEF Image
  <2>3. layout' = layout /\ content' = cmds[j].color
    BY <1>3 DEF Execute
  <2> QED
    BY <1>1, <1>3, <2>2, <2>3, Kinds DEF Image
<1>4. CASE cmds[j] = Handover
  <2>1. j > 1 /\ cmds[j - 1].op = "clear"
    BY <1>4 DEF WellRecorded
  <2>4. n > 0 /\ cmds[n].op = "clear"
    BY <1>1, <2>1
  <2>2. layout = "transfer_dst" /\ content = cmds[n].color
    BY <2>4 DEF Image
  <2>3. layout' = "general" /\ content' = content
    BY <1>4, <2>2, Kinds DEF Execute
  <2> QED
    BY <1>1, <1>4, <2>2, <2>3, <2>4, Kinds DEF Image
<1> QED
  BY <1>1, <1>2, <1>3, <1>4, Kinds

\* The invariant over every step.
LEMMA RecordingInvStep == RecordingInv /\ [Next]_vars => RecordingInv'
<1> SUFFICES ASSUME RecordingInv, [Next]_vars  PROVE RecordingInv'
  OBVIOUS
<1>1. cmds \in Seq(Command) /\ Len(cmds) \in Nat /\ DOMAIN cmds = 1 .. Len(cmds)
  BY LenProperties DEF RecordingInv
<1>2. CASE BeginCommands
  <2>1. pc' = "user" /\ cmds' = <<>> /\ done' = {}
    BY <1>2 DEF BeginCommands
  <2>2. <<>> \in Seq(Command) /\ DOMAIN <<>> = {} /\ Len(<<>>) = 0
    BY EmptySeq
  <2>3. WellRecorded'
    BY <2>1, <2>2 DEF WellRecorded
  <2>4. RanInOrder'
    <3>1. 0 \in 0 .. 0 /\ 1 .. 0 = {} /\ ~(0 > 0)
      OBVIOUS
    <3> QED
      BY <2>1, <2>2, <3>1 DEF RanInOrder, Image
  <2> QED
    BY <2>1, <2>2, <2>3, <2>4 DEF RecordingInv
<1>3. CASE User
  <2> PICK c \in Color : Clear(c) \/ DemoFrame(c)
    BY <1>3 DEF User
  <2>1. /\ UNCHANGED <<pc, done, layout, content>> /\ pc = "user" /\ done = {}
        /\ \/ cmds' = cmds \o <<Discard, ClearImage(c), Handover>>
           \/ cmds' = cmds \o <<Discard, ClearImage(c)>>
    BY <1>3 DEF User, Clear, DemoFrame, Record, RecordingInv
  <2>2. ~Dangling => WellRecorded
    BY DEF RecordingInv
  <2>3. cmds' \in Seq(Command) /\ (~Dangling' => WellRecorded')
    BY <1>1, <2>1, <2>2, RecordKeeps
  <2>4. RanInOrder'
    <3>1. Len(cmds') \in Nat
      BY <2>3, LenProperties
    <3>2. 0 \in 0 .. Len(cmds') /\ 1 .. 0 = {} /\ ~(0 > 0)
      BY <3>1
    <3> QED
      BY <2>1, <3>2 DEF RanInOrder, Image
  <2> QED
    BY <2>1, <2>3, <2>4 DEF RecordingInv
<1>4. CASE Submit
  BY <1>4 DEF Submit, RecordingInv, Dangling, Clears, WellRecorded, RanInOrder, Image
<1>5. CASE \E j \in DOMAIN cmds : Execute(j)
  <2> PICK j \in DOMAIN cmds : Execute(j)
    BY <1>5
  <2>1. cmds' = cmds /\ pc' = pc /\ pc = "submitted" /\ done' = done \cup {j} /\ MayRun(j)
    BY DEF Execute, MayRun
  <2> SUFFICES ASSUME ~Dangling  PROVE WellRecorded' /\ RanInOrder'
    BY <2>1 DEF RecordingInv, Dangling, Clears
  <2>2. WellRecorded /\ RanInOrder
    BY DEF RecordingInv
  <2> PICK n \in 0 .. Len(cmds) : done = 1 .. n /\ Image(n)
    BY <2>2 DEF RanInOrder
  <2>3. j = n + 1
    BY <1>1, <2>1, <2>2, NextInOrder
  <2>4. j \in 0 .. Len(cmds) /\ done' = 1 .. j
    BY <1>1, <2>1, <2>3
  <2>5. Image(j)'
    BY <1>1, <2>2, <2>3, NextImage
  <2> QED
    BY <2>1, <2>2, <2>4, <2>5 DEF WellRecorded, RanInOrder, Image
<1>6. CASE UNCHANGED vars
  BY <1>6 DEF vars, RecordingInv, Dangling, Clears, WellRecorded, RanInOrder, Image
<1> QED
  BY <1>2, <1>3, <1>4, <1>5, <1>6 DEF Next

\* Commands run in the order they were recorded.
LEMMA RecordingInvHolds == Spec => []RecordingInv
<1>1. Init => RecordingInv
  <2> SUFFICES ASSUME Init  PROVE RecordingInv
    OBVIOUS
  <2>1. cmds = <<>> /\ done = {} /\ pc = "loop"
    BY DEF Init
  <2>2. <<>> \in Seq(Command) /\ DOMAIN <<>> = {} /\ Len(<<>>) = 0
    BY EmptySeq
  <2>3. 0 \in 0 .. 0 /\ 1 .. 0 = {} /\ ~(0 > 0)
    OBVIOUS
  <2> QED
    BY <2>1, <2>2, <2>3 DEF RecordingInv, WellRecorded, RanInOrder, Image
<1> QED
  BY <1>1, RecordingInvStep, PTL DEF Spec
-----------------------------------------------------------------------------
\* What follows.

\* However many times a frame callback clears, with libwl_clear and at last by hand, the
\* image holds the colour of the last clear when the GPU has finished, and libwl_clear
\* leaves it in the general layout.
THEOREM LastColorWins == Spec => []LastColorShown
<1>1. RecordingInv => LastColorShown
  <2> SUFFICES ASSUME RecordingInv, Finished, Clears # {}, ~Dangling
               PROVE  \E i \in Clears : /\ \A k \in Clears : k <= i
                                        /\ content = cmds[i].color
                                        /\ i < Len(cmds) => layout = "general"
    BY DEF LastColorShown
  <2>1. /\ cmds \in Seq(Command) /\ Len(cmds) \in Nat /\ DOMAIN cmds = 1 .. Len(cmds)
        /\ WellRecorded /\ RanInOrder
    BY LenProperties DEF RecordingInv
  <2> PICK n \in 0 .. Len(cmds) : done = 1 .. n /\ Image(n)
    BY <2>1 DEF RanInOrder
  <2>2. n = Len(cmds) /\ n \in Nat /\ n > 0 /\ n \in DOMAIN cmds
    <3> DEFINE l == Len(cmds)
    <3>1. PICK e \in Clears : TRUE
      OBVIOUS
    <3>2. e \in 1 .. l /\ \A m \in 1 .. l : m \in 1 .. n
      BY <2>1, <3>1 DEF Finished, Clears
    <3>3. l \in Nat /\ n \in 0 .. l
      BY <2>1
    <3> HIDE DEF l
    <3>4. l > 0 /\ l \in 1 .. l
      BY <3>2, <3>3
    <3>5. l \in 1 .. n
      BY <3>2, <3>4
    <3>6. n = l /\ n \in Nat /\ n > 0 /\ n \in 1 .. l
      BY <3>3, <3>4, <3>5
    <3> QED
      BY <2>1, <3>6 DEF l
  <2>3. cmds[n] \in Command /\ cmds[n] # Discard
    BY <2>1, <2>2, ElementOfSeq DEF WellRecorded
  <2>4. CASE cmds[n].op = "clear"
    <3>1. n \in Clears /\ content = cmds[n].color /\ ~(n < Len(cmds))
      BY <2>2, <2>4 DEF Clears, Image
    <3>2. \A k \in Clears : k <= n
      BY <2>1, <2>2 DEF Clears
    <3> QED
      BY <3>1, <3>2
  <2>5. CASE cmds[n] = Handover
    <3>1. n > 1 /\ cmds[n - 1].op = "clear"
      BY <2>1, <2>2, <2>5 DEF WellRecorded
    <3>2. n - 1 \in Clears
      BY <2>1, <2>2, <3>1 DEF Clears
    <3>3. content = cmds[n - 1].color /\ layout = "general"
      BY <2>2, <2>5 DEF Image
    <3>4. ASSUME NEW k \in Clears  PROVE k <= n - 1
      <4>1. k \in 1 .. n /\ k # n
        BY <2>1, <2>2, <2>5, Kinds DEF Clears
      <4> QED
        BY <2>2, <4>1
    <3> QED
      BY <3>2, <3>3, <3>4
  <2> QED
    BY <2>3, <2>4, <2>5, Kinds
<1> QED
  BY <1>1, RecordingInvHolds, PTL

\* vkCmdClearColorImage, of libwl_clear and of demo.c, runs when the image is in the
\* layout that it names, whatever the GPU ran before it.
THEOREM ClearsFindLayout == Spec => []ClearsInLayout
<1>1. RecordingInv => ClearsInLayout
  <2> SUFFICES ASSUME RecordingInv, ~Dangling, NEW j \in Clears, MayRun(j)
               PROVE  layout = "transfer_dst"
    BY DEF ClearsInLayout
  <2>1. /\ cmds \in Seq(Command) /\ Len(cmds) \in Nat /\ DOMAIN cmds = 1 .. Len(cmds)
        /\ WellRecorded /\ RanInOrder /\ j \in DOMAIN cmds /\ cmds[j].op = "clear"
    BY LenProperties DEF RecordingInv, Clears
  <2> PICK n \in 0 .. Len(cmds) : done = 1 .. n /\ Image(n)
    BY <2>1 DEF RanInOrder
  <2>2. j = n + 1
    BY <2>1, NextInOrder
  <2>3. j > 1 /\ cmds[j - 1] = Discard
    BY <2>1 DEF WellRecorded
  <2>4. n > 0 /\ n = j - 1
    BY <2>1, <2>2, <2>3
  <2> QED
    BY <2>3, <2>4 DEF Image
<1> QED
  BY <1>1, RecordingInvHolds, PTL

=============================================================================
