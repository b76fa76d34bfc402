----------------------------- MODULE InputProofs -----------------------------
(***************************************************************************)
(* Proofs about Input, for any keys, positions and number of proxies:      *)
(* with one seat the struct ends up with what the compositor shows.        *)
(***************************************************************************)
EXTENDS Input, SequenceTheorems, TLAPS

\* The matters that events settle: a key, the keyboard's focus, the pointer's, its place.
Settles(f, k, e) ==
  \/ f = "key" /\ SettlesKey(e, k)
  \/ f = "keyboard" /\ e.type \in {"keyboard_enter", "keyboard_leave"}
  \/ f = "pointer" /\ e.type \in {"pointer_enter", "pointer_leave"}
  \/ f = "position" /\ e.type \in {"pointer_enter", "pointer_motion"}

\* Does the event say what is so?
Right(f, k, s, e) ==
  \/ f = "key" /\ (SaysKey(e, k) <=> HasKeyboard(s) /\ k \in down[s])
  \/ f = "keyboard" /\ (e.type = "keyboard_enter" <=> HasKeyboard(s))
  \/ f = "pointer" /\ (e.type = "pointer_enter" <=> HasPointer(s))
  \/ f = "position" /\ e.type \in {"pointer_enter", "pointer_motion"} /\ e.xy = at[s]

\* Does the struct?
Now(f, k, s) ==
  \/ f = "key" /\ (k \in input.pressed_keys <=> HasKeyboard(s) /\ k \in down[s])
  \/ f = "keyboard" /\ (input.keyboard_entered <=> HasKeyboard(s))
  \/ f = "pointer" /\ (input.pointer_entered <=> HasPointer(s))
  \/ f = "position" /\ input.pointer_xy = at[s]

Settling(f, k) == {i \in DOMAIN events : Settles(f, k, events[i])}

Fine(f, k, s) == {i \in DOMAIN events : Right(f, k, s, events[i])}

Matter == {"key", "keyboard", "pointer", "position"}

TableKey == Key \cap 0 .. TableSize - 1

Reported ==
  OneSeat => \A s \in Seat, f \in Matter, k \in Nat :
    (f = "key" => k \in TableKey) /\ (f = "position" => HasPointer(s)) =>
      AfterAll(Settling(f, k), Fine(f, k, s), Now(f, k, s))
-----------------------------------------------------------------------------
\* Types.

\* What an event of each kind carries.
LEMMA EventFields ==
  ASSUME NEW e \in Event
  PROVE  /\ e.type = "capabilities" => e.seat \in Seat /\ e.caps \in SUBSET Device
         /\ e.type \in {"pointer_enter", "pointer_motion"} => e.xy \in Position
         /\ e.type = "keyboard_enter" => e.keys \in SUBSET Key
         /\ e.type = "key" => e.key \in Key /\ e.pressed \in BOOLEAN
BY DEF Event

\* The messages that the compositor sends are events.
LEMMA EventsSent ==
  /\ \A s \in Seat, c \in SUBSET Device :
       [type |-> "capabilities", seat |-> s, caps |-> c] \in Event
  /\ \A t \in {"pointer_enter", "pointer_motion"}, xy \in Position :
       [type |-> t, xy |-> xy] \in Event
  /\ \A t \in {"pointer_leave", "keyboard_leave", "other"} : [type |-> t] \in Event
  /\ \A ks \in SUBSET Key : [type |-> "keyboard_enter", keys |-> ks] \in Event
  /\ \A k \in Key, p \in BOOLEAN : [type |-> "key", key |-> k, pressed |-> p] \in Event
BY DEF Event

\* What is left when the first event is taken.
LEMMA Taken ==
  ASSUME NEW S, NEW q \in Seq(S), q # <<>>
  PROVE  /\ Head(q) = q[1] /\ Head(q) \in S /\ Tail(q) \in Seq(S)
         /\ Len(q) \in Nat \ {0} /\ 1 \in 1 .. Len(q)
         /\ Len(Tail(q)) = Len(q) - 1
         /\ \A i \in 1 .. Len(Tail(q)) : i + 1 \in 1 .. Len(q) /\ Tail(q)[i] = q[i + 1]
<1>1. Len(q) \in Nat \ {0}
  BY EmptySeq, LenProperties
<1> QED
  BY <1>1, HeadTailProperties

\* What n copies of an event behind the others are.
LEMMA Copies ==
  ASSUME NEW q \in Seq(Event), NEW e \in Event, NEW c \in Nat
  PROVE  /\ q \o [i \in 1 .. c |-> e] \in Seq(Event)
         /\ Len(q) \in Nat /\ DOMAIN q = 1 .. Len(q)
         /\ DOMAIN (q \o [i \in 1 .. c |-> e]) = 1 .. Len(q) + c
         /\ \A i \in 1 .. Len(q) : (q \o [j \in 1 .. c |-> e])[i] = q[i]
         /\ \A i \in Len(q) + 1 .. Len(q) + c : (q \o [j \in 1 .. c |-> e])[i] = e
<1> DEFINE r == [i \in 1 .. c |-> e]
<1>1. r \in Seq(Event) /\ Len(r) = c /\ \A i \in 1 .. c : r[i] = e
  OBVIOUS
<1>2. Len(q) \in Nat /\ DOMAIN q = 1 .. Len(q)
  BY LenProperties
<1> HIDE DEF r
<1>3. /\ q \o r \in Seq(Event) /\ Len(q \o r) = Len(q) + c
      /\ \A i \in 1 .. Len(q) + c : (q \o r)[i] = IF i <= Len(q) THEN q[i] ELSE r[i - Len(q)]
  BY <1>1, <1>2, ConcatProperties
<1>4. DOMAIN (q \o r) = 1 .. Len(q) + c
  BY <1>3, LenProperties
<1>5. \A i \in 1 .. Len(q) : (q \o r)[i] = q[i]
  BY <1>2, <1>3
<1>6. ASSUME NEW i \in Len(q) + 1 .. Len(q) + c  PROVE (q \o r)[i] = e
  <2>1. i \in 1 .. Len(q) + c /\ ~(i <= Len(q)) /\ i - Len(q) \in 1 .. c
    BY <1>2
  <2> QED
    BY <2>1, <1>1, <1>3
<1> QED
  BY <1>2, <1>3, <1>4, <1>5, <1>6 DEF r

LEMMA InitTypeOK == Init => TypeOK
<1> SUFFICES ASSUME Init  PROVE TypeOK
  OBVIOUS
<1> USE DEF Init
<1>1. input \in Fields
  BY InputAssumption DEF Fields
<1>2. <<>> \in Seq(Event) /\ <<>> \in Seq([seat : Seat, device : Device])
  BY EmptySeq
<1>3. devices \in [Device -> {None} \cup {<<s>> : s \in Seat}]
  OBVIOUS
<1>4. bound \in [Seat -> [Device -> Nat]]
  <2>1. [d \in Device |-> 0] \in [Device -> Nat]
    OBVIOUS
  <2> QED
    BY <2>1
<1>5. at \in [Seat -> Position]
  BY InputAssumption
<1> QED
  BY <1>1, <1>2, <1>3, <1>4, <1>5 DEF TypeOK

\* The table has the keys below its size.
LEMMA TableType ==
  ASSUME NEW ks \in SUBSET Key
  PROVE  Table(ks) \in SUBSET (Key \cap 0 .. TableSize - 1)
<1> SUFFICES ASSUME NEW k \in ks, k < TableSize  PROVE k \in Key \cap 0 .. TableSize - 1
  BY DEF Table
<1>1. k \in Nat /\ TableSize \in Nat
  BY InputAssumption
<1> QED
  BY <1>1

\* No handler writes a field outside its type.
LEMMA HandledType ==
  ASSUME NEW f \in Fields, NEW e \in Event
  PROVE  Handled(f, e) \in Fields
<1>t. TableSize \in Nat /\ Key \subseteq Nat
  BY InputAssumption
<1>1. CASE e.type = "pointer_enter"
  BY <1>1, EventFields DEF Handled, OnPointerEnter, Fields
<1>2. CASE e.type = "pointer_leave"
  BY <1>2 DEF Handled, OnPointerLeave, Fields
<1>3. CASE e.type = "pointer_motion"
  BY <1>3, EventFields DEF Handled, OnPointerMotion, Fields
<1>4. CASE e.type = "keyboard_enter"
  <2>1. Table(e.keys) \in SUBSET (Key \cap 0 .. TableSize - 1)
    BY <1>4, EventFields, TableType
  <2>2. Handled(f, e) = OnKeyboardEnter(f, e)
    BY <1>4 DEF Handled
  <2> QED
    BY <2>1, <2>2 DEF OnKeyboardEnter, Fields
<1>5. CASE e.type = "keyboard_leave"
  BY <1>5 DEF Handled, OnKeyboardLeave, Fields
<1>6. CASE e.type = "key"
  <2>1. Table({e.key}) \in SUBSET (Key \cap 0 .. TableSize - 1) /\ e.pressed \in BOOLEAN
    BY <1>6, EventFields, TableType
  <2>2. Handled(f, e) = OnKeyboardKey(f, e)
    BY <1>6 DEF Handled
  <2> QED
    BY <2>1, <2>2 DEF OnKeyboardKey, Fields
<1>7. CASE e.type \in {"capabilities", "other"}
  BY <1>7 DEF Handled, OnOther
<1> QED
  BY <1>1, <1>2, <1>3, <1>4, <1>5, <1>6, <1>7 DEF Event

\* What each handler makes of the fields that the properties are about.
LEMMA HandledFacts ==
  ASSUME NEW f \in Fields, NEW e \in Event
  PROVE  LET g == Handled(f, e) IN
         /\ \A k \in TableKey : k \in g.pressed_keys <=>
              IF SettlesKey(e, k) THEN SaysKey(e, k) ELSE k \in f.pressed_keys
         /\ g.keyboard_entered = IF e.type \in {"keyboard_enter", "keyboard_leave"}
                                 THEN e.type = "keyboard_enter" ELSE f.keyboard_entered
         /\ g.pointer_entered = IF e.type \in {"pointer_enter", "pointer_leave"}
                                THEN e.type = "pointer_enter" ELSE f.pointer_entered
         /\ g.pointer_xy = IF e.type \in {"pointer_enter", "pointer_motion"}
                           THEN e.xy ELSE f.pointer_xy
<1>t. TableSize \in Nat /\ Key \subseteq Nat /\ \A k \in TableKey : k \in Key /\ k < TableSize
  BY InputAssumption DEF TableKey
<1>1. CASE e.type = "pointer_enter"
  BY <1>1 DEF Handled, OnPointerEnter, Fields, SettlesKey, SaysKey
<1>2. CASE e.type = "pointer_leave"
  BY <1>2 DEF Handled, OnPointerLeave, Fields, SettlesKey, SaysKey
<1>3. CASE e.type = "pointer_motion"
  BY <1>3 DEF Handled, OnPointerMotion, Fields, SettlesKey, SaysKey
<1>4. CASE e.type = "keyboard_enter"
  BY <1>4, <1>t DEF Handled, OnKeyboardEnter, Fields, SettlesKey, SaysKey, Table
<1>5. CASE e.type = "keyboard_leave"
  BY <1>5 DEF Handled, OnKeyboardLeave, Fields, SettlesKey, SaysKey
<1>6. CASE e.type = "key"
  <2>1. e.pressed \in BOOLEAN
    BY <1>6, EventFields
  <2> QED
    BY <2>1, <1>6, <1>t DEF Handled, OnKeyboardKey, Fields, SettlesKey, SaysKey, Table
<1>7. CASE e.type \in {"capabilities", "other"}
  BY <1>7 DEF Handled, OnOther, SettlesKey, SaysKey, Fields
<1> QED
  BY <1>1, <1>2, <1>3, <1>4, <1>5, <1>6, <1>7 DEF Event

-----------------------------------------------------------------------------
\* The steps of the compositor: copies of one event behind the others.

\* What is right behind everything settles the matter.
LEMMA Loud ==
  ASSUME NEW m \in Nat, NEW settling \in SUBSET Nat, NEW right, NEW now,
         m \in settling, m \in right, \A i \in settling : i <= m
  PROVE  AfterAll(settling, right, now)
<1> SUFFICES ASSUME NEW i \in settling, \A j \in settling : j <= i  PROVE i \in right
  BY DEF AfterAll
<1>1. i = m
  OBVIOUS
<1> QED
  BY <1>1

\* A matter stays reported when the copies have nothing to do with it and nothing
\* changed, or when they say what is so now.
LEMMA SentKeeps ==
  ASSUME TypeOK, NEW s \in Seat, NEW f \in Matter, NEW k,
         NEW e \in Event, NEW c \in Nat,
         events' = events \o [i \in 1 .. c |-> e],
         \/ c # 0 /\ Settles(f, k, e) /\ Right(f, k, s, e)'
         \/ /\ c = 0 \/ ~Settles(f, k, e)
            /\ \A x \in Event : Right(f, k, s, x)' <=> Right(f, k, s, x)
            /\ Now(f, k, s)' <=> Now(f, k, s)
            /\ AfterAll(Settling(f, k), Fine(f, k, s), Now(f, k, s))
  PROVE  AfterAll(Settling(f, k), Fine(f, k, s), Now(f, k, s))'
<1> PICK l : l = Len(events)
  OBVIOUS
<1>1. /\ events \in Seq(Event) /\ l \in Nat /\ DOMAIN events = 1 .. l
      /\ DOMAIN events' = 1 .. l + c
      /\ \A i \in 1 .. l : events'[i] = events[i] /\ events[i] \in Event
      /\ \A i \in l + 1 .. l + c : events'[i] = e
  BY Copies, ElementOfSeq DEF TypeOK
<1>s. \A x : Settles(f, k, x)' <=> Settles(f, k, x)
  BY DEF Settles, SettlesKey
<1>2. CASE c # 0 /\ Settles(f, k, e) /\ Right(f, k, s, e)'
  <2>1. l + c \in l + 1 .. l + c /\ l + c \in 1 .. l + c /\ l + c \in Nat
    BY <1>1, <1>2
  <2>2. l + c \in Settling(f, k)' /\ l + c \in Fine(f, k, s)'
    BY <2>1, <1>1, <1>2, <1>s DEF Settling, Fine
  <2>3. Settling(f, k)' \in SUBSET Nat /\ \A i \in Settling(f, k)' : i <= l + c
    BY <1>1 DEF Settling
  <2> QED
    BY <2>1, <2>2, <2>3, Loud
<1>3. CASE /\ c = 0 \/ ~Settles(f, k, e)
           /\ \A x \in Event : Right(f, k, s, x)' <=> Right(f, k, s, x)
           /\ Now(f, k, s)' <=> Now(f, k, s)
           /\ AfterAll(Settling(f, k), Fine(f, k, s), Now(f, k, s))
  <2>1. \A i \in 1 .. l + c : i \in 1 .. l \/ (i \in l + 1 .. l + c /\ c # 0)
    BY <1>1
  <2>2. Settling(f, k)' = Settling(f, k)
    <3>1. \A i \in 1 .. l + c : Settles(f, k, events'[i]) <=>
                                  i \in 1 .. l /\ Settles(f, k, events[i])
      BY <2>1, <1>1, <1>3
    <3>2. \A i \in 1 .. l : i \in 1 .. l + c
      BY <1>1
    <3> QED
      BY <3>1, <3>2, <1>1, <1>s DEF Settling
  <2>3. \A i \in Settling(f, k) : i \in Fine(f, k, s)' <=> i \in Fine(f, k, s)
    <3>1. \A i \in 1 .. l : i \in 1 .. l + c
      BY <1>1
    <3> QED
      BY <3>1, <1>1, <1>3 DEF Settling, Fine
  <2> QED
    BY <2>2, <2>3, <1>3 DEF AfterAll
<1> QED
  BY <1>2, <1>3

\* A matter stays reported when its next event is handled, or one about another matter.
LEMMA TakenKeeps ==
  ASSUME TypeOK, NEW s \in Seat, NEW f \in Matter, NEW k,
         events # <<>>, events' = Tail(events),
         \A x \in Event : Right(f, k, s, x)' <=> Right(f, k, s, x),
         Settles(f, k, events[1]) => (Now(f, k, s)' <=> Right(f, k, s, events[1])),
         ~Settles(f, k, events[1]) => (Now(f, k, s)' <=> Now(f, k, s)),
         AfterAll(Settling(f, k), Fine(f, k, s), Now(f, k, s))
  PROVE  AfterAll(Settling(f, k), Fine(f, k, s), Now(f, k, s))'
<1>1. /\ events \in Seq(Event) /\ events' \in Seq(Event)
      /\ Len(events) \in Nat \ {0} /\ 1 \in 1 .. Len(events) /\ Len(events') = Len(events) - 1
      /\ \A i \in 1 .. Len(events') : i + 1 \in 1 .. Len(events) /\ events'[i] = events[i + 1]
  BY Taken DEF TypeOK
<1>2. /\ DOMAIN events = 1 .. Len(events) /\ DOMAIN events' = 1 .. Len(events')
      /\ \A i \in 1 .. Len(events) : events[i] \in Event
  BY <1>1, LenProperties, ElementOfSeq
<1>s. \A x : Settles(f, k, x)' <=> Settles(f, k, x)
  BY DEF Settles, SettlesKey
<1>3. \A i \in 1 .. Len(events') :
        /\ i \in Settling(f, k)' <=> i + 1 \in Settling(f, k)
        /\ i \in Fine(f, k, s)' <=> i + 1 \in Fine(f, k, s)
  BY <1>1, <1>2, <1>s DEF Settling, Fine
<1>4. /\ Settling(f, k) \subseteq 1 .. Len(events)
      /\ Settling(f, k)' \subseteq 1 .. Len(events')
  BY <1>2 DEF Settling
<1>5. \A j \in Settling(f, k) : j = 1 \/ j - 1 \in Settling(f, k)'
  <2> SUFFICES ASSUME NEW j \in Settling(f, k), j # 1  PROVE j - 1 \in Settling(f, k)'
    OBVIOUS
  <2>1. j - 1 \in 1 .. Len(events') /\ j - 1 + 1 = j
    BY <1>1, <1>4
  <2> QED
    BY <2>1, <1>3
<1>6. ASSUME Settling(f, k)' = {}  PROVE Now(f, k, s)'
  <2>1. CASE 1 \in Settling(f, k)
    <3>1. \A j \in Settling(f, k) : j <= 1
      BY <1>5, <1>6
    <3>2. 1 \in Fine(f, k, s)
      BY <2>1, <3>1 DEF AfterAll
    <3> QED
      BY <2>1, <3>2 DEF Settling, Fine
  <2>2. CASE 1 \notin Settling(f, k)
    <3>1. Settling(f, k) = {}
      BY <2>2, <1>5, <1>6
    <3>2. ~Settles(f, k, events[1])
      BY <2>2, <1>1, <1>2 DEF Settling
    <3> QED
      BY <3>1, <3>2 DEF AfterAll
  <2> QED
    BY <2>1, <2>2
<1>7. ASSUME NEW i \in Settling(f, k)', \A j \in Settling(f, k)' : j <= i
      PROVE  i \in Fine(f, k, s)'
  <2>1. i \in 1 .. Len(events') /\ i \in Nat
    BY <1>1, <1>4
  <2>2. i + 1 \in Settling(f, k)
    BY <2>1, <1>3
  <2>3. ASSUME NEW j \in Settling(f, k)  PROVE j <= i + 1
    <3>1. j \in 1 .. Len(events)
      BY <1>4
    <3>2. CASE j = 1
      BY <3>2, <2>1
    <3>3. CASE j - 1 \in Settling(f, k)'
      BY <3>1, <3>3, <2>1, <1>7
    <3> QED
      BY <3>2, <3>3, <1>5
  <2>4. i + 1 \in Fine(f, k, s)
    BY <2>2, <2>3 DEF AfterAll
  <2> QED
    BY <2>1, <2>4, <1>3
<1> QED
  BY <1>6, <1>7 DEF AfterAll
-----------------------------------------------------------------------------
\* Each action keeps the types.

LEMMA CopiesType ==
  ASSUME NEW q \in Seq(Event), NEW e \in Event, NEW c \in Nat
  PROVE  q \o [i \in 1 .. c |-> e] \in Seq(Event)
BY Copies

LEMMA BoundType ==
  ASSUME TypeOK, NEW s \in Seat, NEW d \in Device
  PROVE  bound[s][d] \in Nat
BY DEF TypeOK

LEMMA NextTypeOK == TypeOK /\ [Next]_vars => TypeOK'
<1> SUFFICES ASSUME TypeOK, [Next]_vars  PROVE TypeOK'
  OBVIOUS
<1> USE DEF server
<1>p. "pointer" \in Device /\ "keyboard" \in Device
  BY DEF Device
<1>b. \A s \in Seat, d \in Device : bound[s][d] \in Nat
  BY DEF TypeOK
<1>1. CASE OnSeatCapabilities
  <2>1. events # <<>> /\ events' = Tail(events) /\ Head(events).type = "capabilities"
    BY <1>1 DEF OnSeatCapabilities
  <2>2. Head(events) \in Event /\ events' \in Seq(Event)
    BY <2>1, Taken DEF TypeOK
  <2> PICK e \in Event : e = Head(events)
    BY <2>2
  <2>3. e.seat \in Seat /\ e.caps \in SUBSET Device
    BY <2>1, EventFields
  <2>4. devices' \in [Device -> {None} \cup {<<s>> : s \in Seat}]
    <3>1. devices' = [d \in Device |-> IF d \in e.caps THEN <<e.seat>> ELSE devices[d]]
      BY <1>1 DEF OnSeatCapabilities
    <3> QED
      BY <3>1, <2>3 DEF TypeOK
  <2>5. Requests(e) \in Seq([seat : Seat, device : Device])
    <3> DEFINE R == [seat : Seat, device : Device]
               P == IF "pointer" \in e.caps THEN <<[seat |-> e.seat, device |-> "pointer"]>> ELSE <<>>
               K == IF "keyboard" \in e.caps THEN <<[seat |-> e.seat, device |-> "keyboard"]>> ELSE <<>>
    <3>0. <<>> \in Seq(R) /\ \A x \in R : <<x>> \in Seq(R)
      BY EmptySeq
    <3>a. /\ [seat |-> e.seat, device |-> "pointer"] \in R
          /\ [seat |-> e.seat, device |-> "keyboard"] \in R
      BY <2>3, <1>p
    <3>1. P \in Seq(R) /\ K \in Seq(R)
      <4> HIDE DEF R
      <4> QED
        BY <3>0, <3>a
    <3> HIDE DEF R, P, K
    <3>2. P \o K \in Seq(R)
      BY <3>1, ConcatProperties
    <3> QED
      BY <3>2 DEF Requests, R, P, K
  <2>6. requests' \in Seq([seat : Seat, device : Device])
    <3>1. requests' = requests \o Requests(e)
      BY <1>1 DEF OnSeatCapabilities
    <3> QED
      BY <3>1, <2>5, ConcatProperties DEF TypeOK
  <2>7. UNCHANGED <<input, caps, bound, focus, down, inside, at>>
    BY <1>1 DEF OnSeatCapabilities
  <2> QED
    BY <2>2, <2>4, <2>6, <2>7 DEF TypeOK
<1>2. CASE Handle
  <2>1. events # <<>> /\ events' = Tail(events) /\ input' = Handled(input, Head(events))
    BY <1>2 DEF Handle
  <2>2. Head(events) \in Event /\ events' \in Seq(Event)
    BY <2>1, Taken DEF TypeOK
  <2>3. input' \in Fields
    BY <2>1, <2>2, HandledType DEF TypeOK
  <2> QED
    BY <1>2, <2>2, <2>3 DEF Handle, TypeOK
<1>3. CASE GetDevice
  <2> PICK r : r = Head(requests)
    OBVIOUS
  <2>1. r \in [seat : Seat, device : Device] /\ requests' \in Seq([seat : Seat, device : Device])
    BY <1>3, Taken DEF GetDevice, TypeOK
  <2>2. bound' = [bound EXCEPT ![r.seat][r.device] = @ + 1]
    BY <1>3 DEF GetDevice
  <2>3. bound' \in [Seat -> [Device -> Nat]]
    BY <2>1, <2>2 DEF TypeOK
  <2>4. events' \in Seq(Event)
    <3>1. events' = events \o
            (CASE r.device = "keyboard" /\ focus[r.seat] ->
                    <<[type |-> "keyboard_enter", keys |-> down[r.seat]]>>
               [] r.device = "keyboard" /\ ~focus[r.seat] -> <<[type |-> "other"]>>
               [] r.device = "pointer" /\ inside[r.seat] ->
                    <<[type |-> "pointer_enter", xy |-> at[r.seat]]>>
               [] r.device = "pointer" /\ ~inside[r.seat] -> <<>>)
      BY <1>3 DEF GetDevice
    <3>2. /\ [type |-> "keyboard_enter", keys |-> down[r.seat]] \in Event
          /\ [type |-> "other"] \in Event
          /\ [type |-> "pointer_enter", xy |-> at[r.seat]] \in Event
      BY <2>1, EventsSent DEF TypeOK
    <3>3. focus[r.seat] \in BOOLEAN /\ inside[r.seat] \in BOOLEAN
          /\ r.device \in {"pointer", "keyboard"}
      BY <2>1 DEF TypeOK, Device
    <3>4. ASSUME NEW x \in Event  PROVE events \o <<x>> \in Seq(Event)
      BY ConcatProperties DEF TypeOK
    <3>5. events \o <<>> \in Seq(Event)
      BY ConcatProperties, EmptySeq DEF TypeOK
    <3>6. CASE r.device = "keyboard" /\ focus[r.seat]
      BY <3>1, <3>2, <3>4, <3>6
    <3>7. CASE r.device = "keyboard" /\ ~focus[r.seat]
      BY <3>1, <3>2, <3>4, <3>7
    <3>8. CASE r.device = "pointer" /\ inside[r.seat]
      BY <3>1, <3>2, <3>4, <3>8
    <3>9. CASE r.device = "pointer" /\ ~inside[r.seat]
      BY <3>1, <3>5, <3>9
    <3> QED
      BY <3>3, <3>6, <3>7, <3>8, <3>9
  <2>5. UNCHANGED <<input, devices, caps, focus, down, inside, at>>
    BY <1>3 DEF GetDevice
  <2> QED
    BY <2>1, <2>3, <2>4, <2>5 DEF TypeOK
<1>4. ASSUME NEW s \in Seat, Announce(s)  PROVE TypeOK'
  <2> PICK c \in SUBSET Device :
        /\ caps' = [caps EXCEPT ![s] = c]
        /\ events' = Append(events, [type |-> "capabilities", seat |-> s, caps |-> c])
    BY <1>4 DEF Announce
  <2>1. [type |-> "capabilities", seat |-> s, caps |-> c] \in Event
    BY EventsSent
  <2>2. events' \in Seq(Event)
    BY <2>1, AppendProperties DEF TypeOK
  <2>3. caps' \in [Seat -> SUBSET Device]
    BY DEF TypeOK
  <2> QED
    BY <1>4, <2>2, <2>3 DEF Announce, TypeOK
<1>5. ASSUME NEW s \in Seat, KeyboardEnter(s)  PROVE TypeOK'
  <2>1. [type |-> "keyboard_enter", keys |-> down[s]] \in Event
    BY EventsSent DEF TypeOK
  <2>2. events' \in Seq(Event)
    BY <1>5, <2>1, <1>b, <1>p, CopiesType DEF KeyboardEnter, Send, TypeOK
  <2> QED
    BY <1>5, <2>2 DEF KeyboardEnter, TypeOK
<1>6. ASSUME NEW s \in Seat, KeyboardLeave(s)  PROVE TypeOK'
  <2>1. [type |-> "keyboard_leave"] \in Event
    BY EventsSent
  <2>2. events' \in Seq(Event)
    BY <1>6, <2>1, <1>b, <1>p, CopiesType DEF KeyboardLeave, Send, TypeOK
  <2> QED
    BY <1>6, <2>2 DEF KeyboardLeave, TypeOK
<1>7. ASSUME NEW s \in Seat, PressKey(s)  PROVE TypeOK'
  <2> PICK k \in Key :
        /\ down' = [down EXCEPT ![s] = IF k \in @ THEN @ \ {k} ELSE @ \cup {k}]
        /\ IF focus[s]
           THEN Send(s, "keyboard", [type |-> "key", key |-> k, pressed |-> k \notin down[s]])
           ELSE UNCHANGED events
    BY <1>7 DEF PressKey
  <2>1. [type |-> "key", key |-> k, pressed |-> k \notin down[s]] \in Event
    BY EventsSent
  <2> PICK e \in Event : e = [type |-> "key", key |-> k, pressed |-> k \notin down[s]]
    BY <2>1
  <2>2. events' \in Seq(Event)
    <3>1. events' = events \o [i \in 1 .. bound[s]["keyboard"] |-> e] \/ events' = events
      BY DEF Send
    <3> PICK c \in Nat : c = bound[s]["keyboard"]
      BY <1>b, <1>p
    <3>2. events \in Seq(Event)
      BY DEF TypeOK
    <3>3. events \o [i \in 1 .. c |-> e] \in Seq(Event)
      BY <3>2, CopiesType
    <3> QED
      BY <3>1, <3>2, <3>3
  <2>3. down' \in [Seat -> SUBSET Key]
    BY DEF TypeOK
  <2> QED
    BY <1>7, <2>2, <2>3 DEF PressKey, TypeOK
<1>8. ASSUME NEW s \in Seat, PointerMove(s)  PROVE TypeOK'
  <2> PICK xy \in Position :
        /\ at' = [at EXCEPT ![s] = xy]
        /\ Send(s, "pointer", [type |-> IF inside[s] THEN "pointer_motion" ELSE "pointer_enter",
                               xy |-> xy])
    BY <1>8 DEF PointerMove
  <2>1. [type |-> IF inside[s] THEN "pointer_motion" ELSE "pointer_enter", xy |-> xy] \in Event
    BY EventsSent
  <2>2. events' \in Seq(Event)
    BY <2>1, <1>b, <1>p, CopiesType DEF Send, TypeOK
  <2>3. at' \in [Seat -> Position] /\ inside' \in [Seat -> BOOLEAN]
    BY <1>8 DEF TypeOK, PointerMove
  <2> QED
    BY <1>8, <2>2, <2>3 DEF PointerMove, TypeOK
<1>9. ASSUME NEW s \in Seat, PointerLeave(s)  PROVE TypeOK'
  <2>1. [type |-> "pointer_leave"] \in Event
    BY EventsSent
  <2>2. events' \in Seq(Event)
    BY <1>9, <2>1, <1>b, <1>p, CopiesType DEF PointerLeave, Send, TypeOK
  <2> QED
    BY <1>9, <2>2 DEF PointerLeave, TypeOK
<1>10. CASE UNCHANGED vars
  BY <1>10 DEF vars, TypeOK
<1> QED
  BY <1>1, <1>2, <1>3, <1>4, <1>5, <1>6, <1>7, <1>8, <1>9, <1>10
  DEF Next, Client, Compositor

\* The types hold in every state, for any seats, keys, positions and proxies.
THEOREM TypeCorrect == Spec => []TypeOK
BY InitTypeOK, NextTypeOK, PTL DEF Spec
-----------------------------------------------------------------------------
\* Each action keeps what is reported.

Held(k, s) == HasKeyboard(s) /\ k \in down[s]

\* The compositor's side of the matter is as before.
Same(f, k, s) ==
  /\ f = "key" => (Held(k, s)' <=> Held(k, s))
  /\ f = "keyboard" => (HasKeyboard(s)' <=> HasKeyboard(s))
  /\ f = "pointer" => (HasPointer(s)' <=> HasPointer(s))
  /\ f = "position" => at'[s] = at[s]

\* The truth of these formulas is that of a value.
LEMMA Truths ==
  ASSUME TypeOK, NEW s \in Seat, NEW k
  PROVE  /\ HasKeyboard(s) \in BOOLEAN /\ HasPointer(s) \in BOOLEAN /\ Held(k, s) \in BOOLEAN
         /\ input.keyboard_entered \in BOOLEAN /\ input.pointer_entered \in BOOLEAN
BY DEF TypeOK, Fields, HasKeyboard, HasPointer, Held

LEMMA SameRight ==
  ASSUME NEW s \in Seat, NEW f \in Matter, NEW k, NEW x \in Event, Same(f, k, s)
  PROVE  Right(f, k, s, x)' <=> Right(f, k, s, x)
<1>1. CASE f = "key"
  BY <1>1 DEF Same, Right, Held, SaysKey
<1>2. CASE f = "keyboard"
  BY <1>2 DEF Same, Right
<1>3. CASE f = "pointer"
  BY <1>3 DEF Same, Right
<1>4. CASE f = "position"
  BY <1>4 DEF Same, Right
<1> QED
  BY <1>1, <1>2, <1>3, <1>4 DEF Matter

LEMMA SameNow ==
  ASSUME NEW s \in Seat, NEW f \in Matter, NEW k, Same(f, k, s), input' = input
  PROVE  Now(f, k, s)' <=> Now(f, k, s)
<1>1. CASE f = "key"
  BY <1>1 DEF Same, Now, Held
<1>2. CASE f = "keyboard"
  BY <1>2 DEF Same, Now
<1>3. CASE f = "pointer"
  BY <1>3 DEF Same, Now
<1>4. CASE f = "position"
  BY <1>4 DEF Same, Now
<1> QED
  BY <1>1, <1>2, <1>3, <1>4 DEF Matter

\* Copies of an event that settles the matter rightly, or has nothing to do with it.
LEMMA Sent ==
  ASSUME TypeOK, NEW s \in Seat, NEW f \in Matter, NEW k, NEW e \in Event, NEW c \in Nat,
         input' = input, events' = events \o [i \in 1 .. c |-> e],
         \/ c # 0 /\ Settles(f, k, e) /\ Right(f, k, s, e)'
         \/ /\ c = 0 \/ ~Settles(f, k, e)
            /\ Same(f, k, s)
            /\ AfterAll(Settling(f, k), Fine(f, k, s), Now(f, k, s))
  PROVE  AfterAll(Settling(f, k), Fine(f, k, s), Now(f, k, s))'
<1>1. CASE c # 0 /\ Settles(f, k, e) /\ Right(f, k, s, e)'
  BY <1>1, SentKeeps
<1>2. CASE /\ c = 0 \/ ~Settles(f, k, e)
           /\ Same(f, k, s)
           /\ AfterAll(Settling(f, k), Fine(f, k, s), Now(f, k, s))
  <2>1. \A x \in Event : Right(f, k, s, x)' <=> Right(f, k, s, x)
    BY <1>2, SameRight
  <2>2. Now(f, k, s)' <=> Now(f, k, s)
    BY <1>2, SameNow
  <2> QED
    BY <1>2, <2>1, <2>2, SentKeeps
<1> QED
  BY <1>1, <1>2

\* The struct says of the matter what the event handled says, or what it said.
LEMMA HandledNow ==
  ASSUME NEW s \in Seat, NEW f \in Matter, NEW k, f = "key" => k \in TableKey,
         NEW e \in Event, input \in Fields, input' = Handled(input, e),
         UNCHANGED <<bound, focus, down, inside, at>>
  PROVE  /\ Settles(f, k, e) => (Now(f, k, s)' <=> Right(f, k, s, e))
         /\ ~Settles(f, k, e) => (Now(f, k, s)' <=> Now(f, k, s))
<1>1. /\ f = "key" => (k \in input'.pressed_keys <=>
            IF SettlesKey(e, k) THEN SaysKey(e, k) ELSE k \in input.pressed_keys)
      /\ input'.keyboard_entered = IF e.type \in {"keyboard_enter", "keyboard_leave"}
                                   THEN e.type = "keyboard_enter" ELSE input.keyboard_entered
      /\ input'.pointer_entered = IF e.type \in {"pointer_enter", "pointer_leave"}
                                  THEN e.type = "pointer_enter" ELSE input.pointer_entered
      /\ input'.pointer_xy = IF e.type \in {"pointer_enter", "pointer_motion"}
                             THEN e.xy ELSE input.pointer_xy
  BY HandledFacts
<1>2. /\ HasKeyboard(s)' <=> HasKeyboard(s)
      /\ HasPointer(s)' <=> HasPointer(s)
      /\ down' = down /\ at' = at
  BY DEF HasKeyboard, HasPointer, KnowsKeyboard, KnowsPointer
<1>3. CASE f = "key"
  BY <1>1, <1>2, <1>3 DEF Settles, Right, Now
<1>4. CASE f = "keyboard"
  BY <1>1, <1>2, <1>4 DEF Settles, Right, Now
<1>5. CASE f = "pointer"
  BY <1>1, <1>2, <1>5 DEF Settles, Right, Now
<1>6. CASE f = "position"
  BY <1>1, <1>2, <1>6 DEF Settles, Right, Now
<1> QED
  BY <1>3, <1>4, <1>5, <1>6 DEF Matter

\* A step leaves every matter reported.
LEMMA StepReported ==
  ASSUME TypeOK, Next, OneSeat, NEW s \in Seat, NEW f \in Matter, NEW k,
         f = "key" => k \in TableKey,
         f = "position" => HasPointer(s)',
         (f = "position" => HasPointer(s)) => AfterAll(Settling(f, k), Fine(f, k, s), Now(f, k, s))
  PROVE  AfterAll(Settling(f, k), Fine(f, k, s), Now(f, k, s))'
<1>p. "pointer" \in Device /\ "keyboard" \in Device
  BY DEF Device
<1>b. bound[s]["keyboard"] \in Nat /\ bound[s]["pointer"] \in Nat
  BY <1>p, BoundType
<1>f. f = "key" \/ f = "keyboard" \/ f = "pointer" \/ f = "position"
  BY DEF Matter
<1>o. \A t \in Seat : t = s
  BY DEF OneSeat
<1>t. focus \in [Seat -> BOOLEAN] /\ inside \in [Seat -> BOOLEAN] /\ down \in [Seat -> SUBSET Key]
      /\ at \in [Seat -> Position] /\ bound \in [Seat -> [Device -> Nat]]
  BY DEF TypeOK
<1>s. ASSUME NEW e \in Event, NEW c \in Nat,
             input' = input, events' = events \o [i \in 1 .. c |-> e],
             \/ c # 0 /\ Settles(f, k, e) /\ Right(f, k, s, e)'
             \/ /\ c = 0 \/ ~Settles(f, k, e)
                /\ Same(f, k, s)
                /\ f = "position" => HasPointer(s)
      PROVE  AfterAll(Settling(f, k), Fine(f, k, s), Now(f, k, s))'
  BY <1>s, Sent
<1>1. CASE OnSeatCapabilities
  <2>1. /\ events # <<>> /\ events' = Tail(events) /\ Head(events).type = "capabilities"
        /\ UNCHANGED <<input, caps, bound, focus, down, inside, at>>
    BY <1>1 DEF OnSeatCapabilities, server
  <2>2. Head(events) = events[1]
    BY <2>1, Taken DEF TypeOK
  <2>3. ~Settles(f, k, events[1])
    BY <2>1, <2>2 DEF Settles, SettlesKey
  <2>4. Same(f, k, s) /\ (HasPointer(s)' <=> HasPointer(s))
    BY <2>1 DEF Same, Held, HasKeyboard, HasPointer, KnowsKeyboard, KnowsPointer
  <2>5. Now(f, k, s)' <=> Now(f, k, s)
    BY <2>1, <2>4, SameNow
  <2>6. \A x \in Event : Right(f, k, s, x)' <=> Right(f, k, s, x)
    BY <2>4, SameRight
  <2> QED
    BY <2>1, <2>3, <2>4, <2>5, <2>6, TakenKeeps
<1>2. CASE Handle
  <2>1. /\ events # <<>> /\ events' = Tail(events) /\ input' = Handled(input, Head(events))
        /\ UNCHANGED <<caps, bound, focus, down, inside, at>>
    BY <1>2 DEF Handle, server
  <2>2. Head(events) = events[1] /\ events[1] \in Event /\ input \in Fields
    BY <2>1, Taken DEF TypeOK
  <2>3. Same(f, k, s) /\ (HasPointer(s)' <=> HasPointer(s))
    BY <2>1 DEF Same, Held, HasKeyboard, HasPointer, KnowsKeyboard, KnowsPointer
  <2>4. \A x \in Event : Right(f, k, s, x)' <=> Right(f, k, s, x)
    BY <2>3, SameRight
  <2>5. /\ Settles(f, k, events[1]) => (Now(f, k, s)' <=> Right(f, k, s, events[1]))
        /\ ~Settles(f, k, events[1]) => (Now(f, k, s)' <=> Now(f, k, s))
    BY <2>1, <2>2, HandledNow
  <2> QED
    BY <2>1, <2>3, <2>4, <2>5, TakenKeeps
<1>3. CASE GetDevice
  <2> PICK r : r = Head(requests)
    OBVIOUS
  <2>1. r \in [seat : Seat, device : Device]
    BY <1>3, Taken DEF GetDevice, TypeOK
  <2>2. r.seat = s /\ r.device \in {"pointer", "keyboard"}
    BY <2>1, <1>o DEF Device
  <2>3. /\ bound' = [bound EXCEPT ![s][r.device] = @ + 1]
        /\ UNCHANGED <<input, focus, down, inside, at>>
        /\ events' = events \o
             (CASE r.device = "keyboard" /\ focus[s] ->
                     <<[type |-> "keyboard_enter", keys |-> down[s]]>>
                [] r.device = "keyboard" /\ ~focus[s] -> <<[type |-> "other"]>>
                [] r.device = "pointer" /\ inside[s] ->
                     <<[type |-> "pointer_enter", xy |-> at[s]]>>
                [] r.device = "pointer" /\ ~inside[s] -> <<>>)
    BY <1>3, <2>2 DEF GetDevice
  <2>4. /\ bound'[s]["keyboard"] =
             IF r.device = "keyboard" THEN bound[s]["keyboard"] + 1 ELSE bound[s]["keyboard"]
        /\ bound'[s]["pointer"] =
             IF r.device = "pointer" THEN bound[s]["pointer"] + 1 ELSE bound[s]["pointer"]
    BY <2>2, <2>3, <1>t, <1>p
  <2>5. /\ HasKeyboard(s)' <=> (r.device = "keyboard" \/ KnowsKeyboard(s)) /\ focus[s]
        /\ HasPointer(s)' <=> (r.device = "pointer" \/ KnowsPointer(s)) /\ inside[s]
    BY <2>2, <2>3, <2>4, <1>b DEF HasKeyboard, HasPointer, KnowsKeyboard, KnowsPointer
  <2>u. input' = input
    BY <2>3
  <2> PICK c \in Nat : c = 1
    OBVIOUS
  <2>6. ASSUME NEW x \in Event  PROVE events \o <<x>> = events \o [i \in 1 .. c |-> x]
    <3>1. <<x>> = [i \in 1 .. c |-> x]
      OBVIOUS
    <3> QED
      BY <3>1
  <2>7. CASE r.device = "keyboard" /\ focus[s]
    <3> PICK e : e = [type |-> "keyboard_enter", keys |-> down[s]]
      OBVIOUS
    <3>1. e \in Event /\ events' = events \o [i \in 1 .. c |-> e]
      <4>1. e \in Event /\ events' = events \o <<e>>
        BY <2>3, <2>7, <1>t, EventsSent
      <4> QED
        BY <4>1, <2>6
    <3>2. HasKeyboard(s)' /\ (HasPointer(s)' <=> HasPointer(s)) /\ at' = at /\ down' = down
      BY <2>3, <2>5, <2>7 DEF HasPointer
    <3>3. f \in {"key", "keyboard"} => Settles(f, k, e) /\ Right(f, k, s, e)'
      BY <3>2 DEF Settles, SettlesKey, Right, SaysKey
    <3>4. f \in {"pointer", "position"} =>
            ~Settles(f, k, e) /\ Same(f, k, s) /\ (f = "position" => HasPointer(s))
      BY <3>2 DEF Settles, Same
    <3> QED
      BY <3>1, <3>3, <3>4, <2>u, <1>f, <1>s, c # 0
  <2>8. CASE r.device = "keyboard" /\ ~focus[s]
    <3> PICK e : e = [type |-> "other"]
      OBVIOUS
    <3>1. e \in Event /\ events' = events \o [i \in 1 .. c |-> e]
      <4>1. e \in Event /\ events' = events \o <<e>>
        BY <2>3, <2>8, EventsSent
      <4> QED
        BY <4>1, <2>6
    <3>2. /\ ~HasKeyboard(s)' /\ ~HasKeyboard(s)
          /\ (HasPointer(s)' <=> HasPointer(s)) /\ at' = at /\ down' = down
      BY <2>3, <2>5, <2>8 DEF HasPointer, HasKeyboard
    <3>3. ~Settles(f, k, e) /\ Same(f, k, s) /\ (f = "position" => HasPointer(s))
      BY <3>2 DEF Settles, SettlesKey, Same, Held
    <3> QED
      BY <3>1, <3>3, <2>u, <1>s
  <2>9. CASE r.device = "pointer" /\ inside[s]
    <3> PICK e : e = [type |-> "pointer_enter", xy |-> at[s]]
      OBVIOUS
    <3>1. e \in Event /\ events' = events \o [i \in 1 .. c |-> e]
      <4>1. e \in Event /\ events' = events \o <<e>>
        BY <2>3, <2>9, <1>t, EventsSent
      <4> QED
        BY <4>1, <2>6
    <3>2. HasPointer(s)' /\ (HasKeyboard(s)' <=> HasKeyboard(s)) /\ at' = at /\ down' = down
      BY <2>3, <2>5, <2>9 DEF HasKeyboard
    <3>3. f \in {"pointer", "position"} => Settles(f, k, e) /\ Right(f, k, s, e)'
      BY <3>2 DEF Settles, Right
    <3>4. f \in {"key", "keyboard"} => ~Settles(f, k, e) /\ Same(f, k, s)
      BY <3>2 DEF Settles, SettlesKey, Same, Held
    <3> QED
      BY <3>1, <3>3, <3>4, <2>u, <1>f, <1>s, c # 0
  <2>10. CASE r.device = "pointer" /\ ~inside[s]
    <3>1. events' = events \o <<>> /\ events \in Seq(Event)
      BY <2>3, <2>10 DEF TypeOK
    <3>2. [type |-> "other"] \in Event
      BY EventsSent
    <3> PICK e \in Event : e = [type |-> "other"]
      BY <3>2
    <3>3. events' = events \o [i \in 1 .. 0 |-> e]
      <4>1. <<>> = [i \in 1 .. 0 |-> e]
        OBVIOUS
      <4> QED
        BY <3>1, <4>1
    <3>4. /\ ~HasPointer(s)' /\ ~HasPointer(s)
          /\ (HasKeyboard(s)' <=> HasKeyboard(s)) /\ at' = at /\ down' = down
      BY <2>3, <2>5, <2>10 DEF HasPointer, HasKeyboard
    <3>5. Same(f, k, s) /\ f # "position"
      BY <3>4 DEF Same, Held
    <3> QED
      BY <3>3, <3>5, <2>u, <1>s
  <2> QED
    BY <2>2, <2>7, <2>8, <2>9, <2>10, <1>t
<1>4. ASSUME NEW t \in Seat, Announce(t)
      PROVE  AfterAll(Settling(f, k), Fine(f, k, s), Now(f, k, s))'
  <2>1. /\ \E c \in SUBSET Device :
             events' = Append(events, [type |-> "capabilities", seat |-> t, caps |-> c])
        /\ UNCHANGED <<input, bound, focus, down, inside, at>>
    BY <1>4 DEF Announce
  <2> PICK c \in SUBSET Device :
             events' = Append(events, [type |-> "capabilities", seat |-> t, caps |-> c])
    BY <2>1
  <2>2. [type |-> "capabilities", seat |-> t, caps |-> c] \in Event
    BY EventsSent
  <2> PICK e \in Event : e = [type |-> "capabilities", seat |-> t, caps |-> c]
    BY <2>2
  <2>3. events' = events \o [i \in 1 .. 1 |-> e]
    <3>1. <<e>> = [i \in 1 .. 1 |-> e] /\ Append(events, e) = events \o <<e>>
      BY AppendIsConcat DEF TypeOK
    <3> QED
      BY <3>1
  <2>4. /\ HasKeyboard(s)' <=> HasKeyboard(s)
        /\ HasPointer(s)' <=> HasPointer(s)
        /\ down' = down /\ at' = at
    BY <2>1 DEF HasKeyboard, HasPointer, KnowsKeyboard, KnowsPointer
  <2>5. ~Settles(f, k, e) /\ Same(f, k, s) /\ (f = "position" => HasPointer(s))
    BY <2>4 DEF Settles, SettlesKey, Same, Held
  <2> QED
    BY <2>1, <2>3, <2>5, <1>s
<1>5. ASSUME NEW t \in Seat, KeyboardEnter(t)
      PROVE  AfterAll(Settling(f, k), Fine(f, k, s), Now(f, k, s))'
  <2>1. [type |-> "keyboard_enter", keys |-> down[s]] \in Event
    BY <1>t, EventsSent
  <2> PICK e \in Event : e = [type |-> "keyboard_enter", keys |-> down[s]]
    BY <2>1
  <2> PICK c \in Nat : c = bound[s]["keyboard"]
    BY <1>b
  <2>2. /\ events' = events \o [i \in 1 .. c |-> e]
        /\ focus' = [focus EXCEPT ![s] = TRUE] /\ ~focus[s]
        /\ UNCHANGED <<input, bound, down, inside, at>>
    BY <1>5, <1>o DEF KeyboardEnter, Send
  <2>3. /\ HasKeyboard(s)' <=> c # 0
        /\ ~HasKeyboard(s)
        /\ HasPointer(s)' <=> HasPointer(s)
        /\ down' = down /\ at' = at
    BY <2>2, <1>t DEF HasKeyboard, HasPointer, KnowsKeyboard, KnowsPointer
  <2>4. f \in {"key", "keyboard"} /\ c # 0 => Settles(f, k, e) /\ Right(f, k, s, e)'
    BY <2>3 DEF Settles, SettlesKey, Right, SaysKey
  <2>5. f \in {"key", "keyboard"} /\ c = 0 => Same(f, k, s)
    BY <2>3 DEF Same, Held
  <2>6. f \in {"pointer", "position"} =>
          ~Settles(f, k, e) /\ Same(f, k, s) /\ (f = "position" => HasPointer(s))
    BY <2>3 DEF Settles, Same
  <2> QED
    BY <2>2, <2>4, <2>5, <2>6, <1>f, <1>s
<1>6. ASSUME NEW t \in Seat, KeyboardLeave(t)
      PROVE  AfterAll(Settling(f, k), Fine(f, k, s), Now(f, k, s))'
  <2>1. [type |-> "keyboard_leave"] \in Event
    BY EventsSent
  <2> PICK e \in Event : e = [type |-> "keyboard_leave"]
    BY <2>1
  <2> PICK c \in Nat : c = bound[s]["keyboard"]
    BY <1>b
  <2>2. /\ events' = events \o [i \in 1 .. c |-> e]
        /\ focus' = [focus EXCEPT ![s] = FALSE] /\ focus[s]
        /\ UNCHANGED <<input, bound, down, inside, at>>
    BY <1>6, <1>o DEF KeyboardLeave, Send
  <2>3. /\ ~HasKeyboard(s)'
        /\ HasKeyboard(s) <=> c # 0
        /\ HasPointer(s)' <=> HasPointer(s)
        /\ down' = down /\ at' = at
    BY <2>2, <1>t DEF HasKeyboard, HasPointer, KnowsKeyboard, KnowsPointer
  <2>4. f \in {"key", "keyboard"} /\ c # 0 => Settles(f, k, e) /\ Right(f, k, s, e)'
    BY <2>3 DEF Settles, SettlesKey, Right, SaysKey
  <2>5. f \in {"key", "keyboard"} /\ c = 0 => Same(f, k, s)
    BY <2>3 DEF Same, Held
  <2>6. f \in {"pointer", "position"} =>
          ~Settles(f, k, e) /\ Same(f, k, s) /\ (f = "position" => HasPointer(s))
    BY <2>3 DEF Settles, Same
  <2> QED
    BY <2>2, <2>4, <2>5, <2>6, <1>f, <1>s
<1>7. ASSUME NEW t \in Seat, PressKey(t)
      PROVE  AfterAll(Settling(f, k), Fine(f, k, s), Now(f, k, s))'
  <2> PICK q \in Key :
        /\ down' = [down EXCEPT ![s] = IF q \in @ THEN @ \ {q} ELSE @ \cup {q}]
        /\ IF focus[s]
           THEN Send(s, "keyboard", [type |-> "key", key |-> q, pressed |-> q \notin down[s]])
           ELSE UNCHANGED events
    BY <1>7, <1>o DEF PressKey
  <2>1. [type |-> "key", key |-> q, pressed |-> q \notin down[s]] \in Event
    BY EventsSent
  <2> PICK e \in Event : e = [type |-> "key", key |-> q, pressed |-> q \notin down[s]]
    BY <2>1
  <2> PICK c \in Nat : c = IF focus[s] THEN bound[s]["keyboard"] ELSE 0
    BY <1>b
  <2>2. events' = events \o [i \in 1 .. c |-> e]
    <3>1. CASE focus[s]
      BY <3>1 DEF Send
    <3>2. CASE ~focus[s]
      <4>1. <<>> = [i \in 1 .. 0 |-> e] /\ c = 0
        BY <3>2
      <4>2. events' = events \o <<>>
        BY <3>2, ConcatEmptySeq DEF TypeOK
      <4> QED
        BY <4>1, <4>2
    <3> QED
      BY <3>1, <3>2
  <2>3. /\ down'[s] = IF q \in down[s] THEN down[s] \ {q} ELSE down[s] \cup {q}
        /\ UNCHANGED <<input, bound, focus, inside, at>>
    BY <1>7, <1>t DEF PressKey
  <2>4. /\ HasKeyboard(s) <=> c # 0
        /\ HasKeyboard(s)' <=> c # 0
        /\ HasPointer(s)' <=> HasPointer(s)
        /\ at' = at
    BY <2>3, <1>b DEF HasKeyboard, HasPointer, KnowsKeyboard, KnowsPointer
  <2>5. CASE f = "key" /\ k = q /\ c # 0
    <3>1. Settles(f, k, e)
      BY <2>5 DEF Settles, SettlesKey
    <3>2. SaysKey(e, k) <=> k \in down'[s]
      <4>1. e.type = "key" /\ (e.pressed <=> q \notin down[s])
        OBVIOUS
      <4>2. k \in down'[s] <=> q \notin down[s]
        BY <2>3, <2>5
      <4> QED
        BY <4>1, <4>2 DEF SaysKey
    <3>3. Right(f, k, s, e)'
      BY <2>4, <2>5, <3>2 DEF Right, SaysKey
    <3> QED
      BY <2>2, <2>3, <2>5, <3>1, <3>3, <1>s
  <2>6. CASE ~(f = "key" /\ k = q /\ c # 0)
    <3>1. c = 0 \/ ~Settles(f, k, e)
      BY <2>6 DEF Settles, SettlesKey
    <3>2. f = "key" => (Held(k, s)' <=> Held(k, s))
      BY <2>3, <2>4, <2>6 DEF Held
    <3>3. Same(f, k, s) /\ (f = "position" => HasPointer(s))
      BY <2>4, <3>2 DEF Same
    <3> QED
      BY <2>2, <2>3, <3>1, <3>3, <1>s
  <2> QED
    BY <2>5, <2>6
<1>8. ASSUME NEW t \in Seat, PointerMove(t)
      PROVE  AfterAll(Settling(f, k), Fine(f, k, s), Now(f, k, s))'
  <2> PICK xy \in Position :
        /\ at' = [at EXCEPT ![s] = xy]
        /\ Send(s, "pointer", [type |-> IF inside[s] THEN "pointer_motion" ELSE "pointer_enter",
                               xy |-> xy])
    BY <1>8, <1>o DEF PointerMove
  <2>1. [type |-> IF inside[s] THEN "pointer_motion" ELSE "pointer_enter", xy |-> xy] \in Event
    BY EventsSent
  <2> PICK e \in Event :
        e = [type |-> IF inside[s] THEN "pointer_motion" ELSE "pointer_enter", xy |-> xy]
    BY <2>1
  <2> PICK c \in Nat : c = bound[s]["pointer"]
    BY <1>b
  <2>2. /\ events' = events \o [i \in 1 .. c |-> e]
        /\ inside' = [inside EXCEPT ![s] = TRUE] /\ at'[s] = xy
        /\ UNCHANGED <<input, bound, focus, down>>
    BY <1>8, <1>o, <1>t DEF PointerMove, Send
  <2>3. /\ HasPointer(s)' <=> c # 0
        /\ HasPointer(s) <=> c # 0 /\ inside[s]
        /\ HasKeyboard(s)' <=> HasKeyboard(s)
        /\ down' = down
    BY <2>2, <1>t DEF HasKeyboard, HasPointer, KnowsKeyboard, KnowsPointer
  <2>4. /\ e.type = IF inside[s] THEN "pointer_motion" ELSE "pointer_enter"
        /\ e.xy = xy
    OBVIOUS
  <2>5. CASE f = "position"
    <3>1. c # 0 /\ Settles(f, k, e) /\ Right(f, k, s, e)'
      BY <2>2, <2>3, <2>4, <2>5 DEF Settles, Right
    <3> QED
      BY <2>2, <3>1, <1>s
  <2>6. CASE f = "pointer" /\ ~inside[s] /\ c # 0
    <3>1. Settles(f, k, e) /\ Right(f, k, s, e)'
      BY <2>3, <2>4, <2>6 DEF Settles, Right
    <3> QED
      BY <2>2, <2>6, <3>1, <1>s
  <2>7. CASE f # "position" /\ ~(f = "pointer" /\ ~inside[s] /\ c # 0)
    <3>1. c = 0 \/ ~Settles(f, k, e)
      BY <2>4, <2>7 DEF Settles, SettlesKey
    <3>2. Same(f, k, s)
      BY <2>3, <2>7 DEF Same, Held
    <3> QED
      BY <2>2, <2>7, <3>1, <3>2, <1>s
  <2> QED
    BY <2>5, <2>6, <2>7
<1>9. ASSUME NEW t \in Seat, PointerLeave(t)
      PROVE  AfterAll(Settling(f, k), Fine(f, k, s), Now(f, k, s))'
  <2>1. [type |-> "pointer_leave"] \in Event
    BY EventsSent
  <2> PICK e \in Event : e = [type |-> "pointer_leave"]
    BY <2>1
  <2> PICK c \in Nat : c = bound[s]["pointer"]
    BY <1>b
  <2>2. /\ events' = events \o [i \in 1 .. c |-> e]
        /\ inside' = [inside EXCEPT ![s] = FALSE] /\ inside[s]
        /\ UNCHANGED <<input, bound, focus, down, at>>
    BY <1>9, <1>o DEF PointerLeave, Send
  <2>3. /\ ~HasPointer(s)'
        /\ HasPointer(s) <=> c # 0
        /\ HasKeyboard(s)' <=> HasKeyboard(s)
        /\ down' = down
    BY <2>2, <1>t DEF HasKeyboard, HasPointer, KnowsKeyboard, KnowsPointer
  <2>4. f = "pointer" /\ c # 0 => Settles(f, k, e) /\ Right(f, k, s, e)'
    BY <2>3 DEF Settles, Right
  <2>5. f = "pointer" /\ c = 0 => Same(f, k, s)
    BY <2>3 DEF Same
  <2>6. f \in {"key", "keyboard"} => ~Settles(f, k, e) /\ Same(f, k, s)
    BY <2>3 DEF Settles, SettlesKey, Same, Held
  <2>7. f # "position"
    BY <2>3
  <2> QED
    BY <2>2, <2>4, <2>5, <2>6, <2>7, <1>f, <1>s
<1> QED
  BY <1>1, <1>2, <1>3, <1>4, <1>5, <1>6, <1>7, <1>8, <1>9 DEF Next, Client, Compositor
-----------------------------------------------------------------------------
\* The properties.

LEMMA InitReported == Init => Reported
<1> SUFFICES ASSUME Init, NEW s \in Seat, NEW f \in Matter, NEW k \in Nat,
                    f = "key" => k \in TableKey, f = "position" => HasPointer(s)
             PROVE  AfterAll(Settling(f, k), Fine(f, k, s), Now(f, k, s))
  BY DEF Reported
<1>1. Settling(f, k) = {}
  BY DEF Settling, Init
<1>2. ~HasKeyboard(s) /\ ~HasPointer(s)
  BY DEF Init, HasKeyboard, HasPointer
<1>3. Now(f, k, s)
  BY <1>2 DEF Now, Matter, Init
<1> QED
  BY <1>1, <1>3 DEF AfterAll

LEMMA NextReported == TypeOK /\ Reported /\ [Next]_vars => Reported'
<1> SUFFICES ASSUME TypeOK, Reported, [Next]_vars  PROVE Reported'
  OBVIOUS
<1>1. CASE Next
  <2> SUFFICES ASSUME OneSeat, NEW s \in Seat, NEW f \in Matter, NEW k \in Nat,
                      f = "key" => k \in TableKey, f = "position" => HasPointer(s)'
               PROVE  AfterAll(Settling(f, k), Fine(f, k, s), Now(f, k, s))'
    BY DEF Reported
  <2>1. (f = "position" => HasPointer(s)) =>
          AfterAll(Settling(f, k), Fine(f, k, s), Now(f, k, s))
    BY DEF Reported
  <2> QED
    BY <1>1, <2>1, StepReported
<1>2. CASE UNCHANGED vars
  BY <1>2 DEF vars, server, Reported, Settling, Fine, Now, Right, Settles, SettlesKey, SaysKey,
     HasKeyboard, HasPointer, KnowsKeyboard, KnowsPointer, AfterAll
<1> QED
  BY <1>1, <1>2

\* What the three theorems below follow from.
THEOREM Invariance == Spec => [](TypeOK /\ Reported)
BY InitTypeOK, NextTypeOK, InitReported, NextReported, PTL DEF Spec

LEMMA KeysFollow == TypeOK /\ Reported => KeysReported
<1> SUFFICES ASSUME TypeOK, Reported, OneSeat, NEW s \in Seat, NEW k \in TableKey
             PROVE  LET held == HasKeyboard(s) /\ k \in down[s]
                    IN  AfterAll(Positions(LAMBDA e : SettlesKey(e, k)),
                                 Positions(LAMBDA e : SaysKey(e, k) = held),
                                 (k \in input.pressed_keys) = held)
  BY DEF KeysReported, TableKey
<1>1. k \in Nat /\ "key" \in Matter
  BY InputAssumption DEF TableKey, Matter
<1>2. AfterAll(Settling("key", k), Fine("key", k, s), Now("key", k, s))
  BY <1>1 DEF Reported
<1>3. Settling("key", k) = Positions(LAMBDA e : SettlesKey(e, k))
  BY DEF Settling, Settles, Positions
<1>5. ASSUME NEW i \in DOMAIN events, i \in Settling("key", k)
      PROVE  i \in Fine("key", k, s) <=>
               SaysKey(events[i], k) = (HasKeyboard(s) /\ k \in down[s])
  BY DEF Fine, Right, SaysKey
<1>6. Now("key", k, s) <=> (k \in input.pressed_keys) = (HasKeyboard(s) /\ k \in down[s])
  BY DEF Now
<1> QED
  BY <1>2, <1>3, <1>5, <1>6 DEF AfterAll, Positions

LEMMA FocusFollows == TypeOK /\ Reported => FocusReported
<1> SUFFICES ASSUME TypeOK, Reported, OneSeat, NEW s \in Seat
      PROVE  /\ AfterAll(Positions(LAMBDA e : e.type \in {"keyboard_enter", "keyboard_leave"}),
                         Positions(LAMBDA e : (e.type = "keyboard_enter") = HasKeyboard(s)),
                         input.keyboard_entered = HasKeyboard(s))
             /\ AfterAll(Positions(LAMBDA e : e.type \in {"pointer_enter", "pointer_leave"}),
                         Positions(LAMBDA e : (e.type = "pointer_enter") = HasPointer(s)),
                         input.pointer_entered = HasPointer(s))
  BY DEF FocusReported
<1>1. 0 \in Nat /\ "keyboard" \in Matter /\ "pointer" \in Matter
  BY DEF Matter
<1>2. /\ AfterAll(Settling("keyboard", 0), Fine("keyboard", 0, s), Now("keyboard", 0, s))
      /\ AfterAll(Settling("pointer", 0), Fine("pointer", 0, s), Now("pointer", 0, s))
  BY <1>1 DEF Reported
<1>3. /\ HasKeyboard(s) \in BOOLEAN /\ HasPointer(s) \in BOOLEAN
      /\ input.keyboard_entered \in BOOLEAN /\ input.pointer_entered \in BOOLEAN
  BY Truths
<1>4. /\ Settling("keyboard", 0) =
           Positions(LAMBDA e : e.type \in {"keyboard_enter", "keyboard_leave"})
      /\ Fine("keyboard", 0, s) =
           Positions(LAMBDA e : (e.type = "keyboard_enter") = HasKeyboard(s))
      /\ Now("keyboard", 0, s) <=> input.keyboard_entered = HasKeyboard(s)
  BY <1>3 DEF Settling, Settles, Fine, Right, Now, Positions
<1>5. /\ Settling("pointer", 0) =
           Positions(LAMBDA e : e.type \in {"pointer_enter", "pointer_leave"})
      /\ Fine("pointer", 0, s) =
           Positions(LAMBDA e : (e.type = "pointer_enter") = HasPointer(s))
      /\ Now("pointer", 0, s) <=> input.pointer_entered = HasPointer(s)
  BY <1>3 DEF Settling, Settles, Fine, Right, Now, Positions
<1> QED
  BY <1>2, <1>4, <1>5 DEF AfterAll

LEMMA PositionFollows == TypeOK /\ Reported => PositionReported
<1> SUFFICES ASSUME TypeOK, Reported, OneSeat, NEW s \in Seat, HasPointer(s)
      PROVE  AfterAll(Positions(LAMBDA e : e.type \in {"pointer_enter", "pointer_motion"}),
                      Positions(LAMBDA e : e.type \in {"pointer_enter", "pointer_motion"}
                                           /\ e.xy = at[s]),
                      input.pointer_xy = at[s])
  BY DEF PositionReported
<1>1. 0 \in Nat /\ "position" \in Matter
  BY DEF Matter
<1>2. AfterAll(Settling("position", 0), Fine("position", 0, s), Now("position", 0, s))
  BY <1>1 DEF Reported
<1>3. /\ Settling("position", 0) =
           Positions(LAMBDA e : e.type \in {"pointer_enter", "pointer_motion"})
      /\ Fine("position", 0, s) =
           Positions(LAMBDA e : e.type \in {"pointer_enter", "pointer_motion"} /\ e.xy = at[s])
      /\ Now("position", 0, s) <=> input.pointer_xy = at[s]
  BY DEF Settling, Settles, Fine, Right, Now, Positions
<1> QED
  BY <1>2, <1>3 DEF AfterAll

\* With one seat, for any keys and table: once the events on their way are handled, a key
\* of the table is pressed exactly when the compositor shows it held to our surface.
THEOREM KeysAreRight == Spec => []KeysReported
BY Invariance, KeysFollow, PTL

\* With one seat, keyboard_entered and pointer_entered end up as the compositor's focus.
THEOREM FocusIsRight == Spec => []FocusReported
BY Invariance, FocusFollows, PTL

\* With one seat, pointer_x and pointer_y end up where the pointer is.
THEOREM PositionIsRight == Spec => []PositionReported
BY Invariance, PositionFollows, PTL
=============================================================================
