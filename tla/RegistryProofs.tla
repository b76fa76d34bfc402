---------------------------- MODULE RegistryProofs ----------------------------
(***************************************************************************)
(* Proofs about Registry, for every set of offers: the roundtrip of        *)
(* libwl_create sees every global that the compositor has when it answers. *)
(***************************************************************************)
EXTENDS Registry, SequenceTheorems, TLAPS

\* Has the field of this global's interface been set?
Found(n) == field[globals[n].iface] # 0

\* Is the global announced by an event before the d-th?
Coming(n, d) == \E i \in 1 .. Len(events) : i < d /\ events[i] = Msg("global", n)

AllBinds(from) == \A i \in 1 .. Len(requests) : i >= from => requests[i].type = "bind"

NoAnswerBefore(d) ==
  \A i \in 1 .. Len(events) : i < d => events[i].type \in {"global", "global_remove"}

Asked ==
  /\ ~listening /\ events = <<>>
  /\ requests = <<Msg("get_registry", 0), Msg("sync", 0)>>

\* The compositor has read get_registry, the sync is on its way.
Waiting ==
  /\ listening
  /\ requests # <<>> /\ requests[1].type = "sync" /\ AllBinds(2)
  /\ NoAnswerBefore(Len(events) + 1)
  /\ \A n \in there : Wanted(globals[n]) => Found(n) \/ Coming(n, Len(events) + 1)

\* The answer is the d-th event.
Answered(d) ==
  /\ events[d].type = "done" /\ NoAnswerBefore(d)
  /\ \A i \in 1 .. Len(events) : events[i].type = "done" => i = d
  /\ \A n \in answered : Wanted(globals[n]) => Found(n) \/ Coming(n, d)

\* How far the roundtrip is.
Roundtrip ==
  /\ pc = "start" => requests = <<>> /\ events = <<>> /\ ~listening
  /\ pc = "roundtrip" =>
       \/ Asked
       \/ Waiting
       \/ listening /\ AllBinds(1) /\ \E d \in 1 .. Len(events) : Answered(d)
  /\ pc \in {"done", "created", "failed"} =>
       /\ AllBinds(1)
       /\ \A i \in 1 .. Len(events) : events[i].type # "done"
       /\ \A n \in answered : Wanted(globals[n]) => Found(n)
  /\ pc = "failed" => \E i \in Needed : field[i] = 0

\* Announcements name globals.
EventNames ==
  \A i \in 1 .. Len(events) : events[i].type = "global" => events[i].name \in DOMAIN globals

IInv == TypeOK /\ EventNames /\ Roundtrip

EventType(k) ==
  [type : {"global", "global_remove", "done", "error"}, name : 0 .. k]

RequestType(k) == [type : {"get_registry", "sync", "bind"}, name : 0 .. k]
-----------------------------------------------------------------------------
\* Queues.

\* What is left when the first message is taken.
LEMMA Taken ==
  ASSUME NEW S, NEW q \in Seq(S), q # <<>>
  PROVE  /\ Head(q) = q[1] /\ Head(q) \in S /\ Tail(q) \in Seq(S)
         /\ Len(q) \in Nat \ {0} /\ 1 \in 1 .. Len(q)
         /\ Len(Tail(q)) = Len(q) - 1
         /\ \A i \in 1 .. Len(Tail(q)) : i + 1 \in 1 .. Len(q) /\ Tail(q)[i] = q[i + 1]
<1>1. Len(q) \in Nat \ {0}
  BY EmptySeq, LenProperties
<1> QED
  BY <1>1, HeadTailProperties

\* What there is when a message is added.
LEMMA Added ==
  ASSUME NEW S, NEW q \in Seq(S), NEW e \in S
  PROVE  /\ Append(q, e) \in Seq(S) /\ Len(Append(q, e)) = Len(q) + 1 /\ Len(q) \in Nat
         /\ Append(q, e)[Len(q) + 1] = e
         /\ \A i \in 1 .. Len(q) : i \in 1 .. Len(q) + 1 /\ Append(q, e)[i] = q[i]
BY AppendProperties, LenProperties

\* The queues keep their types when a global is added.
LEMMA Wider ==
  ASSUME NEW k \in Nat
  PROVE  /\ \A q \in Seq(EventType(k)) : q \in Seq(EventType(k + 1))
         /\ \A q \in Seq(RequestType(k)) : q \in Seq(RequestType(k + 1))
<1>1. EventType(k) \subseteq EventType(k + 1) /\ RequestType(k) \subseteq RequestType(k + 1)
  BY DEF EventType, RequestType
<1> QED
  BY <1>1

LEMMA Types ==
  TypeOK <=>
  /\ pc \in {"start", "roundtrip", "done", "created", "failed", "aborted", "ended"}
  /\ field \in [Needed -> 0 .. Len(globals)]
  /\ globals \in Seq(Offers) /\ Len(globals) <= MaxNames
  /\ there \subseteq DOMAIN globals /\ answered \subseteq DOMAIN globals
  /\ requests \in Seq(RequestType(Len(globals)))
  /\ events \in Seq(EventType(Len(globals)))
  /\ listening \in BOOLEAN
BY DEF TypeOK, EventType, RequestType

LEMMA GlobalsType ==
  ASSUME TypeOK
  PROVE  /\ Len(globals) \in Nat /\ DOMAIN globals = 1 .. Len(globals)
         /\ \A n \in DOMAIN globals : globals[n] \in Offers
BY LenProperties, ElementOfSeq DEF TypeOK

LEMMA InitHolds == Init => IInv
<1> SUFFICES ASSUME Init  PROVE IInv
  OBVIOUS
<1>0. Len(<<>>) = 0 /\ \A S : <<>> \in Seq(S)
  BY EmptySeq
<1>1. TypeOK
  <2>1. 0 \in 0 .. Len(globals) /\ Len(globals) <= MaxNames
    BY <1>0, RegistryAssumption DEF Init
  <2> QED
    BY <2>1, <1>0, Zenon DEF Init, TypeOK
<1>2. EventNames
  BY <1>0 DEF Init, EventNames
<1>3. Roundtrip
  BY DEF Init, Roundtrip
<1> QED
  BY <1>1, <1>2, <1>3 DEF IInv

LEMMA GetRegistryStep ==
  ASSUME IInv, GetRegistry
  PROVE  IInv'
<1> USE DEF IInv
<1>a. /\ pc = "start" /\ pc' = "roundtrip" /\ events = <<>> /\ ~listening
      /\ requests' = <<Msg("get_registry", 0), Msg("sync", 0)>>
      /\ UNCHANGED <<field, events, globals, there, listening, answered>>
  BY DEF GetRegistry, server, Roundtrip
<1>1. TypeOK'
  <2>1. /\ Msg("get_registry", 0) \in RequestType(Len(globals))
        /\ Msg("sync", 0) \in RequestType(Len(globals))
    BY GlobalsType DEF Msg, RequestType
  <2>2. requests' \in Seq(RequestType(Len(globals)))
    BY <2>1, <1>a
  <2> QED
    BY <2>2, <1>a, Types DEF TypeOK, EventType, RequestType
<1>2. EventNames'
  BY <1>a DEF EventNames
<1>3. Roundtrip'
  BY <1>a DEF Roundtrip, Asked
<1> QED
  BY <1>1, <1>2, <1>3

-----------------------------------------------------------------------------
\* The handlers.

\* on_registry_global never clears a field, and sets the one of a global that is wanted.
LEMMA GlobalHandled ==
  ASSUME IInv, NEW n \in DOMAIN globals, OnRegistryGlobal(n),
         UNCHANGED <<globals, there, answered, listening>>
  PROVE  /\ field' \in [Needed -> 0 .. Len(globals)]
         /\ requests' \in Seq(RequestType(Len(globals)))
         /\ \A m \in DOMAIN globals : Found(m) /\ globals[m].iface \in Needed => Found(m)'
         /\ Wanted(globals[n]) => Found(n)'
         /\ AllBinds(1) => AllBinds(1)'
         /\ AllBinds(2) /\ requests # <<>> =>
              AllBinds(2)' /\ requests' # <<>> /\ requests'[1] = requests[1]
<1> USE DEF IInv
<1> DEFINE g == globals[n]
<1>g. /\ n \in 1 .. Len(globals) /\ Len(globals) \in Nat /\ n # 0 /\ n \in 0 .. Len(globals)
      /\ field \in [Needed -> 0 .. Len(globals)] /\ requests \in Seq(RequestType(Len(globals)))
  BY GlobalsType, Types
<1>1. CASE ~Wanted(g)
  <2>1. UNCHANGED <<field, requests>>
    BY <1>1 DEF OnRegistryGlobal
  <2> QED
    BY <2>1, <1>1, <1>g DEF Found, AllBinds
<1>2. CASE Wanted(g)
  <2>1. /\ field' = [field EXCEPT ![g.iface] = n] /\ g.iface \in Needed
        /\ requests' = Append(requests, Msg("bind", n))
    BY <1>2 DEF OnRegistryGlobal, Wanted
  <2>2. /\ field' \in [Needed -> 0 .. Len(globals)] /\ field'[g.iface] = n
        /\ \A i \in Needed : i # g.iface => field'[i] = field[i]
    BY <2>1, <1>g
  <2>3. Msg("bind", n) \in RequestType(Len(globals)) /\ Msg("bind", n).type = "bind"
    BY <1>g DEF Msg, RequestType
  <2>4. /\ requests' \in Seq(RequestType(Len(globals)))
        /\ Len(requests') = Len(requests) + 1 /\ Len(requests) \in Nat
        /\ requests'[Len(requests) + 1].type = "bind"
        /\ \A i \in 1 .. Len(requests) : requests'[i] = requests[i]
    BY <2>1, <2>3, <1>g, Added
  <2>5. /\ \A m \in DOMAIN globals : Found(m) /\ globals[m].iface \in Needed => Found(m)'
        /\ Found(n)'
    BY <2>2, <1>g DEF Found
  <2>6. AllBinds(1) => AllBinds(1)'
    BY <2>4 DEF AllBinds
  <2>7. AllBinds(2) => AllBinds(2)'
    BY <2>4 DEF AllBinds
  <2>8. requests # <<>> => requests' # <<>> /\ requests'[1] = requests[1]
    <3> SUFFICES ASSUME requests # <<>>  PROVE requests' # <<>> /\ requests'[1] = requests[1]
      OBVIOUS
    <3>1. 1 \in 1 .. Len(requests)
      BY <1>g, Taken
    <3> QED
      BY <3>1, <2>4, EmptySeq
  <2> QED
    BY <2>2, <2>4, <2>5, <2>6, <2>7, <2>8
<1> QED
  BY <1>1, <1>2

LEMMA DispatchStep ==
  ASSUME IInv, Dispatch
  PROVE  IInv'
<1> USE DEF IInv
<1> DEFINE e == Head(events)
<1>q. /\ events \in Seq(EventType(Len(globals))) /\ events # <<>>
      /\ UNCHANGED <<globals, there, listening, answered>>
  BY Types DEF Dispatch, server
<1>t. /\ e = events[1] /\ e \in EventType(Len(globals))
      /\ Tail(events) \in Seq(EventType(Len(globals)))
      /\ Len(events) \in Nat \ {0} /\ 1 \in 1 .. Len(events)
      /\ Len(Tail(events)) = Len(events) - 1
      /\ \A i \in 1 .. Len(Tail(events)) : /\ i + 1 \in 1 .. Len(events)
                                           /\ Tail(events)[i] = events[i + 1]
  BY <1>q, Taken
<1>n. EventNames'
  BY <1>q, <1>t DEF Dispatch, EventNames
<1>d. e.type \in {"global", "global_remove", "done", "error"}
  BY <1>t DEF EventType
<1>1. CASE e.type = "global_remove"
  <2>1. pc' = "aborted" /\ UNCHANGED <<field, requests>> /\ events' = Tail(events)
    BY <1>1 DEF Dispatch
  <2>2. TypeOK'
    BY <2>1, <1>q, <1>t, Types DEF TypeOK, EventType
  <2> QED
    BY <2>1, <2>2, <1>q, <1>n DEF Roundtrip
<1>2. CASE e.type = "error"
  <2>1. pc' = "ended" /\ UNCHANGED <<field, requests, events>>
    BY <1>2 DEF Dispatch
  <2>2. TypeOK'
    BY <2>1, <1>q DEF TypeOK
  <2> QED
    BY <2>1, <2>2, <1>q, <1>n DEF Roundtrip
<1>3. CASE e.type = "done"
  <2>1. pc' = "done" /\ UNCHANGED <<field, requests>> /\ events' = Tail(events)
    BY <1>3 DEF Dispatch
  <2>2. TypeOK'
    BY <2>1, <1>q, <1>t, Types DEF TypeOK, EventType
  <2>3. pc = "roundtrip" /\ ~Asked
    BY <1>3, <1>q, <1>t DEF Dispatch, Dispatching, Roundtrip, Asked
  <2>4. ~Waiting
    BY <1>3, <1>t DEF Waiting, NoAnswerBefore
  <2>5. PICK d \in 1 .. Len(events) : Answered(d) /\ AllBinds(1)
    BY <2>3, <2>4 DEF Roundtrip
  <2>6. d = 1
    BY <2>5, <1>3, <1>t DEF Answered
  <2>7. \A n \in answered : Wanted(globals[n]) => Found(n)
    BY <2>5, <2>6 DEF Answered, Coming
  <2>8. \A i \in 1 .. Len(events') : events'[i].type # "done"
    BY <2>1, <2>5, <2>6, <1>t DEF Answered
  <2>9. Roundtrip'
    BY <2>1, <2>5, <2>7, <2>8, <1>q DEF Roundtrip, Found, AllBinds
  <2> QED
    BY <2>1, <2>2, <2>9, <1>q, <1>n
<1>4. CASE e.type = "global"
  <2> PICK n : n = e.name
    OBVIOUS
  <2>1. /\ OnRegistryGlobal(n) /\ pc' = pc /\ events' = Tail(events)
        /\ pc \in {"roundtrip", "done", "created"} /\ n \in DOMAIN globals
        /\ e = Msg("global", n)
    BY <1>4, <1>t DEF Dispatch, Dispatching, EventNames, EventType, Msg
  <2>2. /\ field' \in [Needed -> 0 .. Len(globals)]
        /\ requests' \in Seq(RequestType(Len(globals)))
        /\ \A m \in DOMAIN globals : Found(m) /\ globals[m].iface \in Needed => Found(m)'
        /\ Wanted(globals[n]) => Found(n)'
        /\ AllBinds(1) => AllBinds(1)'
        /\ AllBinds(2) /\ requests # <<>> =>
             AllBinds(2)' /\ requests' # <<>> /\ requests'[1] = requests[1]
    BY <2>1, <1>q, GlobalHandled
  <2>3. TypeOK'
    BY <2>1, <2>2, <1>q, <1>t, Types DEF TypeOK, EventType, RequestType
  <2>f. \A m \in DOMAIN globals : Wanted(globals[m]) /\ Found(m) => Found(m)'
    BY <2>2 DEF Wanted
  <2>c. ASSUME NEW m \in DOMAIN globals, Wanted(globals[m]), NEW d \in 2 .. Len(events) + 1,
               Coming(m, d)
        PROVE  Found(m)' \/ Coming(m, d - 1)'
    <3>1. PICK i \in 1 .. Len(events) : i < d /\ events[i] = Msg("global", m)
      BY <2>c DEF Coming
    <3>2. CASE i = 1
      <4>1. m = n
        BY <3>1, <3>2, <2>1, <1>t DEF Msg
      <4> QED
        BY <4>1, <2>2, <2>c
    <3>3. CASE i # 1
      <4>1. /\ i - 1 \in 1 .. Len(Tail(events)) /\ i - 1 < d - 1
            /\ Tail(events)[i - 1] = events[i - 1 + 1] /\ i - 1 + 1 = i
        BY <3>1, <3>3, <1>t
      <4> QED
        BY <4>1, <3>1, <2>1 DEF Coming
    <3> QED
      BY <3>2, <3>3
  <2>4. CASE pc = "roundtrip"
    <3>1. ~Asked
      BY <1>q DEF Asked
    <3>2. CASE Waiting
      <4>1. NoAnswerBefore(Len(events) + 1)'
        BY <3>2, <2>1, <1>t DEF Waiting, NoAnswerBefore
      <4>2. ASSUME NEW m \in there, Wanted(globals[m])
            PROVE  Found(m)' \/ Coming(m, Len(events) + 1)'
        <5>1. m \in DOMAIN globals /\ (Found(m) \/ Coming(m, Len(events) + 1))
          BY <4>2, <3>2 DEF Waiting, TypeOK
        <5>2. Len(events') + 1 = Len(events) + 1 - 1 /\ Len(events) + 1 \in 2 .. Len(events) + 1
          BY <2>1, <1>t
        <5> QED
          BY <5>1, <5>2, <4>2, <2>f, <2>c
      <4>3. Waiting'
        BY <4>1, <4>2, <3>2, <2>2, <1>q DEF Waiting
      <4> QED
        BY <4>3, <2>1, <2>2, <2>3, <2>4, <1>n DEF Roundtrip
    <3>3. CASE listening /\ AllBinds(1) /\ \E d \in 1 .. Len(events) : Answered(d)
      <4>1. PICK d \in 1 .. Len(events) : Answered(d)
        BY <3>3
      <4>2. d # 1 /\ d \in 2 .. Len(events) + 1 /\ d - 1 \in 1 .. Len(Tail(events))
            /\ d - 1 + 1 = d
        BY <4>1, <1>4, <1>t DEF Answered
      <4>3. /\ NoAnswerBefore(d - 1)' /\ events'[d - 1].type = "done"
            /\ \A i \in 1 .. Len(events') : events'[i].type = "done" => i = d - 1
        BY <4>1, <4>2, <2>1, <1>t DEF Answered, NoAnswerBefore
      <4>4. ASSUME NEW m \in answered, Wanted(globals[m])
            PROVE  Found(m)' \/ Coming(m, d - 1)'
        <5>1. m \in DOMAIN globals /\ (Found(m) \/ Coming(m, d))
          BY <4>1, <4>4 DEF Answered, TypeOK
        <5> QED
          BY <5>1, <4>2, <4>4, <2>f, <2>c
      <4>5. Answered(d - 1)'
        BY <4>3, <4>4, <1>q DEF Answered
      <4>6. \E k \in 1 .. Len(events') : Answered(k)'
        BY <4>2, <4>5, <2>1
      <4> QED
        BY <4>6, <3>3, <2>1, <2>2, <2>3, <2>4, <1>q, <1>n DEF Roundtrip
    <3> QED
      BY <3>1, <3>2, <3>3, <2>4 DEF Roundtrip
  <2>5. CASE pc \in {"done", "created"}
    <3>1. \A i \in 1 .. Len(events') : events'[i].type # "done"
      BY <2>1, <2>5, <1>t DEF Roundtrip
    <3>2. \A m \in answered : Wanted(globals[m]) => Found(m)'
      BY <2>5, <2>f DEF Roundtrip, TypeOK
    <3> QED
      BY <3>1, <3>2, <2>1, <2>2, <2>3, <2>5, <1>q, <1>n DEF Roundtrip
  <2> QED
    BY <2>1, <2>4, <2>5
<1> QED
  BY <1>1, <1>2, <1>3, <1>4, <1>d

LEMMA CheckGlobalsStep ==
  ASSUME IInv, CheckGlobals
  PROVE  IInv'
<1> USE DEF IInv
<1>a. /\ pc = "done" /\ pc' \in {"created", "failed"}
      /\ pc' = "created" => \A i \in Needed : field[i] # 0
      /\ pc' = "failed" => \E i \in Needed : field[i] = 0
      /\ UNCHANGED <<field, requests, events, globals, there, listening, answered>>
  BY DEF CheckGlobals, server
<1>1. TypeOK' /\ EventNames'
  BY <1>a DEF TypeOK, EventNames
<1>2. Roundtrip'
  BY <1>a DEF Roundtrip, AllBinds, Found
<1> QED
  BY <1>1, <1>2

-----------------------------------------------------------------------------
\* The compositor.

\* An event behind the others.
LEMMA Behind ==
  ASSUME NEW e, events' = Append(events, e), TypeOK,
         e \in EventType(Len(globals)) \/ e \in EventType(Len(globals) + 1)
  PROVE  /\ Len(events) \in Nat /\ Len(events') = Len(events) + 1
         /\ events'[Len(events) + 1] = e
         /\ \A i \in 1 .. Len(events) : i \in 1 .. Len(events') /\ events'[i] = events[i]
         /\ \A i \in 1 .. Len(events') : i \in 1 .. Len(events) \/ i = Len(events) + 1
<1> DEFINE S == EventType(Len(globals)) \cup {e}
<1>1. events \in Seq(S) /\ e \in S
  BY Types
<1>2. Len(events) \in Nat
  BY <1>1, LenProperties
<1> HIDE DEF S
<1> QED
  BY <1>1, <1>2, Added

LEMMA ReadStep ==
  ASSUME IInv, ReadRequest
  PROVE  IInv'
<1> USE DEF IInv
<1> DEFINE r == requests[1]
<1>a. /\ requests # <<>> /\ requests' = Tail(requests)
      /\ UNCHANGED <<pc, field, globals, there>>
      /\ requests \in Seq(RequestType(Len(globals)))
      /\ events \in Seq(EventType(Len(globals)))
  BY Types DEF ReadRequest, client
<1>t. /\ Head(requests) = r /\ r.type \in {"get_registry", "sync", "bind"}
      /\ requests' \in Seq(RequestType(Len(globals))) /\ 1 \in 1 .. Len(requests)
      /\ Len(requests) \in Nat \ {0} /\ Len(requests') = Len(requests) - 1
      /\ \A i \in 1 .. Len(requests') : /\ i + 1 \in 1 .. Len(requests)
                                        /\ requests'[i] = requests[i + 1]
  <2>1. r \in RequestType(Len(globals))
    BY <1>a, Taken
  <2> QED
    BY <2>1, <1>a, Taken DEF RequestType
<1>b. AllBinds(2) => AllBinds(1)'
  BY <1>t DEF AllBinds
<1>c. AllBinds(1) => AllBinds(1)' /\ r.type = "bind"
  BY <1>t DEF AllBinds
<1>1. CASE r.type = "get_registry"
  <2>1. PICK m \in 0 .. Len(globals) : \E s \in [1 .. m -> there] : Announce(s)
    BY <1>1, <1>t DEF ReadRequest
  <2>2. PICK names \in [1 .. m -> there] : Announce(names)
    BY <2>1
  <2>3. /\ m \in Nat /\ DOMAIN names = 1 .. m
        /\ events' = [i \in 1 .. m |-> Msg("global", names[i])]
        /\ there = {names[i] : i \in 1 .. m}
        /\ listening' = TRUE /\ answered' = answered
    <3>1. m \in Nat /\ DOMAIN names = 1 .. m
      BY GlobalsType
    <3>2. /\ events' = [i \in DOMAIN names |-> Msg("global", names[i])]
          /\ there = {names[i] : i \in DOMAIN names}
      BY <2>2 DEF Announce
    <3>3. listening' = (Head(requests).type # "bind" \/ listening)
      BY DEF ReadRequest
    <3>4. answered' = answered
      BY <1>1, <1>t DEF ReadRequest
    <3>5. listening' = TRUE
      BY <1>1, <1>t, <3>3
    <3> QED
      BY <3>1, <3>2, <3>4, <3>5
  <2>4. \A i \in 1 .. m : /\ names[i] \in DOMAIN globals
                          /\ Msg("global", names[i]) \in EventType(Len(globals))
    <3> SUFFICES ASSUME NEW i \in 1 .. m
                 PROVE  /\ names[i] \in DOMAIN globals
                        /\ Msg("global", names[i]) \in EventType(Len(globals))
      OBVIOUS
    <3>1. names[i] \in 1 .. Len(globals) /\ Len(globals) \in Nat
      BY <2>2, GlobalsType DEF TypeOK
    <3> QED
      BY <3>1, GlobalsType DEF Msg, EventType
  <2>5. events' \in Seq(EventType(Len(globals))) /\ Len(events') = m
    BY <2>3, <2>4
  <2>6. TypeOK'
    BY <2>3, <2>5, <1>a, <1>t, Types DEF TypeOK, EventType, RequestType
  <2>7. EventNames'
    BY <2>3, <2>4, <2>5, <1>a DEF EventNames, Msg
  <2>8. CASE pc = "roundtrip"
    <3>1. Asked
      BY <2>8, <1>1, <1>c DEF Roundtrip, Waiting
    <3>2. /\ requests' = <<Msg("sync", 0)>>
      BY <3>1, <1>a DEF Asked
    <3>3. requests' # <<>> /\ requests'[1].type = "sync" /\ AllBinds(2)'
      BY <3>2 DEF Msg, AllBinds
    <3>4. NoAnswerBefore(Len(events) + 1)'
      BY <2>3, <2>5 DEF NoAnswerBefore, Msg
    <3>5. ASSUME NEW n \in there  PROVE Coming(n, Len(events) + 1)'
      <4>1. PICK i \in 1 .. m : n = names[i]
        BY <2>3
      <4> QED
        BY <4>1, <2>3, <2>5 DEF Coming
    <3>6. Waiting'
      BY <3>3, <3>4, <3>5, <2>3, <1>a DEF Waiting
    <3> QED
      BY <3>6, <2>6, <2>7, <2>8, <1>a DEF Roundtrip
  <2>9. CASE pc \in {"aborted", "ended"}
    BY <2>6, <2>7, <2>9, <1>a DEF Roundtrip
  <2>10. pc \notin {"start", "done", "created", "failed"}
    BY <1>1, <1>a, <1>c DEF Roundtrip
  <2> QED
    BY <2>8, <2>9, <2>10 DEF TypeOK
<1>2. CASE r.type = "sync"
  <2> DEFINE e == Msg("done", 0)
  <2> PICK d : d = Len(events) + 1
    OBVIOUS
  <2>1. /\ events' = Append(events, e)
        /\ listening' = TRUE /\ answered' = there
    BY <1>2, <1>t DEF ReadRequest
  <2>2. e \in EventType(Len(globals)) /\ e.type = "done"
    BY GlobalsType DEF Msg, EventType
  <2>3. /\ Len(events) \in Nat /\ Len(events') = Len(events) + 1
        /\ events'[Len(events) + 1] = e
        /\ \A i \in 1 .. Len(events) : i \in 1 .. Len(events') /\ events'[i] = events[i]
        /\ \A i \in 1 .. Len(events') : i \in 1 .. Len(events) \/ i = Len(events) + 1
    BY <2>1, <2>2, Behind
  <2>4. events' \in Seq(EventType(Len(globals)))
    BY <2>1, <2>2, <1>a, Added
  <2> HIDE DEF e
  <2>5. TypeOK'
    BY <2>1, <2>4, <1>a, <1>t, Types DEF TypeOK, EventType, RequestType
  <2>6. EventNames'
    BY <2>2, <2>3, <1>a DEF EventNames
  <2>7. CASE pc = "roundtrip"
    <3>1. Waiting
      BY <2>7, <1>2, <1>c DEF Roundtrip, Asked, Msg
    <3>2. AllBinds(1)'
      BY <3>1, <1>b DEF Waiting
    <3>3. events'[d].type = "done" /\ d \in 1 .. Len(events')
      BY <2>2, <2>3
    <3>4. NoAnswerBefore(d)'
      BY <3>1, <2>3 DEF Waiting, NoAnswerBefore
    <3>5. \A i \in 1 .. Len(events') : events'[i].type = "done" => i = d
      BY <3>1, <2>3 DEF Waiting, NoAnswerBefore
    <3>6. ASSUME NEW n \in there, Wanted(globals[n])  PROVE Found(n)' \/ Coming(n, d)'
      <4>1. Found(n) \/ Coming(n, d)
        BY <3>1, <3>6 DEF Waiting
      <4> QED
        BY <4>1, <2>3, <1>a DEF Found, Coming
    <3>7. Answered(d)'
      BY <3>3, <3>4, <3>5, <3>6, <2>1, <1>a DEF Answered
    <3>8. \E k \in 1 .. Len(events') : Answered(k)'
      BY <3>3, <3>7
    <3> QED
      BY <3>2, <3>8, <2>1, <2>5, <2>6, <2>7, <1>a DEF Roundtrip
  <2>8. CASE pc \in {"aborted", "ended"}
    BY <2>5, <2>6, <2>8, <1>a DEF Roundtrip
  <2>9. pc \notin {"start", "done", "created", "failed"}
    BY <1>2, <1>a, <1>c DEF Roundtrip
  <2> QED
    BY <2>7, <2>8, <2>9 DEF TypeOK
<1>3. CASE r.type = "bind"
  <2> DEFINE e == Msg("error", 0)
  <2>1. /\ events' = events \/ events' = Append(events, e)
        /\ listening' = listening /\ answered' = answered
    BY <1>3, <1>t DEF ReadRequest, TypeOK
  <2>2. e \in EventType(Len(globals)) /\ e.type = "error"
    BY GlobalsType DEF Msg, EventType
  <2>l. Len(events) \in Nat
    BY <1>a, LenProperties
  <2> HIDE DEF e
  <2>3. /\ \A i \in 1 .. Len(events) : i \in 1 .. Len(events') /\ events'[i] = events[i]
        /\ \A i \in 1 .. Len(events') :
             i \in 1 .. Len(events) \/ (i = Len(events) + 1 /\ events'[i].type = "error")
    BY <2>1, <2>2, <2>l, Behind
  <2>4. events' \in Seq(EventType(Len(globals)))
    BY <2>1, <2>2, <1>a, Added
  <2>5. TypeOK'
    BY <2>1, <2>4, <1>a, <1>t, Types DEF TypeOK, EventType, RequestType
  <2>6. EventNames'
    BY <2>3, <1>a DEF EventNames
  <2>7. CASE pc = "roundtrip"
    <3>1. listening /\ AllBinds(1)
      BY <2>7, <1>3 DEF Roundtrip, Asked, Waiting, Msg
    <3>2. PICK d \in 1 .. Len(events) : Answered(d)
      BY <2>7, <1>3 DEF Roundtrip, Asked, Waiting, Msg
    <3>3. d \in 1 .. Len(events') /\ events'[d].type = "done" /\ NoAnswerBefore(d)'
      BY <3>2, <2>3, <2>l DEF Answered, NoAnswerBefore
    <3>4. \A i \in 1 .. Len(events') : events'[i].type = "done" => i = d
      BY <3>2, <2>3 DEF Answered
    <3>5. ASSUME NEW n \in answered, Wanted(globals[n])  PROVE Found(n)' \/ Coming(n, d)'
      <4>1. Found(n) \/ Coming(n, d)
        BY <3>2, <3>5 DEF Answered
      <4> QED
        BY <4>1, <2>3, <1>a DEF Found, Coming
    <3>6. Answered(d)'
      BY <3>3, <3>4, <3>5, <2>1, <1>a DEF Answered
    <3>7. \E k \in 1 .. Len(events') : Answered(k)'
      BY <3>3, <3>6
    <3> QED
      BY <3>1, <3>7, <2>1, <2>5, <2>6, <2>7, <1>a, <1>c DEF Roundtrip
  <2>8. CASE pc \in {"done", "created", "failed"}
    <3>1. \A i \in 1 .. Len(events') : events'[i].type # "done"
      BY <2>3, <2>8 DEF Roundtrip
    <3> QED
      BY <3>1, <2>1, <2>5, <2>6, <2>8, <1>a, <1>c DEF Roundtrip, Found
  <2>9. CASE pc \in {"aborted", "ended"}
    BY <2>5, <2>6, <2>9, <1>a DEF Roundtrip
  <2>10. pc # "start"
    BY <1>a DEF Roundtrip
  <2> QED
    BY <2>7, <2>8, <2>9, <2>10 DEF TypeOK
<1> QED
  BY <1>1, <1>2, <1>3, <1>t

\* What a change of the compositor's globals leaves: at most one event more, that no
\* roundtrip asked for.
LEMMA ChangeStep ==
  ASSUME IInv, NEW e,
         UNCHANGED <<pc, field, requests, listening, answered>>,
         TypeOK', e \in EventType(Len(globals)) \cup EventType(Len(globals) + 1),
         e.type \in {"global", "global_remove"},
         e.type = "global" => e.name \in DOMAIN globals',
         events' = IF listening /\ ~Broken THEN Append(events, e) ELSE events,
         DOMAIN globals \subseteq DOMAIN globals',
         \A n \in DOMAIN globals : globals'[n] = globals[n],
         \A n \in there' : n \in there \/ e = Msg("global", n)
  PROVE  IInv'
<1> USE DEF IInv
<1>g. field \in [Needed -> 0 .. Len(globals)] /\ DOMAIN globals = 1 .. Len(globals)
  BY GlobalsType, Types
<1>l. Len(events) \in Nat
  BY LenProperties, Types
<1>1. /\ \A i \in 1 .. Len(events) : i \in 1 .. Len(events') /\ events'[i] = events[i]
      /\ \A i \in 1 .. Len(events') :
           i \in 1 .. Len(events) \/ (i = Len(events) + 1 /\ events'[i] = e)
      /\ Len(events') \in Nat
  BY <1>l, Behind
<1>2. EventNames'
  BY <1>1 DEF EventNames
<1>f. \A n \in DOMAIN globals : /\ Found(n)' <=> Found(n)
                                /\ Wanted(globals'[n]) <=> Wanted(globals[n])
  BY DEF Found
<1>c. \A n, d : Coming(n, d) => Coming(n, d)'
  BY <1>1 DEF Coming
<1>b. /\ AllBinds(1)' <=> AllBinds(1)
      /\ AllBinds(2)' <=> AllBinds(2)
  BY DEF AllBinds
<1>4. CASE pc = "roundtrip"
  <2>1. CASE Asked
    <3>1. Asked'
      BY <2>1 DEF Asked
    <3> QED
      BY <3>1, <1>2, <1>4 DEF Roundtrip
  <2>2. CASE Waiting
    <3>1. ~Broken
      BY <2>2, <1>l DEF Waiting, Broken, NoAnswerBefore
    <3>2. events' = Append(events, e)
      BY <3>1, <2>2 DEF Waiting
    <3>3. Len(events') = Len(events) + 1 /\ events'[Len(events) + 1] = e
      BY <3>2, Behind
    <3>4. NoAnswerBefore(Len(events) + 1)'
      BY <1>1, <2>2 DEF Waiting, NoAnswerBefore
    <3>5. ASSUME NEW n \in there', Wanted(globals'[n])
          PROVE  Found(n)' \/ Coming(n, Len(events) + 1)'
      <4>1. CASE e = Msg("global", n)
        BY <4>1, <3>3, <1>l DEF Coming
      <4>2. CASE n \in there
        <5>1. Found(n) \/ Coming(n, Len(events) + 1)
          BY <4>2, <3>5, <2>2, <1>f DEF Waiting, TypeOK
        <5>2. Coming(n, Len(events) + 1) => Coming(n, Len(events) + 1)'
          BY <1>1, <1>l, <3>3 DEF Coming
        <5> QED
          BY <5>1, <5>2, <4>2, <1>f DEF TypeOK
      <4> QED
        BY <4>1, <4>2
    <3>6. Waiting'
      BY <3>4, <3>5, <2>2, <1>b DEF Waiting
    <3> QED
      BY <3>6, <1>2, <1>4 DEF Roundtrip
  <2>3. CASE listening /\ AllBinds(1) /\ \E d \in 1 .. Len(events) : Answered(d)
    <3>1. PICK d \in 1 .. Len(events) : Answered(d)
      BY <2>3
    <3>2. d \in 1 .. Len(events') /\ events'[d].type = "done" /\ NoAnswerBefore(d)'
      BY <3>1, <1>1, <1>l DEF Answered, NoAnswerBefore
    <3>3. \A i \in 1 .. Len(events') : events'[i].type = "done" => i = d
      BY <3>1, <1>1 DEF Answered
    <3>4. \A n \in answered : Wanted(globals'[n]) => Found(n)' \/ Coming(n, d)'
      BY <3>1, <1>c, <1>f DEF Answered, TypeOK
    <3>5. Answered(d)'
      BY <3>2, <3>3, <3>4 DEF Answered
    <3>6. \E k \in 1 .. Len(events') : Answered(k)'
      BY <3>2, <3>5
    <3> QED
      BY <3>6, <2>3, <1>b, <1>2, <1>4 DEF Roundtrip
  <2> QED
    BY <2>1, <2>2, <2>3, <1>4 DEF Roundtrip
<1>5. CASE pc = "start"
  BY <1>5, <1>2 DEF Roundtrip
<1>6. CASE pc \in {"done", "created", "failed"}
  <2>1. \A i \in 1 .. Len(events') : events'[i].type # "done"
    BY <1>1, <1>6 DEF Roundtrip
  <2>2. \A n \in answered : Wanted(globals'[n]) => Found(n)'
    BY <1>6, <1>f DEF Roundtrip, TypeOK
  <2> QED
    BY <2>1, <2>2, <1>2, <1>6, <1>b DEF Roundtrip
<1>7. CASE pc \in {"aborted", "ended"}
  BY <1>7, <1>2 DEF Roundtrip
<1> QED
  BY <1>4, <1>5, <1>6, <1>7 DEF TypeOK

LEMMA AddStep ==
  ASSUME IInv, Add
  PROVE  IInv'
<1> USE DEF IInv
<1> PICK m : m = Len(globals)
  OBVIOUS
<1> DEFINE e == Msg("global", m + 1)
<1>1. PICK o \in Offers : globals' = Append(globals, o)
  BY DEF Add
<1>2. /\ m \in Nat /\ m < MaxNames /\ there' = there \cup {m + 1}
      /\ events' = IF listening /\ ~Broken THEN Append(events, e) ELSE events
      /\ UNCHANGED <<pc, field, requests, listening, answered>>
  BY GlobalsType DEF Add, Sent, client
<1>3. /\ globals' \in Seq(Offers) /\ Len(globals') = m + 1
      /\ DOMAIN globals = 1 .. m /\ DOMAIN globals' = 1 .. m + 1
      /\ \A n \in 1 .. m : globals'[n] = globals[n]
  <2>1. globals \in Seq(Offers)
    BY DEF TypeOK
  <2> QED
    BY <1>1, <2>1, Added, LenProperties, GlobalsType
<1>4. /\ e \in EventType(m + 1) /\ e.type = "global" /\ e.name = m + 1
      /\ m + 1 \in 1 .. m + 1 /\ 1 .. m \subseteq 1 .. m + 1
      /\ 0 .. m \subseteq 0 .. m + 1
  BY <1>2 DEF Msg, EventType
<1>5. TypeOK'
  <2>1. requests \in Seq(RequestType(m + 1)) /\ events \in Seq(EventType(m + 1))
    BY <1>2, Wider, Types
  <2>2. events' \in Seq(EventType(m + 1))
    BY <2>1, <1>2, <1>4, Added
  <2>3. /\ field' \in [Needed -> 0 .. m + 1] /\ Len(globals') <= MaxNames
        /\ there' \subseteq DOMAIN globals' /\ answered' \subseteq DOMAIN globals'
    BY <1>2, <1>3, <1>4, RegistryAssumption, Types
  <2> QED
    BY <2>1, <2>2, <2>3, <1>2, <1>3 DEF TypeOK, EventType, RequestType
<1> HIDE DEF e
<1>6. \A n \in there' : n \in there \/ e = Msg("global", n)
  BY <1>2 DEF e
<1> QED
  BY <1>2, <1>3, <1>4, <1>5, <1>6, ChangeStep

LEMMA WithdrawStep ==
  ASSUME IInv, Withdraw
  PROVE  IInv'
<1> USE DEF IInv
<1>1. PICK n \in there : /\ there' = there \ {n}
                         /\ events' = Sent("global_remove", n)
  BY DEF Withdraw
<1> DEFINE e == Msg("global_remove", n)
<1>2. /\ events' = IF listening /\ ~Broken THEN Append(events, e) ELSE events
      /\ UNCHANGED <<pc, field, requests, listening, answered, globals>>
  BY <1>1 DEF Withdraw, Sent, client
<1>3. e \in EventType(Len(globals)) /\ e.type = "global_remove"
  <2>1. n \in 1 .. Len(globals) /\ Len(globals) \in Nat
    BY GlobalsType DEF TypeOK
  <2> QED
    BY <2>1 DEF Msg, EventType
<1>4. events' \in Seq(EventType(Len(globals)))
  BY <1>2, <1>3, Added, Types
<1> HIDE DEF e
<1>5. TypeOK'
  BY <1>1, <1>2, <1>4, Types DEF TypeOK, EventType, RequestType
<1> QED
  BY <1>1, <1>2, <1>3, <1>5, ChangeStep

\* The invariant is inductive.
THEOREM Invariance == Spec => []IInv
<1>1. Init => IInv
  BY InitHolds
<1>2. IInv /\ [Next]_vars => IInv'
  <2> SUFFICES ASSUME IInv, [Next]_vars  PROVE IInv'
    OBVIOUS
  <2>1. CASE Client
    BY <2>1, GetRegistryStep, DispatchStep, CheckGlobalsStep DEF Client
  <2>2. CASE ReadRequest \/ Add \/ Withdraw
    BY <2>2, ReadStep, AddStep, WithdrawStep
  <2>3. CASE UNCHANGED vars
    <3>1. UNCHANGED <<pc, field, requests, events, globals, there, listening, answered>>
      BY <2>3 DEF vars, client, server
    <3>2. TypeOK' /\ EventNames'
      BY <3>1 DEF IInv, TypeOK, EventNames
    <3>3. Roundtrip'
      BY <3>1 DEF IInv, Roundtrip, Asked, Waiting, Answered, AllBinds, NoAnswerBefore,
                  Found, Coming
    <3> QED
      BY <3>2, <3>3 DEF IInv
  <2> QED
    BY <2>1, <2>2, <2>3 DEF Next
<1> QED
  BY <1>1, <1>2, PTL DEF Spec

\* Every variable of the registry's two sides has its type.
THEOREM TypeCorrect == Spec => []TypeOK
<1>1. IInv => TypeOK
  BY DEF IInv
<1> QED
  BY <1>1, Invariance, PTL

\* Whatever comes and goes while libwl_create waits: it misses no global that was there
\* when the compositor answered.
THEOREM NothingMissed == Spec => []FindsWhatIsThere
<1>1. IInv => FindsWhatIsThere
  <2> SUFFICES ASSUME IInv, pc = "failed"
               PROVE  \E i \in Needed : \A n \in answered :
                        globals[n].iface = i => ~Wanted(globals[n])
    BY DEF FindsWhatIsThere
  <2>1. PICK i \in Needed : field[i] = 0
    BY DEF IInv, Roundtrip
  <2> QED
    BY <2>1 DEF IInv, Roundtrip, Found
<1> QED
  BY <1>1, Invariance, PTL
=============================================================================
