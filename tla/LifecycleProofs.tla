--------------------------- MODULE LifecycleProofs ---------------------------
(***************************************************************************)
(* Proofs about Lifecycle, for every number of buffers: whatever fails on  *)
(* the way, what exists is what the handles of struct Libwl say, but for   *)
(* what the sequence that is running has freed already.                    *)
(***************************************************************************)
EXTENDS Lifecycle, TLAPS

\* Freed in this pass of destroy_buffer or libwl_destroy; its handle is stale.
Gone(o) ==
  \/ /\ pc = "free_buffers" /\ o[1] \in BufferKind
     /\ o[2] < slot \/ (o[2] = slot /\ o[1] # "dup" /\ BufferFree[o[1]] < n)
  \/ /\ pc = "buffers" /\ resizing /\ o[1] \in BufferKind
     /\ o[2] > slot \/ (o[2] = slot /\ n = 0)
  \/ /\ pc = "destroy"
     /\ o[1] \in BufferKind \/ (o[1] \in DOMAIN LibFree /\ LibFree[o[1]] < n)
  \/ pc = "destroyed"

Ended == pc \in {"aborted", "exited"}

\* Objects whose existence their handle tells: not the arena, the event loop and the
\* duplicated descriptor.
Told == {o \in Object : o[1] \notin {"arena", "event", "dup"}}

HandlesTell ==
  ~Ended => \A o \in Told : o \in live <=> (handle[o] = "set" /\ ~Gone(o))

\* A duplicate lives from dup to vkAllocateMemory.
DupsShort ==
  ~Ended => \A s \in Slot : <<"dup", s>> \in live <=> (pc = "buffers" /\ s = slot /\ n = 4)

\* How far libwl_create has come.
LibsMade ==
  /\ pc = "create" =>
       \A k \in DOMAIN LibMake :
         LibMake[k] < n => Lib(k) \in live /\ handle[Lib(k)] = "set"
  /\ pc = "create" =>
       \A k \in LibKind \ {"arena", "event"} :
         Lib(k) \in live => k \in DOMAIN LibMake /\ LibMake[k] < n
  /\ (pc \in {"buffers", "ready", "loop"} \/ (pc = "free_buffers" /\ resizing)) =>
       \A k \in DOMAIN LibMake : Lib(k) \in live /\ handle[Lib(k)] = "set"

\* How far create_buffer has come.
BuffersStand ==
  \A s \in Slot, k \in BufferKind \ {"dup"} :
    /\ pc \in {"start", "create"} => <<k, s>> \notin live
    /\ pc \in {"ready", "loop"} \/ (pc = "buffers" /\ s < slot) =>
         (<<k, s>> \in live <=> k # "dmabuf_fd")
    /\ pc = "buffers" /\ s = slot => (<<k, s>> \in live <=> BufferMake[k] < n)
    /\ pc = "buffers" /\ s > slot => <<k, s>> \notin live

\* Where the sequences are, and what setup_vulkan has allocated.
Places ==
  /\ pc = "create" => n <= 13
  /\ pc = "buffers" => n <= 8 /\ (slot = NumBuffers => n = 0)
  /\ pc = "free_buffers" => n <= 6 /\ (slot = NumBuffers => n = 0)
  /\ resizing => pc \in {"free_buffers", "buffers", "aborted", "exited"}
  /\ pc = "start" => live = {}
  /\ pc = "create" /\ n = 7 => scratch <= 1
  /\ pc = "create" /\ n = 8 => scratch <= 3
  /\ scratch # 0 => pc = "create" /\ n \in 7 .. 10

\* libwl_destroy begins with the frame callback.
CallbackFirst ==
  pc = "destroy" \/ (pc = "free_buffers" /\ ~resizing) =>
    handle[Lib("frame_callback")] # "set"

IInv == /\ TypeOK /\ HandlesTell /\ DupsShort /\ LibsMade /\ BuffersStand
        /\ Places /\ CallbackFirst

-----------------------------------------------------------------------------
\* The tables.

\* libwl_destroy frees everything but the arena, the event loop and the callback, each
\* at a step of its own and before what it needs.
LEMMA LibFreeFacts ==
  /\ DOMAIN LibFree = LibKind \ {"arena", "event", "frame_callback"}
  /\ \A k \in DOMAIN LibFree : LibFree[k] \in 0 .. 15
  /\ \A j, k \in DOMAIN LibFree : LibFree[j] = LibFree[k] => j = k
  /\ \A j, k \in DOMAIN LibFree : j \in Parents[k] => LibFree[k] < LibFree[j]
BY DEF LibFree, LibKind, Parents

\* destroy_buffer frees everything but the duplicate, each at a step of its own.
LEMMA BufferFreeFacts ==
  /\ DOMAIN BufferFree = BufferKind \ {"dup"}
  /\ \A k \in DOMAIN BufferFree : BufferFree[k] \in 0 .. 6
  /\ \A j, k \in DOMAIN BufferFree : BufferFree[j] = BufferFree[k] => j = k
BY DEF BufferFree, BufferKind

\* create_buffer makes one object in each of its steps.
LEMMA BufferMakeFacts ==
  /\ DOMAIN BufferMake = BufferKind
  /\ \A k \in BufferKind : BufferMake[k] \in 0 .. 7
  /\ \A j, k \in BufferKind : BufferMake[j] = BufferMake[k] => j = k
  /\ BufferMake["bo"] = 0 /\ BufferMake["dmabuf_fd"] = 1
  /\ BufferMake["dup"] = 3 /\ BufferMake["memory"] = 4
BY DEF BufferMake, BufferKind

\* libwl_create makes everything that does not come with the events or the frames, and
\* what an object needs no later than the object.
LEMMA LibMakeFacts ==
  /\ DOMAIN LibMake = LibKind \ {"event", "frame_callback", "pointer", "keyboard"}
  /\ \A k \in DOMAIN LibMake : LibMake[k] \in 0 .. 13
  /\ \A k \in DOMAIN LibMake :
       \A j \in Parents[k] : j \in DOMAIN LibMake /\ LibMake[j] <= LibMake[k]
BY DEF LibMake, LibKind, Parents

LEMMA ObjectFacts ==
  /\ LibKind \cap BufferKind = {}
  /\ \A k \in LibKind : Lib(k) \in Object /\ Lib(k)[1] = k
  /\ \A k \in BufferKind, s \in Slot : <<k, s>> \in Object
  /\ \A o \in Object : \/ o[1] \in LibKind /\ o = Lib(o[1])
                       \/ o[1] \in BufferKind /\ o[2] \in Slot /\ o = <<o[1], o[2]>>
  /\ {"arena", "event", "frame_callback", "pointer", "keyboard", "dev"} \subseteq LibKind
  /\ {"bo", "dmabuf_fd", "dup", "memory"} \subseteq BufferKind
BY DEF LibKind, BufferKind, Object, Lib

\* Parents of what is made and freed are objects of libwl_create.
LEMMA ParentsFacts ==
  /\ \A k \in BufferKind : Parents[k] \subseteq DOMAIN LibMake
  /\ \A k \in LibKind : Parents[k] \subseteq DOMAIN LibFree
  /\ \A k \in LibKind \cup BufferKind : Parents[k] \subseteq LibKind
BY DEF Parents, LibKind, BufferKind, LibMake, LibFree

-----------------------------------------------------------------------------
\* Every step keeps the invariant.

LEMMA InitHolds == Init => IInv
<1> SUFFICES ASSUME Init  PROVE IInv
  OBVIOUS
<1> USE DEF Init
<1>0. handle \in [Object -> {"zero", "set", "minus"}]
  OBVIOUS
<1>a. /\ 0 \in 0 .. NumBuffers /\ 0 \in 0 .. 15 /\ 0 \in 0 .. 4
      /\ {} \subseteq Slot /\ {} \subseteq Object
  BY ConstantsAssumption
<1>1. TypeOK
  BY <1>0, <1>a, Zenon DEF TypeOK
<1>2. HandlesTell /\ DupsShort
  BY DEF HandlesTell, DupsShort, Told, Gone, Ended
<1>3. LibsMade /\ BuffersStand
  BY DEF LibsMade, BuffersStand
<1>4. Places /\ CallbackFirst
  BY DEF Places, CallbackFirst
<1> QED
  BY <1>1, <1>2, <1>3, <1>4 DEF IInv

\* What a constructor that worked leaves.
LEMMA MadeFacts ==
  ASSUME TypeOK, NEW os \in SUBSET Object, Made(os)
  PROVE  /\ live' = live \cup os /\ live' \subseteq Object
         /\ handle' \in [Object -> {"zero", "set", "minus"}]
         /\ \A o \in Object : handle'[o] = IF o \in os THEN "set" ELSE handle[o]
BY DEF Made, TypeOK

\* What "if (lib->x) destroy(lib->x)" leaves.
LEMMA FreedFacts ==
  ASSUME TypeOK, NEW o \in Object, Freed(o)
  PROVE  /\ live' \subseteq Object /\ stdin' \in BOOLEAN
         /\ \A p \in Object : p \in live' <=> (p \in live /\ ~(p = o /\ handle[o] = "set"))
BY DEF Freed, TypeOK

LEMMA BeginStep ==
  ASSUME IInv, Begin
  PROVE  IInv'
<1> USE DEF Begin, Goto, IInv
<1>1. TypeOK'
  BY ConstantsAssumption DEF TypeOK
<1>2. live \subseteq {Lib("arena"), Lib("event")}
  BY ObjectFacts DEF HandlesTell, Told, Gone, Ended, DupsShort, Places, TypeOK, Lib
<1>3. HandlesTell'
  BY <1>2 DEF HandlesTell, Told, Gone, Ended, Lib
<1>4. DupsShort'
  BY <1>2 DEF DupsShort, Lib
<1>l. \A k \in LibKind \ {"arena", "event"} : Lib(k) \notin live
  BY <1>2 DEF Lib
<1>5. LibsMade' /\ Places' /\ CallbackFirst'
  BY <1>l, LibMakeFacts DEF LibsMade, Places, CallbackFirst, TypeOK
<1>6. BuffersStand'
  BY <1>2, ObjectFacts DEF BuffersStand, Lib
<1> QED
  BY <1>1, <1>3, <1>4, <1>5, <1>6

LEMMA ConnectStep ==
  ASSUME IInv, Connect
  PROVE  IInv'
<1> USE DEF Connect, Goto, IInv
<1> DEFINE os == LibMadeAt(n)
<1>0. os \in SUBSET Object /\ Made(os)
  BY ObjectFacts, LibMakeFacts DEF LibMadeAt
<1>m. \A o \in Object : o \in os <=> \E k \in DOMAIN LibMake : LibMake[k] = n /\ o = Lib(k)
  BY DEF LibMadeAt
<1> HIDE DEF os
<1>2. /\ live' = live \cup os /\ live' \subseteq Object
      /\ handle' \in [Object -> {"zero", "set", "minus"}]
      /\ \A o \in Object : handle'[o] = IF o \in os THEN "set" ELSE handle[o]
  BY <1>0, MadeFacts
<1>a. pc' \in {"create"} /\ slot' \in 0 .. NumBuffers /\ n' \in 0 .. 15
  BY ConstantsAssumption DEF TypeOK
<1>1. TypeOK'
  BY <1>2, <1>a DEF TypeOK
<1>3. HandlesTell'
  BY <1>2 DEF HandlesTell, Told, Gone, Ended, TypeOK
<1>d. \A s \in Slot : <<"dup", s>> \notin os
  BY <1>m, ObjectFacts, LibMakeFacts DEF Lib
<1>4. DupsShort'
  BY <1>2, <1>d DEF DupsShort, Ended
<1>5. LibsMade'
  BY <1>2, <1>m, LibMakeFacts, ObjectFacts DEF LibsMade, TypeOK
<1>6. BuffersStand'
  BY <1>2, <1>m, ObjectFacts, LibMakeFacts DEF BuffersStand, Lib
<1>7. Places' /\ CallbackFirst'
  BY DEF Places, CallbackFirst, TypeOK
<1> QED
  BY <1>1, <1>3, <1>4, <1>5, <1>6, <1>7

LEMMA GlobalsMissingStep ==
  ASSUME IInv, GlobalsMissing
  PROVE  IInv'
<1> USE DEF GlobalsMissing, Goto, IInv
<1>0. PICK os \in SUBSET LibMadeAt(3) : Made(os)
  OBVIOUS
<1>m. /\ os \in SUBSET Object
      /\ \A o \in os : \E k \in DOMAIN LibMake : o = Lib(k)
  BY ObjectFacts, LibMakeFacts DEF LibMadeAt
<1>2. /\ live' = live \cup os /\ live' \subseteq Object
      /\ handle' \in [Object -> {"zero", "set", "minus"}]
      /\ \A o \in Object : handle'[o] = IF o \in os THEN "set" ELSE handle[o]
  BY <1>0, <1>m, MadeFacts
<1>a. pc' = "failed" /\ slot' \in 0 .. NumBuffers /\ n' \in 0 .. 15
  BY ConstantsAssumption
<1>1. TypeOK'
  BY <1>2, <1>a DEF TypeOK
<1>3. HandlesTell'
  BY <1>2 DEF HandlesTell, Told, Gone, Ended, TypeOK
<1>d. \A s \in Slot : <<"dup", s>> \notin os
  BY <1>m, ObjectFacts, LibMakeFacts DEF Lib
<1>4. DupsShort'
  BY <1>2, <1>d DEF DupsShort, Ended
<1>5. LibsMade' /\ BuffersStand' /\ CallbackFirst'
  BY DEF LibsMade, BuffersStand, CallbackFirst
<1>6. Places'
  BY DEF Places
<1> QED
  BY <1>1, <1>3, <1>4, <1>5, <1>6

LEMMA ConnectFailsStep ==
  ASSUME IInv, ConnectFails
  PROVE  IInv'
<1> USE DEF ConnectFails, Goto, IInv
<1>a. pc' = "failed" /\ slot' \in 0 .. NumBuffers /\ n' \in 0 .. 15
  BY ConstantsAssumption
<1>h. /\ Lib("drm_fd") \in Object /\ Lib("drm_fd") \in Told
      /\ "drm_fd" \in LibKind \ {"arena", "event"} /\ LibMake["drm_fd"] = 4
  BY DEF Lib, Object, LibKind, Told, LibMake
<1>2. handle' \in [Object -> {"zero", "set", "minus"}]
  BY DEF TypeOK
<1>1. TypeOK'
  BY <1>a, <1>2 DEF TypeOK
<1>n. n = 4 => Lib("drm_fd") \notin live
  BY <1>h DEF LibsMade
<1>3. HandlesTell'
  BY <1>n, <1>h DEF HandlesTell, Told, Gone, Ended, TypeOK
<1>4. DupsShort' /\ LibsMade' /\ BuffersStand' /\ CallbackFirst' /\ Places'
  BY DEF DupsShort, Ended, LibsMade, BuffersStand, CallbackFirst, Places
<1> QED
  BY <1>1, <1>3, <1>4

LEMMA SetUpVulkanStep ==
  ASSUME IInv, SetUpVulkan
  PROVE  IInv'
<1> USE DEF SetUpVulkan, Goto, IInv
<1> DEFINE os == LibMadeAt(n)
<1>0. os \in SUBSET Object /\ Made(os)
  BY ObjectFacts, LibMakeFacts DEF LibMadeAt
<1>m. \A o \in Object : o \in os <=> \E k \in DOMAIN LibMake : LibMake[k] = n /\ o = Lib(k)
  BY DEF LibMadeAt
<1> HIDE DEF os
<1>2. /\ live' = live \cup os /\ live' \subseteq Object
      /\ handle' \in [Object -> {"zero", "set", "minus"}]
      /\ \A o \in Object : handle'[o] = IF o \in os THEN "set" ELSE handle[o]
  BY <1>0, MadeFacts
<1>s. /\ scratch' \in 0 .. 4
      /\ n = 6 => scratch' <= 1
      /\ n = 7 => scratch' <= 3
      /\ n = 10 => scratch' = 0
  BY DEF TypeOK, Places
<1>a. pc' = "create" /\ slot' \in 0 .. NumBuffers /\ n' \in 0 .. 15
  BY ConstantsAssumption DEF TypeOK
<1>1. TypeOK'
  BY <1>2, <1>a, <1>s DEF TypeOK
<1>3. HandlesTell'
  BY <1>2 DEF HandlesTell, Told, Gone, Ended, TypeOK
<1>d. \A s \in Slot : <<"dup", s>> \notin os
  BY <1>m, ObjectFacts, LibMakeFacts DEF Lib
<1>4. DupsShort'
  BY <1>2, <1>d DEF DupsShort, Ended
<1>5. LibsMade'
  BY <1>2, <1>m, LibMakeFacts, ObjectFacts DEF LibsMade, TypeOK
<1>6. BuffersStand'
  BY <1>2, <1>m, ObjectFacts, LibMakeFacts DEF BuffersStand, Lib
<1>7. Places' /\ CallbackFirst'
  BY <1>s DEF Places, CallbackFirst, TypeOK
<1> QED
  BY <1>1, <1>3, <1>4, <1>5, <1>6, <1>7

LEMMA SetUpVulkanFailsStep ==
  ASSUME IInv, SetUpVulkanFails
  PROVE  IInv'
<1> USE DEF SetUpVulkanFails, Goto, IInv, resources
<1>a. pc' = "failed" /\ slot' \in 0 .. NumBuffers /\ n' \in 0 .. 15 /\ scratch' \in 0 .. 4
  BY ConstantsAssumption
<1>1. TypeOK'
  BY <1>a DEF TypeOK
<1>3. HandlesTell'
  BY DEF HandlesTell, Told, Gone, Ended
<1>4. DupsShort' /\ LibsMade' /\ BuffersStand' /\ CallbackFirst' /\ Places'
  BY DEF DupsShort, Ended, LibsMade, BuffersStand, CallbackFirst, Places
<1> QED
  BY <1>1, <1>3, <1>4

LEMMA MakeWindowStep ==
  ASSUME IInv, MakeWindow
  PROVE  IInv'
<1> USE DEF IInv
<1> DEFINE os == LibMadeAt(n)
<1>0. os \in SUBSET Object /\ Made(os)
  BY ObjectFacts, LibMakeFacts DEF LibMadeAt, MakeWindow
<1>m. \A o \in Object : o \in os <=> \E k \in DOMAIN LibMake : LibMake[k] = n /\ o = Lib(k)
  BY DEF LibMadeAt
<1> HIDE DEF os
<1>2. /\ live' = live \cup os /\ live' \subseteq Object
      /\ handle' \in [Object -> {"zero", "set", "minus"}]
      /\ \A o \in Object : handle'[o] = IF o \in os THEN "set" ELSE handle[o]
  BY <1>0, MadeFacts
<1>a. pc' \in {"create", "buffers"} /\ slot' \in 0 .. NumBuffers /\ n' \in 0 .. 15
  BY ConstantsAssumption DEF TypeOK, MakeWindow, Goto
<1>p. /\ n < 13 => pc' = "create" /\ n' = n + 1
      /\ n = 13 => pc' = "buffers" /\ n' = 0 /\ slot' = 0
      /\ n \in 11 .. 13 /\ ~resizing /\ ~resizing' /\ scratch' = 0
  BY DEF Places, TypeOK, MakeWindow, Goto
<1>q. pc' = "create" \/ (pc' = "buffers" /\ n' = 0 /\ slot' = 0 /\ n' # 4)
  BY DEF TypeOK, MakeWindow, Goto
<1>u. pc = "create" /\ UNCHANGED <<resizing, stdin, extra, scratch, gpu>>
  BY DEF MakeWindow
<1>1. TypeOK'
  BY <1>2, <1>a, <1>u DEF TypeOK
<1>3. HandlesTell'
  BY <1>2, <1>p, <1>u DEF HandlesTell, Told, Gone, Ended, TypeOK
<1>d. \A k \in BufferKind, s \in Slot : <<k, s>> \notin os
  BY <1>m, ObjectFacts, LibMakeFacts DEF Lib
<1>e. \A s \in Slot : <<"dup", s>> \notin live
  BY <1>u DEF DupsShort, Ended
<1>f. \A s \in Slot : <<"dup", s>> \notin live'
  BY <1>2, <1>d, <1>e, ObjectFacts
<1>4. DupsShort'
  BY <1>f, <1>q DEF DupsShort, Ended
<1>5. LibsMade'
  BY <1>2, <1>m, <1>p, <1>u, LibMakeFacts, ObjectFacts DEF LibsMade, TypeOK
<1>g. \A s \in Slot, k \in BufferKind \ {"dup"} : <<k, s>> \notin live'
  BY <1>2, <1>d, <1>u DEF BuffersStand
<1>r. \A s \in Slot, k \in BufferKind \ {"dup"} :
        /\ pc' \notin {"ready", "loop"}
        /\ pc' = "buffers" => ~(s < slot') /\ ~(BufferMake[k] < n')
  BY <1>q, BufferMakeFacts DEF Slot
<1>6. BuffersStand'
  BY <1>r, <1>g, <1>q, BufferMakeFacts DEF BuffersStand, Slot
<1>7. Places' /\ CallbackFirst'
  BY <1>p, <1>u, ConstantsAssumption DEF Places, CallbackFirst, TypeOK
<1> QED
  BY <1>1, <1>3, <1>4, <1>5, <1>6, <1>7

\* The slots that create_buffer works on.
LEMMA SlotFacts ==
  ASSUME TypeOK, slot < NumBuffers
  PROVE  slot \in Slot /\ slot + 1 \in 0 .. NumBuffers
BY ConstantsAssumption DEF TypeOK, Slot

LEMMA MakeBoStep ==
  ASSUME IInv, MakeBo
  PROVE  IInv'
<1> USE DEF IInv
<1>a. /\ pc = "buffers" /\ n = 0 /\ n # 4 /\ slot < NumBuffers
      /\ pc' = "buffers" /\ slot' = slot /\ n' = 1 /\ n' # 4
      /\ live' = live \cup {<<"bo", slot>>}
      /\ UNCHANGED <<resizing, stdin, extra, scratch, gpu>>
  BY DEF MakeBo, Goto
<1>s. slot \in Slot /\ <<"bo", slot>> \in Object
  BY <1>a, SlotFacts, ObjectFacts
<1>h. /\ handle' \in [Object -> {"zero", "set", "minus"}]
      /\ \A o \in Object :
           handle'[o] = IF o = <<"bo", slot>> THEN "set"
                        ELSE IF o[2] = slot /\ o[1] \in BufferKind
                        THEN IF o[1] = "dmabuf_fd" THEN "minus" ELSE "zero"
                        ELSE handle[o]
  BY <1>s DEF MakeBo, Fresh, TypeOK
<1>1. TypeOK'
  BY <1>a, <1>s, <1>h DEF TypeOK
<1>n. \A k \in BufferKind \ {"dup"} : <<k, slot>> \notin live
  <2> SUFFICES ASSUME NEW k \in BufferKind \ {"dup"}  PROVE <<k, slot>> \notin live
    OBVIOUS
  <2>1. ~(BufferMake[k] < 0)
    BY BufferMakeFacts
  <2> QED
    BY <1>a, <1>s, <2>1 DEF BuffersStand
<1>3. HandlesTell'
  <2> SUFFICES ASSUME NEW o \in Told
               PROVE  o \in live' <=> (handle'[o] = "set" /\ ~Gone(o)')
    BY DEF HandlesTell
  <2>o. o \in Object /\ o[1] # "dup"
    BY DEF Told
  <2>1. CASE o = <<"bo", slot>>
    <3>1. o[1] = "bo" /\ o[2] = slot /\ ~(slot > slot)
      BY <2>1 DEF TypeOK
    <3>2. ~Gone(o)'
      BY <3>1, <1>a DEF Gone
    <3> QED
      BY <2>1, <3>2, <1>a, <1>h, <1>s
  <2>2. CASE o # <<"bo", slot>> /\ o[2] = slot /\ o[1] \in BufferKind
    <3>1. o \notin live
      BY <2>2, <2>o, <1>n, ObjectFacts
    <3>2. handle'[o] # "set"
      BY <2>2, <2>o, <1>h
    <3> QED
      BY <3>1, <3>2, <2>2, <1>a
  <2>3. CASE ~(o[2] = slot /\ o[1] \in BufferKind)
    <3>1. Gone(o)' <=> Gone(o)
      BY <2>3, <1>a DEF Gone
    <3>2. o # <<"bo", slot>>
      BY <2>3, ObjectFacts
    <3> QED
      BY <3>1, <3>2, <2>3, <2>o, <1>a, <1>h DEF HandlesTell, Ended
  <2> QED
    BY <2>1, <2>2, <2>3
<1>4. DupsShort'
  BY <1>a, <1>s DEF DupsShort, Ended
<1>5. LibsMade'
  BY <1>a, <1>h, <1>s, LibMakeFacts, ObjectFacts DEF LibsMade, Lib
<1>6. BuffersStand'
  <2> SUFFICES ASSUME NEW s \in Slot, NEW k \in BufferKind \ {"dup"}
               PROVE  /\ s < slot => (<<k, s>> \in live' <=> k # "dmabuf_fd")
                      /\ s = slot => (<<k, s>> \in live' <=> BufferMake[k] < 1)
                      /\ s > slot => <<k, s>> \notin live'
    BY <1>a DEF BuffersStand
  <2>1. BufferMake[k] < 1 <=> k = "bo"
    <3>1. k # "bo" => BufferMake[k] # BufferMake["bo"]
      BY BufferMakeFacts, ObjectFacts
    <3>2. BufferMake[k] \in 0 .. 7 /\ BufferMake["bo"] = 0
      BY BufferMakeFacts
    <3> QED
      BY <3>1, <3>2
  <2>2. s # slot => (<<k, s>> \in live' <=> <<k, s>> \in live)
    BY <1>a
  <2>3. (s < slot => s # slot) /\ (s > slot => s # slot)
    BY <1>s DEF Slot
  <2> QED
    BY <2>1, <2>2, <2>3, <1>a, <1>n DEF BuffersStand
<1>7. Places' /\ CallbackFirst'
  BY <1>a DEF Places, CallbackFirst, TypeOK
<1> QED
  BY <1>1, <1>3, <1>4, <1>5, <1>6, <1>7

LEMMA MakeBoFailsStep ==
  ASSUME IInv, MakeBoFails
  PROVE  IInv'
<1> USE DEF IInv
<1>a. /\ pc = "buffers" /\ n = 0 /\ n # 4 /\ slot < NumBuffers
      /\ pc' = IF resizing THEN "aborted" ELSE "failed"
      /\ slot' = 0 /\ n' = 0 /\ n' # 4 /\ 0 \in 0 .. NumBuffers /\ 0 \in 0 .. 15
      /\ UNCHANGED <<resizing, live, stdin, extra, scratch, gpu>>
  BY ConstantsAssumption DEF MakeBoFails, Goto
<1>s. slot \in Slot
  BY <1>a, SlotFacts
<1>h. /\ handle' \in [Object -> {"zero", "set", "minus"}]
      /\ \A o \in Object :
           handle'[o] = IF o[2] = slot /\ o[1] \in BufferKind
                        THEN IF o[1] = "dmabuf_fd" THEN "minus" ELSE "zero"
                        ELSE handle[o]
  BY <1>s DEF MakeBoFails, Fresh, TypeOK
<1>p. pc' \in {"aborted", "failed"} /\ (pc' = "failed" => ~resizing)
  BY <1>a DEF TypeOK
<1>1. TypeOK'
  BY <1>a, <1>h, <1>p DEF TypeOK
<1>n. \A k \in BufferKind \ {"dup"} : <<k, slot>> \notin live
  <2> SUFFICES ASSUME NEW k \in BufferKind \ {"dup"}  PROVE <<k, slot>> \notin live
    OBVIOUS
  <2>1. ~(BufferMake[k] < 0)
    BY BufferMakeFacts
  <2> QED
    BY <1>a, <1>s, <2>1 DEF BuffersStand
<1>3. HandlesTell'
  <2> SUFFICES ASSUME pc' = "failed", NEW o \in Told
               PROVE  o \in live' <=> (handle'[o] = "set" /\ ~Gone(o)')
    BY <1>p DEF HandlesTell, Ended
  <2>o. o \in Object /\ o[1] # "dup"
    BY DEF Told
  <2>g. ~Gone(o) /\ ~Gone(o)'
    BY <1>a, <1>p DEF Gone
  <2>1. CASE o[2] = slot /\ o[1] \in BufferKind
    <3>1. o \notin live
      BY <2>1, <2>o, <1>n, ObjectFacts
    <3>2. handle'[o] # "set"
      BY <2>1, <2>o, <1>h
    <3> QED
      BY <3>1, <3>2, <1>a
  <2>2. CASE ~(o[2] = slot /\ o[1] \in BufferKind)
    BY <2>2, <2>o, <2>g, <1>a, <1>h DEF HandlesTell, Ended
  <2> QED
    BY <2>1, <2>2
<1>4. DupsShort'
  <2>1. \A s \in Slot : <<"dup", s>> \notin live
    BY <1>a DEF DupsShort, Ended
  <2> QED
    BY <2>1, <1>p, <1>a DEF DupsShort
<1>5. LibsMade' /\ BuffersStand' /\ Places' /\ CallbackFirst'
  BY <1>a, <1>p DEF LibsMade, BuffersStand, Places, CallbackFirst
<1> QED
  BY <1>1, <1>3, <1>4, <1>5

\* What one step of create_buffer adds to what the slot has.
LEMMA StepOfBuffer ==
  ASSUME NEW j \in BufferKind, NEW m \in 0 .. 7, BufferMake[j] = m
  PROVE  \A k \in BufferKind : BufferMake[k] < m + 1 <=> (BufferMake[k] < m \/ k = j)
<1> SUFFICES ASSUME NEW k \in BufferKind
             PROVE  BufferMake[k] < m + 1 <=> (BufferMake[k] < m \/ k = j)
  OBVIOUS
<1>1. BufferMake[k] \in 0 .. 7 /\ (BufferMake[k] = m => k = j)
  BY BufferMakeFacts
<1> QED
  BY <1>1

LEMMA ImportStep ==
  ASSUME IInv, Import
  PROVE  IInv'
<1> USE DEF IInv
<1>a. /\ pc = "buffers" /\ n = 4 /\ slot < NumBuffers
      /\ pc' = "buffers" /\ slot' = slot /\ n' = 5 /\ n' # 4 /\ n # 0 /\ n' # 0
      /\ live' = (live \cup {<<"memory", slot>>}) \ {<<"dup", slot>>}
      /\ UNCHANGED <<resizing, stdin, extra, scratch, gpu>>
  BY DEF Import, Goto
<1>s. slot \in Slot /\ <<"memory", slot>> \in Object
  BY <1>a, SlotFacts, ObjectFacts
<1>h. /\ handle' \in [Object -> {"zero", "set", "minus"}]
      /\ \A o \in Object :
           handle'[o] = IF o = <<"memory", slot>> THEN "set" ELSE handle[o]
  BY <1>s DEF Import, TypeOK
<1>1. TypeOK'
  BY <1>a, <1>s, <1>h DEF TypeOK
<1>3. HandlesTell'
  <2> SUFFICES ASSUME NEW o \in Told
               PROVE  o \in live' <=> (handle'[o] = "set" /\ ~Gone(o)')
    BY DEF HandlesTell
  <2>o. o \in Object /\ o # <<"dup", slot>>
    BY DEF Told
  <2>g. Gone(o)' <=> Gone(o)
    BY <1>a DEF Gone
  <2>1. CASE o = <<"memory", slot>>
    <3>1. o[2] = slot /\ ~(slot > slot)
      BY <2>1 DEF TypeOK
    <3>2. ~Gone(o)
      BY <3>1, <1>a DEF Gone
    <3> QED
      BY <2>1, <2>g, <3>2, <1>a, <1>h, <1>s
  <2>2. CASE o # <<"memory", slot>>
    BY <2>2, <2>o, <2>g, <1>a, <1>h DEF HandlesTell, Ended
  <2> QED
    BY <2>1, <2>2
<1>4. DupsShort'
  BY <1>a, <1>s DEF DupsShort, Ended
<1>5. LibsMade'
  BY <1>a, <1>h, <1>s, LibMakeFacts, ObjectFacts DEF LibsMade, Lib
<1>6. BuffersStand'
  <2> SUFFICES ASSUME NEW s \in Slot, NEW k \in BufferKind \ {"dup"}
               PROVE  /\ s < slot => (<<k, s>> \in live' <=> k # "dmabuf_fd")
                      /\ s = slot => (<<k, s>> \in live' <=> BufferMake[k] < 5)
                      /\ s > slot => <<k, s>> \notin live'
    BY <1>a DEF BuffersStand
  <2>1. BufferMake[k] < 5 <=> BufferMake[k] < 4 \/ k = "memory"
    BY StepOfBuffer, BufferMakeFacts, ObjectFacts
  <2>2. s # slot => (<<k, s>> \in live' <=> <<k, s>> \in live)
    BY <1>a
  <2>3. (s < slot => s # slot) /\ (s > slot => s # slot)
    BY <1>s DEF Slot
  <2> QED
    BY <2>1, <2>2, <2>3, <1>a DEF BuffersStand
<1>7. Places' /\ CallbackFirst'
  BY <1>a DEF Places, CallbackFirst, TypeOK
<1> QED
  BY <1>1, <1>3, <1>4, <1>5, <1>6, <1>7

LEMMA MakeNextStep ==
  ASSUME IInv, MakeNext
  PROVE  IInv'
<1> USE DEF IInv
<1>k. PICK j \in BufferKind : BufferMake[j] = n /\ Made({<<j, slot>>})
  BY BufferMakeFacts DEF MakeNext
<1>a. /\ pc = "buffers" /\ n \in {1, 2, 3, 5, 6, 7} /\ slot < NumBuffers
      /\ pc' = "buffers" /\ slot' = slot /\ n' = n + 1 /\ n # 0 /\ n' # 0 /\ n # 4
      /\ UNCHANGED <<resizing, stdin, extra, scratch, gpu>>
  BY DEF MakeNext, Goto
<1>s. slot \in Slot /\ <<j, slot>> \in Object
  BY <1>a, SlotFacts, ObjectFacts
<1>h. /\ live' = live \cup {<<j, slot>>} /\ live' \subseteq Object
      /\ handle' \in [Object -> {"zero", "set", "minus"}]
      /\ \A o \in Object :
           handle'[o] = IF o = <<j, slot>> THEN "set" ELSE handle[o]
  BY <1>s, <1>k, MadeFacts
<1>1. TypeOK'
  BY <1>a, <1>s, <1>h DEF TypeOK
<1>3. HandlesTell'
  <2> SUFFICES ASSUME NEW o \in Told
               PROVE  o \in live' <=> (handle'[o] = "set" /\ ~Gone(o)')
    BY DEF HandlesTell
  <2>o. o \in Object
    BY DEF Told
  <2>g. Gone(o)' <=> Gone(o)
    BY <1>a DEF Gone
  <2>1. CASE o = <<j, slot>>
    <3>1. o[2] = slot /\ ~(slot > slot)
      BY <2>1 DEF TypeOK
    <3>2. ~Gone(o)
      BY <3>1, <1>a DEF Gone
    <3> QED
      BY <2>1, <2>g, <3>2, <1>a, <1>h, <1>s
  <2>2. CASE o # <<j, slot>>
    BY <2>2, <2>o, <2>g, <1>a, <1>h DEF HandlesTell, Ended
  <2> QED
    BY <2>1, <2>2
<1>d. j = "dup" <=> n' = 4
  <2>1. BufferMake["dup"] = 3 /\ (BufferMake[j] = BufferMake["dup"] => j = "dup")
    BY BufferMakeFacts, ObjectFacts
  <2>2. n = 3 <=> n' = 4
    BY <1>a
  <2> QED
    BY <2>1, <2>2, <1>k
<1>4. DupsShort'
  BY <1>a, <1>s, <1>d, <1>h DEF DupsShort, Ended
<1>5. LibsMade'
  BY <1>a, <1>h, <1>s, LibMakeFacts, ObjectFacts DEF LibsMade, Lib
<1>6. BuffersStand'
  <2> SUFFICES ASSUME NEW s \in Slot, NEW k \in BufferKind \ {"dup"}
               PROVE  /\ s < slot => (<<k, s>> \in live' <=> k # "dmabuf_fd")
                      /\ s = slot => (<<k, s>> \in live' <=> BufferMake[k] < n + 1)
                      /\ s > slot => <<k, s>> \notin live'
    BY <1>a DEF BuffersStand
  <2>1. BufferMake[k] < n + 1 <=> BufferMake[k] < n \/ k = j
    BY StepOfBuffer, <1>k, <1>a
  <2>2. <<k, s>> \in live' <=> (<<k, s>> \in live \/ (k = j /\ s = slot))
    BY <1>h
  <2>3. (s < slot => s # slot) /\ (s > slot => s # slot)
    BY <1>s DEF Slot
  <2> QED
    BY <2>1, <2>2, <2>3, <1>a DEF BuffersStand
<1>7. Places' /\ CallbackFirst'
  BY <1>a DEF Places, CallbackFirst, TypeOK
<1> QED
  BY <1>1, <1>3, <1>4, <1>5, <1>6, <1>7

LEMMA MakeAbortsStep ==
  ASSUME IInv, MakeAborts
  PROVE  IInv'
<1> USE DEF IInv
<1>a. /\ pc = "buffers" /\ pc' = "aborted" /\ slot' \in 0 .. NumBuffers /\ n' \in 0 .. 15
      /\ UNCHANGED <<resizing, live, handle, stdin, extra, scratch, gpu>>
  BY ConstantsAssumption DEF MakeAborts, Goto, resources
<1>1. TypeOK'
  BY <1>a DEF TypeOK
<1>2. HandlesTell' /\ DupsShort' /\ LibsMade' /\ BuffersStand' /\ Places' /\ CallbackFirst'
  BY <1>a DEF HandlesTell, DupsShort, Ended, LibsMade, BuffersStand, Places, CallbackFirst
<1> QED
  BY <1>1, <1>2

LEMMA MakeWlBufFailsStep ==
  ASSUME IInv, MakeWlBufFails
  PROVE  IInv'
<1> USE DEF IInv
<1>a. /\ pc = "buffers" /\ n # 4 /\ n # 0 /\ slot < NumBuffers
      /\ pc' \in {"aborted", "failed"} /\ (pc' = "failed" => ~resizing)
      /\ slot' \in 0 .. NumBuffers /\ n' \in 0 .. 15
      /\ UNCHANGED <<resizing, live, handle, stdin, extra, scratch, gpu>>
  BY ConstantsAssumption DEF MakeWlBufFails, Goto, resources, TypeOK
<1>1. TypeOK'
  BY <1>a DEF TypeOK
<1>2. HandlesTell'
  BY <1>a DEF HandlesTell, Gone, Ended
<1>3. DupsShort'
  BY <1>a DEF DupsShort, Ended
<1>4. LibsMade' /\ BuffersStand' /\ Places' /\ CallbackFirst'
  BY <1>a DEF LibsMade, BuffersStand, Places, CallbackFirst
<1> QED
  BY <1>1, <1>2, <1>3, <1>4

LEMMA CloseDmabufFdStep ==
  ASSUME IInv, CloseDmabufFd
  PROVE  IInv'
<1> USE DEF IInv
<1> DEFINE fd == <<"dmabuf_fd", slot>>
<1>a. /\ pc = "buffers" /\ n = 8 /\ n # 4 /\ n # 0 /\ slot < NumBuffers
      /\ pc' = "buffers" /\ slot' = slot + 1 /\ n' = 0 /\ n' # 4
      /\ UNCHANGED <<resizing, extra, scratch, gpu>>
      /\ Freed(fd)
  BY DEF CloseDmabufFd, Goto
<1>s. slot \in Slot /\ slot + 1 \in 0 .. NumBuffers /\ fd \in Object
  BY <1>a, SlotFacts, ObjectFacts
<1>f. /\ live' \subseteq Object /\ stdin' \in BOOLEAN
      /\ \A p \in Object : p \in live' <=> (p \in live /\ ~(p = fd /\ handle[fd] = "set"))
  BY <1>a, <1>s, FreedFacts
<1>h. /\ handle' \in [Object -> {"zero", "set", "minus"}]
      /\ \A o \in Object : handle'[o] = IF o = fd THEN "minus" ELSE handle[o]
  BY <1>s DEF CloseDmabufFd, TypeOK
<1>1. TypeOK'
  BY <1>a, <1>s, <1>f, <1>h DEF TypeOK
<1>g. \A o \in Object : Gone(o)' <=> Gone(o)
  <2> SUFFICES ASSUME NEW o \in Object, o[1] \in BufferKind
               PROVE  Gone(o)' <=> Gone(o)
    BY <1>a DEF Gone
  <2>1. o[2] \in Slot
    BY ObjectFacts
  <2>2. o[2] > slot + 1 \/ (o[2] = slot + 1 /\ TRUE) <=> o[2] > slot
    BY <2>1, <1>s DEF Slot
  <2> QED
    BY <2>2, <1>a DEF Gone
<1>t. fd \in Told /\ (fd \in live => handle[fd] = "set")
  BY <1>s, <1>a DEF HandlesTell, Told, Ended
<1>3. HandlesTell'
  <2> SUFFICES ASSUME NEW o \in Told
               PROVE  o \in live' <=> (handle'[o] = "set" /\ ~Gone(o)')
    BY DEF HandlesTell
  <2>o. o \in Object
    BY DEF Told
  <2>1. CASE o = fd
    BY <2>1, <1>s, <1>t, <1>f, <1>h
  <2>2. CASE o # fd
    BY <2>2, <2>o, <1>g, <1>a, <1>f, <1>h DEF HandlesTell, Ended
  <2> QED
    BY <2>1, <2>2
<1>4. DupsShort'
  BY <1>a, <1>f, ObjectFacts DEF DupsShort, Ended
<1>5. LibsMade'
  <2>1. \A k \in LibKind : Lib(k) \in Object /\ Lib(k) # fd
    BY ObjectFacts DEF Lib
  <2> QED
    BY <2>1, <1>a, <1>f, <1>h, LibMakeFacts DEF LibsMade
<1>6. BuffersStand'
  <2> SUFFICES ASSUME NEW s \in Slot, NEW k \in BufferKind \ {"dup"}
               PROVE  /\ s < slot + 1 => (<<k, s>> \in live' <=> k # "dmabuf_fd")
                      /\ s = slot + 1 => (<<k, s>> \in live' <=> BufferMake[k] < 0)
                      /\ s > slot + 1 => <<k, s>> \notin live'
    BY <1>a DEF BuffersStand
  <2>1. BufferMake[k] < 8 /\ ~(BufferMake[k] < 0)
    BY BufferMakeFacts
  <2>2. <<k, s>> \in live' <=> (<<k, s>> \in live /\ ~(k = "dmabuf_fd" /\ s = slot))
    BY <1>f, <1>t, <1>s, ObjectFacts
  <2>3. /\ s < slot + 1 <=> (s < slot \/ s = slot)
        /\ (s < slot => s # slot) /\ (s = slot + 1 => s > slot) /\ (s > slot + 1 => s > slot)
    BY <1>s DEF Slot
  <2> QED
    BY <2>1, <2>2, <2>3, <1>a DEF BuffersStand
<1>7. Places' /\ CallbackFirst'
  BY <1>a DEF Places, CallbackFirst, TypeOK
<1> QED
  BY <1>1, <1>3, <1>4, <1>5, <1>6, <1>7

LEMMA BuffersMadeStep ==
  ASSUME IInv, BuffersMade
  PROVE  IInv'
<1> USE DEF IInv
<1>p. pc' \in {"loop", "ready"}
  BY DEF BuffersMade, Goto
<1>a. /\ pc = "buffers" /\ slot = NumBuffers /\ resizing' = FALSE
      /\ slot' \in 0 .. NumBuffers /\ n' \in 0 .. 15
      /\ UNCHANGED <<live, handle, stdin, extra, scratch, gpu>>
  BY ConstantsAssumption DEF BuffersMade, Goto, resources
<1>s. \A s \in Slot : s < slot /\ ~(s > slot) /\ s # slot
  BY <1>p, <1>a, ConstantsAssumption DEF Slot
<1>1. TypeOK'
  BY <1>p, <1>a DEF TypeOK
<1>g. \A o \in Object : ~Gone(o) /\ ~Gone(o)'
  <2> SUFFICES ASSUME NEW o \in Object, o[1] \in BufferKind  PROVE ~Gone(o)
    BY <1>p, <1>a DEF Gone
  <2> QED
    BY <1>p, <1>a, <1>s, ObjectFacts DEF Gone
<1>2. HandlesTell'
  BY <1>p, <1>a, <1>g DEF HandlesTell, Told, Ended
<1>3. DupsShort'
  BY <1>p, <1>a, <1>s DEF DupsShort, Ended
<1>4. LibsMade' /\ Places' /\ CallbackFirst'
  BY <1>p, <1>a DEF LibsMade, Places, CallbackFirst
<1>5. BuffersStand'
  BY <1>p, <1>a, <1>s DEF BuffersStand
<1> QED
  BY <1>1, <1>2, <1>3, <1>4, <1>5

\* What the running client makes or frees, and libwl_create does not make.
UseKind == {"event", "pointer", "keyboard", "frame_callback"}

\* Steps of the running client, which touch the objects K of those.
LEMMA UseFacts ==
  ASSUME IInv, pc \in {"ready", "loop"}, pc' \in {"ready", "loop"},
         NEW K \in SUBSET UseKind,
         handle' \in [Object -> {"zero", "set", "minus"}],
         \A o \in Object : (\A k \in K : o # Lib(k)) => /\ o \in live' <=> o \in live
                                                       /\ handle'[o] = handle[o],
         \A k \in K \ {"event"} : Lib(k) \in live' <=> handle'[Lib(k)] = "set",
         slot' \in 0 .. NumBuffers, n' \in 0 .. 15, live' \subseteq Object,
         UNCHANGED <<resizing, stdin, extra, scratch>>, gpu' \subseteq Slot
  PROVE  IInv'
<1> USE DEF IInv
<1>1. TypeOK'
  BY DEF TypeOK
<1>g. \A o \in Object : ~Gone(o) /\ ~Gone(o)'
  BY DEF Gone
<1>2. HandlesTell'
  <2> SUFFICES ASSUME NEW o \in Told
               PROVE  o \in live' <=> handle'[o] = "set"
    BY <1>g DEF HandlesTell, Told
  <2>o. o \in Object /\ o[1] # "event"
    BY DEF Told
  <2>1. CASE \E k \in K : o = Lib(k)
    <3>1. PICK k \in K : o = Lib(k)
      BY <2>1
    <3>2. k # "event"
      BY <3>1, <2>o DEF Lib
    <3> QED
      BY <3>1, <3>2
  <2>2. CASE \A k \in K : o # Lib(k)
    <3>1. (o \in live' <=> o \in live) /\ handle'[o] = handle[o] /\ ~Gone(o)
      BY <2>2, <2>o, <1>g
    <3> QED
      BY <3>1 DEF HandlesTell, Ended
  <2> QED
    BY <2>1, <2>2
<1>b. \A j \in BufferKind, s \in Slot : <<j, s>> \in Object /\ \A k \in K : <<j, s>> # Lib(k)
  <2>1. \A j \in BufferKind, k \in K : j # k
    BY DEF BufferKind, UseKind
  <2> QED
    BY <2>1, ObjectFacts DEF Lib
<1>d. \A s \in Slot : <<"dup", s>> \notin live
  BY DEF DupsShort, Ended
<1>e. \A s \in Slot : <<"dup", s>> \notin live'
  <2> SUFFICES ASSUME NEW s \in Slot  PROVE <<"dup", s>> \notin live'
    OBVIOUS
  <2>1. <<"dup", s>> \in Object /\ \A k \in K : <<"dup", s>> # Lib(k)
    BY <1>b, ObjectFacts
  <2> QED
    BY <2>1, <1>d
<1>3. DupsShort'
  BY <1>e DEF DupsShort
<1>4. LibsMade'
  <2>1. \A j \in DOMAIN LibMake : Lib(j) \in Object /\ \A k \in K : Lib(j) # Lib(k)
    BY LibMakeFacts, ObjectFacts DEF Lib, UseKind
  <2> QED
    BY <2>1 DEF LibsMade
<1>5. BuffersStand'
  BY <1>b DEF BuffersStand
<1>6. Places' /\ CallbackFirst'
  BY DEF Places, CallbackFirst
<1> QED
  BY <1>1, <1>2, <1>3, <1>4, <1>5, <1>6

\* The same where only one object is touched.
LEMMA UseOne ==
  ASSUME IInv, pc \in {"ready", "loop"}, pc' \in {"ready", "loop"},
         NEW k \in UseKind,
         handle' \in [Object -> {"zero", "set", "minus"}],
         \A o \in Object : o # Lib(k) => /\ o \in live' <=> o \in live
                                         /\ handle'[o] = handle[o],
         k # "event" => (Lib(k) \in live' <=> handle'[Lib(k)] = "set"),
         slot' \in 0 .. NumBuffers, n' \in 0 .. 15, live' \subseteq Object,
         UNCHANGED <<resizing, stdin, extra, scratch>>, gpu' \subseteq Slot
  PROVE  IInv'
<1> DEFINE K == {k}
<1>1. K \in SUBSET UseKind /\ \A j \in K : j = k
  OBVIOUS
<1>2. \A o \in Object : (\A j \in K : o # Lib(j)) => /\ o \in live' <=> o \in live
                                                    /\ handle'[o] = handle[o]
  OBVIOUS
<1>3. \A j \in K \ {"event"} : Lib(j) \in live' <=> handle'[Lib(j)] = "set"
  BY <1>1
<1> HIDE DEF K
<1> QED
  BY <1>1, <1>2, <1>3, UseFacts

LEMMA RunStep ==
  ASSUME IInv, Run
  PROVE  IInv'
<1>0. PICK asked \in SUBSET {Lib("frame_callback")} : Made({Lib("event")} \cup asked)
  BY DEF Run
<1>k. /\ {Lib("event"), Lib("frame_callback")} \subseteq Object
      /\ asked = {} \/ asked = {Lib("frame_callback")}
  BY <1>0, ObjectFacts
<1> DEFINE os == {Lib("event")} \cup asked
           K == {"event", "frame_callback"}
<1>1. /\ live' = live \cup os /\ live' \subseteq Object
      /\ handle' \in [Object -> {"zero", "set", "minus"}]
      /\ \A o \in Object : handle'[o] = IF o \in os THEN "set" ELSE handle[o]
  BY <1>k, <1>0, MadeFacts DEF IInv
<1>2. /\ pc = "ready" /\ pc' = "loop" /\ slot' \in 0 .. NumBuffers /\ n' \in 0 .. 15
      /\ UNCHANGED <<resizing, stdin, extra, scratch>> /\ gpu' \subseteq Slot
  BY ConstantsAssumption DEF Run, Goto, IInv, TypeOK
<1>3. K \in SUBSET UseKind
  BY DEF UseKind
<1>4. \A o \in Object : (\A k \in K : o # Lib(k)) => /\ o \in live' <=> o \in live
                                                    /\ handle'[o] = handle[o]
  BY <1>1, <1>k
<1>5. Lib("frame_callback") \in live' <=> handle'[Lib("frame_callback")] = "set"
  <2>1. Lib("frame_callback") \in live <=> handle[Lib("frame_callback")] = "set"
    <3>1. Lib("frame_callback") \in Told /\ ~Gone(Lib("frame_callback"))
      BY <1>k, <1>2 DEF Told, Lib, Gone
    <3> QED
      BY <3>1, <1>2 DEF IInv, HandlesTell, Ended
  <2>2. Lib("frame_callback") # Lib("event")
    BY DEF Lib
  <2> QED
    BY <1>1, <1>k, <2>1, <2>2
<1>6. \A k \in K \ {"event"} : Lib(k) \in live' <=> handle'[Lib(k)] = "set"
  BY <1>5
<1> HIDE DEF K
<1> QED
  BY <1>1, <1>2, <1>3, <1>4, <1>6, UseFacts

LEMMA RunFailsStep ==
  ASSUME IInv, RunFails
  PROVE  IInv'
<1>k. Lib("event") \in Object
  BY ObjectFacts
<1>0. PICK made \in SUBSET {Lib("event")} : Made(made)
  BY DEF RunFails
<1>1. /\ live' = live \cup made /\ live' \subseteq Object
      /\ handle' \in [Object -> {"zero", "set", "minus"}]
      /\ \A o \in Object : handle'[o] = IF o \in made THEN "set" ELSE handle[o]
  BY <1>k, <1>0, MadeFacts DEF IInv
<1>2. /\ pc = "ready" /\ UNCHANGED <<pc, slot, n, resizing, stdin, extra, scratch, gpu>>
      /\ handle[Lib("event")] # "set"
  BY DEF RunFails
<1>3. handle' \in [Object -> {"zero", "set", "minus"}] /\ gpu' \subseteq Slot
      /\ slot' \in 0 .. NumBuffers /\ n' \in 0 .. 15
  BY <1>1, <1>2 DEF IInv, TypeOK
<1> QED
  BY <1>k, <1>1, <1>2, <1>3, UseOne DEF UseKind

LEMMA RunEndsStep ==
  ASSUME IInv, RunEnds
  PROVE  IInv'
<1>k. Lib("event") \in Object
  BY ObjectFacts
<1>1. /\ live' = live \ {Lib("event")} /\ live' \subseteq Object
      /\ handle' \in [Object -> {"zero", "set", "minus"}]
      /\ \A o \in Object : o # Lib("event") => handle'[o] = handle[o]
  BY <1>k DEF RunEnds, IInv, TypeOK
<1>2. /\ pc = "loop" /\ pc' = "ready" /\ slot' \in 0 .. NumBuffers /\ n' \in 0 .. 15
      /\ UNCHANGED <<resizing, stdin, extra, scratch>> /\ gpu' \subseteq Slot
  BY ConstantsAssumption DEF RunEnds, Goto, IInv, TypeOK
<1> QED
  BY <1>k, <1>1, <1>2, UseOne DEF UseKind

LEMMA GetInputStep ==
  ASSUME IInv, GetInput
  PROVE  IInv'
<1>0. PICK k \in {"pointer", "keyboard"} : Made({Lib(k)})
  BY DEF GetInput
<1>k. Lib(k) \in Object
  BY ObjectFacts
<1>1. /\ live' = live \cup {Lib(k)} /\ live' \subseteq Object
      /\ handle' \in [Object -> {"zero", "set", "minus"}]
      /\ \A o \in Object : handle'[o] = IF o \in {Lib(k)} THEN "set" ELSE handle[o]
  BY <1>k, <1>0, MadeFacts DEF IInv
<1>2. /\ pc = "loop" /\ UNCHANGED <<pc, slot, n, resizing, stdin, extra, scratch, gpu>>
      /\ slot' \in 0 .. NumBuffers /\ n' \in 0 .. 15 /\ gpu' \subseteq Slot
  BY DEF GetInput, IInv, TypeOK
<1> QED
  BY <1>k, <1>1, <1>2, UseOne DEF UseKind

LEMMA PresentStep ==
  ASSUME IInv, Present
  PROVE  IInv'
<1>k. Lib("frame_callback") \in Object
  BY ObjectFacts
<1>1. /\ live' = live \cup {Lib("frame_callback")} /\ live' \subseteq Object
      /\ handle' \in [Object -> {"zero", "set", "minus"}]
      /\ \A o \in Object : handle'[o] = IF o \in {Lib("frame_callback")} THEN "set" ELSE handle[o]
  BY <1>k, MadeFacts DEF Present, IInv
<1>2. /\ pc = "loop" /\ UNCHANGED <<pc, slot, n, resizing, stdin, extra, scratch>>
      /\ slot' \in 0 .. NumBuffers /\ n' \in 0 .. 15 /\ gpu' \subseteq Slot
  BY DEF Present, IInv, TypeOK
<1> QED
  BY <1>k, <1>1, <1>2, UseOne DEF UseKind

LEMMA FrameDoneStep ==
  ASSUME IInv, FrameDone
  PROVE  IInv'
<1>k. Lib("frame_callback") \in Object
  BY ObjectFacts
<1>1. /\ live' = live \ {Lib("frame_callback")} /\ live' \subseteq Object
      /\ handle' \in [Object -> {"zero", "set", "minus"}]
      /\ handle'[Lib("frame_callback")] = "zero"
      /\ \A o \in Object : o # Lib("frame_callback") => handle'[o] = handle[o]
  BY <1>k DEF FrameDone, IInv, TypeOK
<1>2. /\ pc = "loop" /\ UNCHANGED <<pc, slot, n, resizing, stdin, extra, scratch, gpu>>
      /\ slot' \in 0 .. NumBuffers /\ n' \in 0 .. 15 /\ gpu' \subseteq Slot
  BY DEF FrameDone, IInv, TypeOK
<1> QED
  BY <1>k, <1>1, <1>2, UseOne DEF UseKind

\* A step that changes nothing but the GPU's work.
LEMMA GpuStep ==
  ASSUME IInv, GpuDone \/ UNCHANGED vars
  PROVE  IInv'
<1>1. /\ UNCHANGED <<pc, slot, n, resizing, live, handle, stdin, extra, scratch>>
      /\ gpu' \subseteq Slot
  BY DEF GpuDone, resources, vars, IInv, TypeOK
<1>2. TypeOK'
  BY <1>1 DEF IInv, TypeOK
<1>3. HandlesTell' /\ DupsShort' /\ LibsMade' /\ BuffersStand' /\ Places' /\ CallbackFirst'
  BY <1>1 DEF IInv, HandlesTell, Gone, Ended, DupsShort, LibsMade, BuffersStand, Places,
              CallbackFirst
<1> QED
  BY <1>2, <1>3 DEF IInv

LEMMA ResizeStep ==
  ASSUME IInv, Resize
  PROVE  IInv'
<1> USE DEF IInv
<1>a. /\ pc = "loop" /\ pc' = "free_buffers" /\ slot' = 0 /\ n' = 0 /\ resizing' = TRUE
      /\ 0 \in 0 .. NumBuffers /\ 0 \in 0 .. 15 /\ 0 <= 6
      /\ UNCHANGED <<live, handle, stdin, extra, scratch, gpu>>
  BY ConstantsAssumption DEF Resize, Goto, resources
<1>1. TypeOK'
  BY <1>a DEF TypeOK
<1>g. \A o \in Told : ~Gone(o) /\ ~Gone(o)'
  <2> SUFFICES ASSUME NEW o \in Told, o[1] \in BufferKind
               PROVE  ~(o[2] < 0) /\ ~(BufferFree[o[1]] < 0)
    BY <1>a DEF Gone
  <2>1. o[1] \in DOMAIN BufferFree /\ o[2] \in Slot
    BY BufferFreeFacts, ObjectFacts DEF Told
  <2> QED
    BY <2>1, BufferFreeFacts DEF Slot
<1>2. HandlesTell'
  BY <1>a, <1>g DEF HandlesTell, Ended
<1>3. DupsShort'
  BY <1>a DEF DupsShort, Ended
<1>4. LibsMade' /\ BuffersStand' /\ CallbackFirst'
  BY <1>a DEF LibsMade, BuffersStand, CallbackFirst
<1>5. Places'
  BY <1>a DEF Places
<1> QED
  BY <1>1, <1>2, <1>3, <1>4, <1>5

LEMMA DestroyBeginsStep ==
  ASSUME IInv, DestroyBegins
  PROVE  IInv'
<1> USE DEF IInv
<1> DEFINE cb == Lib("frame_callback")
<1>k. cb \in Object /\ cb \in Told
  BY ObjectFacts DEF Told
<1>a. /\ pc \in {"ready", "failed"} /\ pc' = "free_buffers" /\ slot' = 0 /\ n' = 0
      /\ 0 \in 0 .. NumBuffers /\ 0 \in 0 .. 15 /\ 0 <= 6
      /\ Freed(cb) /\ UNCHANGED <<resizing, extra, scratch, gpu>>
  BY ConstantsAssumption DEF DestroyBegins, Goto
<1>f. /\ live' \subseteq Object /\ stdin' \in BOOLEAN
      /\ \A p \in Object : p \in live' <=> (p \in live /\ ~(p = cb /\ handle[cb] = "set"))
  BY <1>a, <1>k, FreedFacts
<1>h. /\ handle' \in [Object -> {"zero", "set", "minus"}]
      /\ \A o \in Object : handle'[o] = IF o = cb THEN "zero" ELSE handle[o]
  BY <1>k DEF DestroyBegins, TypeOK
<1> HIDE DEF cb
<1>1. TypeOK'
  BY <1>a, <1>f, <1>h DEF TypeOK
<1>g. \A o \in Told : ~Gone(o) /\ ~Gone(o)'
  <2> SUFFICES ASSUME NEW o \in Told, o[1] \in BufferKind
               PROVE  ~(o[2] < 0) /\ ~(BufferFree[o[1]] < 0)
    BY <1>a DEF Gone
  <2>1. o[1] \in DOMAIN BufferFree /\ o[2] \in Slot
    BY BufferFreeFacts, ObjectFacts DEF Told
  <2> QED
    BY <2>1, BufferFreeFacts DEF Slot
<1>2. HandlesTell'
  <2> SUFFICES ASSUME NEW o \in Told  PROVE o \in live' <=> handle'[o] = "set"
    BY <1>g DEF HandlesTell
  <2>1. o \in live <=> handle[o] = "set"
    BY <1>g, <1>a DEF HandlesTell, Ended
  <2>2. o \in Object
    BY DEF Told
  <2> QED
    BY <2>1, <2>2, <1>f, <1>h
<1>d. \A s \in Slot : <<"dup", s>> \notin live
  BY <1>a DEF DupsShort, Ended
<1>3. DupsShort'
  BY <1>a, <1>d, <1>f, ObjectFacts DEF DupsShort
<1>4. LibsMade' /\ BuffersStand'
  BY <1>a DEF LibsMade, BuffersStand, Places
<1>5. CallbackFirst'
  BY <1>a, <1>h, <1>k DEF CallbackFirst, cb
<1>6. Places'
  BY <1>a DEF Places
<1> QED
  BY <1>1, <1>2, <1>3, <1>4, <1>5, <1>6

LEMMA FreeNextStep ==
  ASSUME IInv, FreeNext
  PROVE  IInv'
<1> USE DEF IInv
<1>k. PICK k \in DOMAIN BufferFree : BufferFree[k] = n /\ Freed(<<k, slot>>)
  BY DEF FreeNext
<1>a. /\ pc = "free_buffers" /\ pc' = pc /\ slot < NumBuffers
      /\ UNCHANGED <<resizing, handle, extra, scratch, gpu>>
  BY DEF FreeNext, Goto
<1>b. /\ slot \in Slot /\ n \in 0 .. 6 /\ k \in BufferKind \ {"dup"}
      /\ slot' \in 0 .. NumBuffers /\ n' \in 0 .. 6
      /\ \/ n < 6 /\ slot' = slot /\ n' = n + 1
         \/ n = 6 /\ slot' = slot + 1 /\ n' = 0
  BY <1>a, <1>k, BufferFreeFacts, SlotFacts DEF FreeNext, Goto, TypeOK, Places
<1> DEFINE it == <<k, slot>>
<1>i. it \in Object /\ it \in Told /\ it[1] = k /\ it[2] = slot
  BY <1>b, ObjectFacts DEF Told
<1>f. /\ live' \subseteq Object /\ stdin' \in BOOLEAN
      /\ \A p \in Object : p \in live' <=> (p \in live /\ ~(p = it /\ handle[it] = "set"))
  BY <1>k, <1>i, FreedFacts
<1>t. n' \in 0 .. 15
  BY <1>b
<1>1. TypeOK'
  BY <1>a, <1>b, <1>f, <1>t DEF TypeOK
<1>g. \A o \in Told : Gone(o)' <=> (Gone(o) \/ o = it)
  <2> SUFFICES ASSUME NEW o \in Told, o[1] \in BufferKind
               PROVE  Gone(o)' <=> (Gone(o) \/ o = it)
    BY <1>a, <1>i, <1>b DEF Gone
  <2>1. o[1] \in DOMAIN BufferFree /\ o[2] \in Slot /\ o = <<o[1], o[2]>> /\ o[1] # "dup"
    BY BufferFreeFacts, ObjectFacts DEF Told
  <2>2. BufferFree[o[1]] \in 0 .. 6 /\ (BufferFree[o[1]] = n <=> o[1] = k)
    BY <2>1, <1>k, BufferFreeFacts
  <2>3. o = it <=> (o[1] = k /\ o[2] = slot)
    BY <2>1
  <2>4. Gone(o) <=> (o[2] < slot \/ (o[2] = slot /\ BufferFree[o[1]] < n))
    BY <2>1, <1>a DEF Gone
  <2>5. Gone(o)' <=> (o[2] < slot' \/ (o[2] = slot' /\ BufferFree[o[1]] < n'))
    BY <2>1, <1>a DEF Gone
  <2>6. CASE n < 6 /\ slot' = slot /\ n' = n + 1
    BY <2>2, <2>3, <2>4, <2>5, <2>6, <1>b
  <2>7. CASE n = 6 /\ slot' = slot + 1 /\ n' = 0
    <3>1. Gone(o)' <=> (o[2] < slot \/ o[2] = slot)
      BY <2>1, <2>2, <2>5, <2>7, <1>b DEF Slot
    <3>2. BufferFree[o[1]] < 6 \/ o[1] = k
      BY <2>2, <2>7
    <3> QED
      BY <3>1, <3>2, <2>3, <2>4, <2>7
  <2> QED
    BY <2>6, <2>7, <1>b
<1>2. HandlesTell'
  <2> SUFFICES ASSUME NEW o \in Told
               PROVE  o \in live' <=> (handle[o] = "set" /\ ~Gone(o) /\ o # it)
    BY <1>g, <1>a DEF HandlesTell
  <2>1. o \in live <=> (handle[o] = "set" /\ ~Gone(o))
    BY <1>a DEF HandlesTell, Ended
  <2>2. o \in Object
    BY DEF Told
  <2> QED
    BY <2>1, <2>2, <1>f
<1>d. \A s \in Slot : <<"dup", s>> \notin live
  BY <1>a DEF DupsShort, Ended
<1>3. DupsShort'
  BY <1>a, <1>d, <1>f, ObjectFacts DEF DupsShort
<1>4. LibsMade'
  <2>1. \A j \in DOMAIN LibMake : Lib(j) \in Object /\ Lib(j) # it
    BY <1>b, LibMakeFacts, ObjectFacts DEF Lib
  <2> QED
    BY <2>1, <1>a, <1>f DEF LibsMade
<1>5. BuffersStand' /\ CallbackFirst'
  BY <1>a DEF BuffersStand, CallbackFirst
<1>6. Places'
  <2>1. n' <= 6 /\ (slot' = NumBuffers => n' = 0)
    BY <1>a, <1>b
  <2> QED
    BY <2>1, <1>a DEF Places
<1> QED
  BY <1>1, <1>2, <1>3, <1>4, <1>5, <1>6

LEMMA BuffersFreedStep ==
  ASSUME IInv, BuffersFreed
  PROVE  IInv'
<1> USE DEF IInv
<1>a. /\ pc = "free_buffers" /\ slot = NumBuffers /\ n # 4 /\ slot' = 0 /\ n' = 0
      /\ 0 \in 0 .. NumBuffers /\ 0 \in 0 .. 15 /\ 0 <= 8 /\ n' # 4
      /\ UNCHANGED <<resizing, live, handle, stdin, extra, scratch, gpu>>
  BY ConstantsAssumption DEF BuffersFreed, Goto, resources, Places
<1>p. (resizing /\ pc' = "buffers") \/ (~resizing /\ pc' = "destroy")
  BY DEF BuffersFreed, Goto, TypeOK
<1>1. TypeOK'
  BY <1>a, <1>p DEF TypeOK
<1>s. \A s \in Slot : s < slot /\ s \in Nat
  BY <1>a, ConstantsAssumption DEF Slot
<1>g. \A o \in Told : Gone(o) <=> o[1] \in BufferKind
  <2> SUFFICES ASSUME NEW o \in Told, o[1] \in BufferKind  PROVE o[2] < slot
    BY <1>a DEF Gone
  <2> QED
    BY <1>s, ObjectFacts DEF Told
<1>h. \A o \in Told : Gone(o)' <=> o[1] \in BufferKind
  <2> SUFFICES ASSUME NEW o \in Told
               PROVE  /\ o[1] \in BufferKind => o[2] > 0 \/ o[2] = 0
                      /\ o[1] \in DOMAIN LibFree => ~(LibFree[o[1]] < 0)
    BY <1>a, <1>p DEF Gone
  <2>1. o[1] \in BufferKind => o[2] > 0 \/ o[2] = 0
    BY <1>s, ObjectFacts DEF Told
  <2> QED
    BY <2>1, LibFreeFacts
<1>2. HandlesTell'
  BY <1>a, <1>g, <1>h DEF HandlesTell, Ended
<1>3. DupsShort'
  BY <1>a DEF DupsShort, Ended
<1>4. LibsMade' /\ CallbackFirst'
  BY <1>a, <1>p DEF LibsMade, CallbackFirst
<1>n. \A s \in Slot, k \in BufferKind \ {"dup"} : <<k, s>> \notin live
  <2> SUFFICES ASSUME NEW s \in Slot, NEW k \in BufferKind \ {"dup"}
               PROVE  <<k, s>> \notin live
    OBVIOUS
  <2>1. k \notin {"arena", "event", "dup"}
    BY DEF BufferKind
  <2>2. <<k, s>> \in Told
    BY <2>1, ObjectFacts DEF Told
  <2> QED
    BY <2>2, <1>a, <1>g DEF HandlesTell, Ended
<1>5. BuffersStand'
  <2>1. \A s \in Slot, k \in BufferKind : ~(s < 0) /\ ~(BufferMake[k] < 0)
    BY <1>s, BufferMakeFacts
  <2> QED
    BY <2>1, <1>a, <1>p, <1>n DEF BuffersStand
<1>6. Places'
  BY <1>a, <1>p DEF Places
<1> QED
  BY <1>1, <1>2, <1>3, <1>4, <1>5, <1>6

LEMMA DestroyNextStep ==
  ASSUME IInv, DestroyNext
  PROVE  IInv'
<1> USE DEF IInv
<1>k. PICK k \in DOMAIN LibFree : LibFree[k] = n /\ Freed(Lib(k)) /\ gpu' \in {{}, gpu}
  BY DEF DestroyNext
<1>a. /\ pc = "destroy" /\ slot' = 0 /\ slot' \in 0 .. NumBuffers /\ n' \in 0 .. 15
      /\ \/ n < 15 /\ pc' = "destroy" /\ n' = n + 1
         \/ n = 15 /\ pc' = "destroyed"
      /\ UNCHANGED <<resizing, handle, extra, scratch>>
  BY ConstantsAssumption DEF DestroyNext, Goto, TypeOK
<1> DEFINE it == Lib(k)
<1>i. it \in Object /\ it \in Told /\ it[1] = k /\ k \in LibKind
  BY LibFreeFacts, ObjectFacts DEF Told
<1>f. /\ live' \subseteq Object /\ stdin' \in BOOLEAN
      /\ \A p \in Object : p \in live' <=> (p \in live /\ ~(p = it /\ handle[it] = "set"))
  BY <1>k, <1>i, FreedFacts
<1> HIDE DEF it
<1>1. TypeOK'
  BY <1>a, <1>f, <1>k DEF TypeOK
<1>l. \A o \in Told : o \in live' <=> (handle[o] = "set" /\ ~Gone(o) /\ o # it)
  <2> SUFFICES ASSUME NEW o \in Told
               PROVE  o \in live' <=> (handle[o] = "set" /\ ~Gone(o) /\ o # it)
    OBVIOUS
  <2>1. o \in live <=> (handle[o] = "set" /\ ~Gone(o))
    BY <1>a DEF HandlesTell, Ended
  <2>2. o \in Object
    BY DEF Told
  <2> QED
    BY <2>1, <2>2, <1>f
<1>g. \A o \in Told : handle[o] = "set" => (Gone(o)' <=> (Gone(o) \/ o = it))
  <2> SUFFICES ASSUME NEW o \in Told, handle[o] = "set"
               PROVE  Gone(o)' <=> (Gone(o) \/ o = it)
    OBVIOUS
  <2>1. CASE o[1] \in BufferKind
    BY <2>1, <1>a DEF Gone
  <2>2. CASE o[1] \notin BufferKind
    <3>1. o[1] \in LibKind /\ o = Lib(o[1]) /\ o[1] \notin {"arena", "event"}
      BY <2>2, ObjectFacts DEF Told
    <3>2. o[1] # "frame_callback"
      BY <3>1, <1>a DEF CallbackFirst
    <3>3. o[1] \in DOMAIN LibFree /\ LibFree[o[1]] \in 0 .. 15
      BY <3>1, <3>2, LibFreeFacts
    <3>4. o = it <=> LibFree[o[1]] = n
      BY <3>1, <3>3, <1>k, <1>i, LibFreeFacts DEF it
    <3>5. Gone(o) <=> LibFree[o[1]] < n
      BY <2>2, <3>3, <1>a DEF Gone
    <3>6. CASE n < 15 /\ pc' = "destroy" /\ n' = n + 1
      <4>1. Gone(o)' <=> LibFree[o[1]] < n + 1
        BY <2>2, <3>3, <3>6 DEF Gone
      <4> QED
        BY <4>1, <3>3, <3>4, <3>5 DEF TypeOK
    <3>7. CASE n = 15 /\ pc' = "destroyed"
      <4>1. Gone(o)'
        BY <3>7 DEF Gone
      <4> QED
        BY <4>1, <3>3, <3>4, <3>5, <3>7
    <3> QED
      BY <3>6, <3>7, <1>a
  <2> QED
    BY <2>1, <2>2
<1>2. HandlesTell'
  BY <1>a, <1>l, <1>g DEF HandlesTell
<1>d. \A s \in Slot : <<"dup", s>> \notin live
  BY <1>a DEF DupsShort, Ended
<1>3. DupsShort'
  BY <1>a, <1>d, <1>f, ObjectFacts DEF DupsShort
<1>4. LibsMade' /\ BuffersStand' /\ Places'
  BY <1>a DEF LibsMade, BuffersStand, Places
<1>5. CallbackFirst'
  BY <1>a DEF CallbackFirst
<1> QED
  BY <1>1, <1>2, <1>3, <1>4, <1>5

LEMMA ExitStep ==
  ASSUME IInv, Exit
  PROVE  IInv'
<1> USE DEF IInv
<1>a. /\ pc' = "exited" /\ slot' \in 0 .. NumBuffers /\ n' \in 0 .. 15
      /\ pc \in {"failed", "destroyed"}
      /\ UNCHANGED <<resizing, live, handle, stdin, extra, scratch, gpu>>
  BY ConstantsAssumption DEF Exit, Goto, resources
<1>1. TypeOK'
  BY <1>a DEF TypeOK
<1>2. HandlesTell' /\ DupsShort' /\ LibsMade' /\ BuffersStand' /\ Places' /\ CallbackFirst'
  BY <1>a DEF HandlesTell, DupsShort, Ended, LibsMade, BuffersStand, Places, CallbackFirst
<1> QED
  BY <1>1, <1>2

\* The invariant is inductive.
THEOREM Invariance == Spec => []IInv
<1>1. Init => IInv
  BY InitHolds
<1>2. IInv /\ [Next]_vars => IInv'
  <2> SUFFICES ASSUME IInv, [Next]_vars  PROVE IInv'
    OBVIOUS
  <2>1. CASE Create
    BY <2>1, BeginStep, ConnectStep, GlobalsMissingStep, ConnectFailsStep, SetUpVulkanStep,
       SetUpVulkanFailsStep, MakeWindowStep DEF Create
  <2>2. CASE CreateBuffer
    BY <2>2, MakeBoStep, MakeBoFailsStep, ImportStep, MakeNextStep, MakeAbortsStep,
       MakeWlBufFailsStep, CloseDmabufFdStep, BuffersMadeStep DEF CreateBuffer
  <2>3. CASE Use
    BY <2>3, RunStep, RunFailsStep, RunEndsStep, GetInputStep, PresentStep, FrameDoneStep,
       GpuStep, ResizeStep DEF Use
  <2>4. CASE DestroyAll
    BY <2>4, DestroyBeginsStep, FreeNextStep, BuffersFreedStep, DestroyNextStep, ExitStep
       DEF DestroyAll
  <2>5. CASE UNCHANGED vars
    BY <2>5, GpuStep
  <2> QED
    BY <2>1, <2>2, <2>3, <2>4, <2>5 DEF Next
<1> QED
  BY <1>1, <1>2, PTL DEF Spec

-----------------------------------------------------------------------------
\* What the invariant gives.

\* Every variable of the life cycle has its type.
THEOREM TypeCorrect == Spec => []TypeOK
<1>1. IInv => TypeOK
  BY DEF IInv
<1> QED
  BY <1>1, Invariance, PTL

\* libwl_destroy, destroy_buffer and create_buffer free no object and close no descriptor
\* twice that libwl_create or create_buffer has made: a handle that is set names a live
\* object.  (A descriptor field that is still 0 from memset is not such a handle.)
THEOREM NothingFreedTwice == Spec => []FreedOnce
<1>1. IInv => FreedOnce
  <2> SUFFICES ASSUME IInv, NEW o \in NextFreed, handle[o] = "set"
               PROVE  o \in live
    BY DEF FreedOnce
  <2> USE DEF IInv
  <2>1. CASE \E k \in DOMAIN BufferFree : o = <<k, slot>> /\ BufferFree[k] = n
                                          /\ pc = "free_buffers" /\ slot < NumBuffers
    <3> PICK k \in DOMAIN BufferFree : o = <<k, slot>> /\ BufferFree[k] = n
      BY <2>1
    <3>1. slot \in Slot /\ k \in BufferKind \ {"dup"} /\ o[1] = k /\ o[2] = slot
      BY <2>1, SlotFacts, BufferFreeFacts
    <3>2. k \notin {"arena", "event", "dup"}
      BY <3>1 DEF BufferKind
    <3>3. o \in Told
      BY <3>1, <3>2, ObjectFacts DEF Told
    <3>4. ~(slot < slot) /\ ~(n < n)
      BY DEF TypeOK
    <3>5. ~Gone(o)
      BY <2>1, <3>1, <3>4 DEF Gone
    <3> QED
      BY <2>1, <3>3, <3>5 DEF HandlesTell, Ended
  <2>2. CASE pc = "destroy" /\ \E k \in DOMAIN LibFree : o = Lib(k) /\ LibFree[k] = n
    <3> PICK k \in DOMAIN LibFree : o = Lib(k) /\ LibFree[k] = n
      BY <2>2
    <3>1. k \in LibKind \ {"arena", "event", "frame_callback"} /\ o \in Object /\ o[1] = k
      BY LibFreeFacts, ObjectFacts
    <3>2. o \in Told /\ o[1] \notin BufferKind
      BY <3>1, ObjectFacts DEF Told
    <3>3. ~(n < n)
      BY DEF TypeOK
    <3>4. ~Gone(o)
      BY <2>2, <3>1, <3>2, <3>3 DEF Gone
    <3> QED
      BY <2>2, <3>2, <3>4 DEF HandlesTell, Ended
  <2>3. CASE pc = "buffers" /\ n = 8 /\ o = <<"dmabuf_fd", slot>>
    <3>1. slot < NumBuffers
      BY <2>3, ConstantsAssumption DEF Places, TypeOK
    <3>2. slot \in Slot /\ BufferMake["dmabuf_fd"] < 8
      BY <3>1, SlotFacts, BufferMakeFacts
    <3>3. "dmabuf_fd" \in BufferKind \ {"dup"}
      BY DEF BufferKind
    <3> QED
      BY <2>3, <3>2, <3>3 DEF BuffersStand
  <2> QED
    BY <2>1, <2>2, <2>3 DEF NextFreed
<1> QED
  BY <1>1, Invariance, PTL

\* libwl_destroy frees what was made from an object before the object, whatever made
\* libwl_create stop.
THEOREM DependantsGoFirst == Spec => []DependantsFirst
<1>1. IInv => DependantsFirst
  <2> SUFFICES ASSUME IInv, NEW o \in NextFreed, NEW p \in live, o[1] \in Parents[p[1]]
               PROVE  FALSE
    BY DEF DependantsFirst
  <2> USE DEF IInv
  <2>1. p \in Object /\ o[1] \in LibKind
    BY ParentsFacts, ObjectFacts DEF TypeOK
  <2>2. PICK k \in DOMAIN LibFree : pc = "destroy" /\ o = Lib(k) /\ LibFree[k] = n /\ o[1] = k
    BY <2>1, BufferFreeFacts, LibFreeFacts, ObjectFacts DEF NextFreed
  <2>3. p \in Told => handle[p] = "set" /\ ~Gone(p)
    BY <2>2 DEF HandlesTell, Ended
  <2>4. CASE p[1] \in BufferKind
    <3>1. p[1] # "dup"
      BY <2>1, <2>2, <2>4, ObjectFacts DEF DupsShort, Ended
    <3>2. p[1] \notin {"arena", "event", "dup"}
      BY <3>1, <2>4 DEF BufferKind
    <3> QED
      BY <2>1, <2>2, <2>3, <2>4, <3>2 DEF Gone, Told
  <2>5. CASE p[1] \in LibKind
    <3>1. p[1] \notin {"arena", "event"}
      BY DEF Parents
    <3>2. p \in Told
      BY <3>1, <2>1, <2>5, ObjectFacts DEF Told
    <3>3. p = Lib(p[1]) /\ p[1] # "frame_callback"
      BY <3>2, <2>1, <2>2, <2>3, <2>5, ObjectFacts DEF CallbackFirst
    <3>4. p[1] \in DOMAIN LibFree
      BY <3>1, <3>3, <2>5, LibFreeFacts
    <3>5. LibFree[p[1]] < LibFree[k]
      BY <3>4, <2>2, LibFreeFacts
    <3> QED
      BY <3>2, <3>4, <3>5, <2>2, <2>3 DEF Gone
  <2> QED
    BY <2>1, <2>4, <2>5, ObjectFacts
<1> QED
  BY <1>1, Invariance, PTL

\* What libwl_create and create_buffer make has all it is made from.
THEOREM AllMadeFromLive == Spec => []MadeFromLive
<1>1. IInv => MadeFromLive
  <2> SUFFICES ASSUME IInv  PROVE MadeFromLive
    OBVIOUS
  <2> USE DEF IInv
  <2>1. ASSUME pc = "create", NEW k \in DOMAIN LibMake, LibMake[k] = n, NEW p \in Parents[k]
        PROVE  Lib(p) \in live \cup LibMadeAt(n)
    <3>1. p \in DOMAIN LibMake /\ LibMake[p] <= n /\ LibMake[p] \in 0 .. 13
      BY <2>1, LibMakeFacts
    <3>2. LibMake[p] < n \/ LibMake[p] = n
      BY <3>1 DEF TypeOK
    <3> QED
      BY <3>1, <3>2, <2>1 DEF LibsMade, LibMadeAt
  <2>2. ASSUME pc = "buffers", NEW k \in BufferKind, NEW p \in Parents[k]
        PROVE  Lib(p) \in live
    BY <2>2, ParentsFacts DEF LibsMade
  <2> QED
    BY <2>1, <2>2 DEF MadeFromLive
<1> QED
  BY <1>1, Invariance, PTL

\* After libwl_destroy only the arena's mapping is left, and the event loop of a libwl_run
\* that failed.
THEOREM LeavesNothing == Spec => []NothingLeft
<1>1. IInv => NothingLeft
  <2> SUFFICES ASSUME IInv, pc = "destroyed", NEW o \in live
               PROVE  o \in {Lib("arena"), Lib("event")}
    BY DEF NothingLeft
  <2>1. o \in Object /\ o \notin Told
    BY DEF IInv, TypeOK, HandlesTell, Ended, Gone
  <2>2. o[1] # "dup"
    BY <2>1, ObjectFacts DEF IInv, DupsShort, Ended
  <2> QED
    BY <2>1, <2>2, ObjectFacts DEF Told
<1> QED
  BY <1>1, Invariance, PTL

\* No path out of setup_vulkan keeps its scratch allocations.
THEOREM ScratchGoesBack == Spec => []ScratchReturned
<1>1. IInv => ScratchReturned
  BY DEF IInv, Places, ScratchReturned
<1> QED
  BY <1>1, Invariance, PTL

\* While the client may present, it has all its objects and no stray descriptor.
THEOREM CompleteInUse == Spec => []CompleteWhenUsed
<1>1. IInv => CompleteWhenUsed
  <2> SUFFICES ASSUME IInv, pc \in {"ready", "loop"}  PROVE CompleteWhenUsed
    BY DEF CompleteWhenUsed
  <2>1. \A k \in DOMAIN LibMake : Lib(k) \in live /\ handle[Lib(k)] = "set"
    BY DEF IInv, LibsMade
  <2>2. \A s \in Slot : <<"dup", s>> \notin live
    BY DEF IInv, DupsShort, Ended
  <2>3. \A s \in Slot, k \in BufferKind \ {"dup"} : <<k, s>> \in live <=> k # "dmabuf_fd"
    BY DEF IInv, BuffersStand
  <2> QED
    BY <2>1, <2>2, <2>3 DEF CompleteWhenUsed
<1> QED
  BY <1>1, Invariance, PTL

-----------------------------------------------------------------------------
\* Whose descriptors are closed.  A zero that was never a descriptor is closed only where
\* memset left it: as long as create_buffer has not come to the end of a slot.

FdsNamed ==
  \A s \in Slot : handle[<<"wl_buf", s>>] = "set" =>
    handle[Lib("drm_fd")] # "zero" /\ handle[<<"dmabuf_fd", s>>] # "zero"

\* The three handles of a slot are fields of their own.
LEMMA FdFields ==
  /\ Lib("drm_fd") \in Object /\ Lib("drm_fd")[1] = "drm_fd"
  /\ \A s \in Slot : /\ <<"wl_buf", s>> \in Object /\ <<"dmabuf_fd", s>> \in Object
                     /\ <<"wl_buf", s>>[1] = "wl_buf" /\ <<"dmabuf_fd", s>>[1] = "dmabuf_fd"
  /\ {"wl_buf", "dmabuf_fd"} \subseteq BufferKind /\ "drm_fd" \in LibKind
  /\ "drm_fd" \notin BufferKind /\ "wl_buf" \notin Fd
  /\ "drm_fd" \in DOMAIN LibMake
  /\ \A k \in LibKind, s \in Slot : <<"wl_buf", s>> # Lib(k) /\ <<"dmabuf_fd", s>> # Lib(k)
  /\ \A s, t : <<"wl_buf", s>> # <<"dmabuf_fd", t>> /\ <<"wl_buf", s>> # <<"bo", t>>
                /\ <<"dmabuf_fd", s>> # <<"bo", t>>
BY DEF Lib, Object, LibKind, BufferKind, Fd, LibMake

\* A step that finishes no slot and sets no descriptor to 0 changes nothing of it.
LEMMA FdsKept ==
  ASSUME FdsNamed,
         \A s \in Slot : handle'[<<"wl_buf", s>>] = "set" => handle[<<"wl_buf", s>>] = "set",
         handle'[Lib("drm_fd")] = "zero" => handle[Lib("drm_fd")] = "zero",
         \A s \in Slot : handle'[<<"dmabuf_fd", s>>] = "zero" => handle[<<"dmabuf_fd", s>>] = "zero"
  PROVE  FdsNamed'
BY DEF FdsNamed

\* Making anything but a wl_buffer is such a step.
LEMMA FdsMade ==
  ASSUME FdsNamed, NEW os, Made(os), \A s \in Slot : <<"wl_buf", s>> \notin os
  PROVE  FdsNamed'
<1>1. \A o \in Object : handle'[o] = IF o \in os THEN "set" ELSE handle[o]
  BY DEF Made
<1> QED
  BY <1>1, FdFields, FdsKept

\* libwl_create: memset, and everything before the buffers.
LEMMA FdsCreate ==
  ASSUME IInv, FdsNamed, Create
  PROVE  FdsNamed' /\ stdin' = stdin
<1>m. \A i : \A s \in Slot : <<"wl_buf", s>> \notin LibMadeAt(i)
  BY ObjectFacts, LibMakeFacts, FdFields DEF LibMadeAt, Lib
<1>1. CASE Begin
  <2>1. \A s \in Slot : handle'[<<"wl_buf", s>>] # "set"
    BY <1>1, FdFields DEF Begin
  <2> QED
    BY <1>1, <2>1 DEF FdsNamed, Begin
<1>2. CASE Connect \/ SetUpVulkan \/ MakeWindow
  <2>1. Made(LibMadeAt(n)) /\ stdin' = stdin
    BY <1>2 DEF Connect, SetUpVulkan, MakeWindow
  <2> QED
    BY <2>1, <1>m, FdsMade
<1>3. CASE GlobalsMissing
  <2>1. PICK os \in SUBSET LibMadeAt(3) : Made(os)
    BY <1>3 DEF GlobalsMissing
  <2>2. \A s \in Slot : <<"wl_buf", s>> \notin os
    BY <2>1, <1>m
  <2> QED
    BY <1>3, <2>1, <2>2, FdsMade DEF GlobalsMissing
<1>4. CASE ConnectFails
  <2>1. \A o \in Object : handle'[o] = handle[o] \/ handle'[o] = "minus"
    BY <1>4 DEF ConnectFails, IInv, TypeOK
  <2> QED
    BY <1>4, <2>1, FdFields, FdsKept DEF ConnectFails
<1>5. CASE SetUpVulkanFails
  BY <1>5 DEF SetUpVulkanFails, resources, FdsNamed
<1> QED
  BY <1>1, <1>2, <1>3, <1>4, <1>5 DEF Create

\* create_buffer: a slot that comes to its end has the descriptor it opened, then -1, and
\* close is given a descriptor that is one.
LEMMA FdsBuffers ==
  ASSUME IInv, FdsNamed, CreateBuffer
  PROVE  FdsNamed' /\ stdin' = stdin
<1>1. CASE MakeBo \/ MakeBoFails
  <2>1. /\ \A o \in Object : handle'[o] \in {Fresh(o), IF o = <<"bo", slot>> THEN "set" ELSE Fresh(o)}
        /\ stdin' = stdin
    BY <1>1 DEF MakeBo, MakeBoFails
  <2>2. ASSUME NEW s \in Slot, NEW k \in {"wl_buf", "dmabuf_fd"}
        PROVE  handle'[<<k, s>>] = handle[<<k, s>>]
               \/ handle'[<<k, s>>] = IF k = "dmabuf_fd" THEN "minus" ELSE "zero"
    BY <2>1, FdFields DEF Fresh
  <2>3. handle'[Lib("drm_fd")] = handle[Lib("drm_fd")]
    <3>1. "bo" # "drm_fd" /\ <<"bo", slot>>[1] = "bo"
      OBVIOUS
    <3> QED
      BY <2>1, <3>1, FdFields DEF Fresh
  <2> QED
    BY <2>1, <2>2, <2>3, FdsKept
<1>2. CASE Import
  <2>1. \A o \in Object : handle'[o] = handle[o] \/ (o[1] = "memory" /\ handle'[o] = "set")
    BY <1>2 DEF Import, IInv, TypeOK
  <2> QED
    BY <1>2, <2>1, FdFields, FdsKept DEF Import
<1>3. CASE MakeNext
  <2>1. PICK k \in BufferKind : BufferMake[k] = n /\ Made({<<k, slot>>})
    BY <1>3, BufferMakeFacts DEF MakeNext
  <2>2. stdin' = stdin /\ pc = "buffers" /\ slot \in Slot /\ n \in {1, 2, 3, 5, 6, 7}
    BY <1>3, SlotFacts DEF MakeNext, IInv
  <2>3. CASE k # "wl_buf"
    BY <2>1, <2>2, <2>3, FdsMade
  <2>4. CASE k = "wl_buf"
    <3>1. n = 7
      BY <2>1, <2>4 DEF BufferMake
    <3>2. <<"dmabuf_fd", slot>> \in live
      <4>1. BufferMake["dmabuf_fd"] < n /\ "dmabuf_fd" \in BufferKind \ {"dup"}
        BY <3>1 DEF BufferMake, BufferKind
      <4> QED
        BY <2>2, <4>1 DEF IInv, BuffersStand
    <3>3. handle[<<"dmabuf_fd", slot>>] = "set"
      BY <2>2, <3>2, FdFields DEF IInv, HandlesTell, Ended, Told
    <3>4. handle[Lib("drm_fd")] = "set"
      BY <2>2, FdFields DEF IInv, LibsMade
    <3>5. \A o \in Object : handle'[o] = IF o = <<"wl_buf", slot>> THEN "set" ELSE handle[o]
      BY <2>1, <2>4 DEF Made
    <3>6. \A s \in Slot : s # slot => handle'[<<"wl_buf", s>>] = handle[<<"wl_buf", s>>]
      BY <3>5, FdFields
    <3>7. /\ handle'[Lib("drm_fd")] = handle[Lib("drm_fd")]
          /\ \A s \in Slot : handle'[<<"dmabuf_fd", s>>] = handle[<<"dmabuf_fd", s>>]
      BY <2>2, <3>5, FdFields
    <3> QED
      BY <2>2, <3>3, <3>4, <3>6, <3>7 DEF FdsNamed
  <2> QED
    BY <2>3, <2>4
<1>4. CASE MakeAborts \/ MakeWlBufFails \/ BuffersMade
  BY <1>4 DEF MakeAborts, MakeWlBufFails, BuffersMade, resources, FdsNamed
<1>5. CASE CloseDmabufFd
  <2>1. pc = "buffers" /\ n = 8 /\ slot \in Slot
    BY <1>5, SlotFacts DEF CloseDmabufFd, IInv
  <2>2. <<"dmabuf_fd", slot>> \in live
    <3>1. BufferMake["dmabuf_fd"] < n /\ "dmabuf_fd" \in BufferKind \ {"dup"}
      BY <2>1 DEF BufferMake, BufferKind
    <3> QED
      BY <2>1, <3>1 DEF IInv, BuffersStand
  <2>3. handle[<<"dmabuf_fd", slot>>] = "set"
    BY <2>1, <2>2, FdFields DEF IInv, HandlesTell, Ended, Told
  <2>4. stdin' = stdin
    BY <1>5, <2>3 DEF CloseDmabufFd, Freed, IInv, TypeOK
  <2>5. \A o \in Object : handle'[o] = handle[o] \/ handle'[o] = "minus"
    BY <1>5 DEF CloseDmabufFd, IInv, TypeOK
  <2> QED
    BY <2>4, <2>5, FdFields, FdsKept
<1> QED
  BY <1>1, <1>2, <1>3, <1>4, <1>5 DEF CreateBuffer

\* Nothing between create and destroy opens or closes a descriptor.
LEMMA FdsUse ==
  ASSUME IInv, FdsNamed, Use \/ UNCHANGED vars
  PROVE  FdsNamed' /\ stdin' = stdin
<1>1. CASE Run \/ RunFails \/ GetInput \/ Present
  <2>1. stdin' = stdin
    BY <1>1 DEF Run, RunFails, GetInput, Present
  <2>k. {"event", "frame_callback", "pointer", "keyboard"} \subseteq LibKind
    BY ObjectFacts
  <2>2. PICK os \in SUBSET {Lib(k) : k \in LibKind} : Made(os)
    <3>1. CASE Run
      <4>1. PICK asked \in SUBSET {Lib("frame_callback")} : Made({Lib("event")} \cup asked)
        BY <3>1 DEF Run
      <4> QED
        BY <2>k, <4>1
    <3>2. CASE RunFails
      BY <2>k, <3>2 DEF RunFails
    <3>3. CASE GetInput
      BY <2>k, <3>3 DEF GetInput
    <3>4. CASE Present
      BY <2>k, <3>4 DEF Present
    <3> QED
      BY <1>1, <3>1, <3>2, <3>3, <3>4
  <2>3. \A s \in Slot : <<"wl_buf", s>> \notin os
    BY <2>2, FdFields
  <2> QED
    BY <2>1, <2>2, <2>3, FdsMade
<1>2. CASE RunEnds \/ FrameDone
  <2>1. /\ stdin' = stdin
        /\ \A o \in Object : handle'[o] = handle[o] \/ (o \in {Lib("event"), Lib("frame_callback")}
                                                        /\ handle'[o] = "zero")
    BY <1>2 DEF RunEnds, FrameDone, IInv, TypeOK
  <2>2. \A s \in Slot : /\ <<"wl_buf", s>> \notin {Lib("event"), Lib("frame_callback")}
                        /\ <<"dmabuf_fd", s>> \notin {Lib("event"), Lib("frame_callback")}
    BY DEF Lib
  <2>3. Lib("drm_fd") \notin {Lib("event"), Lib("frame_callback")}
    BY DEF Lib
  <2> QED
    BY <2>1, <2>2, <2>3, FdFields, FdsKept
<1>3. CASE GpuDone \/ Resize \/ UNCHANGED vars
  BY <1>3 DEF GpuDone, Resize, vars, resources, FdsNamed
<1> QED
  BY <1>1, <1>2, <1>3 DEF Use

\* libwl_destroy and destroy_buffer change no handle of a descriptor, and close 0 only
\* where such a handle is zero.
LEMMA FdsDestroy ==
  ASSUME IInv, FdsNamed, DestroyAll
  PROVE  /\ FdsNamed'
         /\ stdin' # stdin => \E s \in Slot : handle[<<"wl_buf", s>>] # "set"
<1>0. 0 \in Slot
  BY ConstantsAssumption DEF Slot
<1>z. ASSUME NEW o \in Object, Freed(o), stdin' # stdin
      PROVE  handle[o] = "zero" /\ (o = Lib("drm_fd") \/ \E s \in Slot : o = <<"dmabuf_fd", s>>)
  BY <1>z, ObjectFacts, FdFields DEF Freed, IInv, TypeOK, Fd
<1>p. ASSUME NEW o \in Object, Freed(o), stdin' # stdin
      PROVE  \E s \in Slot : handle[<<"wl_buf", s>>] # "set"
  BY <1>p, <1>z, <1>0 DEF FdsNamed
<1>1. CASE DestroyBegins
  <2>1. \A o \in Object : handle'[o] = IF o = Lib("frame_callback") THEN "zero" ELSE handle[o]
    BY <1>1 DEF DestroyBegins, IInv, TypeOK
  <2>2. Lib("frame_callback") # Lib("drm_fd")
        /\ \A s \in Slot : /\ <<"wl_buf", s>> # Lib("frame_callback")
                           /\ <<"dmabuf_fd", s>> # Lib("frame_callback")
    BY DEF Lib
  <2>3. FdsNamed'
    BY <2>1, <2>2, FdFields, FdsKept
  <2>4. Freed(Lib("frame_callback")) /\ Lib("frame_callback") \in Object
    BY <1>1, ObjectFacts DEF DestroyBegins
  <2> QED
    BY <2>3, <2>4, <1>p
<1>2. CASE FreeNext
  <2>1. PICK k \in DOMAIN BufferFree : Freed(<<k, slot>>)
    BY <1>2 DEF FreeNext
  <2>2. <<k, slot>> \in Object
    BY <1>2, <2>1, SlotFacts, ObjectFacts, BufferFreeFacts DEF FreeNext, IInv
  <2> QED
    BY <1>2, <2>1, <2>2, <1>p DEF FreeNext, FdsNamed
<1>3. CASE BuffersFreed \/ Exit
  BY <1>3 DEF BuffersFreed, Exit, resources, FdsNamed
<1>4. CASE DestroyNext
  <2>1. PICK k \in DOMAIN LibFree : Freed(Lib(k))
    BY <1>4 DEF DestroyNext
  <2>2. Lib(k) \in Object
    BY <2>1, ObjectFacts, LibFreeFacts
  <2> QED
    BY <1>4, <2>1, <2>2, <1>p DEF DestroyNext, FdsNamed
<1> QED
  BY <1>1, <1>2, <1>3, <1>4 DEF DestroyAll

\* No step closes descriptor 0 once every buffer has come to its end: only what a failed
\* libwl_create left makes libwl_destroy close a descriptor that libwl never opened.
THEOREM ForeignClosePartial == Spec => ForeignCloseIsPartial
<1>1. Init => FdsNamed
  <2>1. Init => \A s \in Slot : handle[<<"wl_buf", s>>] = "zero"
    BY FdFields DEF Init
  <2> QED
    BY <2>1 DEF FdsNamed
<1>2. IInv /\ FdsNamed /\ [Next]_vars =>
        FdsNamed' /\ [stdin' # stdin => \E s \in Slot : handle[<<"wl_buf", s>>] # "set"]_vars
  BY FdsCreate, FdsBuffers, FdsUse, FdsDestroy DEF Next
<1> QED
  BY <1>1, <1>2, Invariance, PTL DEF Spec, ForeignCloseIsPartial
=============================================================================
