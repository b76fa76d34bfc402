--------------------------- MODULE FrameLoopProofs ---------------------------
(***************************************************************************)
(* Proofs about FrameLoop, for every number of buffers, every set of       *)
(* identities and every choice of the other constants.                     *)
(***************************************************************************)
EXTENDS FrameLoop, SequenceTheorems, WellFoundedInduction, TLAPS

USE DEF Commit, Ack, Pong, Recreate

-----------------------------------------------------------------------------
\* What a request or an event of each kind carries.
LEMMA RequestFields ==
  ASSUME NEW m \in Request
  PROVE  /\ m.type = "commit" => /\ m.buf \in WlBuffer \cup {None}
                                 /\ m.size \in Size \cup {None}
                                 /\ m.cb \in Callback \cup {None}
         /\ m.type = "ack" => m.size \in Size \cup {None}
         /\ m.type = "recreate" => m.gen \in Gen
BY DEF Request

\* What a handler may read of the event it was called with.
LEMMA EventFields ==
  ASSUME NEW e \in Event
  PROVE  /\ e.type = "release" => e.buf \in WlBuffer
         /\ e.type = "done" => e.cb \in Callback
         /\ e.type \in {"toplevel", "configure"} => e.size \in Size \cup {None}
BY DEF Event

\* A new buffer is a buffer.
LEMMA FreshBufferType ==
  ASSUME NEW sz \in Size
  PROVE  FreshBuffer(sz) \in BufferState
BY DEF FreshBuffer, BufferState

\* next_free_buffer returns a buffer that is not busy when there is one.
LEMMA NextFreeIsFree ==
  ASSUME Free # {}
  PROVE  NextFree \in Slot /\ ~buffers[NextFree].busy
<1> DEFINE R == {p \in Nat \X Nat : p[1] < p[2]}
<1>1. Free \subseteq Nat
  BY ConstantsAssumption DEF Free, Slot
<1>2. PICK s \in Free : \A t \in Free : <<t, s>> \notin R
  <2>1. IsWellFoundedOn(R, Nat)
    BY NatLessThanWellFounded DEF OpToRel
  <2> HIDE DEF R
  <2> QED
    BY <1>1, <2>1, WFMin
<1>3. ASSUME NEW t \in Free  PROVE  s <= t
  <2>1. s \in Nat /\ t \in Nat
    BY <1>1
  <2>2. ~(t < s)
    BY <1>2, <2>1
  <2> QED
    BY <2>1, <2>2
<1> QED
  BY <1>3 DEF NextFree, Free

-----------------------------------------------------------------------------
\* The queues of the socket keep their types.

\* wl_display_flush moves requests and makes none.
LEMMA FlushType ==
  ASSUME SocketTypeOK, NEW reqs \in Seq(Request), Flush(reqs)
  PROVE  outbuf' \in Seq(Request) /\ wire' \in Seq(Request)
<1>1. wire \o outbuf \o reqs \in Seq(Request) /\ <<>> \in Seq(Request)
  BY ConcatProperties, EmptySeq DEF SocketTypeOK
<1> QED
  BY <1>1 DEF Flush, SocketTypeOK

\* The event a handler takes is one that was sent.
LEMMA TakeEvent ==
  ASSUME SocketTypeOK, NEW kind, Take(kind)
  PROVE  /\ Head(events) \in Event /\ Head(events).type = kind
         /\ events' \in Seq(Event) /\ nread' \in 0 .. Len(events')
         /\ connected' \in BOOLEAN
<1>1. events \in Seq(Event) /\ nread \in 0 .. Len(events) /\ nread > 0
  BY DEF SocketTypeOK, Take
<1>2. events # <<>>
  BY <1>1, EmptySeq
<1>3. /\ Head(events) \in Event /\ Tail(events) \in Seq(Event)
      /\ Len(Tail(events)) = Len(events) - 1 /\ Len(events) \in Nat
  BY <1>1, <1>2, HeadTailProperties, LenProperties
<1> QED
  BY <1>1, <1>3 DEF Take, SocketTypeOK

\* Taking an event leaves the socket well typed.
LEMMA TakeType ==
  ASSUME SocketTypeOK, NEW kind, Take(kind), UNCHANGED <<outbuf, wire>>
  PROVE  SocketTypeOK'
BY TakeEvent DEF SocketTypeOK

\* So does an event the compositor sends.
LEMMA SendType ==
  ASSUME SocketTypeOK, NEW e \in Event, Send(e)
  PROVE  SocketTypeOK'
<1>1. events \in Seq(Event) /\ nread \in 0 .. Len(events) /\ Len(events) \in Nat
  BY LenProperties DEF SocketTypeOK
<1>2. Append(events, e) \in Seq(Event) /\ Len(Append(events, e)) = Len(events) + 1
  BY <1>1, AppendProperties
<1> QED
  BY <1>1, <1>2 DEF Send, SocketTypeOK

\* So does a request the compositor reads.
LEMMA ReceiveType ==
  ASSUME SocketTypeOK, NEW kind, Receive(kind)
  PROVE  /\ Head(wire) \in Request /\ Head(wire).type = kind
         /\ SocketTypeOK'
<1>1. wire \in Seq(Request) /\ wire # <<>>
  BY DEF SocketTypeOK, Receive
<1>2. Head(wire) \in Request /\ Tail(wire) \in Seq(Request)
  BY <1>1, HeadTailProperties
<1> QED
  BY <1>2 DEF Receive, SocketTypeOK

\* So does a request that libwayland buffers.
LEMMA AppendRequest ==
  ASSUME SocketTypeOK, NEW m \in Request
  PROVE  Append(outbuf, m) \in Seq(Request)
BY AppendProperties DEF SocketTypeOK

\* Types of parts that a step leaves alone.
LEMMA Unchanged ==
  /\ LibTypeOK /\ UNCHANGED Client => LibTypeOK'
  /\ SocketTypeOK /\ UNCHANGED socket => SocketTypeOK'
  /\ CompositorTypeOK /\ UNCHANGED compositor => CompositorTypeOK'
<1>1. LibTypeOK /\ UNCHANGED Client => LibTypeOK'
  BY DEF LibTypeOK, Client, lib
<1>2. SocketTypeOK /\ UNCHANGED socket => SocketTypeOK'
  BY DEF SocketTypeOK, socket
<1>3. CompositorTypeOK /\ UNCHANGED compositor => CompositorTypeOK'
  BY DEF CompositorTypeOK, compositor
<1> QED
  BY <1>1, <1>2, <1>3

-----------------------------------------------------------------------------
\* Every reachable state has the types that the structures of libwl.h declare, and
\* cur_buf names a buffer whenever the user's frame callback runs.

\* The state after libwl_create is well typed.
LEMMA InitTypeOK == Init => TypeOK
<1> SUFFICES ASSUME Init PROVE TypeOK
  OBVIOUS
<1>1. LibTypeOK
  <2>1. buffers \in [Slot -> BufferState]
    BY FreshBufferType DEF Init
  <2> QED
    BY <2>1 DEF Init, LibTypeOK
<1>2. SocketTypeOK
  <2>1. outbuf \in Seq(Request)
    BY DEF Init, Request
  <2>2. <<>> \in Seq(Request) /\ <<>> \in Seq(Event) /\ Len(events) = 0
    BY EmptySeq DEF Init
  <2>3. nread \in 0 .. Len(events)
    BY <2>2 DEF Init
  <2> QED
    BY <2>1, <2>2, <2>3 DEF Init, SocketTypeOK
<1>3. CompositorTypeOK
  BY DEF Init, CompositorTypeOK
<1> QED
  BY <1>1, <1>2, <1>3 DEF TypeOK

\* No step of the client touches the compositor.
LEMMA ClientKeepsCompositor ==
  ASSUME ClientStep \/ Run \/ RunFails \/ OnSignal \/ Destroy
  PROVE  UNCHANGED compositor
<1>1. CASE Run \/ RunFails \/ OnSignal \/ Destroy \/ OnConnectionLost \/ LoopExit \/ Dispatch
  BY <1>1 DEF Run, RunFails, OnSignal, OnConnectionLost, RequestExit, Destroy, LoopExit,
     Dispatch
<1>2. CASE Handler
  BY <1>2 DEF Handler, OnBufferRelease, OnFrameDone, OnToplevelConfigure,
     OnSurfaceConfigure, OnPing, OnClose
<1>3. CASE Frame
  BY <1>3 DEF Frame, FrameResize, RecreateAborts, FrameSkip, FrameBegin, Present,
     PresentFails, PresentSkipped
<1> QED
  BY <1>1, <1>2, <1>3 DEF ClientStep

\* Types over the Wayland event handlers.
LEMMA HandlerType ==
  ASSUME LibTypeOK, SocketTypeOK, Handler
  PROVE  LibTypeOK' /\ SocketTypeOK'
<1>1. CASE OnBufferRelease
  <2>1. Head(events).buf \in WlBuffer
    BY <1>1, TakeEvent, EventFields DEF OnBufferRelease
  <2>2. buffers' \in [Slot -> BufferState]
    BY <1>1, <2>1 DEF OnBufferRelease, LibTypeOK, BufferState, WlBuffer
  <2>3. LibTypeOK'
    BY <1>1, <2>2 DEF OnBufferRelease, LibTypeOK, lib
  <2> QED
    BY <1>1, <2>3, TakeType DEF OnBufferRelease
<1>2. CASE OnFrameDone
  <2>1. LibTypeOK'
    BY <1>2 DEF OnFrameDone, LibTypeOK
  <2> QED
    BY <1>2, <2>1, TakeType DEF OnFrameDone
<1>3. CASE OnToplevelConfigure
  <2>1. Head(events).size \in Size \cup {None}
    BY <1>3, TakeEvent, EventFields DEF OnToplevelConfigure
  <2>2. size' \in Size /\ pendingResize' \in BOOLEAN
    BY <1>3, <2>1 DEF OnToplevelConfigure, LibTypeOK
  <2>3. LibTypeOK'
    BY <1>3, <2>2 DEF OnToplevelConfigure, LibTypeOK
  <2> QED
    BY <1>3, <2>3, TakeType DEF OnToplevelConfigure
<1>6. CASE OnSurfaceConfigure
  <2>1. Head(events).size \in Size \cup {None}
    BY <1>6, TakeEvent, EventFields DEF OnSurfaceConfigure
  <2>2. outbuf' \in Seq(Request)
    <3>1. Ack(Head(events).size) \in Request
      BY <2>1 DEF Request
    <3> QED
      BY <1>6, <3>1, AppendRequest DEF OnSurfaceConfigure
  <2>3. pc' \in {pc, "frame"}
    BY <1>6 DEF OnSurfaceConfigure
  <2>4. LibTypeOK'
    BY <1>6, <2>3 DEF OnSurfaceConfigure, LibTypeOK
  <2>5. SocketTypeOK'
    BY <1>6, <2>2, TakeEvent DEF OnSurfaceConfigure, SocketTypeOK
  <2> QED
    BY <2>4, <2>5
<1>4. CASE OnPing
  <2>1. outbuf' \in Seq(Request)
    BY <1>4, AppendRequest DEF OnPing, Request
  <2>2. LibTypeOK'
    BY <1>4 DEF OnPing, LibTypeOK, lib
  <2>3. SocketTypeOK'
    BY <1>4, <2>1, TakeEvent DEF OnPing, SocketTypeOK
  <2> QED
    BY <2>2, <2>3
<1>5. CASE OnClose
  <2>1. exiting' \in BOOLEAN
    BY <1>5 DEF OnClose
  <2>2. LibTypeOK'
    BY <1>5, <2>1 DEF OnClose, LibTypeOK
  <2> QED
    BY <1>5, <2>2, TakeType DEF OnClose
<1> QED
  BY <1>1, <1>2, <1>3, <1>4, <1>5, <1>6 DEF Handler

\* Types over the rest of on_frame_done and the frame callback.
LEMMA FrameType ==
  ASSUME LibTypeOK, SocketTypeOK, Frame
  PROVE  LibTypeOK' /\ SocketTypeOK'
<1>1. CASE FrameResize
  <2>1. Append(outbuf, Recreate(gen)) \in Seq(Request)
    BY AppendRequest DEF Request, LibTypeOK
  <2>2. outbuf' \in Seq(Request) /\ gen' \in Gen
    BY <1>1, <2>1 DEF FrameResize
  <2>3. buffers' \in [Slot -> BufferState]
    BY <1>1, FreshBufferType DEF FrameResize, LibTypeOK
  <2>4. LibTypeOK'
    BY <1>1, <2>2, <2>3 DEF FrameResize, LibTypeOK
  <2>5. SocketTypeOK'
    BY <1>1, <2>2 DEF FrameResize, SocketTypeOK
  <2> QED
    BY <2>4, <2>5
<1>2. CASE RecreateAborts
  BY <1>2 DEF RecreateAborts, LibTypeOK, SocketTypeOK, lib
<1>3. CASE FrameSkip
  BY <1>3, Unchanged DEF FrameSkip, LibTypeOK, lib
<1>4. CASE FrameBegin
  <2>1. NextFree \in Slot
    BY <1>4, NextFreeIsFree DEF FrameBegin
  <2>2. buffers' \in [Slot -> BufferState]
    BY <1>4, <2>1 DEF FrameBegin, LibTypeOK, BufferState
  <2>3. LibTypeOK'
    BY <1>4, <2>1, <2>2 DEF FrameBegin, LibTypeOK
  <2> QED
    BY <1>4, <2>3, Unchanged DEF FrameBegin
<1>5. CASE Present
  <2>1. curBuf \in Slot /\ <<gen, curBuf>> \in WlBuffer /\ buffers[curBuf].size \in Size
    BY <1>5 DEF Present, LibTypeOK, WlBuffer, BufferState
  <2>2. PICK cb \in Callback \ callbacks :
          /\ frameCallback' = cb
          /\ callbacks' = callbacks \cup {cb}
          /\ Flush(<<Commit(<<gen, curBuf>>, buffers[curBuf].size, cb)>>)
    BY <1>5 DEF Present
  <2>3. outbuf' \in Seq(Request) /\ wire' \in Seq(Request)
    <3>1. <<Commit(<<gen, curBuf>>, buffers[curBuf].size, cb)>> \in Seq(Request)
      BY <2>1 DEF Request
    <3> QED
      BY <2>2, <3>1, FlushType
  <2>4. buffers' \in [Slot -> BufferState]
    BY <1>5, <2>1 DEF Present, LibTypeOK, BufferState
  <2>5. LibTypeOK'
    BY <1>5, <2>1, <2>2, <2>4 DEF Present, LibTypeOK
  <2>6. SocketTypeOK'
    BY <1>5, <2>3 DEF Present, SocketTypeOK
  <2> QED
    BY <2>5, <2>6
<1>6. CASE PresentFails
  <2>1. PICK c \in {"invalid", "executable"} :
          buffers' = [buffers EXCEPT ![curBuf].cmd = c]
    BY <1>6 DEF PresentFails
  <2>2. buffers' \in [Slot -> BufferState]
    BY <1>6, <2>1 DEF PresentFails, LibTypeOK, BufferState
  <2>3. LibTypeOK'
    BY <1>6, <2>2 DEF PresentFails, LibTypeOK
  <2> QED
    BY <1>6, <2>3, Unchanged DEF PresentFails
<1>7. CASE PresentSkipped
  BY <1>7, Unchanged DEF PresentSkipped, LibTypeOK, lib
<1> QED
  BY <1>1, <1>2, <1>3, <1>4, <1>5, <1>6, <1>7 DEF Frame

\* Types over libwl_run, dispatching, leaving the loop and libwl_destroy.
LEMMA LoopType ==
  ASSUME LibTypeOK, SocketTypeOK,
         Run \/ RunFails \/ OnSignal \/ OnConnectionLost \/ LoopExit \/ Destroy \/ Dispatch
  PROVE  LibTypeOK' /\ SocketTypeOK'
<1>1. CASE Run
  <2>1. LibTypeOK'
    BY <1>1 DEF Run, LibTypeOK
  <2>2. outbuf' \in Seq(Request) /\ wire' \in Seq(Request)
    <3>1. \A cb \in Callback : <<Commit(None, None, cb)>> \in Seq(Request)
      BY DEF Request
    <3>2. <<>> \in Seq(Request)
      BY EmptySeq
    <3> QED
      BY <1>1, <3>1, <3>2, FlushType DEF Run
  <2>3. SocketTypeOK'
    BY <1>1, <2>2 DEF Run, SocketTypeOK
  <2> QED
    BY <2>1, <2>3
<1>2. CASE RunFails
  BY <1>2, Unchanged DEF RunFails, LibTypeOK
<1>3. CASE OnSignal \/ OnConnectionLost
  <2>1. RequestExit
    BY <1>3 DEF OnSignal, OnConnectionLost
  <2> QED
    BY <2>1, Unchanged DEF RequestExit, LibTypeOK
<1>4. CASE LoopExit
  BY <1>4, Unchanged DEF LoopExit, LibTypeOK, lib
<1>5. CASE Destroy
  <2>1. buffers' \in [Slot -> BufferState]
    BY <1>5 DEF Destroy, LibTypeOK, BufferState
  <2> QED
    BY <1>5, <2>1 DEF Destroy, LibTypeOK, SocketTypeOK
<1>6. CASE Dispatch
  <2>1. outbuf' \in Seq(Request) /\ wire' \in Seq(Request)
    BY <1>6, FlushType, EmptySeq DEF Dispatch
  <2>2. nread' \in 0 .. Len(events')
    BY <1>6, LenProperties DEF Dispatch, SocketTypeOK
  <2>3. SocketTypeOK'
    BY <1>6, <2>1, <2>2 DEF Dispatch, SocketTypeOK
  <2>4. LibTypeOK'
    BY <1>6 DEF Dispatch, LibTypeOK, lib
  <2> QED
    BY <2>3, <2>4
<1> QED
  BY <1>1, <1>2, <1>3, <1>4, <1>5, <1>6

\* The GPU and the compositor.
LEMMA ServerType ==
  ASSUME TypeOK,
         \/ ServerReceives
         \/ \E sz \in Size \cup {None} : SendToplevelConfigure(sz) \/ SendSurfaceConfigure(sz)
         \/ \E w \in WlBuffer : SendRelease(w)
         \/ \E cb \in Callback : SendDone(cb)
         \/ SendPing \/ SendClose \/ Hangup
  PROVE  TypeOK'
<1> USE DEF TypeOK
<1>1. CASE ReceiveCommit
  <2>1. CompositorTypeOK'
    BY <1>1, ReceiveType, RequestFields DEF ReceiveCommit, CompositorTypeOK
  <2> QED
    BY <1>1, <2>1, ReceiveType, Unchanged DEF ReceiveCommit
<1>2. CASE ReceiveAck
  <2>1. CompositorTypeOK'
    BY <1>2, ReceiveType, RequestFields DEF ReceiveAck, CompositorTypeOK
  <2> QED
    BY <1>2, <2>1, ReceiveType, Unchanged DEF ReceiveAck
<1>3. CASE ReceivePong
  <2>1. CompositorTypeOK'
    BY <1>3 DEF ReceivePong, CompositorTypeOK
  <2> QED
    BY <1>3, <2>1, ReceiveType, Unchanged DEF ReceivePong
<1>4. CASE ReceiveRecreate
  <2>1. CompositorTypeOK'
    BY <1>4 DEF ReceiveRecreate, CompositorTypeOK
  <2> QED
    BY <1>4, <2>1, ReceiveType, Unchanged DEF ReceiveRecreate
<1>5. CASE \E sz \in Size \cup {None} : SendToplevelConfigure(sz) \/ SendSurfaceConfigure(sz)
  <2>1. PICK sz \in Size \cup {None} : SendToplevelConfigure(sz) \/ SendSurfaceConfigure(sz)
    BY <1>5
  <2>2. [type |-> "toplevel", size |-> sz] \in Event /\ [type |-> "configure", size |-> sz] \in Event
    BY DEF Event
  <2>3. CompositorTypeOK'
    BY <2>1 DEF SendToplevelConfigure, SendSurfaceConfigure, CompositorTypeOK
  <2>4. SocketTypeOK'
    BY <2>1, <2>2, SendType DEF SendToplevelConfigure, SendSurfaceConfigure
  <2> QED
    BY <2>1, <2>3, <2>4, Unchanged DEF SendToplevelConfigure, SendSurfaceConfigure
<1>6. CASE \E w \in WlBuffer : SendRelease(w)
  <2>1. PICK w \in WlBuffer : SendRelease(w)
    BY <1>6
  <2>2. [type |-> "release", buf |-> w] \in Event
    BY DEF Event
  <2>3. CompositorTypeOK'
    BY <2>1 DEF SendRelease, CompositorTypeOK
  <2> QED
    BY <2>1, <2>2, <2>3, SendType, Unchanged DEF SendRelease
<1>7. CASE \E cb \in Callback : SendDone(cb)
  <2>1. PICK cb \in Callback : SendDone(cb)
    BY <1>7
  <2>2. [type |-> "done", cb |-> cb] \in Event
    BY DEF Event
  <2>3. CompositorTypeOK'
    BY <2>1 DEF SendDone, CompositorTypeOK
  <2> QED
    BY <2>1, <2>2, <2>3, SendType, Unchanged DEF SendDone
<1>8. CASE SendPing
  <2>1. [type |-> "ping"] \in Event
    BY DEF Event
  <2>2. CompositorTypeOK'
    BY <1>8 DEF SendPing, CompositorTypeOK
  <2> QED
    BY <1>8, <2>1, <2>2, SendType, Unchanged DEF SendPing
<1>9. CASE SendClose
  <2>1. [type |-> "close"] \in Event
    BY DEF Event
  <2> QED
    BY <1>9, <2>1, SendType, Unchanged DEF SendClose
<1>10. CASE Hangup
  <2>1. /\ SubSeq(events, 1, nread) \in Seq(Event)
        /\ Len(SubSeq(events, 1, nread)) = nread
    <3>1. \A i \in 1 .. nread : events[i] \in Event
      BY ElementOfSeq DEF SocketTypeOK
    <3>2. nread \in Nat
      BY LenProperties DEF SocketTypeOK
    <3> QED
      BY <3>1, <3>2, SubSeqProperties
  <2>2. nread' \in 0 .. Len(events')
    BY <1>10, <2>1, LenProperties DEF Hangup, SocketTypeOK
  <2>3. SocketTypeOK'
    BY <1>10, <2>1, <2>2, EmptySeq DEF Hangup, SocketTypeOK
  <2> QED
    BY <1>10, <2>3, Unchanged DEF Hangup
<1> QED
  BY <1>1, <1>2, <1>3, <1>4, <1>5, <1>6, <1>7, <1>8, <1>9, <1>10 DEF ServerReceives

\* Types over the end of a submission.
LEMMA GpuType ==
  ASSUME TypeOK, NEW s \in Slot, GpuDone(s)
  PROVE  TypeOK'
<1>1. buffers' \in [Slot -> BufferState]
  BY DEF GpuDone, TypeOK, LibTypeOK, BufferState
<1>2. LibTypeOK'
  BY <1>1 DEF GpuDone, TypeOK, LibTypeOK, lib
<1> QED
  BY <1>2, Unchanged DEF GpuDone, TypeOK

\* Types over every step.
LEMMA NextTypeOK == TypeOK /\ [Next]_vars => TypeOK'
<1> SUFFICES ASSUME TypeOK, [Next]_vars PROVE TypeOK'
  OBVIOUS
<1>1. CASE ClientStep \/ Run \/ RunFails \/ OnSignal \/ Destroy
  BY <1>1, ClientKeepsCompositor, HandlerType, FrameType, LoopType, Unchanged
  DEF ClientStep, TypeOK
<1>2. CASE \E s \in Slot : GpuDone(s)
  BY <1>2, GpuType
<1>3. CASE UNCHANGED vars
  BY <1>3, Unchanged DEF vars, Client, TypeOK
<1> QED
  BY <1>1, <1>2, <1>3, ServerType DEF Next

\* Every field of struct Libwl, every message under way and the compositor's state keep
\* their types, whatever handlers run in whatever order.
THEOREM TypeCorrect == Spec => []TypeOK
<1>1. Init => TypeOK
  BY InitTypeOK
<1>2. TypeOK /\ [Next]_vars => TypeOK'
  BY NextTypeOK
<1> QED
  BY <1>1, <1>2, PTL DEF Spec

-----------------------------------------------------------------------------
\* The Vulkan side of a frame.  FenceGuardsCommands is not inductive: that a present
\* leaves the fence unsignaled, and that the GPU does not signal it while the frame
\* is recorded, rests on what the GPU's queue and the user's callback work on.

UserRecords == pc = "user" => buffers[curBuf].cmd = "recording"

DeviceInv == GpuOwnsPending /\ FenceGuardsCommands /\ UserRecords

\* Steps that leave the buffers' Vulkan state alone.
Aside ==
  /\ \A s \in Slot : /\ buffers'[s].signaled = buffers[s].signaled
                     /\ buffers'[s].cmd = buffers[s].cmd
  /\ gpu' = gpu
  /\ curBuf' = curBuf
  /\ pc' = "user" <=> pc = "user"
  /\ pc' = "destroyed" <=> pc = "destroyed"

\* Steps that touch neither buffers nor the GPU keep what is said of them.
LEMMA AsideSteps ==
  ASSUME TypeOK,
         \/ Handler \/ ServerReceives \/ UNCHANGED vars
         \/ Run \/ RunFails \/ OnSignal \/ OnConnectionLost \/ LoopExit \/ Dispatch
         \/ RecreateAborts \/ FrameSkip
         \/ \E sz \in Size \cup {None} : SendToplevelConfigure(sz) \/ SendSurfaceConfigure(sz)
         \/ \E w \in WlBuffer : SendRelease(w)
         \/ \E cb \in Callback : SendDone(cb)
         \/ SendPing \/ SendClose \/ Hangup
  PROVE  Aside
<1>1. CASE OnBufferRelease
  <2>1. buffers' \in [Slot -> BufferState] /\ buffers \in [Slot -> BufferState]
    BY <1>1, HandlerType DEF Handler, TypeOK, LibTypeOK
  <2>2. Head(events).buf[2] \in Slot
    BY <1>1, TakeEvent, EventFields DEF OnBufferRelease, TypeOK, WlBuffer
  <2> QED
    BY <1>1, <2>1, <2>2 DEF OnBufferRelease, Take, Aside, lib, BufferState
<1>2. CASE OnFrameDone \/ OnToplevelConfigure \/ OnSurfaceConfigure \/ OnPing \/ OnClose
  BY <1>2 DEF OnFrameDone, OnToplevelConfigure, OnSurfaceConfigure, OnPing, OnClose, Take, Aside, lib
<1>3. CASE Run \/ RunFails \/ LoopExit \/ Dispatch
  BY <1>3 DEF Run, RunFails, LoopExit, Dispatch, Aside, lib
<1>4. CASE OnSignal \/ OnConnectionLost
  BY <1>4 DEF OnSignal, OnConnectionLost, RequestExit, Aside
<1>5. CASE RecreateAborts \/ FrameSkip
  BY <1>5 DEF RecreateAborts, FrameSkip, Aside, lib
<1>6. ASSUME UNCHANGED Client  PROVE Aside
  BY <1>6 DEF Client, Aside, lib
<1>7. ServerReceives => UNCHANGED Client
  BY DEF ServerReceives, ReceiveCommit, ReceiveAck, ReceivePong, ReceiveRecreate
<1>8. /\ \A sz \in Size \cup {None} :
           SendToplevelConfigure(sz) \/ SendSurfaceConfigure(sz) => UNCHANGED Client
      /\ \A w \in WlBuffer : SendRelease(w) => UNCHANGED Client
      /\ \A cb \in Callback : SendDone(cb) => UNCHANGED Client
      /\ SendPing \/ SendClose \/ Hangup => UNCHANGED Client
  BY DEF SendToplevelConfigure, SendSurfaceConfigure, SendRelease, SendDone, SendPing,
     SendClose, Hangup
<1>9. UNCHANGED vars => UNCHANGED Client
  BY DEF vars, Client
<1> QED
  BY <1>1, <1>2, <1>3, <1>4, <1>5, <1>6, <1>7, <1>8, <1>9 DEF Handler

\* Every step is one of these or one that works on a buffer.
LEMMA StepCases ==
  ASSUME TypeOK, [Next]_vars
  PROVE  \/ Aside
         \/ FrameResize \/ FrameBegin \/ Present \/ PresentFails \/ PresentSkipped
         \/ Destroy \/ \E s \in Slot : GpuDone(s)
BY AsideSteps DEF Next, ClientStep, Frame

\* Fences, command buffers and the GPU queue over every step.
LEMMA DeviceInvStep == TypeOK /\ DeviceInv /\ [Next]_vars => DeviceInv'
<1> SUFFICES ASSUME TypeOK, DeviceInv, [Next]_vars  PROVE DeviceInv'
  OBVIOUS
<1> USE DEF GpuOwnsPending, FenceGuardsCommands, UserRecords, DeviceInv
<1>t. buffers \in [Slot -> BufferState] /\ (pc = "user" => curBuf \in Slot)
  BY DEF TypeOK, LibTypeOK
<1>1. CASE Aside
  BY <1>1, <1>t DEF Aside
<1>2. CASE FrameResize
  BY <1>2 DEF FrameResize, FreshBuffer
<1>3. CASE FrameBegin
  <2>1. NextFree \in Slot /\ buffers[NextFree].signaled
    BY <1>3, NextFreeIsFree DEF FrameBegin
  <2>2. NextFree \notin gpu
    BY <1>3, <2>1 DEF FrameBegin
  <2> QED
    BY <1>3, <1>t, <2>1, <2>2 DEF FrameBegin, BufferState
<1>4. CASE Present
  BY <1>4, <1>t DEF Present, BufferState
<1>5. CASE PresentFails
  <2>1. PICK c \in {"invalid", "executable"} :
          buffers' = [buffers EXCEPT ![curBuf].cmd = c]
    BY <1>5 DEF PresentFails
  <2> QED
    BY <1>5, <1>t, <2>1 DEF PresentFails, BufferState
<1>6. CASE PresentSkipped
  BY <1>6 DEF PresentSkipped, lib
<1>7. CASE \E s \in Slot : GpuDone(s)
  BY <1>7, <1>t DEF GpuDone, BufferState, lib
<1>8. CASE Destroy
  <2>1. \A s \in Slot : buffers'[s].cmd = "freed" /\ buffers'[s].signaled = buffers[s].signaled
    BY <1>8, <1>t DEF Destroy, BufferState
  <2> QED
    BY <1>8, <2>1 DEF Destroy
<1> QED
  BY StepCases, <1>1, <1>2, <1>3, <1>4, <1>5, <1>6, <1>7, <1>8

\* The Vulkan side holds in every reachable state.
LEMMA DeviceInvHolds == Spec => []DeviceInv
<1>1. Init => DeviceInv
  BY DEF Init, FreshBuffer, DeviceInv, GpuOwnsPending, FenceGuardsCommands, UserRecords
<1>2. TypeOK /\ DeviceInv /\ [Next]_vars => DeviceInv'
  BY DeviceInvStep
<1> QED
  BY <1>1, <1>2, TypeCorrect, PTL DEF Spec

\* A command buffer that is executed or recorded has its fence unsignaled, so
\* on_frame_done, which waits for the fence of the buffer it takes, never begins it.
THEOREM CommandsGuarded == Spec => []FenceGuardsCommands
<1>1. DeviceInv => FenceGuardsCommands
  BY DEF DeviceInv
<1> QED
  BY <1>1, DeviceInvHolds, PTL

\* Until libwl_destroy the GPU works exactly on the command buffers that the slots have
\* submitted, so recreate_buffers, which waits for the device, frees none in use.
THEOREM GpuGuarded == Spec => []GpuOwnsPending
<1>1. DeviceInv => GpuOwnsPending
  BY DEF DeviceInv
<1> QED
  BY <1>1, DeviceInvHolds, PTL

\* While every frame callback presents, the fence that on_frame_done waits for without
\* a timeout is always going to be signaled.
THEOREM NoFenceDeadlock ==
  ASSUME MayFail = FALSE
  PROVE  Spec => []FenceOwed
<1>1. Init => FenceOwed
  BY DEF Init, FreshBuffer, FenceOwed
<1>2. TypeOK /\ DeviceInv /\ FenceOwed /\ [Next]_vars => FenceOwed'
  <2> SUFFICES ASSUME TypeOK, DeviceInv, FenceOwed, [Next]_vars  PROVE FenceOwed'
    OBVIOUS
  <2>t. buffers \in [Slot -> BufferState]
    BY DEF TypeOK, LibTypeOK
  <2>1. CASE Aside
    BY <2>1 DEF Aside, FenceOwed
  <2>2. CASE FrameResize
    BY <2>2 DEF FrameResize, FreshBuffer, FenceOwed
  <2>3. CASE FrameBegin
    BY <2>3, <2>t, NextFreeIsFree DEF FrameBegin, FenceOwed, BufferState
  <2>4. CASE Present
    BY <2>4, <2>t DEF Present, FenceOwed, BufferState
  <2>5. ~PresentFails /\ ~PresentSkipped
    BY DEF PresentFails, PresentSkipped
  <2>6. CASE \E s \in Slot : GpuDone(s)
    BY <2>6, <2>t DEF GpuDone, FenceOwed, BufferState, DeviceInv, GpuOwnsPending, lib
  <2>7. CASE Destroy
    BY <2>7 DEF Destroy, FenceOwed
  <2> QED
    BY StepCases, <2>1, <2>2, <2>3, <2>4, <2>5, <2>6, <2>7
<1> QED
  BY <1>1, <1>2, TypeCorrect, DeviceInvHolds, PTL DEF Spec

-----------------------------------------------------------------------------
\* Who has a buffer and who has a frame callback.  A buffer and a callback travel alike:
\* the client names it in a commit, the compositor keeps it, and gives it back with an
\* event.  The argument is that each is in at most one of these places at a time, and
\* there at most once; so the event that gives it back leaves it nowhere.

\* The places of q where a message of one kind names w in its field f.
At(q, kind, f, w) == {i \in DOMAIN q : q[i].type = kind /\ q[i][f] = w}

One(S) == \A i, j \in S : i = j

\* w is in a commit of q, in a reply of e or in what the compositor keeps ...
Somewhere(q, e, keeps, f, reply, w) ==
  At(q, "commit", f, w) # {} \/ At(e, reply, f, w) # {} \/ w \in keeps

\* ... and in no two of these.
OnePlace(q, e, keeps, f, reply, w) ==
  /\ One(At(q, "commit", f, w)) /\ One(At(e, reply, f, w))
  /\ At(q, "commit", f, w) # {} => w \notin keeps /\ At(e, reply, f, w) = {}
  /\ At(e, reply, f, w) # {} => w \notin keeps

\* From q to r, what names w does not become more.
Fewer(q, r, kind, f, w) ==
  /\ One(At(q, kind, f, w)) => One(At(r, kind, f, w))
  /\ At(r, kind, f, w) # {} => At(q, kind, f, w) # {}

-----------------------------------------------------------------------------
\* Queues.

\* A queue that loses its head.
LEMMA TailFewer ==
  ASSUME NEW M, NEW q \in Seq(M), q # <<>>, NEW kind, NEW f, NEW w
  PROVE  Fewer(q, Tail(q), kind, f, w)
<1>1. /\ Len(q) \in Nat \ {0} /\ DOMAIN q = 1 .. Len(q)
      /\ Tail(q) \in Seq(M) /\ Len(Tail(q)) = Len(q) - 1
      /\ DOMAIN Tail(q) = 1 .. Len(q) - 1
      /\ \A i \in 1 .. Len(q) - 1 : Tail(q)[i] = q[i + 1]
  BY HeadTailProperties, LenProperties, EmptySeq
<1>2. \A i \in At(Tail(q), kind, f, w) : i \in Nat /\ i + 1 \in At(q, kind, f, w)
  BY <1>1 DEF At
<1>3. ASSUME One(At(q, kind, f, w)),
             NEW i \in At(Tail(q), kind, f, w), NEW j \in At(Tail(q), kind, f, w)
      PROVE  i = j
  <2>1. i + 1 = j + 1 /\ i \in Nat /\ j \in Nat
    BY <1>2, <1>3 DEF One
  <2>2. QED
    BY <2>1
<1>4. QED
  BY <1>2, <1>3 DEF Fewer, One

\* A queue that loses the one message that names w.
LEMMA TailRemoves ==
  ASSUME NEW M, NEW q \in Seq(M), q # <<>>, NEW kind, NEW f, NEW w,
         Head(q).type = kind, Head(q)[f] = w, One(At(q, kind, f, w))
  PROVE  At(Tail(q), kind, f, w) = {} /\ At(q, kind, f, w) # {}
<1>1. /\ Len(q) \in Nat \ {0} /\ DOMAIN q = 1 .. Len(q)
      /\ Tail(q) \in Seq(M) /\ DOMAIN Tail(q) = 1 .. Len(q) - 1
      /\ \A i \in 1 .. Len(q) - 1 : Tail(q)[i] = q[i + 1]
      /\ Head(q) = q[1]
  BY HeadTailProperties, LenProperties, EmptySeq
<1>2. 1 \in At(q, kind, f, w)
  BY <1>1 DEF At
<1>3. \A i \in At(Tail(q), kind, f, w) : /\ i \in Nat \ {0}
                                        /\ i + 1 \in At(q, kind, f, w)
  BY <1>1 DEF At
<1>4. ASSUME NEW i \in At(Tail(q), kind, f, w)
      PROVE  FALSE
  <2>1. i + 1 = 1 /\ i \in Nat \ {0}
    BY <1>2, <1>3 DEF One
  <2>2. QED
    BY <2>1
<1>5. QED
  BY <1>2, <1>4

\* A queue that grows by one message.
LEMMA AppendAt ==
  ASSUME NEW M, NEW q \in Seq(M), NEW m \in M, NEW kind, NEW f, NEW w
  PROVE  /\ ~(m.type = kind /\ m[f] = w) => At(Append(q, m), kind, f, w) = At(q, kind, f, w)
         /\ At(q, kind, f, w) = {} => One(At(Append(q, m), kind, f, w))
<1>1. /\ Len(q) \in Nat /\ DOMAIN q = 1 .. Len(q)
      /\ Append(q, m) \in Seq(M) /\ DOMAIN Append(q, m) = 1 .. Len(q) + 1
      /\ \A i \in 1 .. Len(q) : Append(q, m)[i] = q[i]
      /\ Append(q, m)[Len(q) + 1] = m
  BY AppendProperties, LenProperties
<1>2. \A i \in At(Append(q, m), kind, f, w) :
        \/ i \in At(q, kind, f, w)
        \/ i = Len(q) + 1 /\ m.type = kind /\ m[f] = w
  BY <1>1 DEF At
<1>3. At(q, kind, f, w) \subseteq At(Append(q, m), kind, f, w)
  BY <1>1 DEF At
<1>4. QED
  BY <1>2, <1>3 DEF One

\* A queue that grows by messages that do not name w.
LEMMA ConcatAt ==
  ASSUME NEW M, NEW q \in Seq(M), NEW p \in Seq(M), NEW kind, NEW f, NEW w,
         At(p, kind, f, w) = {}
  PROVE  At(q \o p, kind, f, w) = At(q, kind, f, w)
<1>1. /\ Len(q) \in Nat /\ DOMAIN q = 1 .. Len(q)
      /\ Len(p) \in Nat /\ DOMAIN p = 1 .. Len(p)
      /\ q \o p \in Seq(M) /\ DOMAIN (q \o p) = 1 .. Len(q) + Len(p)
      /\ \A i \in 1 .. Len(q) + Len(p) :
           (q \o p)[i] = IF i <= Len(q) THEN q[i] ELSE p[i - Len(q)]
  BY ConcatProperties, LenProperties
<1>2. ASSUME NEW i \in At(q \o p, kind, f, w)
      PROVE  i \in At(q, kind, f, w)
  <2>1. i \in 1 .. Len(q) + Len(p) /\ (q \o p)[i].type = kind /\ (q \o p)[i][f] = w
    BY <1>1 DEF At
  <2>2. CASE i <= Len(q)
    BY <1>1, <2>1, <2>2 DEF At
  <2>3. CASE ~(i <= Len(q))
    <3>1. i - Len(q) \in 1 .. Len(p)
      BY <1>1, <2>1, <2>3
    <3>2. i - Len(q) \in At(p, kind, f, w)
      BY <1>1, <2>1, <2>3, <3>1 DEF At
    <3>3. QED
      BY <3>2
  <2>4. QED
    BY <2>2, <2>3
<1>3. At(q, kind, f, w) \subseteq At(q \o p, kind, f, w)
  BY <1>1 DEF At
<1>4. QED
  BY <1>2, <1>3

\* A queue that is cut short.
LEMMA CutAt ==
  ASSUME NEW M, NEW q \in Seq(M), NEW n \in 0 .. Len(q), NEW kind, NEW f, NEW w
  PROVE  At(SubSeq(q, 1, n), kind, f, w) \subseteq At(q, kind, f, w)
<1>1. /\ Len(q) \in Nat /\ DOMAIN q = 1 .. Len(q)
      /\ DOMAIN SubSeq(q, 1, n) = 1 .. n
      /\ \A i \in 1 .. n : SubSeq(q, 1, n)[i] = q[i]
  BY LenProperties, SubSeqProperties
<1>2. QED
  BY <1>1 DEF At

\* The empty queue names nothing.
LEMMA EmptyAt ==
  ASSUME NEW kind, NEW f, NEW w
  PROVE  At(<<>>, kind, f, w) = {}
BY DEF At

\* It is enough that every place that names w did before.
LEMMA SubsetFewer ==
  ASSUME NEW q, NEW r, NEW kind, NEW f, NEW w,
         At(r, kind, f, w) \subseteq At(q, kind, f, w)
  PROVE  Fewer(q, r, kind, f, w)
BY DEF Fewer, One

-----------------------------------------------------------------------------
\* Places.

\* Nothing moves, or what names w is lost.
LEMMA PlaceKept ==
  ASSUME NEW q, NEW r, NEW e, NEW d, NEW keeps, NEW kept, NEW f, NEW reply, NEW w,
         OnePlace(q, e, keeps, f, reply, w),
         Fewer(q, r, "commit", f, w), Fewer(e, d, reply, f, w), w \in kept => w \in keeps
  PROVE  /\ OnePlace(r, d, kept, f, reply, w)
         /\ Somewhere(r, d, kept, f, reply, w) => Somewhere(q, e, keeps, f, reply, w)
BY DEF OnePlace, Somewhere, Fewer

\* A commit that names w, which was nowhere.
LEMMA PlaceLent ==
  ASSUME NEW q, NEW r, NEW e, NEW keeps, NEW f, NEW reply, NEW w,
         ~Somewhere(q, e, keeps, f, reply, w), One(At(r, "commit", f, w))
  PROVE  OnePlace(r, e, keeps, f, reply, w)
BY DEF OnePlace, Somewhere, One

\* The compositor reads the commit that names w.
LEMMA PlaceReceived ==
  ASSUME NEW M, NEW q \in Seq(M), q # <<>>, NEW e, NEW keeps, NEW f, NEW reply, NEW w,
         OnePlace(q, e, keeps, f, reply, w), Head(q).type = "commit", Head(q)[f] = w
  PROVE  /\ OnePlace(Tail(q), e, keeps \cup {w}, f, reply, w)
         /\ Somewhere(q, e, keeps, f, reply, w)
<1>1. At(Tail(q), "commit", f, w) = {} /\ At(q, "commit", f, w) # {}
  BY TailRemoves DEF OnePlace
<1>2. QED
  BY <1>1 DEF OnePlace, Somewhere, One

\* The compositor gives w back.
LEMMA PlaceReplied ==
  ASSUME NEW M, NEW e \in Seq(M), NEW m \in M, NEW q, NEW keeps, NEW f, NEW reply,
         NEW w \in keeps, OnePlace(q, e, keeps, f, reply, w)
  PROVE  /\ OnePlace(q, Append(e, m), keeps \ {w}, f, reply, w)
         /\ Somewhere(q, e, keeps, f, reply, w)
<1>1. At(q, "commit", f, w) = {} /\ At(e, reply, f, w) = {}
  BY DEF OnePlace
<1>2. One(At(Append(e, m), reply, f, w))
  BY <1>1, AppendAt
<1>3. QED
  BY <1>1, <1>2 DEF OnePlace, Somewhere

\* The client handles the event that gives w back: w is nowhere.
LEMMA PlaceReturned ==
  ASSUME NEW M, NEW e \in Seq(M), e # <<>>, NEW q, NEW keeps, NEW f, NEW reply, NEW w,
         OnePlace(q, e, keeps, f, reply, w), Head(e).type = reply, Head(e)[f] = w
  PROVE  /\ OnePlace(q, Tail(e), keeps, f, reply, w)
         /\ ~Somewhere(q, Tail(e), keeps, f, reply, w)
<1>1. One(At(e, reply, f, w))
  BY DEF OnePlace
<1>2. At(Tail(e), reply, f, w) = {} /\ At(e, reply, f, w) # {}
  BY <1>1, TailRemoves
<1>3. QED
  BY <1>2 DEF OnePlace, Somewhere, One

-----------------------------------------------------------------------------
\* The invariant.

BufferPlace(w) == OnePlace(wire, events, held, "buf", "release", w)
BufferOut(w) == Somewhere(wire, events, held, "buf", "release", w)

CallbackPlace(cb) == OnePlace(wire, events, frames, "cb", "done", cb)
CallbackOut(cb) == Somewhere(wire, events, frames, "cb", "done", cb)

\* What waits to be flushed carries no buffer and no callback.
Unflushed ==
  \A i \in DOMAIN outbuf :
    outbuf[i].type = "commit" => outbuf[i].buf = None /\ outbuf[i].cb = None

Places ==
  /\ \A w \in WlBuffer : BufferPlace(w)
  /\ \A cb \in Callback : CallbackPlace(cb)
  /\ Unflushed

\* A buffer that is out is busy, the one being drawn into is not, and a callback that
\* is out exists.
Known ==
  /\ \A s \in Slot : BufferOut(<<gen, s>>) => buffers[s].busy
  /\ pc = "user" => ~buffers[curBuf].busy
  /\ pc # "destroyed" => \A cb \in Callback : CallbackOut(cb) => cb \in callbacks

PlaceInv == Places /\ Known

\* What a step that lends nothing does to the places.
NothingLent ==
  /\ \A w \in WlBuffer : BufferPlace(w)' /\ (BufferOut(w)' => BufferOut(w))
  /\ \A cb \in Callback : CallbackPlace(cb)' /\ (CallbackOut(cb)' => CallbackOut(cb))

\* It is enough that the queues and what the compositor keeps name nothing new.
LEMMA QuietStep ==
  ASSUME Places,
         \A w \in WlBuffer : /\ Fewer(wire, wire', "commit", "buf", w)
                             /\ Fewer(events, events', "release", "buf", w)
                             /\ w \in held' => w \in held,
         \A cb \in Callback : /\ Fewer(wire, wire', "commit", "cb", cb)
                              /\ Fewer(events, events', "done", "cb", cb)
                              /\ cb \in frames' => cb \in frames
  PROVE  NothingLent
<1>1. ASSUME NEW w \in WlBuffer
      PROVE  BufferPlace(w)' /\ (BufferOut(w)' => BufferOut(w))
  <2>1. BufferPlace(w)
    BY DEF Places
  <2>2. QED
    BY <2>1, PlaceKept DEF BufferPlace, BufferOut
<1>2. ASSUME NEW cb \in Callback
      PROVE  CallbackPlace(cb)' /\ (CallbackOut(cb)' => CallbackOut(cb))
  <2>1. CallbackPlace(cb)
    BY DEF Places
  <2>2. QED
    BY <2>1, PlaceKept DEF CallbackPlace, CallbackOut
<1>3. QED
  BY <1>1, <1>2 DEF NothingLent

-----------------------------------------------------------------------------
\* What steps do to the socket's queues.

\* A queue that no step touches.
LEMMA SameFewer ==
  ASSUME NEW q, NEW kind, NEW f, NEW w
  PROVE  Fewer(q, q, kind, f, w)
BY DEF Fewer

\* libwayland's buffer names nothing.
LEMMA UnflushedAt ==
  ASSUME Unflushed, NEW f \in {"buf", "cb"}, NEW w, w # None
  PROVE  At(outbuf, "commit", f, w) = {}
<1>1. CASE f = "buf"
  BY <1>1 DEF At, Unflushed
<1>2. CASE f = "cb"
  BY <1>2 DEF At, Unflushed
<1>3. QED
  BY <1>1, <1>2

\* A flush, with requests that do not name w.
LEMMA FlushFewer ==
  ASSUME SocketTypeOK, Unflushed, NEW reqs \in Seq(Request), Flush(reqs),
         NEW f \in {"buf", "cb"}, NEW w, w # None, At(reqs, "commit", f, w) = {}
  PROVE  /\ At(wire', "commit", f, w) = At(wire, "commit", f, w)
         /\ Fewer(wire, wire', "commit", f, w)
<1>1. wire \in Seq(Request) /\ outbuf \in Seq(Request)
  BY DEF SocketTypeOK
<1>2. wire \o outbuf \in Seq(Request)
  BY <1>1, ConcatProperties
<1>3. At(wire \o outbuf, "commit", f, w) = At(wire, "commit", f, w)
  BY <1>1, UnflushedAt, ConcatAt
<1>4. At((wire \o outbuf) \o reqs, "commit", f, w) = At(wire \o outbuf, "commit", f, w)
  <2> DEFINE q == wire \o outbuf
  <2>1. q \in Seq(Request) /\ reqs \in Seq(Request) /\ At(reqs, "commit", f, w) = {}
    BY <1>2
  <2> HIDE DEF q
  <2>2. At(q \o reqs, "commit", f, w) = At(q, "commit", f, w)
    BY <2>1, ConcatAt
  <2>3. QED
    BY <2>2 DEF q
<1>5. At(wire', "commit", f, w) = At(wire, "commit", f, w)
  <2>1. CASE wire' = wire
    BY <2>1
  <2>2. CASE wire' = wire \o outbuf \o reqs
    BY <1>3, <1>4, <2>2
  <2>3. QED
    BY <2>1, <2>2 DEF Flush
<1>6. QED
  BY <1>5, SubsetFewer

\* A flush with one commit that names w, which was not named before.
LEMMA FlushOne ==
  ASSUME SocketTypeOK, Unflushed, NEW m \in Request, Flush(<<m>>),
         NEW f \in {"buf", "cb"}, NEW w, w # None, At(wire, "commit", f, w) = {}
  PROVE  One(At(wire', "commit", f, w))
<1>1. wire \in Seq(Request) /\ outbuf \in Seq(Request)
  BY DEF SocketTypeOK
<1>2. wire \o outbuf \in Seq(Request)
  BY <1>1, ConcatProperties
<1>3. At(wire \o outbuf, "commit", f, w) = {}
  BY <1>1, UnflushedAt, ConcatAt
<1>4. (wire \o outbuf) \o <<m>> = Append(wire \o outbuf, m)
  BY <1>2, AppendIsConcat
<1>5. One(At(Append(wire \o outbuf, m), "commit", f, w))
  BY <1>2, <1>3, AppendAt
<1>6. One({})
  BY DEF One
<1>7. QED
  BY <1>4, <1>5, <1>6 DEF Flush

\* The client takes an event.
LEMMA TakeFewer ==
  ASSUME SocketTypeOK, NEW kind, Take(kind), NEW reply, NEW f, NEW w
  PROVE  /\ events # <<>> /\ events' = Tail(events) /\ events \in Seq(Event)
         /\ Fewer(events, events', reply, f, w)
<1>1. events \in Seq(Event) /\ nread \in 0 .. Len(events) /\ nread > 0
      /\ events' = Tail(events)
  BY DEF SocketTypeOK, Take
<1>2. events # <<>>
  BY <1>1, EmptySeq
<1>3. QED
  BY <1>1, <1>2, TailFewer

\* The compositor reads a request.
LEMMA ReceiveFewer ==
  ASSUME SocketTypeOK, NEW kind, Receive(kind), NEW f, NEW w
  PROVE  /\ wire # <<>> /\ wire' = Tail(wire) /\ wire \in Seq(Request)
         /\ Fewer(wire, wire', "commit", f, w)
BY TailFewer DEF SocketTypeOK, Receive

\* The compositor sends an event that does not name w.
LEMMA SendFewer ==
  ASSUME SocketTypeOK, NEW e \in Event, Send(e), NEW reply, NEW f, NEW w,
         ~(e.type = reply /\ e[f] = w)
  PROVE  Fewer(events, events', reply, f, w)
<1>1. events \in Seq(Event) /\ events' = Append(events, e)
  BY DEF SocketTypeOK, Send
<1>2. At(events', reply, f, w) = At(events, reply, f, w)
  BY <1>1, AppendAt
<1>3. QED
  BY <1>2, SubsetFewer

\* What is buffered and no commit leaves Unflushed true; so does an empty buffer.
LEMMA UnflushedKept ==
  ASSUME SocketTypeOK, Unflushed,
         \/ outbuf' = outbuf
         \/ outbuf' = <<>>
         \/ \E m \in Request : m.type # "commit" /\ outbuf' = Append(outbuf, m)
  PROVE  Unflushed'
<1>1. CASE outbuf' = outbuf
  BY <1>1 DEF Unflushed
<1>2. CASE outbuf' = <<>>
  BY <1>2 DEF Unflushed
<1>3. ASSUME NEW m \in Request, m.type # "commit", outbuf' = Append(outbuf, m)
      PROVE  Unflushed'
  <2>1. /\ outbuf \in Seq(Request) /\ Len(outbuf) \in Nat
        /\ DOMAIN outbuf = 1 .. Len(outbuf)
        /\ DOMAIN outbuf' = 1 .. Len(outbuf) + 1
        /\ \A i \in 1 .. Len(outbuf) : outbuf'[i] = outbuf[i]
        /\ outbuf'[Len(outbuf) + 1] = m
    BY <1>3, AppendProperties, LenProperties DEF SocketTypeOK
  <2>2. ASSUME NEW i \in DOMAIN outbuf', outbuf'[i].type = "commit"
        PROVE  outbuf'[i].buf = None /\ outbuf'[i].cb = None
    <3>1. i # Len(outbuf) + 1
      BY <1>3, <2>1, <2>2
    <3>2. i \in DOMAIN outbuf /\ outbuf'[i] = outbuf[i]
      BY <2>1, <2>2, <3>1
    <3>3. QED
      BY <2>2, <3>2 DEF Unflushed
  <2>3. QED
    BY <2>2 DEF Unflushed
<1>4. QED
  BY <1>1, <1>2, <1>3

-----------------------------------------------------------------------------
\* What steps do to the places.

\* Steps that touch neither the socket nor what the compositor keeps.
LEMMA AsidePlaces ==
  ASSUME Places, UNCHANGED <<wire, events, held, frames>>
  PROVE  NothingLent
BY QuietStep, SameFewer

\* A flush without new requests.
LEMMA FlushPlaces ==
  ASSUME SocketTypeOK, Places, Flush(<<>>), UNCHANGED <<events, held, frames>>
  PROVE  NothingLent /\ Unflushed'
<1>1. <<>> \in Seq(Request) /\ Unflushed
  BY EmptySeq DEF Places
<1>2. \A w \in WlBuffer : w # None
  BY ConstantsAssumption
<1>3. \A cb \in Callback : cb # None
  BY ConstantsAssumption
<1>4. \A w \in WlBuffer : Fewer(wire, wire', "commit", "buf", w)
  BY <1>1, <1>2, FlushFewer, EmptyAt
<1>5. \A cb \in Callback : Fewer(wire, wire', "commit", "cb", cb)
  BY <1>1, <1>3, FlushFewer, EmptyAt
<1>6. outbuf' = <<>>
  BY DEF Flush
<1>7. QED
  BY <1>1, <1>4, <1>5, <1>6, QuietStep, SameFewer, UnflushedKept

\* Handlers lend nothing, and what their event gives back is nowhere afterwards.
LEMMA HandlerPlaces ==
  ASSUME TypeOK, Places, Handler
  PROVE  /\ NothingLent /\ Unflushed'
         /\ OnBufferRelease =>
              \A w \in WlBuffer : w = Head(events).buf => ~BufferOut(w)'
         /\ OnFrameDone =>
              \A cb \in Callback : cb = Head(events).cb => ~CallbackOut(cb)'
<1>1. SocketTypeOK /\ Unflushed
  BY DEF TypeOK, Places
<1>2. PICK kind \in {"release", "done", "toplevel", "configure", "ping", "close"} : Take(kind)
  BY DEF Handler, OnBufferRelease, OnFrameDone, OnToplevelConfigure, OnSurfaceConfigure,
     OnPing, OnClose
<1>3. UNCHANGED <<wire, held, frames>>
  BY DEF Handler, OnBufferRelease, OnFrameDone, OnToplevelConfigure, OnSurfaceConfigure,
     OnPing, OnClose, compositor
<1>4. NothingLent
  BY <1>1, <1>2, <1>3, TakeFewer, SameFewer, QuietStep
<1>5. Unflushed'
  <2>1. CASE OnBufferRelease \/ OnFrameDone \/ OnToplevelConfigure \/ OnClose
    BY <1>1, <2>1, UnflushedKept DEF OnBufferRelease, OnFrameDone, OnToplevelConfigure, OnClose
  <2>2. CASE OnSurfaceConfigure
    <3>1. Head(events).size \in Size \cup {None}
      BY <1>1, <2>2, TakeEvent, EventFields DEF OnSurfaceConfigure
    <3>2. Ack(Head(events).size) \in Request /\ Ack(Head(events).size).type # "commit"
      BY <3>1 DEF Request
    <3>3. outbuf' = Append(outbuf, Ack(Head(events).size))
      BY <2>2 DEF OnSurfaceConfigure
    <3>4. QED
      BY <1>1, <3>2, <3>3, UnflushedKept
  <2>3. CASE OnPing
    <3>1. Pong \in Request /\ Pong.type # "commit"
      BY DEF Request
    <3>2. outbuf' = Append(outbuf, Pong)
      BY <2>3 DEF OnPing
    <3>3. QED
      BY <1>1, <3>1, <3>2, UnflushedKept
  <2>4. QED
    BY <2>1, <2>2, <2>3 DEF Handler
<1>6. ASSUME OnBufferRelease, NEW w \in WlBuffer, w = Head(events).buf
      PROVE  ~BufferOut(w)'
  <2>1. Take("release") /\ UNCHANGED <<wire, held>>
    BY <1>3, <1>6 DEF OnBufferRelease
  <2>2. Head(events).type = "release" /\ Head(events).buf \in WlBuffer
    BY <1>1, <2>1, TakeEvent, EventFields
  <2>3. BufferPlace(w)
    BY DEF Places
  <2>4. events \in Seq(Event) /\ events # <<>> /\ events' = Tail(events)
    BY <1>1, <2>1, TakeFewer
  <2>5. Head(events)["buf"] = w /\ OnePlace(wire, events, held, "buf", "release", w)
    BY <1>6, <2>3 DEF BufferPlace
  <2>6. ~Somewhere(wire, Tail(events), held, "buf", "release", w)
    BY <2>2, <2>4, <2>5, PlaceReturned
  <2>7. QED
    BY <2>1, <2>4, <2>6 DEF BufferOut
<1>7. ASSUME OnFrameDone, NEW cb \in Callback, cb = Head(events).cb
      PROVE  ~CallbackOut(cb)'
  <2>1. Take("done") /\ UNCHANGED <<wire, frames>>
    BY <1>3, <1>7 DEF OnFrameDone
  <2>2. Head(events).type = "done" /\ Head(events).cb \in Callback
    BY <1>1, <2>1, TakeEvent, EventFields
  <2>3. CallbackPlace(cb)
    BY DEF Places
  <2>4. events \in Seq(Event) /\ events # <<>> /\ events' = Tail(events)
    BY <1>1, <2>1, TakeFewer
  <2>5. Head(events)["cb"] = cb /\ OnePlace(wire, events, frames, "cb", "done", cb)
    BY <1>7, <2>3 DEF CallbackPlace
  <2>6. ~Somewhere(wire, Tail(events), frames, "cb", "done", cb)
    BY <2>2, <2>4, <2>5, PlaceReturned
  <2>7. QED
    BY <2>1, <2>4, <2>6 DEF CallbackOut
<1>8. QED
  BY <1>4, <1>5, <1>6, <1>7

\* The compositor reads a commit: it keeps what the commit names.
LEMMA CommitPlaces ==
  ASSUME TypeOK, Places, ReceiveCommit
  PROVE  NothingLent
<1>1. /\ SocketTypeOK /\ Receive("commit") /\ UNCHANGED <<events>>
      /\ held' = held \cup ({Head(wire).buf} \ {None})
      /\ frames' = frames \cup ({Head(wire).cb} \ {None})
      /\ wire \in Seq(Request) /\ wire # <<>> /\ wire' = Tail(wire)
      /\ Head(wire).type = "commit"
  BY DEF TypeOK, ReceiveCommit, Receive, SocketTypeOK
<1>2. ASSUME NEW w \in WlBuffer
      PROVE  BufferPlace(w)' /\ (BufferOut(w)' => BufferOut(w))
  <2>1. OnePlace(wire, events, held, "buf", "release", w)
    BY DEF Places, BufferPlace
  <2>2. CASE Head(wire)["buf"] = w
    <3>1. held' = held \cup {w}
      BY <1>1, <2>2, ConstantsAssumption
    <3>2. /\ OnePlace(Tail(wire), events, held \cup {w}, "buf", "release", w)
          /\ Somewhere(wire, events, held, "buf", "release", w)
      BY <1>1, <2>1, <2>2, PlaceReceived
    <3>3. QED
      BY <1>1, <3>1, <3>2 DEF BufferPlace, BufferOut
  <2>3. CASE Head(wire)["buf"] # w
    <3>1. w \in held' => w \in held
      BY <1>1, <2>3
    <3>2. Fewer(wire, wire', "commit", "buf", w) /\ Fewer(events, events', "release", "buf", w)
      BY <1>1, ReceiveFewer, SameFewer
    <3>3. QED
      BY <2>1, <3>1, <3>2, PlaceKept DEF BufferPlace, BufferOut
  <2>4. QED
    BY <2>2, <2>3
<1>3. ASSUME NEW cb \in Callback
      PROVE  CallbackPlace(cb)' /\ (CallbackOut(cb)' => CallbackOut(cb))
  <2>1. OnePlace(wire, events, frames, "cb", "done", cb)
    BY DEF Places, CallbackPlace
  <2>2. CASE Head(wire)["cb"] = cb
    <3>1. frames' = frames \cup {cb}
      BY <1>1, <2>2, ConstantsAssumption
    <3>2. /\ OnePlace(Tail(wire), events, frames \cup {cb}, "cb", "done", cb)
          /\ Somewhere(wire, events, frames, "cb", "done", cb)
      BY <1>1, <2>1, <2>2, PlaceReceived
    <3>3. QED
      BY <1>1, <3>1, <3>2 DEF CallbackPlace, CallbackOut
  <2>3. CASE Head(wire)["cb"] # cb
    <3>1. cb \in frames' => cb \in frames
      BY <1>1, <2>3
    <3>2. Fewer(wire, wire', "commit", "cb", cb) /\ Fewer(events, events', "done", "cb", cb)
      BY <1>1, ReceiveFewer, SameFewer
    <3>3. QED
      BY <2>1, <3>1, <3>2, PlaceKept DEF CallbackPlace, CallbackOut
  <2>4. QED
    BY <2>2, <2>3
<1>4. QED
  BY <1>2, <1>3 DEF NothingLent

\* The compositor gives a buffer back.
LEMMA ReleasePlaces ==
  ASSUME TypeOK, Places, NEW v \in WlBuffer, SendRelease(v)
  PROVE  NothingLent
<1> DEFINE e == [type |-> "release", buf |-> v]
<1>1. /\ SocketTypeOK /\ Send(e) /\ UNCHANGED <<wire, frames>>
      /\ v \in held /\ held' = held \ {v} /\ e \in Event
      /\ events \in Seq(Event) /\ events' = Append(events, e)
  BY DEF TypeOK, SendRelease, Send, Event, SocketTypeOK
<1>2. e.type = "release" /\ e["buf"] = v
  OBVIOUS
<1> HIDE DEF e
<1>3. ASSUME NEW w \in WlBuffer
      PROVE  BufferPlace(w)' /\ (BufferOut(w)' => BufferOut(w))
  <2>1. OnePlace(wire, events, held, "buf", "release", w)
    BY DEF Places, BufferPlace
  <2>2. CASE w = v
    <3>1. /\ OnePlace(wire, Append(events, e), held \ {v}, "buf", "release", v)
          /\ Somewhere(wire, events, held, "buf", "release", v)
      BY <1>1, <2>1, <2>2, PlaceReplied
    <3>2. QED
      BY <1>1, <2>2, <3>1 DEF BufferPlace, BufferOut
  <2>3. CASE w # v
    <3>1. w \in held' => w \in held
      BY <1>1
    <3>2. Fewer(wire, wire', "commit", "buf", w) /\ Fewer(events, events', "release", "buf", w)
      BY <1>1, <1>2, <2>3, SendFewer, SameFewer
    <3>3. QED
      BY <2>1, <3>1, <3>2, PlaceKept DEF BufferPlace, BufferOut
  <2>4. QED
    BY <2>2, <2>3
<1>4. ASSUME NEW cb \in Callback
      PROVE  CallbackPlace(cb)' /\ (CallbackOut(cb)' => CallbackOut(cb))
  <2>1. OnePlace(wire, events, frames, "cb", "done", cb)
    BY DEF Places, CallbackPlace
  <2>2. Fewer(wire, wire', "commit", "cb", cb) /\ Fewer(events, events', "done", "cb", cb)
    BY <1>1, <1>2, SendFewer, SameFewer
  <2>3. QED
    BY <1>1, <2>1, <2>2, PlaceKept DEF CallbackPlace, CallbackOut
<1>5. QED
  BY <1>3, <1>4 DEF NothingLent

\* The compositor answers a frame callback.
LEMMA DonePlaces ==
  ASSUME TypeOK, Places, NEW d \in Callback, SendDone(d)
  PROVE  NothingLent
<1> DEFINE e == [type |-> "done", cb |-> d]
<1>1. /\ SocketTypeOK /\ Send(e) /\ UNCHANGED <<wire, held>>
      /\ d \in frames /\ frames' = frames \ {d} /\ e \in Event
      /\ events \in Seq(Event) /\ events' = Append(events, e)
  BY DEF TypeOK, SendDone, Send, Event, SocketTypeOK
<1>2. e.type = "done" /\ e["cb"] = d
  OBVIOUS
<1> HIDE DEF e
<1>3. ASSUME NEW cb \in Callback
      PROVE  CallbackPlace(cb)' /\ (CallbackOut(cb)' => CallbackOut(cb))
  <2>1. OnePlace(wire, events, frames, "cb", "done", cb)
    BY DEF Places, CallbackPlace
  <2>2. CASE cb = d
    <3>1. /\ OnePlace(wire, Append(events, e), frames \ {d}, "cb", "done", d)
          /\ Somewhere(wire, events, frames, "cb", "done", d)
      BY <1>1, <2>1, <2>2, PlaceReplied
    <3>2. QED
      BY <1>1, <2>2, <3>1 DEF CallbackPlace, CallbackOut
  <2>3. CASE cb # d
    <3>1. cb \in frames' => cb \in frames
      BY <1>1
    <3>2. Fewer(wire, wire', "commit", "cb", cb) /\ Fewer(events, events', "done", "cb", cb)
      BY <1>1, <1>2, <2>3, SendFewer, SameFewer
    <3>3. QED
      BY <2>1, <3>1, <3>2, PlaceKept DEF CallbackPlace, CallbackOut
  <2>4. QED
    BY <2>2, <2>3
<1>4. ASSUME NEW w \in WlBuffer
      PROVE  BufferPlace(w)' /\ (BufferOut(w)' => BufferOut(w))
  <2>1. OnePlace(wire, events, held, "buf", "release", w)
    BY DEF Places, BufferPlace
  <2>2. Fewer(wire, wire', "commit", "buf", w) /\ Fewer(events, events', "release", "buf", w)
    BY <1>1, <1>2, SendFewer, SameFewer
  <2>3. QED
    BY <1>1, <2>1, <2>2, PlaceKept DEF BufferPlace, BufferOut
<1>5. QED
  BY <1>3, <1>4 DEF NothingLent

\* Whatever the compositor does, it lends nothing to itself.
LEMMA ServerPlaces ==
  ASSUME TypeOK, Places,
         \/ ServerReceives
         \/ \E sz \in Size \cup {None} : SendToplevelConfigure(sz) \/ SendSurfaceConfigure(sz)
         \/ \E w \in WlBuffer : SendRelease(w)
         \/ \E cb \in Callback : SendDone(cb)
         \/ SendPing \/ SendClose \/ Hangup
  PROVE  NothingLent /\ Unflushed'
<1>1. SocketTypeOK /\ Unflushed
  BY DEF TypeOK, Places
<1>2. outbuf' = outbuf
  BY DEF ServerReceives, ReceiveCommit, ReceiveAck, ReceivePong, ReceiveRecreate, Receive,
     SendToplevelConfigure, SendSurfaceConfigure, SendRelease, SendDone, SendPing,
     SendClose, Send, Hangup
<1>u. Unflushed'
  BY <1>1, <1>2, UnflushedKept
<1>3. CASE ReceiveAck \/ ReceivePong \/ ReceiveRecreate
  <2>1. PICK kind \in {"ack", "pong", "recreate"} : Receive(kind)
    BY <1>3 DEF ReceiveAck, ReceivePong, ReceiveRecreate
  <2>2. UNCHANGED <<events, frames>> /\ held' \subseteq held
    BY <1>3 DEF ReceiveAck, ReceivePong, ReceiveRecreate, Receive
  <2>3. QED
    BY <1>1, <1>u, <2>1, <2>2, ReceiveFewer, SameFewer, QuietStep
<1>4. ASSUME NEW e \in Event, e.type \notin {"release", "done"}, Send(e),
             UNCHANGED <<held, frames>>
      PROVE  NothingLent
  <2>1. wire' = wire
    BY <1>4 DEF Send
  <2>2. QED
    BY <1>1, <1>4, <2>1, SendFewer, SameFewer, QuietStep
<1>5. CASE \E sz \in Size \cup {None} : SendToplevelConfigure(sz) \/ SendSurfaceConfigure(sz)
  <2>1. PICK sz \in Size \cup {None} : SendToplevelConfigure(sz) \/ SendSurfaceConfigure(sz)
    BY <1>5
  <2>2. PICK kind \in {"toplevel", "configure"} : Send([type |-> kind, size |-> sz])
    BY <2>1 DEF SendToplevelConfigure, SendSurfaceConfigure
  <2> DEFINE e == [type |-> kind, size |-> sz]
  <2>3. /\ e \in Event /\ e.type \notin {"release", "done"} /\ Send(e)
        /\ UNCHANGED <<held, frames>>
    BY <2>1, <2>2 DEF SendToplevelConfigure, SendSurfaceConfigure, Event
  <2> HIDE DEF e
  <2>4. QED
    BY <1>4, <1>u, <2>3
<1>6. CASE SendPing
  <2> DEFINE e == [type |-> "ping"]
  <2>1. /\ e \in Event /\ e.type \notin {"release", "done"} /\ Send(e)
        /\ UNCHANGED <<held, frames>>
    BY <1>6 DEF SendPing, Event
  <2> HIDE DEF e
  <2>2. QED
    BY <1>4, <1>u, <2>1
<1>7. CASE SendClose
  <2> DEFINE e == [type |-> "close"]
  <2>1. /\ e \in Event /\ e.type \notin {"release", "done"} /\ Send(e)
        /\ UNCHANGED <<held, frames>>
    BY <1>7 DEF SendClose, Event, compositor
  <2> HIDE DEF e
  <2>2. QED
    BY <1>4, <1>u, <2>1
<1>8. CASE Hangup
  <2>1. /\ wire' = <<>> /\ UNCHANGED <<held, frames>>
        /\ events' = SubSeq(events, 1, nread)
        /\ events \in Seq(Event) /\ nread \in 0 .. Len(events)
    BY <1>1, <1>8 DEF Hangup, compositor, SocketTypeOK
  <2>2. \A kind, f, w : Fewer(wire, wire', kind, f, w)
    BY <2>1, EmptyAt, SubsetFewer
  <2>3. ASSUME NEW kind, NEW f, NEW w
        PROVE  Fewer(events, events', kind, f, w)
    <3>1. At(events', kind, f, w) \subseteq At(events, kind, f, w)
      BY <2>1, CutAt
    <3>2. QED
      BY <3>1, SubsetFewer
  <2>4. QED
    BY <1>u, <2>1, <2>2, <2>3, QuietStep
<1>9. NothingLent
  BY <1>3, <1>5, <1>6, <1>7, <1>8, CommitPlaces, ReleasePlaces, DonePlaces DEF ServerReceives
<1>10. QED
  BY <1>u, <1>9

\* A commit lends the buffer and the callback it names, which were nowhere.
LEMMA LendPlaces ==
  ASSUME TypeOK, Places, NEW v \in WlBuffer \cup {None}, NEW d \in Callback, NEW sz,
         Commit(v, sz, d) \in Request, Flush(<<Commit(v, sz, d)>>),
         UNCHANGED <<events, held, frames>>,
         v \in WlBuffer => ~BufferOut(v), ~CallbackOut(d)
  PROVE  /\ Places'
         /\ \A w \in WlBuffer : BufferOut(w)' => BufferOut(w) \/ w = v
         /\ \A cb \in Callback : CallbackOut(cb)' => CallbackOut(cb) \/ cb = d
<1> DEFINE m == Commit(v, sz, d)
<1>1. /\ SocketTypeOK /\ Unflushed /\ m \in Request /\ Flush(<<m>>)
      /\ m.type = "commit" /\ m["buf"] = v /\ m["cb"] = d
  BY DEF TypeOK, Places
<1> HIDE DEF m
<1>2. ASSUME NEW f \in {"buf", "cb"}, NEW w, m[f] # w
      PROVE  At(<<m>>, "commit", f, w) = {}
  BY <1>2 DEF At
<1>3. <<m>> \in Seq(Request)
  BY <1>1
<1>4. Unflushed'
  BY <1>1, UnflushedKept DEF Flush
<1>5. ASSUME NEW w \in WlBuffer
      PROVE  BufferPlace(w)' /\ (BufferOut(w)' => BufferOut(w) \/ w = v)
  <2>1. OnePlace(wire, events, held, "buf", "release", w) /\ w # None
    BY ConstantsAssumption DEF Places, BufferPlace
  <2>2. CASE w = v
    <3>1. ~Somewhere(wire, events, held, "buf", "release", w)
      BY <2>2 DEF BufferOut
    <3>2. At(wire, "commit", "buf", w) = {}
      BY <3>1 DEF Somewhere
    <3>3. One(At(wire', "commit", "buf", w))
      BY <1>1, <2>1, <3>2, FlushOne
    <3>4. OnePlace(wire', events, held, "buf", "release", w)
      BY <3>1, <3>3, PlaceLent
    <3>5. QED
      BY <2>2, <3>4 DEF BufferPlace
  <2>3. CASE w # v
    <3>1. At(<<m>>, "commit", "buf", w) = {}
      BY <1>1, <1>2, <2>3
    <3>2. Fewer(wire, wire', "commit", "buf", w)
      BY <1>1, <1>3, <2>1, <3>1, FlushFewer
    <3>3. QED
      BY <2>1, <3>2, SameFewer, PlaceKept DEF BufferPlace, BufferOut
  <2>4. QED
    BY <2>2, <2>3
<1>6. ASSUME NEW cb \in Callback
      PROVE  CallbackPlace(cb)' /\ (CallbackOut(cb)' => CallbackOut(cb) \/ cb = d)
  <2>1. OnePlace(wire, events, frames, "cb", "done", cb) /\ cb # None
    BY ConstantsAssumption DEF Places, CallbackPlace
  <2>2. CASE cb = d
    <3>1. ~Somewhere(wire, events, frames, "cb", "done", cb)
      BY <2>2 DEF CallbackOut
    <3>2. At(wire, "commit", "cb", cb) = {}
      BY <3>1 DEF Somewhere
    <3>3. One(At(wire', "commit", "cb", cb))
      BY <1>1, <2>1, <3>2, FlushOne
    <3>4. OnePlace(wire', events, frames, "cb", "done", cb)
      BY <3>1, <3>3, PlaceLent
    <3>5. QED
      BY <2>2, <3>4 DEF CallbackPlace
  <2>3. CASE cb # d
    <3>1. At(<<m>>, "commit", "cb", cb) = {}
      BY <1>1, <1>2, <2>3
    <3>2. Fewer(wire, wire', "commit", "cb", cb)
      BY <1>1, <1>3, <2>1, <3>1, FlushFewer
    <3>3. QED
      BY <2>1, <3>2, SameFewer, PlaceKept DEF CallbackPlace, CallbackOut
  <2>4. QED
    BY <2>2, <2>3
<1>7. QED
  BY <1>4, <1>5, <1>6 DEF Places

\* Lent, read from the messages under way, is what is out.
LEMMA LentIsOut ==
  ASSUME SocketTypeOK, Unflushed, NEW w \in WlBuffer
  PROVE  w \in Lent <=> BufferOut(w)
<1>1. /\ wire \in Seq(Request) /\ outbuf \in Seq(Request) /\ events \in Seq(Event)
      /\ w # None
  BY ConstantsAssumption DEF SocketTypeOK
<1> DEFINE q == wire \o outbuf
<1>2. q \in Seq(Request)
  BY <1>1, ConcatProperties
<1>3. At(outbuf, "commit", "buf", w) = {}
  BY <1>1, UnflushedAt
<1>4. At(q, "commit", "buf", w) = At(wire, "commit", "buf", w)
  BY <1>1, <1>3, ConcatAt
<1> HIDE DEF q
<1>5. w \in {m.buf : m \in {r \in Range(q) : IsBufferCommit(r)}}
        <=> At(q, "commit", "buf", w) # {}
  BY <1>1 DEF Range, IsBufferCommit, At
<1>6. w \in {e.buf : e \in {r \in Range(events) : r.type = "release"}}
        <=> At(events, "release", "buf", w) # {}
  BY DEF Range, At
<1>7. QED
  BY <1>4, <1>5, <1>6 DEF Lent, BufferOut, Somewhere, q

\* The same for the callbacks whose "done" is to come.
LEMMA AnsweredIsOut ==
  ASSUME NEW cb,
         cb \in frames \cup {e.cb : e \in {r \in Range(events) : r.type = "done"}}
  PROVE  CallbackOut(cb)
<1>1. cb \in {e.cb : e \in {r \in Range(events) : r.type = "done"}}
        => At(events, "done", "cb", cb) # {}
  BY DEF Range, At
<1>2. QED
  BY <1>1 DEF CallbackOut, Somewhere

\* A generation that nothing names any more has no buffer out.
LEMMA NewGeneration ==
  ASSUME TypeOK, Unflushed, NEW g \in Gen \ GensInUse, NEW s \in Slot
  PROVE  ~BufferOut(<<g, s>>)
<1> DEFINE w == <<g, s>>
<1>1. w \in WlBuffer /\ w[1] = g
  BY DEF WlBuffer
<1> HIDE DEF w
<1>2. w \notin Lent
  BY <1>1 DEF Lent, GensInUse
<1>3. ~BufferOut(w)
  BY <1>1, <1>2, LentIsOut DEF TypeOK
<1>4. QED
  BY <1>3 DEF w

-----------------------------------------------------------------------------
\* PlaceInv is inductive.

\* A step that lends nothing, and does not free a buffer or forget a callback.
LEMMA QuietKnown ==
  ASSUME TypeOK, PlaceInv, NothingLent, Unflushed', gen' = gen,
         \A s \in Slot : buffers'[s].busy = buffers[s].busy,
         pc' = "user" => pc = "user" /\ curBuf \in Slot /\ curBuf' = curBuf,
         pc' # "destroyed" => pc # "destroyed" /\ callbacks \subseteq callbacks'
  PROVE  PlaceInv'
<1>1. Places'
  BY DEF NothingLent, Places
<1>2. ASSUME NEW s \in Slot, BufferOut(<<gen, s>>)'
      PROVE  buffers'[s].busy
  <2>1. PICK w \in WlBuffer : w = <<gen, s>> /\ w = <<gen', s>>
    BY DEF TypeOK, LibTypeOK, WlBuffer
  <2>2. QED
    BY <1>2, <2>1 DEF NothingLent, PlaceInv, Known
<1>3. QED
  BY <1>1, <1>2 DEF NothingLent, PlaceInv, Known

\* Handlers: a released buffer and an answered callback are nowhere any more.
LEMMA HandlerPlaceInv ==
  ASSUME TypeOK, PlaceInv, Handler
  PROVE  PlaceInv'
<1>1. NothingLent /\ Unflushed'
  BY HandlerPlaces DEF PlaceInv
<1>2. SocketTypeOK /\ buffers \in [Slot -> BufferState] /\ gen \in Gen
  BY DEF TypeOK, LibTypeOK
<1>3. CASE OnBufferRelease
  <2>1. PICK w \in WlBuffer : w = Head(events).buf
    BY <1>2, <1>3, TakeEvent, EventFields DEF OnBufferRelease
  <2>2. ~BufferOut(w)'
    BY <1>3, <2>1, HandlerPlaces DEF PlaceInv
  <2>3. /\ gen' = gen /\ callbacks' = callbacks /\ pc' = pc /\ pc' # "user"
        /\ pc # "destroyed"
        /\ buffers' = IF w[1] = gen THEN [buffers EXCEPT ![w[2]].busy = FALSE]
                                    ELSE buffers
    BY <1>3, <2>1 DEF OnBufferRelease, Take, lib
  <2>4. ASSUME NEW s \in Slot, BufferOut(<<gen, s>>)'
        PROVE  buffers'[s].busy
    <3>1. PICK v \in WlBuffer : v = <<gen, s>> /\ v = <<gen', s>>
      BY <1>2, <2>3 DEF WlBuffer
    <3>2. BufferOut(v)' /\ v # w
      BY <2>2, <2>4, <3>1
    <3>3. buffers[s].busy
      BY <1>1, <3>1, <3>2 DEF NothingLent, PlaceInv, Known
    <3>4. w[1] = gen => w[2] # s /\ w[2] \in Slot
      BY <3>1, <3>2 DEF WlBuffer
    <3>5. QED
      BY <1>2, <2>3, <3>3, <3>4
  <2>5. QED
    BY <1>1, <2>3, <2>4 DEF NothingLent, PlaceInv, Places, Known
<1>4. CASE OnFrameDone
  <2>1. PICK d \in Callback : d = Head(events).cb
    BY <1>2, <1>4, TakeEvent, EventFields DEF OnFrameDone
  <2>2. ~CallbackOut(d)'
    BY <1>4, <2>1, HandlerPlaces DEF PlaceInv
  <2>3. /\ gen' = gen /\ buffers' = buffers /\ pc' = "frame" /\ pc # "destroyed"
        /\ callbacks' = callbacks \ {d}
    BY <1>4, <2>1 DEF OnFrameDone, Take
  <2>4. \A cb \in Callback : CallbackOut(cb)' => cb \in callbacks'
    BY <1>1, <2>2, <2>3 DEF NothingLent, PlaceInv, Known
  <2>5. ASSUME NEW s \in Slot, BufferOut(<<gen, s>>)'
        PROVE  buffers'[s].busy
    <3>1. PICK v \in WlBuffer : v = <<gen, s>> /\ v = <<gen', s>>
      BY <1>2, <2>3 DEF WlBuffer
    <3>2. QED
      BY <1>1, <2>3, <2>5, <3>1 DEF NothingLent, PlaceInv, Known
  <2>6. QED
    BY <1>1, <2>3, <2>4, <2>5 DEF NothingLent, PlaceInv, Places, Known
<1>5. CASE OnToplevelConfigure \/ OnSurfaceConfigure \/ OnPing \/ OnClose
  <2>1. /\ UNCHANGED <<gen, buffers, callbacks>>
        /\ pc \in {"idle", "loop"} /\ pc' \in {pc, "frame"}
    BY <1>5 DEF OnToplevelConfigure, OnSurfaceConfigure, OnPing, OnClose, Take, lib
  <2>2. QED
    BY <1>1, <2>1, QuietKnown
<1>6. QED
  BY <1>3, <1>4, <1>5 DEF Handler

\* The user's frame callback presents: the buffer drawn into, which is not out, becomes
\* busy and is lent.
LEMMA PresentPlaceInv ==
  ASSUME TypeOK, PlaceInv, Present
  PROVE  PlaceInv'
<1>1. PICK d \in Callback \ callbacks :
        /\ callbacks' = callbacks \cup {d}
        /\ Flush(<<Commit(<<gen, curBuf>>, buffers[curBuf].size, d)>>)
  BY DEF Present
<1>2. /\ curBuf \in Slot /\ gen \in Gen /\ buffers \in [Slot -> BufferState]
      /\ buffers[curBuf].size \in Size
  BY DEF Present, TypeOK, LibTypeOK, BufferState
<1>3. PICK v \in WlBuffer, sz \in Size : v = <<gen, curBuf>> /\ sz = buffers[curBuf].size
  BY <1>2 DEF WlBuffer
<1>4. /\ ~BufferOut(v) /\ ~CallbackOut(d) /\ Places
  BY <1>1, <1>2, <1>3 DEF PlaceInv, Known, Present
<1>5. Commit(v, sz, d) \in Request
  BY DEF Request
<1>6. UNCHANGED <<events, held, frames>> /\ gen' = gen /\ pc' = "loop" /\ pc = "user"
      /\ buffers' = [buffers EXCEPT ![curBuf].cmd = "pending", ![curBuf].busy = TRUE]
  BY DEF Present, compositor
<1>7. /\ Places'
      /\ \A w \in WlBuffer : BufferOut(w)' => BufferOut(w) \/ w = v
      /\ \A cb \in Callback : CallbackOut(cb)' => CallbackOut(cb) \/ cb = d
  BY <1>1, <1>3, <1>4, <1>5, <1>6, LendPlaces
<1>8. ASSUME NEW s \in Slot, BufferOut(<<gen, s>>)'
      PROVE  buffers'[s].busy
  <2>1. PICK w \in WlBuffer : w = <<gen, s>> /\ w = <<gen', s>>
    BY <1>2, <1>6 DEF WlBuffer
  <2>2. buffers[s].busy \/ s = curBuf
    BY <1>3, <1>7, <1>8, <2>1 DEF PlaceInv, Known
  <2>3. QED
    BY <1>2, <1>6, <2>2 DEF BufferState
<1>9. QED
  BY <1>1, <1>6, <1>7, <1>8 DEF PlaceInv, Known

\* libwl_run lends at most a new callback.
LEMMA RunPlaceInv ==
  ASSUME TypeOK, PlaceInv, Run
  PROVE  PlaceInv'
<1>1. UNCHANGED <<events, held, frames, gen, buffers>> /\ pc' = "loop" /\ pc = "idle"
  BY DEF Run, compositor
<1>2. CASE Flush(<<>>) /\ callbacks' = callbacks
  BY <1>1, <1>2, FlushPlaces, QuietKnown DEF PlaceInv, TypeOK
<1>3. CASE \E cb \in Callback \ callbacks : /\ callbacks' = callbacks \cup {cb}
                                            /\ Flush(<<Commit(None, None, cb)>>)
  <2>1. PICK d \in Callback \ callbacks : /\ callbacks' = callbacks \cup {d}
                                          /\ Flush(<<Commit(None, None, d)>>)
    BY <1>3
  <2>2. Commit(None, None, d) \in Request /\ None \notin WlBuffer
    BY ConstantsAssumption DEF Request
  <2>3. ~CallbackOut(d) /\ Places
    BY <1>1, <2>1 DEF PlaceInv, Known
  <2>4. /\ Places'
        /\ \A w \in WlBuffer : BufferOut(w)' => BufferOut(w) \/ w = None
        /\ \A cb \in Callback : CallbackOut(cb)' => CallbackOut(cb) \/ cb = d
    BY <1>1, <2>1, <2>2, <2>3, LendPlaces
  <2>5. ASSUME NEW s \in Slot, BufferOut(<<gen, s>>)'
        PROVE  buffers'[s].busy
    <3>1. PICK w \in WlBuffer : w = <<gen, s>> /\ w = <<gen', s>>
      BY <1>1 DEF WlBuffer, TypeOK, LibTypeOK
    <3>2. QED
      BY <1>1, <2>2, <2>4, <2>5, <3>1 DEF PlaceInv, Known
  <2>6. QED
    BY <1>1, <2>1, <2>4, <2>5 DEF PlaceInv, Known
<1>4. QED
  BY <1>2, <1>3 DEF Run

\* New buffers are free, and nothing names their generation.
LEMMA ResizePlaceInv ==
  ASSUME TypeOK, PlaceInv, FrameResize
  PROVE  PlaceInv'
<1>1. PICK g \in Gen \ GensInUse : gen' = g /\ outbuf' = Append(outbuf, Recreate(gen))
  BY DEF FrameResize
<1>2. /\ SocketTypeOK /\ Unflushed /\ Places
      /\ UNCHANGED <<wire, events, held, frames, callbacks, pc>> /\ pc = "frame"
  BY DEF FrameResize, TypeOK, PlaceInv, Places, compositor
<1>3. Recreate(gen) \in Request /\ Recreate(gen).type # "commit"
  BY DEF Request, TypeOK, LibTypeOK
<1>4. NothingLent /\ Unflushed'
  BY <1>1, <1>2, <1>3, AsidePlaces, UnflushedKept
<1>5. ASSUME NEW s \in Slot
      PROVE  ~BufferOut(<<gen, s>>)'
  <2>1. PICK w : w = <<g, s>>
    OBVIOUS
  <2>2. w \in WlBuffer /\ ~BufferOut(w)
    BY <1>2, <2>1, NewGeneration DEF WlBuffer
  <2>3. ~BufferOut(w)'
    BY <1>4, <2>2 DEF NothingLent
  <2>4. QED
    BY <1>1, <2>1, <2>3
<1>6. QED
  BY <1>2, <1>4, <1>5 DEF NothingLent, PlaceInv, Places, Known

\* The other steps of on_frame_done.
LEMMA FramePlaceInv ==
  ASSUME TypeOK, PlaceInv, Frame
  PROVE  PlaceInv'
<1>1. CASE FrameBegin
  <2>1. NextFree \in Slot /\ ~buffers[NextFree].busy
    BY <1>1, NextFreeIsFree DEF FrameBegin
  <2>2. /\ buffers \in [Slot -> BufferState] /\ gen \in Gen
        /\ UNCHANGED <<wire, events, held, frames, outbuf, gen, callbacks>>
        /\ pc = "frame" /\ pc' = "user" /\ curBuf' = NextFree
        /\ buffers' = [buffers EXCEPT ![NextFree].signaled = FALSE,
                                      ![NextFree].cmd = "recording"]
    BY <1>1 DEF FrameBegin, TypeOK, LibTypeOK, socket, compositor
  <2>3. \A s \in Slot : buffers'[s].busy = buffers[s].busy
    BY <2>1, <2>2 DEF BufferState
  <2>4. NothingLent /\ Unflushed'
    BY <2>2, AsidePlaces, UnflushedKept DEF PlaceInv, Places, TypeOK
  <2>5. ASSUME NEW s \in Slot, BufferOut(<<gen, s>>)'
        PROVE  buffers'[s].busy
    <3>1. PICK w \in WlBuffer : w = <<gen, s>> /\ w = <<gen', s>>
      BY <2>2 DEF WlBuffer
    <3>2. QED
      BY <2>3, <2>4, <2>5, <3>1 DEF NothingLent, PlaceInv, Known
  <2>6. QED
    BY <2>1, <2>2, <2>3, <2>4, <2>5 DEF NothingLent, PlaceInv, Places, Known
<1>2. CASE RecreateAborts \/ FrameSkip \/ PresentFails \/ PresentSkipped
  <2>1. /\ buffers \in [Slot -> BufferState]
        /\ UNCHANGED <<wire, events, held, frames, outbuf, gen, callbacks>>
        /\ pc \in {"frame", "user"} /\ pc' \in {"loop", "aborted"}
    BY <1>2 DEF RecreateAborts, FrameSkip, PresentFails, PresentSkipped, TypeOK, LibTypeOK,
       lib, socket, compositor
  <2>2. \A s \in Slot : buffers'[s].busy = buffers[s].busy
    BY <1>2, <2>1 DEF RecreateAborts, FrameSkip, PresentFails, PresentSkipped, BufferState
  <2>3. QED
    BY <2>1, <2>2, AsidePlaces, UnflushedKept, QuietKnown DEF PlaceInv, Places, TypeOK
<1>3. QED
  BY <1>1, <1>2, ResizePlaceInv, PresentPlaceInv DEF Frame

\* Dispatching, leaving the loop and libwl_destroy.
LEMMA LoopPlaceInv ==
  ASSUME TypeOK, PlaceInv,
         RunFails \/ OnSignal \/ OnConnectionLost \/ LoopExit \/ Destroy \/ Dispatch
  PROVE  PlaceInv'
<1>1. CASE Dispatch
  <2>1. Flush(<<>>) /\ UNCHANGED <<pc, events, held, frames, gen, buffers, callbacks>>
        /\ pc \in {"idle", "loop"}
    BY <1>1 DEF Dispatch, lib, compositor
  <2>2. QED
    BY <2>1, FlushPlaces, QuietKnown DEF PlaceInv, TypeOK
<1>2. CASE RunFails \/ OnSignal \/ OnConnectionLost \/ LoopExit
  <2>1. UNCHANGED <<wire, events, held, frames, outbuf, gen, callbacks, buffers>>
        /\ pc \in {"idle", "loop"} /\ pc' \in {"idle", "loop"}
    BY <1>2 DEF RunFails, OnSignal, OnConnectionLost, RequestExit, LoopExit, lib, socket,
       compositor
  <2>2. QED
    BY <2>1, AsidePlaces, UnflushedKept, QuietKnown DEF PlaceInv, Places, TypeOK
<1>3. CASE Destroy
  <2>1. UNCHANGED <<wire, events, held, frames, outbuf, gen>>
        /\ pc = "idle" /\ pc' = "destroyed"
    BY <1>3 DEF Destroy, compositor
  <2>2. \A s \in Slot : buffers'[s].busy = buffers[s].busy
    BY <1>3 DEF Destroy, TypeOK, LibTypeOK, BufferState
  <2>3. QED
    BY <2>1, <2>2, AsidePlaces, UnflushedKept, QuietKnown DEF PlaceInv, Places, TypeOK
<1>4. QED
  BY <1>1, <1>2, <1>3

\* The GPU and the compositor.
LEMMA ServerPlaceInv ==
  ASSUME TypeOK, PlaceInv,
         \/ ServerReceives
         \/ \E sz \in Size \cup {None} : SendToplevelConfigure(sz) \/ SendSurfaceConfigure(sz)
         \/ \E w \in WlBuffer : SendRelease(w)
         \/ \E cb \in Callback : SendDone(cb)
         \/ SendPing \/ SendClose \/ Hangup
  PROVE  PlaceInv'
<1>1. NothingLent /\ Unflushed'
  BY ServerPlaces DEF PlaceInv
<1>2. UNCHANGED Client
  BY DEF ServerReceives, ReceiveCommit, ReceiveAck, ReceivePong, ReceiveRecreate,
     SendToplevelConfigure, SendSurfaceConfigure, SendRelease, SendDone, SendPing,
     SendClose, Hangup
<1>3. UNCHANGED <<gen, buffers, callbacks, pc, curBuf>> /\ (pc = "user" => curBuf \in Slot)
  BY <1>2 DEF Client, lib, TypeOK, LibTypeOK
<1>4. QED
  BY <1>1, <1>3, QuietKnown

\* Every step.
LEMMA PlaceInvStep == TypeOK /\ PlaceInv /\ [Next]_vars => PlaceInv'
<1> SUFFICES ASSUME TypeOK, PlaceInv, [Next]_vars  PROVE PlaceInv'
  OBVIOUS
<1>1. CASE \E s \in Slot : GpuDone(s)
  <2>1. PICK s \in Slot : GpuDone(s)
    BY <1>1
  <2>2. /\ UNCHANGED <<wire, events, held, frames, outbuf, gen, callbacks, pc, curBuf>>
        /\ \/ buffers' = buffers
           \/ buffers' = [buffers EXCEPT ![s].signaled = TRUE, ![s].cmd = "invalid"]
        /\ buffers \in [Slot -> BufferState] /\ (pc = "user" => curBuf \in Slot)
    BY <2>1 DEF GpuDone, lib, socket, compositor, TypeOK, LibTypeOK
  <2>3. \A t \in Slot : buffers'[t].busy = buffers[t].busy
    BY <2>2 DEF BufferState
  <2>4. QED
    BY <2>2, <2>3, AsidePlaces, UnflushedKept, QuietKnown DEF PlaceInv, Places, TypeOK
<1>2. CASE UNCHANGED vars
  <2>1. UNCHANGED <<wire, events, held, frames, outbuf, gen, callbacks, pc, curBuf, buffers>>
        /\ (pc = "user" => curBuf \in Slot)
    BY <1>2 DEF vars, lib, socket, compositor, TypeOK, LibTypeOK
  <2>2. QED
    BY <2>1, AsidePlaces, UnflushedKept, QuietKnown DEF PlaceInv, Places, TypeOK
<1>3. QED
  BY <1>1, <1>2, HandlerPlaceInv, FramePlaceInv, RunPlaceInv, LoopPlaceInv, ServerPlaceInv
  DEF Next, ClientStep

\* Nothing is out after libwl_create.
LEMMA PlaceInvInit == Init => PlaceInv
<1> SUFFICES ASSUME Init  PROVE PlaceInv
  OBVIOUS
<1>1. wire = <<>> /\ events = <<>> /\ held = {} /\ frames = {} /\ pc = "idle"
  BY DEF Init
<1>2. \A w : ~BufferOut(w) /\ ~CallbackOut(w) /\ BufferPlace(w) /\ CallbackPlace(w)
  BY <1>1, EmptyAt
  DEF BufferOut, CallbackOut, Somewhere, BufferPlace, CallbackPlace, OnePlace, One
<1>3. Unflushed
  BY DEF Init, Unflushed
<1>4. QED
  BY <1>1, <1>2, <1>3 DEF PlaceInv, Places, Known

\* Every buffer and every callback is in at most one place.
LEMMA PlaceInvHolds == Spec => []PlaceInv
<1>1. Init => PlaceInv
  BY PlaceInvInit
<1>2. TypeOK /\ PlaceInv /\ [Next]_vars => PlaceInv'
  BY PlaceInvStep
<1>3. QED
  BY <1>1, <1>2, TypeCorrect, PTL DEF Spec

-----------------------------------------------------------------------------
\* What follows.

\* A buffer that the compositor may still read is busy, so next_free_buffer never gives
\* it to the user's frame callback.
THEOREM BuffersExclusive == Spec => []NoTearing
<1>1. TypeOK /\ PlaceInv => NoTearing
  <2> SUFFICES ASSUME TypeOK, PlaceInv, NEW s \in Slot, <<gen, s>> \in Lent
               PROVE  buffers[s].busy
    BY DEF NoTearing
  <2>1. <<gen, s>> \in WlBuffer
    BY DEF TypeOK, LibTypeOK, WlBuffer
  <2>2. BufferOut(<<gen, s>>)
    BY <2>1, LentIsOut DEF PlaceInv, Places, TypeOK
  <2>3. QED
    BY <2>2 DEF PlaceInv, Known
<1>2. QED
  BY <1>1, TypeCorrect, PlaceInvHolds, PTL

\* Until libwl_destroy, every frame callback that the compositor has still to answer, or
\* has answered, exists: its "done" reaches on_frame_done.
THEOREM DoneReachesClient == Spec => []NoLostDone
<1>1. TypeOK /\ PlaceInv => NoLostDone
  <2> SUFFICES ASSUME TypeOK, PlaceInv, pc # "destroyed",
                      NEW cb \in frames \cup
                            {e.cb : e \in {r \in Range(events) : r.type = "done"}}
               PROVE  cb \in callbacks
    BY DEF NoLostDone
  <2>1. cb \in Callback
    <3>1. \A i \in DOMAIN events : events[i] \in Event
      BY ElementOfSeq, LenProperties DEF TypeOK, SocketTypeOK
    <3>2. \A i \in DOMAIN events : events[i].type = "done" => events[i].cb \in Callback
      BY <3>1, EventFields
    <3>3. QED
      BY <3>2 DEF Range, TypeOK, CompositorTypeOK
  <2>2. QED
    BY <2>1, AnsweredIsOut DEF PlaceInv, Known
<1>2. QED
  BY <1>1, TypeCorrect, PlaceInvHolds, PTL

\* lib->frame_callback never names a callback that has been destroyed.
THEOREM CallbackPointerValid == Spec => []NoDanglingCallback
<1>1. Init => NoDanglingCallback
  BY DEF Init, NoDanglingCallback
<1>2. NoDanglingCallback /\ [Next]_vars => NoDanglingCallback'
  <2> SUFFICES ASSUME NoDanglingCallback, [Next]_vars  PROVE NoDanglingCallback'
    OBVIOUS
  <2> DEFINE Same == UNCHANGED <<frameCallback, callbacks>>
  <2>1. CASE Run \/ Present
    BY <2>1 DEF Run, Present, NoDanglingCallback
  <2>2. CASE OnFrameDone \/ Destroy
    BY <2>2 DEF OnFrameDone, Destroy, NoDanglingCallback
  <2>3. ASSUME Same
        PROVE  NoDanglingCallback'
    BY <2>3 DEF NoDanglingCallback
  <2>4. OnBufferRelease \/ OnToplevelConfigure \/ OnSurfaceConfigure \/ OnPing \/ OnClose
          => Same
    BY DEF OnBufferRelease, OnToplevelConfigure, OnSurfaceConfigure, OnPing, OnClose, lib
  <2>5. FrameResize \/ RecreateAborts \/ FrameSkip \/ FrameBegin \/ PresentFails
        \/ PresentSkipped => Same
    BY DEF FrameResize, RecreateAborts, FrameSkip, FrameBegin, PresentFails,
       PresentSkipped, lib
  <2>6. Dispatch \/ RunFails \/ OnSignal \/ OnConnectionLost \/ LoopExit
          => Same
    BY DEF Dispatch, RunFails, OnSignal, OnConnectionLost, RequestExit, LoopExit, lib
  <2>7. UNCHANGED Client => Same
    BY DEF Client, lib
  <2>8. /\ ServerReceives \/ SendPing \/ SendClose \/ Hangup => UNCHANGED Client
        /\ \A sz \in Size \cup {None} :
             SendToplevelConfigure(sz) \/ SendSurfaceConfigure(sz) => UNCHANGED Client
        /\ \A w \in WlBuffer : SendRelease(w) => UNCHANGED Client
        /\ \A cb \in Callback : SendDone(cb) => UNCHANGED Client
    BY DEF ServerReceives, ReceiveCommit, ReceiveAck, ReceivePong, ReceiveRecreate,
       SendToplevelConfigure, SendSurfaceConfigure, SendRelease, SendDone, SendPing,
     SendClose, Hangup
  <2>9. /\ \A s \in Slot : GpuDone(s) => Same
        /\ UNCHANGED vars => Same
    BY DEF GpuDone, vars, lib
  <2> HIDE DEF Same
  <2>10. \/ Run \/ Present \/ OnFrameDone \/ Destroy
         \/ Same
    BY <2>4, <2>5, <2>6, <2>7, <2>8, <2>9 DEF Next, ClientStep, Handler, Frame
  <2>11. QED
    BY <2>1, <2>2, <2>3, <2>10
<1>3. QED
  BY <1>1, <1>2, PTL DEF Spec

-----------------------------------------------------------------------------
\* The refinement of BufferOwnership.

Owned == [s \in Slot |-> IF pc = "user" /\ s = curBuf THEN "frame"
                         ELSE IF <<gen, s>> \in Lent THEN "compositor"
                         ELSE "client"]

Drawn(s) == pc = "user" /\ s = curBuf

\* Who owns a buffer, in terms of the places.
OwnedRight ==
  \A s \in Slot :
    /\ Owned[s] = "frame" <=> Drawn(s)
    /\ Owned[s] = "compositor" <=> ~Drawn(s) /\ BufferOut(<<gen, s>>)
    /\ Owned[s] = "client" <=> ~Drawn(s) /\ ~BufferOut(<<gen, s>>)

\* The refinement mapping says of a buffer what the places say.
LEMMA OwnedNow == TypeOK /\ PlaceInv => OwnedRight
<1> SUFFICES ASSUME TypeOK, PlaceInv, NEW s \in Slot
             PROVE  /\ Owned[s] = "frame" <=> Drawn(s)
                    /\ Owned[s] = "compositor" <=> ~Drawn(s) /\ BufferOut(<<gen, s>>)
                    /\ Owned[s] = "client" <=> ~Drawn(s) /\ ~BufferOut(<<gen, s>>)
  BY DEF OwnedRight
<1>1. <<gen, s>> \in WlBuffer
  BY DEF TypeOK, LibTypeOK, WlBuffer
<1>2. <<gen, s>> \in Lent <=> BufferOut(<<gen, s>>)
  BY <1>1, LentIsOut DEF PlaceInv, Places, TypeOK
<1>3. QED
  BY <1>2 DEF Owned, Drawn

\* Also after a step.
LEMMA OwnedNext == TypeOK' /\ PlaceInv' => OwnedRight'
BY OwnedNow, PTL

\* Owned is a state of BufferOwnership.
LEMMA OwnedType ==
  /\ Owned \in [Slot -> {"client", "frame", "compositor"}]
  /\ Owned' \in [Slot -> {"client", "frame", "compositor"}]
BY DEF Owned

\* A step of BufferOwnership over Owned.
OwnershipStep ==
  \/ \E s \in Slot :
       \/ /\ \A t \in Slot : Owned[t] # "frame"
          /\ Owned[s] = "client"
          /\ Owned' = [Owned EXCEPT ![s] = "frame"]
       \/ /\ Owned[s] = "frame"
          /\ Owned' = [Owned EXCEPT ![s] = "compositor"]
       \/ /\ Owned[s] = "frame"
          /\ Owned' = [Owned EXCEPT ![s] = "client"]
  \/ \E S \in SUBSET Slot :
       /\ \A s \in S : Owned[s] = "compositor"
       /\ Owned' = [s \in Slot |-> IF s \in S THEN "client" ELSE Owned[s]]
  \/ /\ \A t \in Slot : Owned[t] # "frame"
     /\ Owned' = [s \in Slot |-> "client"]

\* What a step does to the buffers if it neither lends, draws nor makes new ones.
GivesBack ==
  /\ gen' = gen /\ (pc' = "user" <=> pc = "user") /\ (pc = "user" => curBuf' = curBuf)
  /\ \A w \in WlBuffer : BufferOut(w)' => BufferOut(w)

\* It gives buffers back.
LEMMA ReturnStep ==
  ASSUME TypeOK, OwnedRight, OwnedRight', GivesBack
  PROVE  OwnershipStep
<1> DEFINE S == {s \in Slot : Owned[s] = "compositor" /\ Owned'[s] = "client"}
<1>1. ASSUME NEW s \in Slot
      PROVE  Owned'[s] = IF s \in S THEN "client" ELSE Owned[s]
  <2>1. PICK w \in WlBuffer : w = <<gen, s>> /\ w = <<gen', s>>
    BY DEF TypeOK, LibTypeOK, WlBuffer, GivesBack
  <2>2. BufferOut(<<gen, s>>)' => BufferOut(<<gen, s>>)
    BY <2>1 DEF GivesBack
  <2>3. Drawn(s)' <=> Drawn(s)
    BY DEF Drawn, GivesBack
  <2>4. QED
    BY <2>2, <2>3, OwnedType DEF OwnedRight
<1>2. Owned' = [s \in Slot |-> IF s \in S THEN "client" ELSE Owned[s]]
  BY <1>1, OwnedType
<1>3. S \in SUBSET Slot /\ \A s \in S : Owned[s] = "compositor"
  OBVIOUS
<1>4. QED
  BY <1>2, <1>3 DEF OwnershipStep

\* A flush that names no buffer w leaves w where it is.
LEMMA FlushOut ==
  ASSUME SocketTypeOK, Unflushed, NEW reqs \in Seq(Request), Flush(reqs),
         UNCHANGED <<events, held>>,
         NEW w \in WlBuffer, At(reqs, "commit", "buf", w) = {}
  PROVE  BufferOut(w)' <=> BufferOut(w)
<1>1. w # None
  BY ConstantsAssumption
<1>2. At(wire', "commit", "buf", w) = At(wire, "commit", "buf", w)
  BY <1>1, FlushFewer
<1>3. QED
  BY <1>2 DEF BufferOut, Somewhere

\* Most steps are of that kind.
LEMMA GiveBackSteps ==
  ASSUME TypeOK, PlaceInv,
         \/ Handler \/ ServerReceives \/ UNCHANGED vars
         \/ Run \/ RunFails \/ OnSignal \/ OnConnectionLost \/ LoopExit \/ Destroy \/ Dispatch
         \/ RecreateAborts \/ FrameSkip
         \/ \E s \in Slot : GpuDone(s)
         \/ \E sz \in Size \cup {None} : SendToplevelConfigure(sz) \/ SendSurfaceConfigure(sz)
         \/ \E w \in WlBuffer : SendRelease(w)
         \/ \E cb \in Callback : SendDone(cb)
         \/ SendPing \/ SendClose \/ Hangup
  PROVE  GivesBack
<1>1. Places /\ SocketTypeOK /\ Unflushed
  BY DEF TypeOK, PlaceInv, Places
<1>2. CASE Handler
  <2>1. gen' = gen /\ pc # "user" /\ pc' # "user"
    BY <1>2 DEF Handler, OnBufferRelease, OnFrameDone, OnToplevelConfigure,
     OnSurfaceConfigure, OnPing, OnClose, Take, lib
  <2>2. QED
    BY <1>1, <1>2, <2>1, HandlerPlaces DEF NothingLent, GivesBack
<1>3. CASE \/ ServerReceives
           \/ \E sz \in Size \cup {None} : SendToplevelConfigure(sz) \/ SendSurfaceConfigure(sz)
           \/ \E w \in WlBuffer : SendRelease(w)
           \/ \E cb \in Callback : SendDone(cb)
           \/ SendPing \/ SendClose \/ Hangup
  <2>1. UNCHANGED <<gen, pc, curBuf>>
    BY <1>3 DEF ServerReceives, ReceiveCommit, ReceiveAck, ReceivePong, ReceiveRecreate,
       SendToplevelConfigure, SendSurfaceConfigure, SendRelease, SendDone, SendPing,
     SendClose, Hangup, Client, lib
  <2>2. QED
    BY <1>1, <1>3, <2>1, ServerPlaces DEF NothingLent, GivesBack
<1>4. CASE \/ UNCHANGED vars \/ RunFails \/ OnSignal \/ OnConnectionLost \/ LoopExit
           \/ Destroy \/ RecreateAborts \/ FrameSkip \/ \E s \in Slot : GpuDone(s)
  <2>1. /\ UNCHANGED <<gen, curBuf, wire, events, held, frames>>
        /\ pc' = "user" <=> pc = "user"
    BY <1>4 DEF vars, RunFails, OnSignal, OnConnectionLost, RequestExit, LoopExit, Destroy,
       RecreateAborts, FrameSkip, GpuDone, lib, socket, compositor
  <2>2. QED
    BY <1>1, <2>1, AsidePlaces DEF NothingLent, GivesBack
<1>5. CASE Run \/ Dispatch
  <2>1. UNCHANGED <<events, held, gen>> /\ pc # "user" /\ pc' # "user"
    BY <1>5 DEF Run, Dispatch, lib, compositor
  <2>2. PICK reqs : Flush(reqs) /\ (reqs = <<>> \/ \E cb \in Callback :
                                                     reqs = <<Commit(None, None, cb)>>)
    BY <1>5 DEF Run, Dispatch
  <2>3. reqs \in Seq(Request)
    <3>1. \A cb \in Callback : <<Commit(None, None, cb)>> \in Seq(Request)
      BY DEF Request
    <3>2. <<>> \in Seq(Request)
      BY EmptySeq
    <3>3. QED
      BY <2>2, <3>1, <3>2
  <2>4. \A w \in WlBuffer : At(reqs, "commit", "buf", w) = {}
    BY <2>2, ConstantsAssumption DEF At
  <2>5. QED
    BY <1>1, <2>1, <2>2, <2>3, <2>4, FlushOut DEF GivesBack
<1>6. QED
  BY <1>2, <1>3, <1>4, <1>5

\* A frame begins: next_free_buffer gives it a buffer that the client owns.
LEMMA DrawStep ==
  ASSUME TypeOK, PlaceInv, OwnedRight, OwnedRight', FrameBegin
  PROVE  OwnershipStep
<1>1. NextFree \in Slot /\ ~buffers[NextFree].busy
  BY NextFreeIsFree DEF FrameBegin
<1>2. /\ UNCHANGED <<wire, events, held, gen>>
      /\ pc = "frame" /\ pc' = "user" /\ curBuf' = NextFree
  BY DEF FrameBegin, socket, compositor
<1>3. \A s \in Slot : BufferOut(<<gen, s>>)' <=> BufferOut(<<gen, s>>)
  BY <1>2 DEF BufferOut, Somewhere
<1>4. ~BufferOut(<<gen, NextFree>>)
  BY <1>1 DEF PlaceInv, Known
<1>5. \A t \in Slot : ~Drawn(t) /\ (Drawn(t)' <=> t = NextFree)
  BY <1>2 DEF Drawn
<1>6. /\ \A t \in Slot : Owned[t] # "frame"
      /\ Owned[NextFree] = "client"
  BY <1>1, <1>4, <1>5 DEF OwnedRight
<1>7. \A t \in Slot : Owned'[t] = [Owned EXCEPT ![NextFree] = "frame"][t]
  BY <1>3, <1>5, OwnedType DEF OwnedRight
<1>8. Owned' = [Owned EXCEPT ![NextFree] = "frame"]
  BY <1>7, OwnedType
<1>9. QED
  BY <1>1, <1>6, <1>8 DEF OwnershipStep

\* A frame ends, with or without a present that worked: one buffer changes hands.
LEMMA FrameEndStep ==
  ASSUME TypeOK, PlaceInv, OwnedRight, OwnedRight',
         Present \/ PresentFails \/ PresentSkipped
  PROVE  OwnershipStep
<1>1. gen' = gen /\ pc = "user" /\ pc' = "loop" /\ curBuf \in Slot /\ gen \in Gen
  BY DEF Present, PresentFails, PresentSkipped, lib, TypeOK, LibTypeOK
<1>2. \A s \in Slot : s # curBuf => (BufferOut(<<gen, s>>)' <=> BufferOut(<<gen, s>>))
  <2>1. CASE Present
    <3>1. UNCHANGED <<events, held>> /\ SocketTypeOK /\ Unflushed
      BY <2>1 DEF Present, compositor, TypeOK, PlaceInv, Places
    <3>2. PICK cb \in Callback :
                 Flush(<<Commit(<<gen, curBuf>>, buffers[curBuf].size, cb)>>)
      BY <2>1 DEF Present
    <3> DEFINE reqs == <<Commit(<<gen, curBuf>>, buffers[curBuf].size, cb)>>
    <3>3. reqs \in Seq(Request)
      BY <1>1 DEF Request, TypeOK, LibTypeOK, BufferState, WlBuffer
    <3>4. \A w \in WlBuffer : w # <<gen, curBuf>> => At(reqs, "commit", "buf", w) = {}
      BY DEF At
    <3>5. Flush(reqs)
      BY <3>2
    <3> HIDE DEF reqs
    <3>6. ASSUME NEW s \in Slot, s # curBuf
          PROVE  BufferOut(<<gen, s>>)' <=> BufferOut(<<gen, s>>)
      <4>1. PICK w \in WlBuffer : w = <<gen, s>> /\ w = <<gen', s>>
        BY <1>1 DEF WlBuffer
      <4>2. BufferOut(w)' <=> BufferOut(w)
        BY <3>1, <3>3, <3>4, <3>5, <3>6, <4>1, FlushOut
      <4>3. QED
        BY <4>1, <4>2
    <3>7. QED
      BY <3>6
  <2>2. CASE PresentFails \/ PresentSkipped
    <3>1. UNCHANGED <<wire, events, held>>
      BY <2>2 DEF PresentFails, PresentSkipped, socket, compositor
    <3>2. QED
      BY <1>1, <3>1 DEF BufferOut, Somewhere
  <2>3. QED
    BY <2>1, <2>2
<1>3. \A t \in Slot : ~Drawn(t)' /\ (Drawn(t) <=> t = curBuf)
  BY <1>1 DEF Drawn
<1>4. Owned[curBuf] = "frame" /\ Owned'[curBuf] \in {"compositor", "client"}
  BY <1>1, <1>3, OwnedType DEF OwnedRight
<1>5. \A t \in Slot : Owned'[t] = [Owned EXCEPT ![curBuf] = Owned'[curBuf]][t]
  BY <1>1, <1>2, <1>3, OwnedType DEF OwnedRight
<1>6. Owned' = [Owned EXCEPT ![curBuf] = Owned'[curBuf]]
  BY <1>1, <1>4, <1>5, OwnedType
<1>7. QED
  BY <1>1, <1>4, <1>6 DEF OwnershipStep

\* recreate_buffers replaces all buffers.
LEMMA ReplaceStep ==
  ASSUME TypeOK, PlaceInv, OwnedRight, OwnedRight', FrameResize
  PROVE  OwnershipStep
<1>1. PICK g \in Gen \ GensInUse : gen' = g
  BY DEF FrameResize
<1>2. UNCHANGED <<wire, events, held, pc>> /\ pc = "frame"
  BY DEF FrameResize, compositor
<1>3. ASSUME NEW s \in Slot
      PROVE  Owned[s] # "frame" /\ Owned'[s] = "client"
  <2>1. PICK w : w = <<g, s>>
    OBVIOUS
  <2>2. ~BufferOut(w)
    BY <2>1, NewGeneration DEF PlaceInv, Places
  <2>3. ~BufferOut(w)'
    BY <1>2, <2>2 DEF BufferOut, Somewhere
  <2>4. ~BufferOut(<<gen, s>>)'
    BY <1>1, <2>1, <2>3
  <2>5. ~Drawn(s) /\ ~Drawn(s)'
    BY <1>2 DEF Drawn
  <2>6. QED
    BY <2>4, <2>5 DEF OwnedRight
<1>4. Owned' = [s \in Slot |-> "client"]
  BY <1>3, OwnedType
<1>5. QED
  BY <1>3, <1>4 DEF OwnershipStep

\* Every step of FrameLoop is a step of BufferOwnership.
LEMMA OwnershipNext ==
  ASSUME TypeOK, PlaceInv, OwnedRight, OwnedRight', [Next]_vars
  PROVE  OwnershipStep
BY GiveBackSteps, ReturnStep, DrawStep, FrameEndStep, ReplaceStep
DEF Next, ClientStep, Frame

\* The frame loop keeps the promise of BufferOwnership: a buffer is drawn into by one
\* frame at a time and only while the compositor cannot read it, and it changes hands
\* only by a present, a handled release, the loss of the connection or recreate_buffers.
THEOREM LoopImplementsOwnership == Spec => ImplementsOwnership
<1>1. Init => Ownership!Init
  <2> SUFFICES ASSUME Init  PROVE Ownership!Init
    OBVIOUS
  <2>1. TypeOK /\ PlaceInv /\ OwnedRight
    BY InitTypeOK, PlaceInvInit, OwnedNow
  <2>2. wire = <<>> /\ events = <<>> /\ held = {} /\ pc = "idle"
    BY DEF Init
  <2>3. \A s \in Slot : ~Drawn(s) /\ ~BufferOut(<<gen, s>>)
    BY <2>2, EmptyAt DEF Drawn, BufferOut, Somewhere
  <2>4. \A s \in Slot : Owned[s] = "client"
    BY <2>1, <2>3 DEF OwnedRight
  <2>5. Owned = [s \in Slot |-> "client"]
    BY <2>4, OwnedType
  <2>6. QED
    BY <2>5 DEF Owned, Ownership!Init
<1>2. TypeOK /\ PlaceInv /\ OwnedRight /\ OwnedRight' /\ [Next]_vars => Ownership!Next
  <2> SUFFICES ASSUME OwnershipStep  PROVE Ownership!Next
    BY OwnershipNext
  <2>1. QED
    BY DEF OwnershipStep, Owned, Ownership!Next, Ownership!Draw, Ownership!Lend,
       Ownership!Abandon, Ownership!Return, Ownership!Replace, Ownership!NobodyDraws
<1>3. QED
  BY <1>1, <1>2, TypeCorrect, PlaceInvHolds, OwnedNow, PTL
  DEF Spec, ImplementsOwnership, Ownership!Spec

=============================================================================
