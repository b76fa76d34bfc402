------------------------------ MODULE FrameLoop ------------------------------
(***************************************************************************)
(* The frame loop of src/libwl.c: one client thread inside sd_event_loop,  *)
(* LIBWL_NUM_BUFFERS dma-buf buffers shared with the GPU and the Wayland   *)
(* compositor, and the two one-way channels of the Wayland socket.         *)
(*                                                                         *)
(* Actors: the client (the handlers of libwl.c and the user's frame        *)
(* callback), the GPU queue, and the compositor.  The GPU and the          *)
(* compositor are external and modelled from how libwl.c uses them.        *)
(***************************************************************************)
EXTENDS Integers, Sequences, FiniteSets, Functions

CONSTANTS
  NumBuffers,    \* LIBWL_NUM_BUFFERS
  Gen,           \* identities of one generation of wl_buffer objects
  Callback,      \* identities of wl_callback objects
  Size,          \* window sizes
  None,          \* null pointer, absent argument
  MayFail,       \* may the frame callback return without a present that worked?
  PromptRelease, \* does the compositor release superseded buffers before "done"?
  MaxUnread,     \* bound: nothing happens unasked at this many unread requests
  Spontaneous    \* bound: what happens unasked, of {"configure", "ping", "close",
                 \* "hangup", "signal", "rerun"}

Slot == 0 .. NumBuffers - 1
WlBuffer == Gen \X Slot

ASSUME ConstantsAssumption ==
  /\ NumBuffers \in Nat \ {0}
  /\ Gen # {} /\ Size # {}
  /\ None \notin WlBuffer \cup Callback \cup Size \cup Slot
  /\ MayFail \in BOOLEAN /\ PromptRelease \in BOOLEAN

VARIABLES
  \* struct Libwl, and where the client thread is
  pc, buffers, gen, curBuf, frameCallback, size,
  pendingConfigure, pendingResize, initialized, running,
  exiting,        \* sd_event_exit has been called on lib->event
  callbacks,      \* wl_callback proxies that exist
  \* the Vulkan queue: slots submitted and not finished
  gpu,
  \* the Wayland socket
  outbuf,         \* requests libwayland has buffered and not flushed
  wire, events,   \* requests and events on their way
  nread,          \* how many of "events" the current wl_display_dispatch has read
  connected,
  \* the compositor
  role,           \* of the surface: "new", "committed" (initial commit), "configured"
                  \* (the first configuration is on its way) or "acked"
  agreed,         \* size of the last configure that was acked, None: client decides
  offer,          \* {size} when xdg_toplevel.configure has been sent and the
                  \* xdg_surface.configure that ends the sequence has not, else {}
  current, held, frames, awaitingPong

lib == <<gen, curBuf, frameCallback, size, pendingConfigure, pendingResize,
         initialized, running>>
socket == <<outbuf, wire, events, nread, connected>>
compositor == <<role, agreed, offer, current, held, frames, awaitingPong>>
vars == <<pc, buffers, lib, exiting, callbacks, gpu, socket, compositor>>

-----------------------------------------------------------------------------
\* Messages.  A request or an event carries what the receiver acts on.  "toplevel" is
\* xdg_toplevel.configure; "configure" is xdg_surface.configure, its size the one of the
\* configuration that its serial stands for.

\* Variant (a plausible bug): libwl_present asks for the callback after the commit.
CommitUnframed(w, sz, cb) == [type |-> "commit", buf |-> w, size |-> sz, cb |-> None]

Commit(w, sz, cb) == [type |-> "commit", buf |-> w, size |-> sz, cb |-> cb]
Ack(sz)           == [type |-> "ack", size |-> sz]
Pong              == [type |-> "pong"]
Recreate(g)       == [type |-> "recreate", gen |-> g]

Request ==
       [type : {"commit"}, buf : WlBuffer \cup {None}, size : Size \cup {None},
        cb : Callback \cup {None}]
  \cup [type : {"ack"}, size : Size \cup {None}]
  \cup [type : {"pong"}]
  \cup [type : {"recreate"}, gen : Gen]

Event ==
       [type : {"release"}, buf : WlBuffer]
  \cup [type : {"done"}, cb : Callback]
  \cup [type : {"toplevel", "configure"}, size : Size \cup {None}]
  \cup [type : {"ping", "close"}]

BufferState ==
  [busy : BOOLEAN, size : Size, signaled : BOOLEAN,
   cmd : {"initial", "recording", "executable", "pending", "invalid", "freed"}]

IsBufferCommit(m) == m.type = "commit" /\ m.buf # None

Configures(e) == e.type \in {"toplevel", "configure"}

\* The buffer generations that a request, an event or the compositor still names.
GensInUse ==
  {gen} \cup {w[1] : w \in held}
        \cup {m.gen : m \in {r \in Range(wire \o outbuf) : r.type = "recreate"}}
        \cup {m.buf[1] : m \in {r \in Range(wire \o outbuf) : IsBufferCommit(r)}}
        \cup {e.buf[1] : e \in {r \in Range(events) : r.type = "release"}}

-----------------------------------------------------------------------------
\* State after a successful libwl_create: the initial commit (no buffer) is
\* buffered, every buffer is free with a signaled fence, nothing is configured.

\* Variants: create_buffer leaves width and height at 0; the fence is created without
\* VK_FENCE_CREATE_SIGNALED_BIT.
FreshBufferUnsized(sz) == [busy |-> FALSE, size |-> None, signaled |-> TRUE, cmd |-> "initial"]

FreshBufferUnsignaled(sz) == [busy |-> FALSE, size |-> sz, signaled |-> FALSE, cmd |-> "initial"]

FreshBuffer(sz) == [busy |-> FALSE, size |-> sz, signaled |-> TRUE, cmd |-> "initial"]

Init ==
  /\ pc = "idle"
  /\ size \in Size
  /\ gen \in Gen
  /\ buffers = [s \in Slot |-> FreshBuffer(size)]
  /\ curBuf = None
  /\ frameCallback = None
  /\ pendingConfigure = TRUE
  /\ pendingResize = FALSE
  /\ initialized = FALSE
  /\ running = FALSE
  /\ exiting = FALSE
  /\ callbacks = {}
  /\ gpu = {}
  /\ outbuf = <<Commit(None, None, None)>>
  /\ wire = <<>>
  /\ events = <<>>
  /\ nread = 0
  /\ connected = TRUE
  /\ role = "new"
  /\ agreed = None
  /\ offer = {}
  /\ current = None
  /\ held = {}
  /\ frames = {}
  /\ awaitingPong = FALSE
-----------------------------------------------------------------------------
\* Helpers shared by the client's actions.

\* wl_display_flush of everything buffered plus reqs; a dead socket swallows it.
Flush(reqs) ==
  /\ outbuf' = <<>>
  /\ wire' = IF connected THEN wire \o outbuf \o reqs ELSE wire

\* Variant: next_free_buffer does not look at "busy".
FreeIgnoresBusy == Slot

Free == {s \in Slot : ~buffers[s].busy}

\* next_free_buffer: the lowest index that is not busy.
NextFree == CHOOSE s \in Free : \A t \in Free : s <= t

\* Bound on what a finite instance explores, not a guard of the code: events come
\* unasked while every frame they start can still have a callback of its own ("toplevel"
\* starts none, and alternates with "configure").
Room ==
  /\ Cardinality(callbacks) + Cardinality({i \in DOMAIN events : events[i].type # "toplevel"})
       + (IF pc \in {"frame", "user"} THEN 1 ELSE 0) < Cardinality(Callback)
  /\ Len(wire) < MaxUnread

\* The handler of the next event that wl_display_dispatch has read takes it.
Take(kind) ==
  /\ pc \in {"idle", "loop"}
  /\ nread > 0
  /\ Head(events).type = kind
  /\ events' = Tail(events)
  /\ nread' = nread - 1
  /\ UNCHANGED connected

-----------------------------------------------------------------------------
\* The client: libwl_run and the sd_event callbacks.

\* libwl_run up to sd_event_loop.  The configured case asks for a frame on a
\* commit without a buffer; otherwise the first configure draws.
Run ==
  /\ pc = "idle" /\ nread = 0
  /\ initialized => "rerun" \in Spontaneous
  /\ Room
  /\ pc' = "loop"
  /\ running' = TRUE
  /\ initialized' = TRUE
  /\ \/ /\ pendingConfigure
        /\ Flush(<<>>)
        /\ UNCHANGED <<frameCallback, callbacks>>
     \/ /\ ~pendingConfigure
        /\ \E cb \in Callback \ callbacks :
             /\ frameCallback' = cb
             /\ callbacks' = callbacks \cup {cb}
             /\ Flush(<<Commit(None, None, cb)>>)
  /\ UNCHANGED <<buffers, gen, curBuf, size, pendingConfigure, pendingResize,
                 exiting, gpu, events, nread, connected, compositor>>

\* libwl_run when an sd_event_* call fails: returns -1 with the flags already set.
RunFails ==
  /\ MayFail
  /\ pc = "idle" /\ nread = 0
  /\ running' = TRUE
  /\ initialized' = TRUE
  /\ UNCHANGED <<pc, buffers, gen, curBuf, frameCallback, size, pendingConfigure,
                 pendingResize, exiting, callbacks, gpu, socket, compositor>>

\* on_wl_event with EPOLLIN: wl_display_dispatch flushes, then reads all there is.
\* Before the first libwl_run the user may dispatch the public lib->wl.
Dispatch ==
  /\ \/ pc = "loop" /\ ~exiting
     \/ pc = "idle" /\ ~initialized
  /\ nread = 0 /\ events # <<>> /\ connected
  /\ nread' = Len(events)
  /\ Flush(<<>>)
  /\ UNCHANGED <<pc, buffers, lib, exiting, callbacks, gpu, events, connected,
                 compositor>>

\* on_wl_event with EPOLLHUP or EPOLLERR, or a dispatch that returns -1; on_signal
\* does the same whatever the socket's state.
RequestExit ==
  /\ pc = "loop" /\ nread = 0 /\ ~exiting
  /\ running' = FALSE
  /\ exiting' = TRUE
  /\ UNCHANGED <<pc, buffers, gen, curBuf, frameCallback, size, pendingConfigure,
                 pendingResize, initialized, callbacks, gpu, socket, compositor>>

OnConnectionLost == ~connected /\ RequestExit

OnSignal == "signal" \in Spontaneous /\ connected /\ RequestExit

\* Variant: the loop goes on until no event is left.
LoopExitWhenQuiet ==
  /\ pc = "loop" /\ events = <<>> /\ exiting
  /\ pc' = "idle"
  /\ exiting' = FALSE
  /\ UNCHANGED <<buffers, lib, callbacks, gpu, socket, compositor>>

\* sd_event_loop returns; libwl_run drops lib->event.
LoopExit ==
  /\ pc = "loop" /\ nread = 0 /\ exiting
  /\ pc' = "idle"
  /\ exiting' = FALSE
  /\ UNCHANGED <<buffers, lib, callbacks, gpu, socket, compositor>>

\* libwl_destroy: destroys the one callback that frame_callback names and frees the
\* objects of every slot, without waiting for the GPU.
Destroy ==
  /\ pc = "idle" /\ nread = 0
  /\ pc' = "destroyed"
  /\ callbacks' = callbacks \ {frameCallback}
  /\ frameCallback' = None
  /\ buffers' = [s \in Slot |-> [buffers[s] EXCEPT !.cmd = "freed"]]
  /\ connected' = FALSE
  /\ UNCHANGED <<gen, curBuf, size, pendingConfigure, pendingResize,
                 initialized, running, exiting, gpu, outbuf, wire, events, nread,
                 compositor>>

-----------------------------------------------------------------------------
\* The client: the Wayland event handlers.

\* Variants: the release of an old generation's buffer reaches the slot's new buffer;
\* no release does.
OnBufferReleaseAnyGeneration ==
  /\ Take("release")
  /\ buffers' = [buffers EXCEPT ![Head(events).buf[2]].busy = FALSE]
  /\ UNCHANGED <<pc, lib, exiting, callbacks, gpu, outbuf, wire, compositor>>

OnBufferReleaseIgnored ==
  /\ Take("release")
  /\ UNCHANGED <<pc, buffers, lib, exiting, callbacks, gpu, outbuf, wire, compositor>>

\* on_buffer_release; libwayland drops the event if the proxy was destroyed.
OnBufferRelease ==
  /\ Take("release")
  /\ LET w == Head(events).buf
     IN  buffers' = IF w[1] = gen THEN [buffers EXCEPT ![w[2]].busy = FALSE]
                                  ELSE buffers
  /\ UNCHANGED <<pc, lib, exiting, callbacks, gpu, outbuf, wire, compositor>>

\* Variants: frame_callback is not cleared; the callback destroyed is the one that
\* frame_callback names.
OnFrameDoneKeepsPointer ==
  /\ Take("done")
  /\ callbacks' = callbacks \ {Head(events).cb}
  /\ pc' = "frame"
  /\ UNCHANGED <<buffers, lib, exiting, gpu, outbuf, wire, compositor>>

OnFrameDoneDestroysLatest ==
  /\ Take("done")
  /\ callbacks' = callbacks \ {frameCallback}
  /\ frameCallback' = None
  /\ pc' = "frame"
  /\ UNCHANGED <<buffers, gen, curBuf, size, pendingConfigure, pendingResize,
                 initialized, running, exiting, gpu, outbuf, wire, compositor>>

\* on_frame_done with a callback: destroys it, forgets frame_callback whichever
\* callback that names, and goes on to draw.
OnFrameDone ==
  /\ Take("done")
  /\ callbacks' = callbacks \ {Head(events).cb}
  /\ frameCallback' = None
  /\ pc' = "frame"
  /\ UNCHANGED <<buffers, gen, curBuf, size, pendingConfigure, pendingResize,
                 initialized, running, exiting, gpu, outbuf, wire, compositor>>

\* Variant: on_toplevel_configure does not set pending_resize.
OnToplevelConfigureKeepsBuffers ==
  /\ Take("toplevel")
  /\ size' = IF Head(events).size # None THEN Head(events).size ELSE size
  /\ UNCHANGED <<pc, buffers, gen, curBuf, frameCallback, pendingConfigure, pendingResize,
                 initialized, running, exiting, callbacks, gpu, outbuf, wire, compositor>>

\* on_toplevel_configure (0x0 is None): takes the new size over at once, before the
\* configure of the surface that it belongs to is handled and acked.
OnToplevelConfigure ==
  /\ Take("toplevel")
  /\ LET sz == Head(events).size
         resize == sz # None /\ sz # size
     IN  /\ size' = IF resize THEN sz ELSE size
         /\ pendingResize' = (pendingResize \/ resize)
  /\ UNCHANGED <<pc, buffers, gen, curBuf, frameCallback, pendingConfigure,
                 initialized, running, exiting, callbacks, gpu, outbuf, wire, compositor>>

\* on_surface_configure: acks, and draws at once when the loop has been started.
OnSurfaceConfigure ==
  /\ Take("configure")
  /\ outbuf' = Append(outbuf, Ack(Head(events).size))
  /\ pendingConfigure' = FALSE
  /\ pc' = IF initialized THEN "frame" ELSE pc
  /\ UNCHANGED <<buffers, gen, curBuf, frameCallback, size, pendingResize, initialized,
                 running, exiting, callbacks, gpu, wire, compositor>>

\* Variant: on_wm_base_ping does nothing.
OnPingIgnored ==
  /\ Take("ping")
  /\ UNCHANGED <<pc, buffers, lib, exiting, callbacks, gpu, outbuf, wire, compositor>>

\* on_wm_base_ping: the pong is buffered, not flushed.
OnPing ==
  /\ Take("ping")
  /\ outbuf' = Append(outbuf, Pong)
  /\ UNCHANGED <<pc, buffers, lib, exiting, callbacks, gpu, wire, compositor>>

\* on_toplevel_close: without an event loop there is nothing to exit.
OnClose ==
  /\ Take("close")
  /\ running' = FALSE
  /\ exiting' = (pc = "loop")
  /\ UNCHANGED <<pc, buffers, gen, curBuf, frameCallback, size, pendingConfigure,
                 pendingResize, initialized, callbacks, gpu, outbuf, wire, compositor>>

-----------------------------------------------------------------------------
\* The client: the rest of on_frame_done, and the user's frame callback.

\* Variant: recreate_buffers without vkDeviceWaitIdle.
FrameResizeUnwaited ==
  /\ pc = "frame" /\ pendingResize
  /\ \E g \in Gen \ GensInUse :
       /\ gen' = g
       /\ outbuf' = Append(outbuf, Recreate(gen))
  /\ buffers' = [s \in Slot |-> FreshBuffer(size)]
  /\ pendingResize' = FALSE
  /\ UNCHANGED <<pc, curBuf, frameCallback, size, pendingConfigure, initialized,
                 running, exiting, callbacks, gpu, wire, events, nread, connected,
                 compositor>>

\* recreate_buffers, behind vkDeviceWaitIdle: new objects of the new size.
FrameResize ==
  /\ pc = "frame" /\ pendingResize
  /\ gpu = {}
  /\ \E g \in Gen \ GensInUse :
       /\ gen' = g
       /\ outbuf' = Append(outbuf, Recreate(gen))
  /\ buffers' = [s \in Slot |-> FreshBuffer(size)]
  /\ pendingResize' = FALSE
  /\ UNCHANGED <<pc, curBuf, frameCallback, size, pendingConfigure, initialized,
                 running, exiting, callbacks, gpu, wire, events, nread, connected,
                 compositor>>

\* recreate_buffers when create_buffer fails: assert(r == 0) aborts the process.
RecreateAborts ==
  /\ MayFail
  /\ pc = "frame" /\ pendingResize
  /\ gpu = {}
  /\ pc' = "aborted"
  /\ connected' = FALSE
  /\ UNCHANGED <<buffers, lib, exiting, callbacks, gpu, outbuf, wire, events, nread,
                 compositor>>

\* "no free buffer": the frame is skipped and no new callback is asked for.
FrameSkip ==
  /\ pc = "frame" /\ ~pendingResize
  /\ Free = {}
  /\ pc' = "loop"
  /\ UNCHANGED <<buffers, lib, exiting, callbacks, gpu, socket, compositor>>

\* Variant: vkWaitForFences is left out.
FrameBeginUnwaited ==
  /\ pc = "frame" /\ ~pendingResize
  /\ Free # {}
  /\ buffers' = [buffers EXCEPT ![NextFree].signaled = FALSE,
                                ![NextFree].cmd = "recording"]
  /\ curBuf' = NextFree
  /\ pc' = "user"
  /\ UNCHANGED <<gen, frameCallback, size, pendingConfigure, pendingResize,
                 initialized, running, exiting, callbacks, gpu, socket, compositor>>

\* Blocks in vkWaitForFences until the free buffer's fence is signaled, resets it,
\* begins its command buffer and calls frame_cb.
FrameBegin ==
  /\ pc = "frame" /\ ~pendingResize
  /\ Free # {}
  /\ buffers[NextFree].signaled
  /\ buffers' = [buffers EXCEPT ![NextFree].signaled = FALSE,
                                ![NextFree].cmd = "recording"]
  /\ curBuf' = NextFree
  /\ pc' = "user"
  /\ UNCHANGED <<gen, frameCallback, size, pendingConfigure, pendingResize,
                 initialized, running, exiting, callbacks, gpu, socket, compositor>>

\* The frame callback returns after a libwl_present that worked.
Present ==
  /\ pc = "user"
  /\ pc' = "loop"
  /\ gpu' = gpu \cup {curBuf}
  /\ buffers' = [buffers EXCEPT ![curBuf].cmd = "pending", ![curBuf].busy = TRUE]
  /\ \E cb \in Callback \ callbacks :
       /\ frameCallback' = cb
       /\ callbacks' = callbacks \cup {cb}
       /\ Flush(<<Commit(<<gen, curBuf>>, buffers[curBuf].size, cb)>>)
  /\ UNCHANGED <<gen, curBuf, size, pendingConfigure, pendingResize, initialized,
                 running, exiting, events, nread, connected, compositor>>

\* libwl_present fails in vkEndCommandBuffer or vkQueueSubmit; demo.c clears running.
PresentFails ==
  /\ MayFail
  /\ pc = "user"
  /\ pc' = "loop"
  /\ \E c \in {"invalid", "executable"} :
       buffers' = [buffers EXCEPT ![curBuf].cmd = c]
  /\ running' = FALSE
  /\ UNCHANGED <<gen, curBuf, frameCallback, size, pendingConfigure, pendingResize,
                 initialized, exiting, callbacks, gpu, socket, compositor>>

\* The frame callback returns without calling libwl_present.
PresentSkipped ==
  /\ MayFail
  /\ pc = "user"
  /\ pc' = "loop"
  /\ UNCHANGED <<buffers, lib, exiting, callbacks, gpu, socket, compositor>>

-----------------------------------------------------------------------------
\* External: the GPU finishes a submission, in any order; nothing is left to signal when
\* libwl_destroy has freed the fence.

GpuDone(s) ==
  /\ s \in gpu
  /\ gpu' = gpu \ {s}
  /\ buffers' = IF buffers[s].cmd = "freed" THEN buffers
                ELSE [buffers EXCEPT ![s].signaled = TRUE, ![s].cmd = "invalid"]
  /\ UNCHANGED <<pc, lib, exiting, callbacks, socket, compositor>>

-----------------------------------------------------------------------------
\* External: the compositor.

Client == <<pc, buffers, lib, exiting, callbacks, gpu>>

Send(e) ==
  /\ events' = Append(events, e)
  /\ UNCHANGED <<outbuf, wire, nread, connected>>

Receive(kind) ==
  /\ connected
  /\ wire # <<>> /\ Head(wire).type = kind
  /\ wire' = Tail(wire)
  /\ UNCHANGED <<outbuf, events, nread, connected>>

\* Latches the surface state: the buffer, if one is attached, and the callback.
ReceiveCommit ==
  /\ Receive("commit")
  /\ LET m == Head(wire)
     IN  /\ current' = IF m.buf = None THEN current ELSE m.buf
         /\ held' = held \cup ({m.buf} \ {None})
         /\ frames' = frames \cup ({m.cb} \ {None})
  /\ role' = IF role = "new" THEN "committed" ELSE role
  /\ UNCHANGED <<Client, agreed, offer, awaitingPong>>

ReceiveAck ==
  /\ Receive("ack")
  /\ role' = "acked"
  /\ agreed' = Head(wire).size
  /\ UNCHANGED <<Client, offer, current, held, frames, awaitingPong>>

ReceivePong ==
  /\ Receive("pong")
  /\ awaitingPong' = FALSE
  /\ UNCHANGED <<Client, role, agreed, offer, current, held, frames>>

\* wl_buffer.destroy of a whole generation.
ReceiveRecreate ==
  /\ Receive("recreate")
  /\ held' = {w \in held : w[1] # Head(wire).gen}
  /\ current' = IF current # None /\ current[1] = Head(wire).gen THEN None ELSE current
  /\ UNCHANGED <<Client, role, agreed, offer, frames, awaitingPong>>

\* A configuration is two events, xdg_toplevel.configure and the xdg_surface.configure
\* that ends it; other events may come between them.  The first one answers the initial
\* commit, any later one is unasked.
SendToplevelConfigure(sz) ==
  /\ connected /\ Room
  /\ role = "committed" \/ (role # "new" /\ "configure" \in Spontaneous)
  /\ role' = IF role = "committed" THEN "configured" ELSE role
  /\ offer = {}
  /\ offer' = {sz}
  /\ Send([type |-> "toplevel", size |-> sz])
  /\ UNCHANGED <<Client, agreed, current, held, frames, awaitingPong>>

SendSurfaceConfigure(sz) ==
  /\ connected /\ Room
  /\ offer = {sz}
  /\ offer' = {}
  /\ Send([type |-> "configure", size |-> sz])
  /\ UNCHANGED <<Client, role, agreed, current, held, frames, awaitingPong>>

SendRelease(w) ==
  /\ connected
  /\ w \in held
  /\ held' = held \ {w}
  /\ Send([type |-> "release", buf |-> w])
  /\ UNCHANGED <<Client, role, agreed, offer, current, frames, awaitingPong>>

SendDone(cb) ==
  /\ connected
  /\ cb \in frames
  /\ PromptRelease => held \subseteq {current}
  /\ frames' = frames \ {cb}
  /\ Send([type |-> "done", cb |-> cb])
  /\ UNCHANGED <<Client, role, agreed, offer, current, held, awaitingPong>>

SendPing ==
  /\ "ping" \in Spontaneous
  /\ connected /\ ~awaitingPong
  /\ awaitingPong' = TRUE
  /\ Send([type |-> "ping"])
  /\ UNCHANGED <<Client, role, agreed, offer, current, held, frames>>

SendClose ==
  /\ "close" \in Spontaneous
  /\ connected /\ Room
  /\ Send([type |-> "close"])
  /\ UNCHANGED <<Client, compositor>>

\* The compositor goes away; what the client has not read is lost.
Hangup ==
  /\ "hangup" \in Spontaneous
  /\ connected
  /\ connected' = FALSE
  /\ wire' = <<>>
  /\ events' = SubSeq(events, 1, nread)
  /\ UNCHANGED <<Client, outbuf, nread, compositor>>

-----------------------------------------------------------------------------
Handler ==
  \/ OnBufferRelease \/ OnFrameDone \/ OnToplevelConfigure \/ OnSurfaceConfigure
  \/ OnPing \/ OnClose

Frame ==
  \/ FrameResize \/ RecreateAborts \/ FrameSkip \/ FrameBegin
  \/ Present \/ PresentFails \/ PresentSkipped

\* What the client's thread does by itself, once libwl_run is called.
ClientStep ==
  Dispatch \/ Handler \/ Frame \/ OnConnectionLost \/ LoopExit

ServerReceives ==
  ReceiveCommit \/ ReceiveAck \/ ReceivePong \/ ReceiveRecreate

Next ==
  \/ ClientStep \/ Run \/ RunFails \/ OnSignal \/ Destroy
  \/ \E s \in Slot : GpuDone(s)
  \/ ServerReceives
  \/ \E sz \in Size \cup {None} : SendToplevelConfigure(sz) \/ SendSurfaceConfigure(sz)
  \/ \E w \in WlBuffer : SendRelease(w)
  \/ \E cb \in Callback : SendDone(cb)
  \/ SendPing \/ SendClose \/ Hangup

Spec == Init /\ [][Next]_vars

\* The client's thread and the GPU make progress, the compositor reads requests and
\* gives superseded buffers back.
Fairness ==
  /\ WF_vars(ClientStep)
  /\ WF_vars(\E s \in Slot : GpuDone(s))
  /\ WF_vars(ServerReceives)
  /\ WF_vars(\E w \in WlBuffer : w # current /\ SendRelease(w))

\* A surface that is hidden may never get "done" ...
HiddenSpec == Spec /\ Fairness

\* ... and one that shows a buffer gets it.
VisibleSpec ==
  HiddenSpec /\ WF_vars(current # None /\ \E cb \in Callback : SendDone(cb))

-----------------------------------------------------------------------------
\* Types.  "events" and the queues of requests are finite sequences; how long they
\* grow is the compositor's choice.

LibTypeOK ==
  /\ pc \in {"idle", "loop", "frame", "user", "destroyed", "aborted"}
  /\ pc = "user" => curBuf \in Slot
  /\ buffers \in [Slot -> BufferState]
  /\ gen \in Gen /\ size \in Size
  /\ curBuf \in Slot \cup {None}
  /\ frameCallback \in Callback \cup {None}
  /\ {pendingConfigure, pendingResize, initialized, running, exiting} \subseteq BOOLEAN
  /\ callbacks \subseteq Callback
  /\ gpu \subseteq Slot

SocketTypeOK ==
  /\ outbuf \in Seq(Request) /\ wire \in Seq(Request)
  /\ events \in Seq(Event)
  /\ nread \in 0 .. Len(events)
  /\ connected \in BOOLEAN

CompositorTypeOK ==
  /\ role \in {"new", "committed", "configured", "acked"}
  /\ agreed \in Size \cup {None}
  /\ offer \subseteq Size \cup {None}
  /\ current \in WlBuffer \cup {None}
  /\ held \subseteq WlBuffer
  /\ frames \subseteq Callback
  /\ awaitingPong \in BOOLEAN

TypeOK == LibTypeOK /\ SocketTypeOK /\ CompositorTypeOK

-----------------------------------------------------------------------------
\* Safety.

\* The buffers that are the compositor's: those it holds, those in a commit that it
\* has not read and those whose release the client has not handled.
Lent ==
  held \cup {m.buf : m \in {r \in Range(wire \o outbuf) : IsBufferCommit(r)}}
       \cup {e.buf : e \in {r \in Range(events) : r.type = "release"}}

\* A buffer the compositor may still read is busy, whatever releases of earlier
\* generations are on their way, so next_free_buffer never gives it to the user.
NoTearing ==
  \A s \in Slot : <<gen, s>> \in Lent => buffers[s].busy

\* The handlers and next_free_buffer together implement exclusive ownership: the
\* refinement reads who owns a buffer from the messages under way, never from "busy".
Ownership == INSTANCE BufferOwnership WITH
  owner <- [s \in Slot |-> IF pc = "user" /\ s = curBuf THEN "frame"
                           ELSE IF <<gen, s>> \in Lent THEN "compositor"
                           ELSE "client"]

ImplementsOwnership == Ownership!Spec

\* lib->frame_callback is null or a callback that has not been destroyed, however
\* many frame chains run (it is destroyed through that pointer in libwl_destroy).
NoDanglingCallback ==
  frameCallback \in callbacks \cup {None}

\* sz is the size of the first configuration behind the one that the compositor knows
\* to be acked: its ack is under way, or its configure, or the configure is still to come.
NextToAck(sz) ==
  LET sent == wire \o outbuf
      acks == {i \in DOMAIN sent : sent[i].type = "ack"}
      told == {i \in DOMAIN events : Configures(events[i])}
  IN  \/ \E i \in acks : sent[i].size = sz /\ \A j \in acks : i <= j
      \/ /\ acks = {}
         /\ \E i \in told : /\ events[i].type = "configure" /\ events[i].size = sz
                            /\ \A j \in told : i <= j
      \/ acks = {} /\ told = {} /\ sz \in offer

\* xdg_surface: a buffer reaches the compositor only after an ack, and with the size of
\* the configure acked last, if that one named a size, or of the one that follows it:
\* on_toplevel_configure may run ahead of the acks, but by one configuration only.
CommitKeepsUp ==
  connected /\ wire # <<>> /\ IsBufferCommit(Head(wire)) =>
    role = "acked" /\ (agreed \in {None, Head(wire).size} \/ NextToAck(Head(wire).size))

\* The xdg-shell header says of xdg_toplevel.configure that "the configured state should
\* not be applied immediately": is each buffer of the size that was acked last?
CommitMatchesAck ==
  connected /\ wire # <<>> /\ IsBufferCommit(Head(wire)) => agreed \in {None, Head(wire).size}

\* vkBeginCommandBuffer is never given a command buffer that the GPU executes or
\* that is being recorded: both keep their fence unsignaled.
FenceGuardsCommands ==
  \A s \in Slot :
    buffers[s].cmd \in {"recording", "pending"} => ~buffers[s].signaled

\* No resize frees a buffer that the GPU works on: until libwl_destroy, which does not
\* wait, the slots it works on are those that still have the command buffer submitted.
GpuOwnsPending ==
  pc # "destroyed" => \A s \in Slot : s \in gpu <=> buffers[s].cmd = "pending"

\* Every frame callback the compositor has still to answer, or has answered, is one
\* the client has not destroyed, so no "done" is lost.
NoLostDone ==
  pc # "destroyed" =>
    frames \cup {e.cb : e \in {r \in Range(events) : r.type = "done"}} \subseteq callbacks

-----------------------------------------------------------------------------
\* Progress of a callback that presents every frame on a compositor that keeps its
\* side: MayFail = FALSE, PromptRelease = TRUE.

\* A fence that is not signaled belongs to a submission that the GPU will finish, or
\* to the frame being recorded, so vkWaitForFences(UINT64_MAX) returns.
FenceOwed ==
  pc # "destroyed" =>
    \A s \in Slot : ~buffers[s].signaled => s \in gpu \/ (pc = "user" /\ s = curBuf)

\* The loop never waits for events with no frame callback outstanding once the
\* window is configured: the chain of frames is not broken by a skipped frame.
ChainAlive ==
  pc = "loop" /\ nread = 0 /\ ~pendingConfigure => callbacks # {}

Stopping == exiting \/ ~connected \/ pc = "idle"

\* A window that is shown goes on drawing: the user's callback is called again.
NextFrame ==
  pc = "loop" /\ current # None ~> pc = "user" \/ Stopping

\* A shown window answers a ping: on_wm_base_ping does not flush the pong, the frame
\* that comes next does.
PingAnswered ==
  awaitingPong /\ current # None /\ pc = "loop" ~> ~awaitingPong \/ Stopping

\* TUTORIAL.md says of a ping "You must respond": true of a hidden window as well?
PingAlwaysAnswered ==
  awaitingPong /\ role = "acked" /\ pc = "loop" ~> ~awaitingPong \/ Stopping

\* TUTORIAL.md: "With three buffers, there's always at least one buffer available".
AlwaysABufferAvailable == pc = "frame" /\ ~pendingResize => Free # {}

\* demo.c clears lib->running when libwl_present fails, to leave libwl_run.
FailureEndsRun == initialized /\ ~running ~> pc # "loop" \/ running

\* Once an exit is requested libwl_run returns, whatever the read batch still holds.
StopCompletes == exiting ~> pc = "idle"

=============================================================================
