------------------------------ MODULE Lifecycle ------------------------------
(***************************************************************************)
(* What libwl owns, from libwl_create to libwl_destroy: proxies, file      *)
(* descriptors, GBM and Vulkan objects.  libwl_create, setup_vulkan and    *)
(* create_buffer make one object after another and each step may fail;     *)
(* recreate_buffers does it again inside the frame loop; libwl_destroy     *)
(* frees whatever the handles in struct Libwl name.                        *)
(*                                                                         *)
(* "live" is what exists, "handle" is what the struct says.                *)
(***************************************************************************)
EXTENDS Integers, FiniteSets

CONSTANTS
  NumBuffers,  \* LIBWL_NUM_BUFFERS
  MayFail      \* may a call of create, run or recreate_buffers fail?

ASSUME ConstantsAssumption == NumBuffers \in Nat \ {0} /\ MayFail \in BOOLEAN

VARIABLES
  pc,        \* where the client thread is
  slot, n,   \* the buffer, and the step, that comes next while pc is a sequence
  resizing,  \* do the buffer loops run for recreate_buffers?
  live,      \* objects that exist
  handle,    \* field of struct Libwl: "zero" (memset), "set", or "minus" (-1)
  stdin,     \* descriptor 0 of the process is open
  extra,     \* does LibwlConfig ask for extra extensions?
  scratch,   \* arena allocations of setup_vulkan above its mark
  gpu        \* slots the GPU works on

resources == <<live, handle, stdin>>
vars == <<pc, slot, n, resizing, live, handle, stdin, extra, scratch, gpu>>

Slot == 0 .. NumBuffers - 1
-----------------------------------------------------------------------------
\* Objects.  "dup" is the descriptor create_vk_image hands to vkAllocateMemory; it
\* has no field in the struct.

BufferKind == {"bo", "dmabuf_fd", "image", "dup", "memory", "cmd", "fence", "wl_buf"}

LibKind == {"arena", "wl", "registry", "compositor", "wm_base", "dmabuf", "seat",
            "drm_fd", "gbm", "inst", "dev", "cmd_pool", "surface", "xdg_surface",
            "xdg_toplevel", "pointer", "keyboard", "frame_callback", "event"}

Object == (LibKind \X {0}) \cup (BufferKind \X Slot)

Lib(k) == <<k, 0>>

Fd == {"drm_fd", "dmabuf_fd"}

\* What an object needs as long as it exists.
Parents ==
  [bo |-> {"gbm"}, dmabuf_fd |-> {}, image |-> {"dev"}, dup |-> {},
   memory |-> {"dev"}, cmd |-> {"cmd_pool"}, fence |-> {"dev"}, wl_buf |-> {"wl"},
   arena |-> {}, wl |-> {}, registry |-> {"wl"}, compositor |-> {"wl"},
   wm_base |-> {"wl"}, dmabuf |-> {"wl"}, seat |-> {"wl"}, drm_fd |-> {},
   gbm |-> {"drm_fd"}, inst |-> {}, dev |-> {"inst"}, cmd_pool |-> {"dev"},
   surface |-> {"wl"}, xdg_surface |-> {"wl", "wm_base", "surface"},
   xdg_toplevel |-> {"wl", "xdg_surface"}, pointer |-> {"wl"}, keyboard |-> {"wl"},
   frame_callback |-> {"wl"}, event |-> {}]

-----------------------------------------------------------------------------
\* The order of the code: the step at which each object is made, and freed.

\* libwl_create up to its buffers; step 7 picks the device, step 10 loads functions.
LibMake ==
  [arena |-> 0, wl |-> 1, registry |-> 2, compositor |-> 3, wm_base |-> 3,
   dmabuf |-> 3, seat |-> 3, drm_fd |-> 4, gbm |-> 5, inst |-> 6, dev |-> 8,
   cmd_pool |-> 9, surface |-> 11, xdg_surface |-> 12, xdg_toplevel |-> 13]

\* create_buffer; step 8 closes dmabuf_fd.
BufferMake ==
  [bo |-> 0, dmabuf_fd |-> 1, image |-> 2, dup |-> 3, memory |-> 4, cmd |-> 5,
   fence |-> 6, wl_buf |-> 7]

\* destroy_buffer.
BufferFree ==
  [fence |-> 0, cmd |-> 1, memory |-> 2, image |-> 3, wl_buf |-> 4, bo |-> 5,
   dmabuf_fd |-> 6]

\* Variant of libwl_destroy: the device goes before what was made from it.
LibFreeDeviceFirst ==
  [pointer |-> 0, keyboard |-> 1, seat |-> 2, xdg_toplevel |-> 3, xdg_surface |-> 4,
   surface |-> 5, cmd_pool |-> 7, dev |-> 6, inst |-> 8, gbm |-> 9, drm_fd |-> 10,
   dmabuf |-> 11, wm_base |-> 12, compositor |-> 13, registry |-> 14, wl |-> 15]

\* libwl_destroy behind its buffers.
LibFree ==
  [pointer |-> 0, keyboard |-> 1, seat |-> 2, xdg_toplevel |-> 3, xdg_surface |-> 4,
   surface |-> 5, cmd_pool |-> 6, dev |-> 7, inst |-> 8, gbm |-> 9, drm_fd |-> 10,
   dmabuf |-> 11, wm_base |-> 12, compositor |-> 13, registry |-> 14, wl |-> 15]

-----------------------------------------------------------------------------
\* Helpers.

Made(os) ==
  /\ live' = live \cup os
  /\ handle' = [o \in Object |-> IF o \in os THEN "set" ELSE handle[o]]

\* if (lib->x) destroy(lib->x), or if (fd >= 0) close(fd): a descriptor that was never
\* opened still holds the 0 of memset.
Freed(o) ==
  /\ live' = IF handle[o] = "set" THEN live \ {o} ELSE live
  /\ stdin' = (stdin /\ ~(handle[o] = "zero" /\ o[1] \in Fd))

LibMadeAt(i) == {Lib(k) : k \in {j \in DOMAIN LibMake : LibMake[j] = i}}

Goto(p, s, i) == pc' = p /\ slot' = s /\ n' = i

Init ==
  /\ pc = "start" /\ slot = 0 /\ n = 0
  /\ resizing = FALSE
  /\ live = {}
  /\ handle = [o \in Object |-> "zero"]
  /\ stdin = TRUE
  /\ extra \in BOOLEAN
  /\ scratch = 0
  /\ gpu = {}
-----------------------------------------------------------------------------
\* libwl_create.

\* Enters libwl_create: memset.  A struct that was destroyed may be created again.
Begin ==
  /\ pc \in {"start", "destroyed"}
  /\ Goto("create", 0, 0)
  /\ handle' = [o \in Object |-> "zero"]
  /\ scratch' = 0
  /\ UNCHANGED <<resizing, live, stdin, extra, gpu>>

\* arena, connection, registry, roundtrip, render node, GBM device.
Connect ==
  /\ pc = "create" /\ n <= 5
  /\ Made(LibMadeAt(n))
  /\ Goto("create", 0, n + 1)
  /\ UNCHANGED <<resizing, stdin, extra, scratch, gpu>>

\* The roundtrip bound some of the four globals, not all.
GlobalsMissing ==
  /\ MayFail
  /\ pc = "create" /\ n = 3
  /\ \E some \in SUBSET LibMadeAt(3) : some # LibMadeAt(3) /\ Made(some)
  /\ Goto("failed", 0, 0)
  /\ UNCHANGED <<resizing, stdin, extra, scratch, gpu>>

\* arena_init, wl_display_connect, open or gbm_create_device fails; open gives -1.
ConnectFails ==
  /\ MayFail
  /\ pc = "create" /\ n \in {0, 1, 4, 5}
  /\ handle' = IF n = 4 THEN [handle EXCEPT ![Lib("drm_fd")] = "minus"] ELSE handle
  /\ Goto("failed", 0, 0)
  /\ UNCHANGED <<resizing, live, stdin, extra, scratch, gpu>>

\* setup_vulkan: the arrays of devices and queue families are scratch, and so are the
\* lists of extensions when the user asks for more.
SetUpVulkan ==
  /\ pc = "create" /\ n \in 6 .. 10
  /\ Made(LibMadeAt(n))
  /\ scratch' = CASE n \in {6, 8} -> scratch + (IF extra THEN 1 ELSE 0)
                  [] n = 7       -> scratch + 2
                  [] n = 9       -> scratch
                  [] n = 10      -> 0
  /\ Goto("create", 0, n + 1)
  /\ UNCHANGED <<resizing, stdin, extra, gpu>>

\* Variant: the failure path returns without arena_restore.
SetUpVulkanFailsUnrestored ==
  /\ MayFail
  /\ pc = "create" /\ n \in 6 .. 10
  /\ Goto("failed", 0, 0)
  /\ UNCHANGED <<resizing, resources, extra, scratch, gpu>>

\* "goto fail" from any step, including an arena_alloc that returns null.
SetUpVulkanFails ==
  /\ MayFail
  /\ pc = "create" /\ n \in 6 .. 10
  /\ scratch' = 0
  /\ Goto("failed", 0, 0)
  /\ UNCHANGED <<resizing, resources, extra, gpu>>

\* Surface, xdg_surface and toplevel; their results are not checked.
MakeWindow ==
  /\ pc = "create" /\ n \in 11 .. 13
  /\ Made(LibMadeAt(n))
  /\ IF n < 13 THEN Goto("create", 0, n + 1) ELSE Goto("buffers", 0, 0)
  /\ UNCHANGED <<resizing, stdin, extra, scratch, gpu>>
-----------------------------------------------------------------------------
\* create_buffer for every slot, called by libwl_create and by recreate_buffers.

\* memset and dmabuf_fd = -1, then gbm_bo_create.
Fresh(o) == IF o[2] = slot /\ o[1] \in BufferKind
            THEN IF o[1] = "dmabuf_fd" THEN "minus" ELSE "zero"
            ELSE handle[o]

\* Variant: the loop over the buffers goes one too far.
MakeBoOneMore ==
  /\ pc = "buffers" /\ slot <= NumBuffers /\ n = 0
  /\ live' = live \cup {<<"bo", slot>>}
  /\ handle' = [o \in Object |-> IF o = <<"bo", slot>> THEN "set" ELSE Fresh(o)]
  /\ Goto("buffers", slot, 1)
  /\ UNCHANGED <<resizing, stdin, extra, scratch, gpu>>

MakeBo ==
  /\ pc = "buffers" /\ slot < NumBuffers /\ n = 0
  /\ live' = live \cup {<<"bo", slot>>}
  /\ handle' = [o \in Object |-> IF o = <<"bo", slot>> THEN "set" ELSE Fresh(o)]
  /\ Goto("buffers", slot, 1)
  /\ UNCHANGED <<resizing, stdin, extra, scratch, gpu>>

MakeBoFails ==
  /\ MayFail
  /\ pc = "buffers" /\ slot < NumBuffers /\ n = 0
  /\ handle' = [o \in Object |-> Fresh(o)]
  /\ Goto(IF resizing THEN "aborted" ELSE "failed", 0, 0)
  /\ UNCHANGED <<resizing, live, stdin, extra, scratch, gpu>>

\* Variant: create_vk_image imports dmabuf_fd itself.
ImportUndupped ==
  /\ pc = "buffers" /\ slot < NumBuffers /\ n = 4
  /\ live' = (live \cup {<<"memory", slot>>}) \ {<<"dmabuf_fd", slot>>, <<"dup", slot>>}
  /\ handle' = [handle EXCEPT ![<<"memory", slot>>] = "set"]
  /\ Goto("buffers", slot, 5)
  /\ UNCHANGED <<resizing, stdin, extra, scratch, gpu>>

\* vkAllocateMemory: the import takes the duplicated descriptor over.
Import ==
  /\ pc = "buffers" /\ slot < NumBuffers /\ n = 4
  /\ live' = (live \cup {<<"memory", slot>>}) \ {<<"dup", slot>>}
  /\ handle' = [handle EXCEPT ![<<"memory", slot>>] = "set"]
  /\ Goto("buffers", slot, 5)
  /\ UNCHANGED <<resizing, stdin, extra, scratch, gpu>>

\* drmPrimeHandleToFD, the other steps of create_vk_image, create_immed.
MakeNext ==
  /\ pc = "buffers" /\ slot < NumBuffers /\ n \in {1, 2, 3, 5, 6, 7}
  /\ \E k \in DOMAIN BufferMake :
       BufferMake[k] = n /\ Made({<<k, slot>>})
  /\ Goto("buffers", slot, n + 1)
  /\ UNCHANGED <<resizing, stdin, extra, scratch, gpu>>

\* Every failure up to the fence meets an assert.
MakeAborts ==
  /\ MayFail
  /\ pc = "buffers" /\ slot < NumBuffers /\ n \in 1 .. 6
  /\ Goto("aborted", 0, 0)
  /\ UNCHANGED <<resizing, resources, extra, scratch, gpu>>

\* create_immed gives no proxy: create_buffer returns with dmabuf_fd open, and
\* recreate_buffers asserts that it did not.
MakeWlBufFails ==
  /\ MayFail
  /\ pc = "buffers" /\ slot < NumBuffers /\ n = 7
  /\ Goto(IF resizing THEN "aborted" ELSE "failed", 0, 0)
  /\ UNCHANGED <<resizing, resources, extra, scratch, gpu>>

\* Variant: the descriptor is not closed, only forgotten.
CloseDmabufFdForgets ==
  /\ pc = "buffers" /\ slot < NumBuffers /\ n = 8
  /\ handle' = [handle EXCEPT ![<<"dmabuf_fd", slot>>] = "minus"]
  /\ Goto("buffers", slot + 1, 0)
  /\ UNCHANGED <<resizing, live, stdin, extra, scratch, gpu>>

\* Variant: 0 stands for "none".
CloseDmabufFdZeroes ==
  /\ pc = "buffers" /\ slot < NumBuffers /\ n = 8
  /\ Freed(<<"dmabuf_fd", slot>>)
  /\ handle' = [handle EXCEPT ![<<"dmabuf_fd", slot>>] = "zero"]
  /\ Goto("buffers", slot + 1, 0)
  /\ UNCHANGED <<resizing, extra, scratch, gpu>>

\* close(buf->dmabuf_fd), buf->dmabuf_fd = -1, and on to the next slot.
CloseDmabufFd ==
  /\ pc = "buffers" /\ slot < NumBuffers /\ n = 8
  /\ Freed(<<"dmabuf_fd", slot>>)
  /\ handle' = [handle EXCEPT ![<<"dmabuf_fd", slot>>] = "minus"]
  /\ Goto("buffers", slot + 1, 0)
  /\ UNCHANGED <<resizing, extra, scratch, gpu>>

\* libwl_create returns 0, or recreate_buffers goes back to the frame.
BuffersMade ==
  /\ pc = "buffers" /\ slot = NumBuffers
  /\ Goto(IF resizing THEN "loop" ELSE "ready", 0, 0)
  /\ resizing' = FALSE
  /\ UNCHANGED <<resources, extra, scratch, gpu>>
-----------------------------------------------------------------------------
\* Between create and destroy.

\* libwl_run: the event loop object, its sources, and a frame callback if the window is
\* configured already.  After a run that failed the caller gives up, as demo.c does (a
\* second run would overwrite lib->event).
Run ==
  /\ pc = "ready" /\ handle[Lib("event")] # "set"
  /\ \E asked \in SUBSET {Lib("frame_callback")} : Made({Lib("event")} \cup asked)
  /\ Goto("loop", 0, 0)
  /\ UNCHANGED <<resizing, stdin, extra, scratch, gpu>>

\* sd_event_new fails, or one of the sd_event_add_* after it.
RunFails ==
  /\ MayFail
  /\ pc = "ready" /\ handle[Lib("event")] # "set"
  /\ \E made \in SUBSET {Lib("event")} : Made(made)
  /\ UNCHANGED <<pc, slot, n, resizing, stdin, extra, scratch, gpu>>

\* The loop ends: sd_event_unref, lib->event = nullptr.
RunEnds ==
  /\ pc = "loop"
  /\ live' = live \ {Lib("event")}
  /\ handle' = [handle EXCEPT ![Lib("event")] = "zero"]
  /\ Goto("ready", 0, 0)
  /\ UNCHANGED <<resizing, stdin, extra, scratch, gpu>>

\* on_seat_capabilities, the first time (module Input has the others).
GetInput ==
  /\ pc = "loop"
  /\ \E k \in {"pointer", "keyboard"} : handle[Lib(k)] = "zero" /\ Made({Lib(k)})
  /\ UNCHANGED <<pc, slot, n, resizing, stdin, extra, scratch, gpu>>

\* libwl_present with its callback, one chain of frames at a time (module FrameLoop has
\* several).
Present ==
  /\ pc = "loop" /\ handle[Lib("frame_callback")] = "zero"
  /\ Made({Lib("frame_callback")})
  /\ \E s \in Slot \ gpu : gpu' = gpu \cup {s}
  /\ UNCHANGED <<pc, slot, n, resizing, stdin, extra, scratch>>

\* on_frame_done destroys the callback.
FrameDone ==
  /\ pc = "loop" /\ handle[Lib("frame_callback")] = "set"
  /\ live' = live \ {Lib("frame_callback")}
  /\ handle' = [handle EXCEPT ![Lib("frame_callback")] = "zero"]
  /\ UNCHANGED <<pc, slot, n, resizing, stdin, extra, scratch, gpu>>

GpuDone ==
  /\ \E s \in gpu : gpu' = gpu \ {s}
  /\ UNCHANGED <<pc, slot, n, resizing, resources, extra, scratch>>

\* recreate_buffers, behind vkDeviceWaitIdle.
Resize ==
  /\ pc = "loop" /\ gpu = {}
  /\ resizing' = TRUE
  /\ Goto("free_buffers", 0, 0)
  /\ UNCHANGED <<resources, extra, scratch, gpu>>
-----------------------------------------------------------------------------
\* libwl_destroy, and destroy_buffer for every slot.

\* Of a Libwl that was created, or of what a failed libwl_create left.
DestroyBegins ==
  /\ pc \in {"ready", "failed"}
  /\ Freed(Lib("frame_callback"))
  /\ handle' = [handle EXCEPT ![Lib("frame_callback")] = "zero"]
  /\ Goto("free_buffers", 0, 0)
  /\ UNCHANGED <<resizing, extra, scratch, gpu>>

FreeNext ==
  /\ pc = "free_buffers" /\ slot < NumBuffers
  /\ \E k \in DOMAIN BufferFree : BufferFree[k] = n /\ Freed(<<k, slot>>)
  /\ IF n < 6 THEN Goto(pc, slot, n + 1) ELSE Goto(pc, slot + 1, 0)
  /\ UNCHANGED <<resizing, handle, extra, scratch, gpu>>

BuffersFreed ==
  /\ pc = "free_buffers" /\ slot = NumBuffers
  /\ Goto(IF resizing THEN "buffers" ELSE "destroy", 0, 0)
  /\ UNCHANGED <<resizing, resources, extra, scratch, gpu>>

\* Variant: the seat's proxies are forgotten.
DestroyNextForgetsInput ==
  /\ pc = "destroy" /\ n <= 15
  /\ \E k \in DOMAIN LibFree :
       /\ LibFree[k] = n
       /\ IF k \in {"pointer", "keyboard"} THEN UNCHANGED <<live, stdin>> ELSE Freed(Lib(k))
       /\ gpu' = IF k = "dev" THEN {} ELSE gpu
  /\ Goto(IF n < 15 THEN "destroy" ELSE "destroyed", 0, IF n < 15 THEN n + 1 ELSE 0)
  /\ UNCHANGED <<resizing, handle, extra, scratch>>

\* One line of libwl_destroy; the queue's work goes with the device.
DestroyNext ==
  /\ pc = "destroy" /\ n <= 15
  /\ \E k \in DOMAIN LibFree :
       /\ LibFree[k] = n
       /\ Freed(Lib(k))
       /\ gpu' = IF k = "dev" THEN {} ELSE gpu
  /\ Goto(IF n < 15 THEN "destroy" ELSE "destroyed", 0, IF n < 15 THEN n + 1 ELSE 0)
  /\ UNCHANGED <<resizing, handle, extra, scratch>>

\* demo.c: main returns 1 after a libwl_create that failed, and ends after a destroy.
Exit ==
  /\ pc \in {"failed", "destroyed"}
  /\ Goto("exited", 0, 0)
  /\ UNCHANGED <<resizing, resources, extra, scratch, gpu>>

Create == \/ Begin \/ Connect \/ GlobalsMissing \/ ConnectFails
          \/ SetUpVulkan \/ SetUpVulkanFails \/ MakeWindow

CreateBuffer == \/ MakeBo \/ MakeBoFails \/ Import \/ MakeNext \/ MakeAborts
                \/ MakeWlBufFails \/ CloseDmabufFd \/ BuffersMade

Use == Run \/ RunFails \/ RunEnds \/ GetInput \/ Present \/ FrameDone \/ GpuDone \/ Resize

DestroyAll == DestroyBegins \/ FreeNext \/ BuffersFreed \/ DestroyNext \/ Exit

Next == Create \/ CreateBuffer \/ Use \/ DestroyAll

Spec == Init /\ [][Next]_vars
-----------------------------------------------------------------------------
\* Properties.

\* Every variable has its type.
TypeOK ==
  /\ pc \in {"start", "create", "failed", "buffers", "ready", "loop", "free_buffers",
             "destroy", "destroyed", "aborted", "exited"}
  /\ slot \in 0 .. NumBuffers /\ n \in 0 .. 15
  /\ resizing \in BOOLEAN /\ stdin \in BOOLEAN /\ extra \in BOOLEAN
  /\ live \subseteq Object
  /\ handle \in [Object -> {"zero", "set", "minus"}]
  /\ scratch \in 0 .. 4
  /\ gpu \subseteq Slot

\* The object whose handle the next call of destroy_buffer, of libwl_destroy or of
\* create_buffer's close gives back.
NextFreed ==
  {<<k, slot>> : k \in {j \in DOMAIN BufferFree :
                          pc = "free_buffers" /\ slot < NumBuffers /\ BufferFree[j] = n}}
  \cup {Lib(k) : k \in {j \in DOMAIN LibFree : pc = "destroy" /\ LibFree[j] = n}}
  \cup {<<k, slot>> : k \in {j \in {"dmabuf_fd"} : pc = "buffers" /\ n = 8}}

\* A handle that is set names an object that exists when it is freed: nothing that was
\* made is destroyed twice, and no descriptor that was opened is closed twice, whatever
\* step of libwl_create failed before and however often the window was resized.  It says
\* nothing of a descriptor field that memset left at 0: destroy_buffer and libwl_destroy
\* close it although nothing opened it, which ForeignCloseIsPartial is about.
FreedOnce == \A o \in NextFreed : handle[o] = "set" => o \in live

\* libwl_destroy frees nothing that something still alive was made from (an image
\* before its device, a toplevel before its xdg_surface before the surface, ...).
DependantsFirst ==
  \A o \in NextFreed : \A p \in live : handle[o] = "set" => o[1] \notin Parents[p[1]]

\* What the next step of libwl_create or create_buffer makes has all it is made from.
MadeFromLive ==
  /\ pc = "create" =>
       \A k \in DOMAIN LibMake : LibMake[k] = n =>
         \A p \in Parents[k] : Lib(p) \in live \cup LibMadeAt(n)
  /\ pc = "buffers" => \A k \in BufferKind : \A p \in Parents[k] : Lib(p) \in live

\* libwl_destroy gives everything back, after any failure of libwl_create too: only the
\* arena's mapping stays, and the event loop of a libwl_run that failed.  (Proxies that
\* no field names any more, as FrameLoop and Input have them, are not counted.)
NothingLeft == pc = "destroyed" => live \subseteq {Lib("arena"), Lib("event")}

\* setup_vulkan gives its scratch allocations back on every path.
ScratchReturned == (pc = "create" /\ n \in 7 .. 10) \/ scratch = 0

\* A Libwl that libwl_create made, and that any number of resizes went over, has all its
\* objects, and no dma-buf descriptor is left open.
CompleteWhenUsed ==
  pc \in {"ready", "loop"} =>
    /\ \A k \in DOMAIN LibMake : Lib(k) \in live /\ handle[Lib(k)] = "set"
    /\ \A s \in Slot, k \in BufferKind :
         (<<k, s>> \in live) = (k \notin {"dmabuf_fd", "dup"})

\* Descriptor 0 of the process is closed only with what a libwl_create that failed has
\* left: a complete Libwl, resized or not, names no descriptor that it has not opened.
ForeignCloseIsPartial ==
  [][stdin' # stdin => \E s \in Slot : handle[<<"wl_buf", s>>] # "set"]_vars

\* TUTORIAL.md: the GPU is done with a buffer before its resources are destroyed.
IdleWhenFreed ==
  \A o \in NextFreed : o[1] \in {"fence", "cmd", "memory", "image"} => o[2] \notin gpu

\* TUTORIAL.md, the fd lifecycle: libwl closes the descriptors it opened, no others.
ClosesOwnDescriptors == stdin

\* TUTORIAL.md: the user can add event sources before libwl_run.
EventReadyBeforeRun == pc = "ready" => Lib("event") \in live

\* TUTORIAL.md: the destroy order begins with stopping the event loop.
EventStopped == pc = "destroyed" => Lib("event") \notin live
=============================================================================
