# libwl: a TLA+ model of the library, its life cycle and its protocol

libwl puts a window on a Wayland compositor and draws into it with Vulkan. It is
small (`src/libwl.c`, `src/arena.c`, `include/libwl.h`, and the protocol code that
wayland-scanner generated in `proto/`) and single-threaded, but three other parties act
on its state at their own pace: the compositor, the GPU and the user's frame callback.
This directory models what can go wrong between them, checks it with TLC and proves the
central facts with TLAPS. (Paths are those of the repository; `PROJECT.json` names them
with a `src/` in front.)

## 1. Inventory

| Part | State | Operations | Modelled |
|---|---|---|---|
| Frame loop: `libwl_run`, `on_wl_event`, `on_signal`, `on_frame_done`, `libwl_present`, `next_free_buffer`, `recreate_buffers`, `on_buffer_release` | `buffers[]` (busy, size, fence, command buffer), `cur_buf`, `frame_callback`, `pending_configure`, `pending_resize`, `initialized`, `running`, `event` | run, dispatch, each handler, present, resize, leave the loop | `FrameLoop` |
| xdg-shell handlers | `width`, `height`, the pending flags | ping, toplevel configure, surface configure, close | `FrameLoop` |
| Arena | `base`, `ptr`, `committed`, `reserved`, `owned`, the kernel's mapping | init, alloc/grow, alloc_zero, strdup, save, restore, reset, destroy | `Arena` |
| Buffer resources: `create_vk_image`, `create_buffer`, `destroy_buffer` | bo, dma-buf descriptor, image, memory, command buffer, fence, wl_buffer | each step made, failed or freed | `Lifecycle`; one step of `FrameLoop` |
| `libwl_create`, `setup_vulkan`, `libwl_destroy` | everything `struct Libwl` owns | creation that fails at any step, teardown from there, creation again | `Lifecycle` |
| Registry: `on_registry_global`, the roundtrip | the four bound globals | globals announced, withdrawn, checked | `Registry` |
| Input: pointer, keyboard, seat | focus flags, position, `pressed_keys`, proxies | capabilities, enter, leave, motion, key | `Input` |
| `libwl_clear`, the demo's commands | none of the library's; the image's layout and contents | record, submit, execute | `Recording` |
| Generated protocol code | proxies, object ids | every request function, listener and message table | `Protocol`, `Wire` |
| `demo/demo.c` | | its frame callback and `main` | users in `FrameLoop`, `Lifecycle`, `Recording` |
| `test/` | | | no |

How the parts interact. `libwl_create` connects, finds the globals in a roundtrip, opens
the render node, sets Vulkan up and makes the window and three buffers. `libwl_run`
enters `sd_event_loop`; when the socket is
readable `on_wl_event` calls `wl_display_dispatch`, which flushes, reads what there
is and calls a handler for each event of the batch. A configuration comes as two events: the
toplevel's configure sets the size, the surface's acks it. The latter and a frame event
both end in `on_frame_done`, which may make the buffers anew, picks a free one, waits
for its fence and calls the user, who records commands and calls `libwl_present`:
submit to the GPU, attach, ask for a frame event, commit, flush. The compositor
gives buffers back with release events, the GPU signals fences. Seat events change the
input fields that the user reads. The arena serves `setup_vulkan` and the user. All
requests go through the generated functions, all events through the generated tables.

What is hard here: buffers owned by four parties at once; messages in flight while
the objects they name are destroyed and their ids used again; several frame chains behind
one `frame_callback` pointer; a wait without timeout in an event handler; requests
buffered and never flushed; some twenty places at which creation can fail; one input
state behind any number of proxies; commands that only barriers order; two generated
tables that agree by position; an allocator that hands the same bytes out again.
`PROJECT.json` lists each hazard at its line.

What makes each part correct. *Frame loop*: nobody draws into a buffer another party
reads; no destroyed object is used; the protocol's order is kept, and buffers fit what was acked; drawing
goes on; leaving works. *Arena*: a live block is accessible, its own and unchanged.
*Resources, create, destroy*: each object that was made freed once, in an order its dependants allow,
from every partial state, and nothing left. *Registry*: creation fails only for a reason.
*Input*: what is reported pressed or entered is what the focused seat has, once its events
are handled. *Clear*: the colour cleared last is what is left. *Protocol code*: what is
called is what is understood.

## 2. Modules

**`FrameLoop`**: the client thread, the GPU, the socket and the compositor.
`pc` says where the client's thread is: `idle` outside `libwl_run`, `loop` in
`sd_event_loop`, `frame` in `on_frame_done` before it has a buffer, `user` in the
user's frame callback, `destroyed`, `aborted`. One action per handler:

| Action | Code |
|---|---|
| `Run`, `RunFails`, `LoopExit` | `libwl_run` before, and after, `sd_event_loop`; its early returns |
| `Dispatch`, `Take` | `on_wl_event` with `EPOLLIN`: `nread` events form the batch that is being handled |
| `OnConnectionLost`, `OnSignal` | `on_wl_event` with `EPOLLHUP`/a failed dispatch, `on_signal` |
| `OnBufferRelease`, `OnToplevelConfigure`, `OnSurfaceConfigure`, `OnPing`, `OnClose` | the handlers of the same names |
| `OnFrameDone`, `FrameResize`, `RecreateAborts`, `FrameSkip`, `FrameBegin` | `on_frame_done`, split where it waits (`vkDeviceWaitIdle`, `vkWaitForFences`) |
| `Present`, `PresentFails`, `PresentSkipped` | the user's callback: `libwl_present` and its error returns, or no call |
| `Destroy` | `libwl_destroy`: frees every slot's objects, whatever the GPU does |

`on_frame_done` is split because the GPU and the compositor act while it waits;
nothing else of the client can happen in between, as `pc` shows. A wl_buffer is
`<<generation, slot>>`: `recreate_buffers` takes a fresh generation, and libwayland drops an
event for a destroyed proxy, so a release of an old generation changes nothing. A
configuration is two events, as in the protocol. `xdg_toplevel.configure` ("toplevel") carries the size (`None` is
0x0), and its handler applies it at once; `xdg_surface.configure` ("configure") ends the sequence, and its handler acks.
Other events, a "done" or a release, may be sent, read and handled between the two; `offer` is the configuration that
the compositor has begun and not ended, and what the serial of a "configure" or an "ack" stands for is kept as its
size. The compositor sends one toplevel configure per sequence. `role` and `agreed` are what it knows of acks: its
first configuration answers the commit without buffer that `libwl_create` makes. Requests stay in `outbuf` until something
flushes, then travel in `wire`; events travel in `events`. The GPU (`GpuDone`) and the
compositor (`Receive...`, `Send...`, `Hangup`) are external: they do what the Vulkan
and Wayland protocols let them, in any order. `vkQueueSubmit` signals the fence when
the work ends, a release can come in any later step, before or after the GPU's end.

**`BufferOwnership`**: the promise behind it, one variable: each buffer is the
client's, the current frame's or the compositor's, it is drawn into by one frame at a
time, and never while the compositor has it. `FrameLoop` implements it
(`ImplementsOwnership`); the mapping computes the owner from the messages under way
and from what the compositor holds, never from `busy`, the flag the code relies on.

**`Arena`**: `arena.c` on byte positions, with the kernel's view next to the program's:
`rw` (accessible bytes) and `mem` (contents) are what mmap and madvise made them,
`committed` is what the code believes. `blocks` and `marks` are what a caller may still use:
a block until a reset or a restore below it, a mark until a reset or a restore passes it.
Using a mark after that is a misuse and not modelled. Arithmetic wraps at `Word`.

**`Lifecycle`**: what exists (`live`) beside what the struct says (`handle`: `zero` as memset
leaves it, `set`, or the `minus` of a descriptor that is none). The order of the code is in
four tables, `LibMake`, `BufferMake`, `BufferFree`, `LibFree`: the step at which each object is
made, or freed; `pc`, `slot` and `n` walk through them, and every call that can fail has
an action in which it does: `libwl_create` then returns with what it has (`failed`), an `assert`
ends the process (`aborted`). `Parents` is what Wayland, GBM and Vulkan ask: what an object needs
while it lives. Between create and destroy, `Run`, `RunFails`, `RunEnds`, `GetInput`, `Present`,
`FrameDone`, `Resize` change what is owned; a destroyed struct may be created again. `stdin` is
descriptor 0, which a zero that was never a descriptor closes. `dup` is the duplicate that
`vkAllocateMemory` takes over. In `RunFails` the caller gives up, as demo.c does.

**`Registry`**: `libwl_create`'s discovery of the globals, against a compositor that adds and
withdraws them whenever it likes, before, during and after the roundtrip. `field` holds the
registry name behind each pointer of the struct. `answered` remembers what the compositor had when
it answered the roundtrip, for the property.

**`Input`**: the handlers as functions from the input fields before to those after
(`OnKeyboardEnter(f, e)`, ...), and the requests of `on_seat_capabilities`. The compositor keeps, per
seat, devices, focus, held keys and pointer, and sends each event to every resource of a
device; `bound` counts them, since libwl asks for a device at each announcement and releases
none. An event of an old proxy calls the same handler with the same `lib`.

**`Recording`**: the commands that `libwl_clear` and demo.c's frame callback record for one
image. `Before` is what Vulkan orders within a submission (a barrier waits for the stages of its
source, what follows waits for those of its destination, layout transitions keep their order);
the GPU runs any command that nothing unfinished is before. A transition from the
undefined layout throws the contents away.

**`Protocol`**, **`Wire`**: `Protocol` has both halves of the generated code as data: the request
functions of the client headers (`ToplevelFn`, ...: opcode, since, arguments, interface of a new
object, destructor) and listener structs, and the message tables of the `.c` files (signature,
offset into the shared `types` array). In `Wire` a client calls the functions on the
proxies it has, and a server decodes by the tables and sends events by them; ids are used again
after `delete_id`. `wrong` becomes true when something is understood as something else.

**`MCFrameLoop`**, **`MCArena`**, **`MCRegistry`**, **`MCWire`** instantiate them for TLC; the other
modules need only constants. The theorems are in **`FrameLoopProofs`** (types, devices, ownership, refinement),
**`OrderProofs`** (what rests on the order of messages: acks, chains of frames), **`ArenaProofs`**, **`LifecycleProofs`**,
**`InputProofs`**, **`RegistryProofs`**, **`RecordingProofs`** and **`WireProofs`**.
Definitions marked "Variant" are the code with a plausible bug; each
property is violated when its variant replaces the real definition.

The modules compose where the parts do: `BufferOwnership` with `FrameLoop` by refinement;
`FrameLoop` contains the xdg handlers; `Wire` extends `Protocol`. `Lifecycle` and `FrameLoop` cut the
same code at different depths: `Lifecycle` has a frame as one `Present`, with one
chain of frames and no messages, `FrameLoop` has a generation of buffers as one step.

## 3. What the runs check

| Run | Shows | Result |
|---|---|---|
| `FrameLoopSafety` | ownership (`NoTearing`, `ImplementsOwnership`), handles (`NoDanglingCallback`, `NoLostDone`), xdg rules (`CommitKeepsUp`), device rules (`FenceGuardsCommands`, and over resizes `GpuOwnsPending`) | holds |
| `FrameLoopLive` | `FenceOwed`, `ChainAlive`, `NextFrame`: a shown window goes on drawing | holds |
| `FrameLoopStop` | `PingAnswered`, `StopCompletes` over close, signal, hang-up, second run | holds |
| `ArenaBlocks` | `CommittedExactly`, `BlocksUsable`, `BlocksDisjoint`, `ContentsKept` | holds |
| `LifecycleAll` | `FreedOnce` (what was made is freed once), `DependantsFirst`, `NothingLeft` (teardown from every partial state), `CompleteWhenUsed` (creation and resizes), `ScratchReturned`, `ForeignCloseIsPartial` (whose descriptors are closed) | holds |
| `RegistryCreate` | `FindsWhatIsThere`, and that the roundtrip ends (`CreateEnds`) | holds |
| `InputReported` | `KeysReported`, `FocusReported`, `PositionReported`, and that a key let go for good does not stay pressed (`NoStuckKey`) | holds |
| `Recording` | `LastColorShown`, `ClearsInLayout` | holds |
| `WireCalls` | `NeverWrong`, `SameObjects`, `EventsFindProxy`, on objects of the newest version, with ids reused | holds |
| `FrameLoopHidden` | TUTORIAL.md: a ping must be answered | violated: pong not flushed |
| `FrameLoopAck` | xdg-shell header: a configured state is not applied immediately (`CommitMatchesAck`) | violated: a size is committed before its ack |
| `ArenaReset` | libwl.h, test_arena.c: zeros after a reset | violated after a restore |

**Bounds.** *FrameLoop*: `NumBuffers = 2` instead of 3 in the passing runs: the loop treats slots alike
except for taking the lowest free one, and two slots already give a full pool, a choice and
reuse. Two generations and two sizes let an old generation's release meet a new buffer.
Two callbacks allow two chains at once. `Room` is a bound on the environment, not a guard of
the code: configures and closes come only while every frame that they start can have a callback
identity. A toplevel configure starts no frame and is not counted. `MaxUnread = 1`: nothing unasked happens while the
compositor has requests to read; what libwl answers to a configuration or to a frame event still piles up (an ack,
destroyed buffers, a commit), and two configurations, or one with a "done" and releases, fit in one batch. The three
passing runs have 1 286 000, 1 103 000 and 386 000 states.
`Spontaneous` names what happens unasked in a run, to keep each run's question small.
Symmetry is used
in the safety run only; its `VIEW` drops `running`, which no action reads, and
`curBuf` outside a frame. *Arena*: a page is 4 bytes, a unit 2, the
reservation two pages: blocks cross pages, requests are of zero size, exact, and too large, and
the word is small enough for a reservation's size to wrap around. *Lifecycle*: nothing is
bounded, the three buffers are the real number and the state space is finite (18 226 states).
*Registry*: four globals from offers that hold each interface and two that are too old;
one may be withdrawn. Four is what libwl needs, and with one of them a second seat, too old or withdrawn, what
makes it fail. *Input*: one seat (the properties say `OneSeat`; section 4 shows why), two keys, two positions, two proxies of a device, three events on their way when
another is sent (706 000 states).
*Recording*: three colours, three clears in a frame, by hand or not. *Wire*: three ids (a popup with its surface
and positioner exists at once), at version 7, which has every request and event; one message
each way when another is sent, since it is the meeting of the two directions that matters (1.1 million states).

**Fairness.** `ClientStep`: the thread runs and sd_event dispatches a readable socket
(`Run`, `Destroy` and signals are the user's and have none). `GpuDone`: submitted work ends, as
Vulkan demands short of a lost device. `ServerReceives`, and the release of a buffer that is no longer
shown: what a compositor owes its clients. `VisibleSpec` adds frame events for a surface that
shows a buffer; `HiddenSpec` does not, as compositors send none to hidden windows.
The progress runs assume `MayFail = FALSE` (each frame callback presents) and
`PromptRelease = TRUE` (a superseded buffer is released before the next frame event);
neither is assumed by the safety run. That they are needed is itself a fact about the code: with
a present that fails, or left out, the buffer's fence stays unsignaled, and `on_frame_done` blocks
for ever when it picks that buffer again. In `Registry` the client's thread runs (it is blocked in the
roundtrip, or in the loop) and the compositor reads requests in order; in `Input` the client
dispatches and the compositor reads `get_pointer` and `get_keyboard`. Nothing else of the compositor is fair:
it need not add, withdraw, announce or focus anything.

## 4. Promises that the code does not keep

The modules also state what documents promise and the code does not do. Besides the three runs above, each
of these is refuted by TLC within seconds, with the configuration named; they are kept for whoever
changes the code.

| Configuration (module) | Promise | What happens |
|---|---|---|
| `FrameLoopRunning.cfg` (`MCFrameLoop`) | demo.c:36-38, clearing `running` after a present that failed ends the loop | nothing reads it: only `sd_event_exit` ends `sd_event_loop` (libwl.c:899) |
| `FrameLoopNoBuffer.cfg` (`MCFrameLoop`) | TUTORIAL.md:2134, three buffers always leave one free | each configure adds a chain of frames (libwl.c:440); all three buffers can be with the compositor |
| `LifecycleIdle.cfg` (`Lifecycle`) | TUTORIAL.md:2259, the GPU is idle before resources are destroyed | `libwl_destroy` does not wait (libwl.c:739). `GpuOwnsPending` of `FrameLoop`, which speaks of resizes, ends there |
| `LifecycleDescriptors.cfg` | TUTORIAL.md:2572, the life cycle of descriptors | a destroy after an early failure closes descriptor 0: the zero of memset passes `>= 0` (libwl.c:754, 207). `ForeignCloseIsPartial` says that it happens only then |
| `LifecycleSources.cfg` | TUTORIAL.md:2564, event sources can be added before the run | the event loop object is made in `libwl_run` (libwl.c:873) |
| `LifecycleStopped.cfg` | TUTORIAL.md:2569, destroying begins with stopping the event loop | after a run that failed it is never dropped (libwl.c:874) |
| `RegistryVersions.cfg` (`MCRegistry`) | TUTORIAL.md:2699, bind the minimum of what is needed and offered | fixed versions are bound (libwl.c:623) |
| `RegistryRemoval.cfg` (`MCRegistry`) | TUTORIAL.md:523, a handler for removed globals | there is none (libwl.c:642), and libwayland ends the program |
| `InputSeats.cfg` (`Input`) | TUTORIAL.md:2310 and 2434, `pressed_keys` tells what is held, with several seats | seats share it, one's leave clears what the other holds (libwl.c:548) |
| `InputCodes.cfg` (`Input`) | TUTORIAL.md:2412, it is indexed by Linux key codes | 256 entries (libwl.h:134), codes go beyond (libwl.c:563) |

## 5. What is proved

For every value of the constants that meets the named assumptions (`ConstantsAssumption`, `SizeAssumption`,
`RequestAssumption`, `RegistryAssumption`, `InputAssumption`, `RecordingAssumption`, `WireAssumption`), every
safety property that a run checks. The bounds of section 3 are no part of it: `Room`, `MaxUnread`, `MaxClears`
and `MaxSent` may have any value.

- `TypeCorrect` of `FrameLoopProofs`: `Spec => []TypeOK`. Types split into library, socket and compositor;
  each action moves messages that were typed when they were sent.
- `CommandsGuarded` (`FenceGuardsCommands`) and `GpuGuarded` (`GpuOwnsPending`). The invariant `DeviceInv` adds that
  only in `user` is a command buffer being recorded, and then it is `curBuf`'s: without it `Present` could submit
  something else than what was begun. `GpuGuarded` is about resizes: `recreate_buffers` waits for the device.
  `Destroy` frees the slots without waiting, and what the GPU still works on then is freed under it (section 4).
- `NoFenceDeadlock`: if `MayFail = FALSE`, `FenceOwed` holds.
- `BuffersExclusive` (`NoTearing`) and `DoneReachesClient` (`NoLostDone`). Neither is inductive: a release
  that is on its way twice would free a buffer lent again in between. The invariant `PlaceInv` says that each
  buffer, and each callback, is in at most one of three places, once: a commit on `wire`, what the compositor
  keeps, an answer in `events`. So handling the answer leaves it nowhere. It also says that what is out is
  busy, or exists, that the buffer being drawn into is not busy, and that what waits unflushed in `outbuf`
  names no buffer. That a new generation has no buffer out rests on its identity being unused (`GensInUse`),
  as libwayland's dead proxies are.
- `CallbackPointerValid`: `NoDanglingCallback`.
- `LoopImplementsOwnership`: `Spec => ImplementsOwnership`. Who owns a buffer is restated by its place
  (`OwnedRight`); then `FrameBegin` is `Draw`, the end of a frame `Lend` or `Abandon`, `FrameResize` is
  `Replace`, and every other step is a `Return`, mostly of no buffer.
- `CommitsFitAck` (`OrderProofs`): `CommitKeepsUp`. Each buffer that the compositor reads has the size acked last, or
  that of the one configuration that follows it; that the first would be too little to promise is what `FrameLoopAck`
  shows. The compositor's view says nothing of what is still unread, so the invariant `AckInv` follows the order of
  requests. `LastAck` is the ack that counts at a place of the queue, the last in front of it or, if there is none,
  the last that was read; `NextAck` is the first behind it. `QueueFits` says that one of the two fits every commit
  under way, or, if no ack is behind it, the configuration of which the client has handled the first half
  (`Ahead`). `EndFits` says it of a buffer that is still to be committed, behind what is not even flushed. `Half`
  tells from the events left in a queue whether a configuration is begun and not ended there, and `Alternate` that
  there is never more than one: the two kinds of configure take turns, so the client cannot run ahead by two.
  `DrawsSized` says that what is drawn into has the window's size: a toplevel configure changes it at once and leaves
  `pendingResize` to stop frames of the old one.
- `ChainNeverBreaks` (`OrderProofs`): `ChainAlive`, if `MayFail = FALSE`, `PromptRelease = TRUE` and
  `NumBuffers > 1`. It has no fairness in it, and it is what `NextFrame` lives on: a frame that finds every
  buffer busy is left out and asks for no callback, so the drawing stops for good unless another callback is
  outstanding. The hypotheses are needed: a present that fails asks for no callback either, a compositor that
  keeps a superseded buffer beyond the next frame event fills the pool, and a pool of one buffer is full after
  each present (libwl.h has three). `LentInv` says that a busy buffer is with the compositor or on its way
  back, and that no commit of a buffer goes without a callback. `ChainInv` looks into the queue of events,
  because one batch may hold several: at each "done" (`Carried`), another callback is left that nothing in
  front of it answers, or at most one buffer is still busy once the releases in front of it are handled. That
  is where `PromptRelease` enters: the compositor releases all but the shown buffer before it answers the last
  callback.
- `CommitExact`, `BlocksSound`, `ContentsStay`: everything `ArenaBlocks` checks. The inductive invariant
  `IndInv` needs `Placed`, that no mark falls inside a block, for otherwise a restore would leave half a block
  alive, and `Region`, that pages and units divide `committed`, `reserved`, `ptr` and marks.
  `RequestAssumption` keeps requests below the size where `align_up` wraps around; arena.c relies on it.
- `LifecycleProofs`: every invariant that `LifecycleAll` checks, for any number of buffers, and
  `MadeFromLive`: each object is made from objects that exist. The heart of `IInv` is `HandlesTell`: a handle
  is set exactly while its object is alive and its own step of the teardown has not come (`Gone`). `LibsMade`
  and `BuffersStand` say how far the making sequences are, `DupsShort` that a duplicate lives between two
  steps, `CallbackFirst` that the teardown starts without frame callback. That the tables are right
  (`LibFreeFacts`: what needs something goes before it) is checked once, by cases. `FreedOnce` is about what was made; a descriptor field that memset left at 0 was not, and libwl closes it all
  the same (section 4). `ForeignClosePartial`
  (`ForeignCloseIsPartial`) is about that, and about steps: descriptor 0 is closed only where memset's zero is taken for a
  descriptor. Its invariant `FdsNamed` says that no such zero is left beside a `wl_buf` that is set, because
  `create_buffer`, which sets it last, leaves the descriptor of the slot at -1 and has the one of the render
  node to work with.
- `RegistryProofs`: `FindsWhatIsThere`. `IInv` follows the roundtrip: until the answer comes,
  a global the compositor has answered with is either in its field (or was replaced there by a later one) or
  announced in front of the answer.
- `InputProofs`: `KeysReported`, `FocusReported`, `PositionReported`. The invariant `Reported` is the three
  together, each of the form "the last event under way that settles it is right, and if there is none the
  struct is right already"; it is kept because new events come last and a proxy's copies of an event say the
  same.
- `RecordingProofs`: `LastColorWins` (`LastColorShown`) and `ClearsFindLayout` (`ClearsInLayout`). "The last
  clear wins" is not inductive, since the GPU chooses the order. `RecordingInv` says that it has no choice: as
  long as nothing is recorded behind a clear by hand, discard, clear and handover follow each other
  (`WellRecorded`), each barrier waits for the stage of the command in front of it, so that what ran is always
  `1 .. n`, and layout and contents follow from command `n` (`RanInOrder`).
- `WireProofs`, in two halves. The tables (`HalvesAgree`): for each of the request functions, what it passes
  is what the row at its opcode asks for, argument by argument, with the interfaces that the row's offset
  gives; `ListenersHear` is the same for events. It is a fact about constants, one lemma for each interface,
  and would break for any row swapped, any opcode off by one, any offset into the types that is wrong. The
  messages (`WireConsistent`): at any time there is one assignment `L` of objects to ids that the client's
  live proxies, the server's objects, every request and every event on their way agree with. The inductive
  invariant `WireInv(L)` adds what keeps a new meaning of an id away from the old one: what a request names is
  there when it arrives or made by a request in front of it, and nothing follows a destroy (`Arrives`); a
  delete_id is the last that is said of an id, and no message knows a free one (`Freed`). `L` changes only in
  `Call`, at a free id. From both: `AllUnderstood` (`NeverWrong`), `SameOnBothSides` (`SameObjects`),
  `EventsMeetProxy` (`EventsFindProxy`) and `WireTypes`.

The inductive invariants were first checked by TLC on small instances of their module (`WireInv` with a
variable that remembers `L`).

Only model-checked: what is temporal under fairness (`NextFrame`, `PingAnswered`, `StopCompletes`,
`CreateEnds`, `NoStuckKey`): the proof system has no rules for fairness and ENABLED here. What those need of
safety, `FenceOwed` and `ChainAlive`, is proved. No module uses RECURSIVE operators.

## 6. Not modelled

`test/` (tests and benchmark of the arena; `test/arena.c` is the same allocator). Of the generated code the
enumerations, documentation comments and `get_version`/`set_user_data` accessors, and `created`, the one event that
makes an object, which libwl never asks for. Contents of frames beyond the colour of a clear; formats, modifiers and
strides; which GPU, queue family and extensions `setup_vulkan` picks; buffer damage; window titles;
logging; the implicit synchronisation between GPU and compositor, which the kernel driver
provides or not; configure_bounds and wm_capabilities, which do nothing; a compositor that fails a buffer
it has been asked to import; the use in `create_vk_image` of structures whose block has ended; what stays mapped after
`arena_init_size` on an arena in use.
The user calls `libwl_present` at most once per frame callback, and only there; `libwl_clear` likewise
only there.

`Lifecycle`'s `NothingLeft` counts the objects that struct Libwl has a field for. Proxies that no field names any
more (callbacks of further frame chains, devices of repeated announcements, a replaced seat) are in `FrameLoop`,
`Input` and `Registry`; the connection's end takes them, and no document promises more.

## 7. Plan

The plan was: the frame loop, where the parties meet; the arena; then life cycle, input and registry; then the
proofs about commits and acks, life cycle, input, registry; then clears and the protocol code; then the proofs about
the chains of frames, clears and the protocol code. All of it is done. What could follow: `Input`'s properties
per seat, once the library keeps its input state per seat; a composition of `Registry` with `Input` that has seats come and
go as globals.
