-------------------------------- MODULE Input --------------------------------
(***************************************************************************)
(* The input half of struct Libwl: what the pointer, keyboard and seat     *)
(* handlers of src/libwl.c make of the events of every seat the compositor *)
(* has.  Each seat's devices and focus are the compositor's (external);    *)
(* capabilities are announced again whenever a device comes or goes, and   *)
(* libwl then asks for every device announced, also for those it has.      *)
(***************************************************************************)
EXTENDS Integers, Sequences, FiniteSets

CONSTANTS
  Seat,        \* the seats the compositor announces
  Key,         \* key codes that are pressed in a run
  TableSize,   \* entries of pressed_keys
  Position,    \* pointer positions
  Origin,      \* the position that memset leaves in the struct
  MaxProxies,  \* bound: proxies of one device of one seat
  MaxEvents    \* bound: events on their way when the compositor adds one

ASSUME InputAssumption ==
  /\ Key \subseteq Nat /\ TableSize \in Nat
  /\ Origin \in Position
  /\ MaxProxies \in Nat /\ MaxEvents \in Nat

Device == {"pointer", "keyboard"}

VARIABLES
  input,     \* the input fields of struct Libwl
  devices,   \* lib->pointer and lib->keyboard: the seat they were made from last
  requests,  \* get_pointer and get_keyboard on their way, with their seat
  events,    \* events on their way
  caps, bound,       \* per seat: devices present; resources made for each device
  focus, down,       \* per seat: our surface has the keyboard; keys held
  inside, at         \* per seat: the pointer is on our surface; where it was last

server == <<caps, bound, focus, down, inside, at>>
vars == <<input, devices, requests, events, server>>

None == <<>>

Fields == [pointer_entered : BOOLEAN, pointer_xy : Position, keyboard_entered : BOOLEAN,
           pressed_keys : SUBSET (Key \cap 0 .. TableSize - 1), intact : BOOLEAN]

\* An event, with the arguments that a handler uses.
Event ==
       [type : {"capabilities"}, seat : Seat, caps : SUBSET Device]
  \cup [type : {"pointer_enter", "pointer_motion"}, xy : Position]
  \cup [type : {"pointer_leave", "keyboard_leave", "other"}]
  \cup [type : {"keyboard_enter"}, keys : SUBSET Key]
  \cup [type : {"key"}, key : Key, pressed : BOOLEAN]

-----------------------------------------------------------------------------
\* The handlers, as functions from the fields before to the fields after.

\* Variant: the fixed-point coordinates are stored without wl_fixed_to_double.
OnPointerEnterRaw(f, e) ==
  [f EXCEPT !.pointer_entered = TRUE, !.pointer_xy = 256 * (e.xy + 1)]

OnPointerEnter(f, e) == [f EXCEPT !.pointer_entered = TRUE, !.pointer_xy = e.xy]

OnPointerLeave(f, e) == [f EXCEPT !.pointer_entered = FALSE]

\* Variant: the motion handler does nothing.
OnPointerMotionIgnored(f, e) == f

OnPointerMotion(f, e) == [f EXCEPT !.pointer_xy = e.xy]

\* pressed_keys[key] for a key behind the table is another field of the struct.
Table(ks) == {k \in ks : k < TableSize}

OnKeyboardEnter(f, e) ==
  [f EXCEPT !.keyboard_entered = TRUE, !.pressed_keys = Table(e.keys),
            !.intact = @ /\ Table(e.keys) = e.keys]

\* Variants: leave only clears the flag; it only clears the keys.
OnKeyboardLeaveKeepsKeys(f, e) == [f EXCEPT !.keyboard_entered = FALSE]

OnKeyboardLeaveKeepsFlag(f, e) == [f EXCEPT !.pressed_keys = {}]

OnKeyboardLeave(f, e) == [f EXCEPT !.keyboard_entered = FALSE, !.pressed_keys = {}]

\* Variant: the state argument is not looked at.
OnKeyboardKeySets(f, e) ==
  [f EXCEPT !.pressed_keys = @ \cup Table({e.key}), !.intact = @ /\ e.key < TableSize]

OnKeyboardKey(f, e) ==
  [f EXCEPT !.pressed_keys = IF e.pressed THEN @ \cup Table({e.key}) ELSE @ \ {e.key},
            !.intact = @ /\ e.key < TableSize]

\* button, axis, frame, keymap (whose descriptor is closed), modifiers, repeat_info,
\* the seat's name: no field changes.
OnOther(f, e) == f

Handled(f, e) ==
  CASE e.type = "pointer_enter"  -> OnPointerEnter(f, e)
    [] e.type = "pointer_leave"  -> OnPointerLeave(f, e)
    [] e.type = "pointer_motion" -> OnPointerMotion(f, e)
    [] e.type = "keyboard_enter" -> OnKeyboardEnter(f, e)
    [] e.type = "keyboard_leave" -> OnKeyboardLeave(f, e)
    [] e.type = "key"            -> OnKeyboardKey(f, e)
    [] OTHER                     -> OnOther(f, e)

\* After libwl_create: each seat's first announcement is on its way.
Init ==
  /\ input = [pointer_entered |-> FALSE, pointer_xy |-> Origin,
              keyboard_entered |-> FALSE, pressed_keys |-> {}, intact |-> TRUE]
  /\ devices = [d \in Device |-> None]
  /\ requests = <<>>
  /\ events = <<>>
  /\ caps = [s \in Seat |-> {}]
  /\ bound = [s \in Seat |-> [d \in Device |-> 0]]
  /\ focus = [s \in Seat |-> FALSE]
  /\ down = [s \in Seat |-> {}]
  /\ inside = [s \in Seat |-> FALSE]
  /\ at = [s \in Seat |-> Origin]
-----------------------------------------------------------------------------
\* The client.  An event for an old proxy has the same handler and the same lib.

Requests(e) ==
  (IF "pointer" \in e.caps THEN <<[seat |-> e.seat, device |-> "pointer"]>> ELSE <<>>)
  \o (IF "keyboard" \in e.caps THEN <<[seat |-> e.seat, device |-> "keyboard"]>> ELSE <<>>)

\* on_seat_capabilities: a proxy for each device announced; none is ever released.
OnSeatCapabilities ==
  /\ events # <<>> /\ Head(events).type = "capabilities"
  /\ LET e == Head(events)
     IN  /\ devices' = [d \in Device |-> IF d \in e.caps THEN <<e.seat>> ELSE devices[d]]
         /\ requests' = requests \o Requests(e)
  /\ events' = Tail(events)
  /\ UNCHANGED <<input, server>>

Handle ==
  /\ events # <<>> /\ Head(events).type # "capabilities"
  /\ input' = Handled(input, Head(events))
  /\ events' = Tail(events)
  /\ UNCHANGED <<devices, requests, server>>

-----------------------------------------------------------------------------
\* The compositor (external).

\* An event goes to every resource of the seat's device.
Send(s, d, e) == events' = events \o [i \in 1 .. bound[s][d] |-> e]

Room == Len(events) < MaxEvents

\* A device of the seat comes, or goes after it has lost its focus.
Announce(s) ==
  /\ Room /\ Len(requests) = 0
  /\ \A d \in Device : bound[s][d] < MaxProxies
  /\ \E c \in SUBSET Device :
       /\ c # caps[s]
       /\ "keyboard" \in caps[s] \ c => ~focus[s] /\ down[s] = {}
       /\ "pointer" \in caps[s] \ c => ~inside[s]
       /\ caps' = [caps EXCEPT ![s] = c]
       /\ events' = Append(events, [type |-> "capabilities", seat |-> s, caps |-> c])
  /\ UNCHANGED <<input, devices, requests, bound, focus, down, inside, at>>

\* A new resource is told of the focus the seat has now.
GetDevice ==
  /\ requests # <<>>
  /\ LET s == Head(requests).seat
         d == Head(requests).device
     IN  /\ bound' = [bound EXCEPT ![s][d] = @ + 1]
         /\ events' = events \o
              (CASE d = "keyboard" /\ focus[s] -> <<[type |-> "keyboard_enter", keys |-> down[s]]>>
                 [] d = "keyboard" /\ ~focus[s] -> <<[type |-> "other"]>>
                 [] d = "pointer" /\ inside[s] -> <<[type |-> "pointer_enter", xy |-> at[s]]>>
                 [] d = "pointer" /\ ~inside[s] -> <<>>)
  /\ requests' = Tail(requests)
  /\ UNCHANGED <<input, devices, caps, focus, down, inside, at>>

KeyboardEnter(s) ==
  /\ Room /\ "keyboard" \in caps[s] /\ ~focus[s]
  /\ focus' = [focus EXCEPT ![s] = TRUE]
  /\ Send(s, "keyboard", [type |-> "keyboard_enter", keys |-> down[s]])
  /\ UNCHANGED <<input, devices, requests, caps, bound, down, inside, at>>

KeyboardLeave(s) ==
  /\ Room /\ focus[s]
  /\ focus' = [focus EXCEPT ![s] = FALSE]
  /\ Send(s, "keyboard", [type |-> "keyboard_leave"])
  /\ UNCHANGED <<input, devices, requests, caps, bound, down, inside, at>>

\* A key is pressed or let go, whoever has the focus.
PressKey(s) ==
  /\ Room /\ "keyboard" \in caps[s]
  /\ \E k \in Key :
       /\ down' = [down EXCEPT ![s] = IF k \in @ THEN @ \ {k} ELSE @ \cup {k}]
       /\ IF focus[s]
          THEN Send(s, "keyboard", [type |-> "key", key |-> k, pressed |-> k \notin down[s]])
          ELSE UNCHANGED events
  /\ UNCHANGED <<input, devices, requests, caps, bound, focus, inside, at>>

\* The pointer comes to our surface, or moves on it.
PointerMove(s) ==
  /\ Room /\ "pointer" \in caps[s]
  /\ inside' = [inside EXCEPT ![s] = TRUE]
  /\ \E xy \in Position :
       /\ at' = [at EXCEPT ![s] = xy]
       /\ Send(s, "pointer", [type |-> IF inside[s] THEN "pointer_motion" ELSE "pointer_enter",
                              xy |-> xy])
  /\ UNCHANGED <<input, devices, requests, caps, bound, focus, down>>

PointerLeave(s) ==
  /\ Room /\ inside[s]
  /\ inside' = [inside EXCEPT ![s] = FALSE]
  /\ Send(s, "pointer", [type |-> "pointer_leave"])
  /\ UNCHANGED <<input, devices, requests, caps, bound, focus, down, at>>

Client == OnSeatCapabilities \/ Handle

Compositor ==
  \/ GetDevice
  \/ \E s \in Seat : \/ Announce(s) \/ KeyboardEnter(s) \/ KeyboardLeave(s)
                     \/ PressKey(s) \/ PointerMove(s) \/ PointerLeave(s)

Next == Client \/ Compositor

Spec == Init /\ [][Next]_vars

\* sd_event dispatches a readable socket; the compositor reads what it is sent.
FairSpec == Spec /\ WF_vars(Client) /\ WF_vars(GetDevice)
-----------------------------------------------------------------------------
\* Properties.

\* Every variable has its type.
TypeOK ==
  /\ input \in Fields
  /\ devices \in [Device -> {None} \cup {<<s>> : s \in Seat}]
  /\ requests \in Seq([seat : Seat, device : Device])
  /\ events \in Seq(Event)
  /\ caps \in [Seat -> SUBSET Device]
  /\ bound \in [Seat -> [Device -> Nat]]
  /\ focus \in [Seat -> BOOLEAN] /\ inside \in [Seat -> BOOLEAN]
  /\ down \in [Seat -> SUBSET Key]
  /\ at \in [Seat -> Position]

OneSeat == \A s, t \in Seat : s = t

KnowsKeyboard(s) == bound[s]["keyboard"] > 0

KnowsPointer(s) == bound[s]["pointer"] > 0

Positions(Is(_)) == {i \in DOMAIN events : Is(events[i])}

\* What holds once all events on their way are handled: the last of those that settle the
\* matter is right, or, when none does, the struct is right already.
AfterAll(settling, right, now) ==
  /\ settling = {} => now
  /\ \A i \in settling : (\A j \in settling : j <= i) => i \in right

SettlesKey(e, k) ==
  e.type \in {"keyboard_enter", "keyboard_leave"} \/ (e.type = "key" /\ e.key = k)

SaysKey(e, k) ==
  \/ e.type = "keyboard_enter" /\ k \in e.keys
  \/ e.type = "key" /\ e.pressed

HasKeyboard(s) == KnowsKeyboard(s) /\ focus[s]

HasPointer(s) == KnowsPointer(s) /\ inside[s]

\* A key of the table is reported pressed exactly while our surface has the keyboard and
\* the key is held, whatever was announced again and however many old proxies get
\* the same events.
KeysReported ==
  OneSeat => \A s \in Seat, k \in Key \cap 0 .. TableSize - 1 :
    LET held == HasKeyboard(s) /\ k \in down[s]
    IN  AfterAll(Positions(LAMBDA e : SettlesKey(e, k)),
                 Positions(LAMBDA e : SaysKey(e, k) = held),
                 (k \in input.pressed_keys) = held)

\* keyboard_entered and pointer_entered follow the seat's focus.
FocusReported ==
  OneSeat => \A s \in Seat :
    /\ AfterAll(Positions(LAMBDA e : e.type \in {"keyboard_enter", "keyboard_leave"}),
                Positions(LAMBDA e : (e.type = "keyboard_enter") = HasKeyboard(s)),
                input.keyboard_entered = HasKeyboard(s))
    /\ AfterAll(Positions(LAMBDA e : e.type \in {"pointer_enter", "pointer_leave"}),
                Positions(LAMBDA e : (e.type = "pointer_enter") = HasPointer(s)),
                input.pointer_entered = HasPointer(s))

\* While the pointer is on our surface, pointer_x and pointer_y are where it is.
PositionReported ==
  OneSeat => \A s \in Seat : HasPointer(s) =>
    AfterAll(Positions(LAMBDA e : e.type \in {"pointer_enter", "pointer_motion"}),
             Positions(LAMBDA e : e.type \in {"pointer_enter", "pointer_motion"} /\ e.xy = at[s]),
             input.pointer_xy = at[s])

\* A key let go for good does not stay pressed for the user.
NoStuckKey ==
  \A k \in Key : <>[](\A s \in Seat : k \notin down[s]) => <>[](k \notin input.pressed_keys)

\* TUTORIAL.md: keyboard_entered and pressed_keys tell the user that a key is pressed,
\* and there can be multiple seats.
HeldKeyShown ==
  events = <<>> =>
    \A s \in Seat : KnowsKeyboard(s) /\ focus[s] =>
      input.keyboard_entered /\ down[s] \subseteq input.pressed_keys

\* TUTORIAL.md: pressed_keys is indexed by the codes of linux/input-event-codes.h.
CodesFitTable == input.intact
=============================================================================
