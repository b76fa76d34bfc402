-------------------------------- MODULE Wire ---------------------------------
(***************************************************************************)
(* A client that calls the request functions of src/proto on the proxies   *)
(* it has, in any order, and a server that decodes what arrives and sends  *)
(* events.  Object ids are reused: a proxy that was destroyed keeps its id *)
(* until the server's delete_id.  libwayland and the server are external.  *)
(***************************************************************************)
EXTENDS Protocol

CONSTANTS
  Ids,       \* ids of objects that the client makes; 0 is null, 1 to 5 are bound already
  Versions,  \* versions at which the client binds xdg_wm_base and zwp_linux_dmabuf_v1
  MaxSent    \* bound: messages on their way in a direction when one is added

ASSUME WireAssumption ==
  Ids \cap (0 .. 5) = {} /\ Versions \subseteq 1 .. 7 /\ MaxSent \in Nat

VARIABLES
  proxies, objects,   \* the client's and the server's objects by id
  requests, events,   \* messages on their way
  wrong               \* a message was not understood as what it was sent for

vars == <<proxies, objects, requests, events, wrong>>

Id == 0 .. 5 \cup Ids
None == [iface |-> "", version |-> 0]
Zombie == [iface |-> "zombie", version |-> 0]

\* The two globals, and core objects that appear as arguments.
Bound(v, id) ==
  CASE id = 1 -> [iface |-> "xdg_wm_base", version |-> v]
    [] id = 2 -> [iface |-> "zwp_linux_dmabuf_v1", version |-> IF v > 5 THEN 5 ELSE v]
    [] id = 3 -> [iface |-> "wl_surface", version |-> 4]
    [] id = 4 -> [iface |-> "wl_seat", version |-> 7]
    [] id = 5 -> [iface |-> "wl_output", version |-> 4]
    [] OTHER  -> None

Init ==
  /\ \E v \in Versions : proxies = [id \in Id |-> Bound(v, id)]
  /\ objects = proxies
  /\ requests = <<>> /\ events = <<>>
  /\ wrong = FALSE

-----------------------------------------------------------------------------
\* The client.

Callable(id) == proxies[id].iface \in DOMAIN Calls

FreeIds == {id \in Ids : proxies[id] = None}

\* May the i-th argument of the request be null?
Nullable(iface, fn, i) == Interfaces[iface].requests[fn.opcode + 1].sig[i] = "?o"

\* A request function: wl_proxy_marshal_flags with what the function passes.  It is the
\* caller's duty that the object's version has the request.
Call(id, name) ==
  LET p == proxies[id]
      fn == Calls[p.iface][name]
      proxyArgs == {i \in DOMAIN fn.args : fn.args[i] \notin {"n", "i", "u", "s", "h"}}
  IN  /\ Len(requests) < MaxSent
      /\ fn.since <= p.version
      /\ \E new \in (IF fn.new = "" THEN {0} ELSE FreeIds), arg \in [proxyArgs -> Id] :
           /\ \A i \in proxyArgs :
                \/ proxies[arg[i]].iface = fn.args[i]
                \/ arg[i] = 0 /\ Nullable(p.iface, fn, i)
           /\ requests' = Append(requests,
                [id |-> id, opcode |-> fn.opcode, name |-> name,
                 args |-> [i \in DOMAIN fn.args |->
                             IF fn.args[i] = "n" THEN <<"n", new>>
                             ELSE IF i \in proxyArgs THEN <<"o", arg[i]>>
                             ELSE <<fn.args[i], 0>>]])
           /\ proxies' = [i \in Id |->
                CASE i = new /\ new # 0 -> [iface |-> fn.new, version |-> p.version]
                  [] i = id /\ fn.dtor  -> Zombie
                  [] OTHER              -> proxies[i]]
  /\ UNCHANGED <<objects, events, wrong>>

\* wl_display_dispatch: delete_id frees the id; an event for a destroyed proxy is
\* dropped; any other calls the listener member that its opcode counts to.
Handle ==
  /\ events # <<>>
  /\ LET e == Head(events)
         p == proxies[e.id]
     IN  IF e.name = "delete_id"
         THEN /\ proxies' = [proxies EXCEPT ![e.id] = None]
              /\ UNCHANGED wrong
         ELSE /\ wrong' = (wrong \/ (p # Zombie /\ Listeners[p.iface][e.opcode + 1] # e.name))
              /\ UNCHANGED proxies
  /\ events' = Tail(events)
  /\ UNCHANGED <<objects, requests>>

-----------------------------------------------------------------------------
\* The server.

\* Does the table understand the request as the function that was called?
Understood(m) ==
  LET o == objects[m.id]
      t == Interfaces[o.iface].requests[m.opcode + 1]
  IN  /\ o.iface \in DOMAIN Interfaces /\ m.opcode < Len(Interfaces[o.iface].requests)
      /\ t.name = m.name /\ t.since <= o.version
      /\ DOMAIN t.sig = DOMAIN m.args
      /\ \A i \in DOMAIN t.sig :
           LET kind == m.args[i][1]
               obj == m.args[i][2]
           IN  CASE t.sig[i] = "n"  -> kind = "n" /\ objects[obj] = None
                 [] t.sig[i] \in {"o", "?o"} ->
                      /\ kind = "o"
                      /\ \/ objects[obj].iface = ArgType(o.iface, t, i)
                         \/ obj = 0 /\ t.sig[i] = "?o"
                 [] OTHER -> kind = t.sig[i]

\* Decodes a request: makes the new object, removes what a destroy names.
Receive ==
  /\ requests # <<>>
  /\ LET m == Head(requests)
         o == objects[m.id]
         t == Interfaces[o.iface].requests[m.opcode + 1]
         made(id) == {i \in DOMAIN t.sig : t.sig[i] = "n" /\ m.args[i][2] = id}
     IN  IF Understood(m)
         THEN /\ objects' = [id \in Id |->
                   CASE made(id) # {} -> [iface |-> ArgType(o.iface, t, CHOOSE i \in made(id) : TRUE),
                                          version |-> o.version]
                     [] t.name = "destroy" /\ id = m.id -> None
                     [] OTHER -> objects[id]]
              /\ events' = IF t.name = "destroy"
                           THEN Append(events, [id |-> m.id, opcode |-> 0, name |-> "delete_id",
                                                iface |-> o.iface])
                           ELSE events
              /\ UNCHANGED wrong
         ELSE wrong' = TRUE /\ UNCHANGED <<objects, events>>
  /\ requests' = Tail(requests)
  /\ UNCHANGED proxies

\* An event that the object's version has ("created" makes an object whose id is the
\* server's: left out).
SendEvent(id) ==
  /\ Len(events) < MaxSent
  /\ objects[id].iface \in DOMAIN Interfaces
  /\ \E op \in DOMAIN Interfaces[objects[id].iface].events :
       LET t == Interfaces[objects[id].iface].events[op]
       IN  /\ t.since <= objects[id].version
           /\ events' = Append(events, [id |-> id, opcode |-> op - 1, name |-> t.name,
                                        iface |-> objects[id].iface])
  /\ UNCHANGED <<proxies, objects, requests, wrong>>

Client == \/ \E id \in Id : Callable(id) /\ \E name \in DOMAIN Calls[proxies[id].iface] : Call(id, name)
          \/ Handle

Server == Receive \/ \E id \in Id : SendEvent(id)

Next == Client \/ Server

Spec == Init /\ [][Next]_vars
-----------------------------------------------------------------------------
\* Properties.

\* Every variable has its type.
TypeOK ==
  /\ \A id \in Id : proxies[id].version \in 0 .. 7 /\ objects[id].version \in 0 .. 7
  /\ Zombie \notin {objects[id] : id \in Id}
  /\ proxies[0] = None /\ objects[0] = None
  /\ wrong \in BOOLEAN

\* Each request is decoded as the function that was called, with arguments of the types
\* that were passed; each event reaches the listener member of its name.
NeverWrong == ~wrong

Creates(m, id) == \E i \in DOMAIN m.args : m.args[i] = <<"n", id>>

\* A proxy that is no longer on its way to the server is there what it is here: same
\* interface, same version, under every reuse of ids.
SameObjects ==
  \A id \in Id :
    (/\ proxies[id] \notin {None, Zombie}
     /\ \A i \in DOMAIN requests : ~Creates(requests[i], id))
    => objects[id] = proxies[id]

\* An event on its way names the proxy it was sent for, or one destroyed since, never
\* another object that has taken over its id.
EventsFindProxy ==
  \A i \in DOMAIN events :
    proxies[events[i].id].iface \in
      IF events[i].name = "delete_id" THEN {"zombie"} ELSE {events[i].iface, "zombie"}
=============================================================================
