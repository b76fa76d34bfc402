------------------------------ MODULE Registry -------------------------------
(***************************************************************************)
(* libwl_create's discovery of the compositor's globals: the registry, the *)
(* roundtrip, the binds and the check that all four are there, and the     *)
(* events of the registry that come as long as the connection lives.  The  *)
(* compositor (external) adds and withdraws globals at any time.           *)
(***************************************************************************)
EXTENDS Integers, Sequences, FiniteSets

CONSTANTS
  Offers,    \* what the compositor may announce: [iface, version]
  MaxNames,  \* bound: globals it ever announces
  MaxGone    \* bound: globals it withdraws

Needed == {"wl_compositor", "xdg_wm_base", "zwp_linux_dmabuf_v1", "wl_seat"}

ASSUME RegistryAssumption ==
  /\ MaxNames \in Nat /\ MaxGone \in Nat
  /\ \A o \in Offers : DOMAIN o = {"iface", "version"} /\ o.version \in Nat

VARIABLES
  pc,        \* "start", "roundtrip", "done", then "created" or "failed", "aborted", "ended"
  field,     \* the name behind each global's field of struct Libwl, 0 for nullptr
  requests,  \* requests on their way
  events,    \* events on their way
  globals,   \* the compositor's: every global announced so far, in the order of names
  there,     \* names of those it still has
  listening, \* it has read get_registry
  answered   \* the globals it had when it answered the roundtrip

client == <<pc, field>>
server == <<globals, there, listening, answered>>
vars == <<client, requests, events, server>>

Name == 1 .. MaxNames

\* The versions that on_registry_global asks for.
BindVersion ==
  [wl_compositor |-> 4, xdg_wm_base |-> 1, zwp_linux_dmabuf_v1 |-> 3, wl_seat |-> 7]

\* Does on_registry_global bind this global?
Wanted(g) == g.iface \in Needed /\ (g.iface = "zwp_linux_dmabuf_v1" => g.version >= 3)

Msg(type, name) == [type |-> type, name |-> name]

Init ==
  /\ pc = "start"
  /\ field = [i \in Needed |-> 0]
  /\ requests = <<>> /\ events = <<>>
  /\ globals = <<>> /\ there = {}
  /\ listening = FALSE /\ answered = {}
-----------------------------------------------------------------------------
\* The client.

\* Variants: the roundtrip does not ask for an answer; nobody waits for it.
GetRegistryUnsynced ==
  /\ pc = "start" /\ pc' = "roundtrip"
  /\ requests' = <<Msg("get_registry", 0)>>
  /\ UNCHANGED <<field, events, server>>

GetRegistryUnawaited ==
  /\ pc = "start" /\ pc' = "done"
  /\ requests' = <<Msg("get_registry", 0), Msg("sync", 0)>>
  /\ UNCHANGED <<field, events, server>>

\* wl_display_get_registry and wl_display_roundtrip.
GetRegistry ==
  /\ pc = "start" /\ pc' = "roundtrip"
  /\ requests' = <<Msg("get_registry", 0), Msg("sync", 0)>>
  /\ UNCHANGED <<field, events, server>>

Dispatching == pc \in {"roundtrip", "done", "created"}

\* Variant: name and version are taken for each other.
OnRegistryGlobalSwapped(n) ==
  LET g == globals[n]
  IN  IF Wanted(g)
      THEN /\ field' = [field EXCEPT ![g.iface] = g.version]
           /\ requests' = Append(requests, Msg("bind", n))
      ELSE UNCHANGED <<field, requests>>

\* on_registry_global: a field names the global that was announced last.
OnRegistryGlobal(n) ==
  LET g == globals[n]
  IN  IF Wanted(g)
      THEN /\ field' = [field EXCEPT ![g.iface] = n]
           /\ requests' = Append(requests, Msg("bind", n))
      ELSE UNCHANGED <<field, requests>>

\* The roundtrip dispatches what comes up to the answer, and what was read with it;
\* libwl_run dispatches the rest.  There is no handler for a global_remove, and
\* libwayland aborts the program.  An error is the last event of its connection.
Dispatch ==
  /\ Dispatching /\ events # <<>>
  /\ LET e == Head(events)
     IN  /\ CASE e.type = "global" -> OnRegistryGlobal(e.name) /\ UNCHANGED pc
              [] e.type = "global_remove" -> pc' = "aborted" /\ UNCHANGED <<field, requests>>
              [] e.type = "done" -> pc' = "done" /\ UNCHANGED <<field, requests>>
              [] e.type = "error" -> /\ pc = "created" /\ pc' = "ended"
                                     /\ UNCHANGED <<field, requests>>
         /\ events' = IF e.type = "error" THEN events ELSE Tail(events)
  /\ UNCHANGED server

\* The check behind the roundtrip.
CheckGlobals ==
  /\ pc = "done"
  /\ pc' = IF \A i \in Needed : field[i] # 0 THEN "created" ELSE "failed"
  /\ UNCHANGED <<field, requests, events, server>>
-----------------------------------------------------------------------------
\* The compositor (external).

Broken == \E i \in DOMAIN events : events[i].type = "error"

\* Seats (and outputs) come in any number, the others once at a time.
Sent(type, name) == IF listening /\ ~Broken THEN Append(events, Msg(type, name)) ELSE events

Add ==
  /\ Len(globals) < MaxNames
  /\ \E o \in Offers :
       /\ o.iface # "wl_seat" => \A n \in there : globals[n].iface # o.iface
       /\ globals' = Append(globals, o)
  /\ there' = there \cup {Len(globals) + 1}
  /\ events' = Sent("global", Len(globals) + 1)
  /\ UNCHANGED <<client, requests, listening, answered>>

Withdraw ==
  /\ Len(globals) - Cardinality(there) < MaxGone
  /\ \E n \in there :
       /\ there' = there \ {n}
       /\ events' = Sent("global_remove", n)
  /\ UNCHANGED <<client, requests, globals, listening, answered>>

\* get_registry announces every global, in the order of names.
Announce(names) ==
  /\ \A i, j \in DOMAIN names : i < j => names[i] < names[j]
  /\ there = {names[i] : i \in DOMAIN names}
  /\ events' = [i \in DOMAIN names |-> Msg("global", names[i])]

\* sync is answered; a bind of a version that was not announced, or of a global withdrawn,
\* ends the connection.
ReadRequest ==
  /\ requests # <<>> /\ ~Broken
  /\ LET r == Head(requests)
         legal == r.name \in there /\ BindVersion[globals[r.name].iface] <= globals[r.name].version
     IN  /\ CASE r.type = "get_registry" ->
                  \E m \in 0 .. Len(globals) : \E names \in [1 .. m -> there] : Announce(names)
              [] r.type = "sync" -> events' = Append(events, Msg("done", 0))
              [] r.type = "bind" -> events' = IF legal THEN events
                                              ELSE Append(events, Msg("error", 0))
         /\ listening' = (r.type # "bind" \/ listening)
         /\ answered' = IF r.type = "sync" THEN there ELSE answered
  /\ requests' = Tail(requests)
  /\ UNCHANGED <<client, globals, there>>

Client == GetRegistry \/ Dispatch \/ CheckGlobals

Next == Client \/ ReadRequest \/ Add \/ Withdraw

Spec == Init /\ [][Next]_vars

\* The client runs, and the compositor reads what it is sent.
FairSpec == Spec /\ WF_vars(Client) /\ WF_vars(ReadRequest)
-----------------------------------------------------------------------------
\* Properties.

\* Every variable has its type.
TypeOK ==
  /\ pc \in {"start", "roundtrip", "done", "created", "failed", "aborted", "ended"}
  /\ field \in [Needed -> 0 .. Len(globals)]
  /\ globals \in Seq(Offers) /\ Len(globals) <= MaxNames
  /\ there \subseteq DOMAIN globals /\ answered \subseteq DOMAIN globals
  /\ requests \in Seq([type : {"get_registry", "sync", "bind"}, name : 0 .. Len(globals)])
  /\ events \in Seq([type : {"global", "global_remove", "done", "error"},
                     name : 0 .. Len(globals)])
  /\ listening \in BOOLEAN

\* libwl_create fails for want of a global only if the compositor had none of that
\* interface (or only a dmabuf that is too old) when it answered the roundtrip.
FindsWhatIsThere ==
  pc = "failed" => \E i \in Needed : \A n \in answered : globals[n].iface = i => ~Wanted(globals[n])

\* libwl_create does not wait for ever for the globals.
CreateEnds == pc = "start" ~> pc \in {"created", "failed", "aborted"}

\* TUTORIAL.md: what is bound is the minimum of what is needed and what is offered.
BindsAdvertised ==
  \A i \in Needed : field[i] # 0 => BindVersion[i] <= globals[field[i]].version

\* TUTORIAL.md: a client has a handler for globals that are removed.
SurvivesRemoval == pc # "aborted"
=============================================================================
