--------------------------- MODULE BufferOwnership ---------------------------
(***************************************************************************)
(* What the buffers of src/libwl.c promise, without saying how: a buffer   *)
(* is drawn into only while the client owns it, by one frame at a time,    *)
(* and it is the compositor's from the commit on until it is given back.   *)
(* FrameLoop implements this specification (Ownership there).              *)
(***************************************************************************)
CONSTANT Slot

VARIABLE owner   \* owner[s]: who may access the memory of buffer s

Owner == {"client", "frame", "compositor"}

Init == owner = [s \in Slot |-> "client"]

NobodyDraws == \A s \in Slot : owner[s] # "frame"

\* A frame begins: its callback draws into s.
Draw(s) ==
  /\ NobodyDraws
  /\ owner[s] = "client"
  /\ owner' = [owner EXCEPT ![s] = "frame"]

\* The frame is presented.
Lend(s) ==
  /\ owner[s] = "frame"
  /\ owner' = [owner EXCEPT ![s] = "compositor"]

\* The frame ends without a present that worked.
Abandon(s) ==
  /\ owner[s] = "frame"
  /\ owner' = [owner EXCEPT ![s] = "client"]

\* The client learns that the compositor has given buffers back: one at a time, or
\* all it still had when the connection is gone.
Return(S) ==
  /\ \A s \in S : owner[s] = "compositor"
  /\ owner' = [s \in Slot |-> IF s \in S THEN "client" ELSE owner[s]]

\* All buffers are destroyed and made anew, never while one is drawn into.
Replace ==
  /\ NobodyDraws
  /\ owner' = [s \in Slot |-> "client"]

Next ==
  \/ \E s \in Slot : Draw(s) \/ Lend(s) \/ Abandon(s)
  \/ \E S \in SUBSET Slot : Return(S)
  \/ Replace

Spec == Init /\ [][Next]_owner
=============================================================================
