------------------------------ MODULE Recording ------------------------------
(***************************************************************************)
(* What a frame callback records with libwl_clear, or by hand as demo.c    *)
(* does, and what the GPU (external) makes of it: commands of one          *)
(* submission run in any order that their barriers allow.                  *)
(*                                                                         *)
(* One buffer's command buffer and image, frame after frame.               *)
(***************************************************************************)
EXTENDS Integers, Sequences, FiniteSets

CONSTANTS
  Color,     \* colours to clear with
  None,      \* undefined contents
  MaxClears  \* bound: clears in a frame

ASSUME RecordingAssumption == None \notin Color /\ MaxClears \in Nat

VARIABLES
  pc,      \* "loop", "user" (in the frame callback) or "submitted"
  cmds,    \* what was recorded since vkBeginCommandBuffer
  done,    \* indices of the commands that ran
  layout,  \* of the image: "undefined", "transfer_dst" or "general"
  content  \* of the image

vars == <<pc, cmds, done, layout, content>>

Stage == {"transfer", "other"}

\* vkCmdPipelineBarrier: what it waits for, what waits for it, and the transition.
Barrier(src, dst, from, to) ==
  [op |-> "barrier", src |-> src, dst |-> dst, from |-> from, to |-> to]

ClearImage(c) == [op |-> "clear", color |-> c]

\* TOP_OF_PIPE as a source waits for nothing.
Discard == Barrier({}, {"transfer"}, "undefined", "transfer_dst")

Handover == Barrier({"transfer"}, Stage, "transfer_dst", "general")

Init ==
  /\ pc = "loop"
  /\ cmds = <<>> /\ done = {}
  /\ layout = "undefined" /\ content = None

Finished == done = DOMAIN cmds

Clears == {i \in DOMAIN cmds : cmds[i].op = "clear"}

\* on_frame_done, behind the fence: the command buffer starts anew.
BeginCommands ==
  /\ pc \in {"loop", "submitted"} /\ Finished
  /\ pc' = "user"
  /\ cmds' = <<>> /\ done' = {}
  /\ UNCHANGED <<layout, content>>

Record(new) == cmds' = cmds \o new /\ UNCHANGED <<pc, done, layout, content>>

\* Variants: libwl_clear's second barrier waits for nothing; nothing waits for its first.
ClearHandoverEarly(c) ==
  Record(<<Discard, ClearImage(c), Barrier({}, Stage, "transfer_dst", "general")>>)

ClearUnawaited(c) ==
  Record(<<Barrier({}, {}, "undefined", "transfer_dst"), ClearImage(c), Handover>>)

\* libwl_clear.
Clear(c) == Record(<<Discard, ClearImage(c), Handover>>)

\* The commands of demo.c's frame callback.
DemoFrame(c) == Record(<<Discard, ClearImage(c)>>)

\* The frame callback clears by hand, calls libwl_clear, or does both in any order.
User ==
  /\ pc = "user"
  /\ Cardinality(Clears) < MaxClears
  /\ \E c \in Color : Clear(c) \/ DemoFrame(c)

\* libwl_present: vkEndCommandBuffer and vkQueueSubmit.
Submit ==
  /\ pc = "user"
  /\ pc' = "submitted"
  /\ UNCHANGED <<cmds, done, layout, content>>

\* Must command i end before command j begins?  Transitions keep their order in a queue.
Before(i, j) ==
  /\ i < j
  /\ CASE cmds[i].op = "barrier" /\ cmds[j].op = "barrier" -> TRUE
       [] cmds[i].op = "clear" /\ cmds[j].op = "barrier"   -> "transfer" \in cmds[j].src
       [] cmds[i].op = "barrier" /\ cmds[j].op = "clear"   -> "transfer" \in cmds[i].dst
       [] cmds[i].op = "clear" /\ cmds[j].op = "clear"     -> FALSE

MayRun(j) == pc = "submitted" /\ j \notin done /\ \A i \in DOMAIN cmds : Before(i, j) => i \in done

\* The GPU runs a command; a transition from "undefined" throws the contents away.
Execute(j) ==
  /\ MayRun(j)
  /\ done' = done \cup {j}
  /\ IF cmds[j].op = "barrier"
     THEN /\ layout' = cmds[j].to
          /\ content' = IF cmds[j].from = layout /\ layout # "undefined" THEN content ELSE None
     ELSE /\ content' = cmds[j].color
          /\ UNCHANGED layout
  /\ UNCHANGED <<pc, cmds>>

Next == BeginCommands \/ User \/ Submit \/ \E j \in DOMAIN cmds : Execute(j)

Spec == Init /\ [][Next]_vars
-----------------------------------------------------------------------------
\* Properties.

\* A clear by hand with nothing behind it that waits for its end.
Dangling == \E i \in Clears : i < Len(cmds) /\ cmds[i + 1].from = "undefined"

\* Whatever order the GPU takes, what a frame leaves behind is the colour cleared last,
\* however often libwl_clear was called in it; and libwl_clear leaves the image in the
\* general layout.  (Behind a clear by hand it races with it.)
LastColorShown ==
  pc = "submitted" /\ Finished /\ Clears # {} /\ ~Dangling =>
    \E i \in Clears : /\ \A k \in Clears : k <= i
                      /\ content = cmds[i].color
                      /\ i < Len(cmds) => layout = "general"

\* vkCmdClearColorImage runs while the image is in the layout that it was told.
ClearsInLayout == ~Dangling => \A j \in Clears : MayRun(j) => layout = "transfer_dst"
=============================================================================
