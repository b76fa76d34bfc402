----------------------------- MODULE MCFrameLoop -----------------------------
\* FrameLoop for TLC: identities that carry no order may be permuted, and states
\* that differ in variables no action reads are one.
EXTENDS FrameLoop, TLC

Identities == Permutations(Gen) \cup Permutations(Callback) \cup Permutations(Size)

\* lib->running is never read; cur_buf only while the frame callback runs.
Relevant ==
  <<pc, buffers, gen, IF pc = "user" THEN curBuf ELSE None, frameCallback, size,
    pendingConfigure, pendingResize, initialized, exiting, callbacks, gpu, socket,
    compositor>>
=============================================================================
