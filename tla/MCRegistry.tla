----------------------------- MODULE MCRegistry ------------------------------
\* Registry for TLC: an offer of each global, and two that are too old.
EXTENDS Registry

Offer(i, v) == [iface |-> i, version |-> v]

MCOffers ==
  {Offer("wl_compositor", 6), Offer("wl_compositor", 3), Offer("xdg_wm_base", 1),
   Offer("zwp_linux_dmabuf_v1", 1), Offer("zwp_linux_dmabuf_v1", 4), Offer("wl_seat", 9)}
=============================================================================
