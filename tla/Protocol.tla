------------------------------ MODULE Protocol -------------------------------
(***************************************************************************)
(* The two halves that wayland-scanner generated in src/proto for          *)
(* xdg-shell and linux-dmabuf: the request functions of the client headers *)
(* (opcode, version, interface of a new object, arguments) and the message *)
(* tables of the .c files (signature, interfaces of object arguments).     *)
(* libwayland encodes and decodes by the tables, the program calls the     *)
(* functions; nothing but agreement makes one what the other means.        *)
(***************************************************************************)
EXTENDS Integers, Sequences

\* A request function: its opcode, the version that has it, and what it passes: "n" is
\* the NULL in place of a new object of interface "new", an interface is a proxy.
Fn(op, since, args) == [opcode |-> op, since |-> since, args |-> args, new |-> "", dtor |-> FALSE]
New(op, since, new, args) == [Fn(op, since, args) EXCEPT !.new = new]
Destroy == [Fn(0, 1, <<>>) EXCEPT !.dtor = TRUE]

\* A message of a table: "n" new object, "o" object, "?o" object or null, "h" descriptor.
Msg(name, since, sig, types) == [name |-> name, since |-> since, sig |-> sig, types |-> types]

-----------------------------------------------------------------------------
\* xdg-shell-client-protocol.h

WmBaseFn ==
  [destroy |-> Destroy, create_positioner |-> New(1, 1, "xdg_positioner", <<"n">>),
   get_xdg_surface |-> New(2, 1, "xdg_surface", <<"n", "wl_surface">>),
   pong |-> Fn(3, 1, <<"u">>)]

PositionerFn ==
  [destroy |-> Destroy, set_size |-> Fn(1, 1, <<"i", "i">>),
   set_anchor_rect |-> Fn(2, 1, <<"i", "i", "i", "i">>), set_anchor |-> Fn(3, 1, <<"u">>),
   set_gravity |-> Fn(4, 1, <<"u">>), set_constraint_adjustment |-> Fn(5, 1, <<"u">>),
   set_offset |-> Fn(6, 1, <<"i", "i">>), set_reactive |-> Fn(7, 3, <<>>),
   set_parent_size |-> Fn(8, 3, <<"i", "i">>), set_parent_configure |-> Fn(9, 3, <<"u">>)]

\* Variant: get_toplevel names the interface of a popup.
XdgSurfaceFnPopup ==
  [destroy |-> Destroy, get_toplevel |-> New(1, 1, "xdg_popup", <<"n">>),
   get_popup |-> New(2, 1, "xdg_popup", <<"n", "xdg_surface", "xdg_positioner">>),
   set_window_geometry |-> Fn(3, 1, <<"i", "i", "i", "i">>),
   ack_configure |-> Fn(4, 1, <<"u">>)]

XdgSurfaceFn ==
  [destroy |-> Destroy, get_toplevel |-> New(1, 1, "xdg_toplevel", <<"n">>),
   get_popup |-> New(2, 1, "xdg_popup", <<"n", "xdg_surface", "xdg_positioner">>),
   set_window_geometry |-> Fn(3, 1, <<"i", "i", "i", "i">>),
   ack_configure |-> Fn(4, 1, <<"u">>)]

ToplevelFn ==
  [destroy |-> Destroy, set_parent |-> Fn(1, 1, <<"xdg_toplevel">>),
   set_title |-> Fn(2, 1, <<"s">>), set_app_id |-> Fn(3, 1, <<"s">>),
   show_window_menu |-> Fn(4, 1, <<"wl_seat", "u", "i", "i">>),
   move |-> Fn(5, 1, <<"wl_seat", "u">>), resize |-> Fn(6, 1, <<"wl_seat", "u", "u">>),
   set_max_size |-> Fn(7, 1, <<"i", "i">>), set_min_size |-> Fn(8, 1, <<"i", "i">>),
   set_maximized |-> Fn(9, 1, <<>>), unset_maximized |-> Fn(10, 1, <<>>),
   set_fullscreen |-> Fn(11, 1, <<"wl_output">>), unset_fullscreen |-> Fn(12, 1, <<>>),
   set_minimized |-> Fn(13, 1, <<>>)]

PopupFn ==
  [destroy |-> Destroy, grab |-> Fn(1, 1, <<"wl_seat", "u">>),
   reposition |-> Fn(2, 3, <<"xdg_positioner", "u">>)]

\* linux-dmabuf-unstable-v1-client-protocol.h

\* Variant: create_params passes no interface for its new object.
DmabufFnUnnamed ==
  [destroy |-> Destroy, create_params |-> Fn(1, 1, <<"n">>),
   get_default_feedback |-> New(2, 4, "zwp_linux_dmabuf_feedback_v1", <<"n">>),
   get_surface_feedback |-> New(3, 4, "zwp_linux_dmabuf_feedback_v1", <<"n", "wl_surface">>)]

DmabufFn ==
  [destroy |-> Destroy,
   create_params |-> New(1, 1, "zwp_linux_buffer_params_v1", <<"n">>),
   get_default_feedback |-> New(2, 4, "zwp_linux_dmabuf_feedback_v1", <<"n">>),
   get_surface_feedback |-> New(3, 4, "zwp_linux_dmabuf_feedback_v1", <<"n", "wl_surface">>)]

\* Variant: destroy is sent without WL_MARSHAL_FLAG_DESTROY.
ParamsFnKeepsProxy ==
  [destroy |-> Fn(0, 1, <<>>), add |-> Fn(1, 1, <<"h", "u", "u", "u", "u", "u">>),
   create |-> Fn(2, 1, <<"i", "i", "u", "u">>),
   create_immed |-> New(3, 2, "wl_buffer", <<"n", "i", "i", "u", "u">>)]

ParamsFn ==
  [destroy |-> Destroy, add |-> Fn(1, 1, <<"h", "u", "u", "u", "u", "u">>),
   create |-> Fn(2, 1, <<"i", "i", "u", "u">>),
   create_immed |-> New(3, 2, "wl_buffer", <<"n", "i", "i", "u", "u">>)]

FeedbackFn == [destroy |-> Destroy]

\* The listener structs: the order of their members is the order of the opcodes.
WmBaseListener == <<"ping">>
XdgSurfaceListener == <<"configure">>
ToplevelListener == <<"configure", "close", "configure_bounds", "wm_capabilities">>
PopupListener == <<"configure", "popup_done", "repositioned">>
DmabufListener == <<"format", "modifier">>
ParamsListener == <<"created", "failed">>
FeedbackListener ==
  <<"done", "format_table", "main_device", "tranche_done", "tranche_target_device",
    "tranche_formats", "tranche_flags">>

-----------------------------------------------------------------------------
\* xdg-shell-protocol.c

XdgTypes ==
  <<"", "", "", "", "xdg_positioner", "xdg_surface", "wl_surface", "xdg_toplevel",
    "xdg_popup", "xdg_surface", "xdg_positioner", "xdg_toplevel", "wl_seat", "", "", "",
    "wl_seat", "", "wl_seat", "", "", "wl_output", "wl_seat", "", "xdg_positioner", "">>

WmBaseRequests ==
  <<Msg("destroy", 1, <<>>, 0), Msg("create_positioner", 1, <<"n">>, 4),
    Msg("get_xdg_surface", 1, <<"n", "o">>, 5), Msg("pong", 1, <<"u">>, 0)>>

PositionerRequests ==
  <<Msg("destroy", 1, <<>>, 0), Msg("set_size", 1, <<"i", "i">>, 0),
    Msg("set_anchor_rect", 1, <<"i", "i", "i", "i">>, 0), Msg("set_anchor", 1, <<"u">>, 0),
    Msg("set_gravity", 1, <<"u">>, 0), Msg("set_constraint_adjustment", 1, <<"u">>, 0),
    Msg("set_offset", 1, <<"i", "i">>, 0), Msg("set_reactive", 3, <<>>, 0),
    Msg("set_parent_size", 3, <<"i", "i">>, 0), Msg("set_parent_configure", 3, <<"u">>, 0)>>

XdgSurfaceRequests ==
  <<Msg("destroy", 1, <<>>, 0), Msg("get_toplevel", 1, <<"n">>, 7),
    Msg("get_popup", 1, <<"n", "?o", "o">>, 8),
    Msg("set_window_geometry", 1, <<"i", "i", "i", "i">>, 0),
    Msg("ack_configure", 1, <<"u">>, 0)>>

\* Variant: set_fullscreen's offset into the types is one too many, as in a table of
\* another version.
ToplevelRequestsShifted ==
  <<Msg("destroy", 1, <<>>, 0), Msg("set_parent", 1, <<"?o">>, 11),
    Msg("set_title", 1, <<"s">>, 0), Msg("set_app_id", 1, <<"s">>, 0),
    Msg("show_window_menu", 1, <<"o", "u", "i", "i">>, 12), Msg("move", 1, <<"o", "u">>, 16),
    Msg("resize", 1, <<"o", "u", "u">>, 18), Msg("set_max_size", 1, <<"i", "i">>, 0),
    Msg("set_min_size", 1, <<"i", "i">>, 0), Msg("set_maximized", 1, <<>>, 0),
    Msg("unset_maximized", 1, <<>>, 0), Msg("set_fullscreen", 1, <<"?o">>, 22),
    Msg("unset_fullscreen", 1, <<>>, 0), Msg("set_minimized", 1, <<>>, 0)>>

ToplevelRequests ==
  <<Msg("destroy", 1, <<>>, 0), Msg("set_parent", 1, <<"?o">>, 11),
    Msg("set_title", 1, <<"s">>, 0), Msg("set_app_id", 1, <<"s">>, 0),
    Msg("show_window_menu", 1, <<"o", "u", "i", "i">>, 12), Msg("move", 1, <<"o", "u">>, 16),
    Msg("resize", 1, <<"o", "u", "u">>, 18), Msg("set_max_size", 1, <<"i", "i">>, 0),
    Msg("set_min_size", 1, <<"i", "i">>, 0), Msg("set_maximized", 1, <<>>, 0),
    Msg("unset_maximized", 1, <<>>, 0), Msg("set_fullscreen", 1, <<"?o">>, 21),
    Msg("unset_fullscreen", 1, <<>>, 0), Msg("set_minimized", 1, <<>>, 0)>>

PopupRequests ==
  <<Msg("destroy", 1, <<>>, 0), Msg("grab", 1, <<"o", "u">>, 22),
    Msg("reposition", 3, <<"o", "u">>, 24)>>

WmBaseEvents == <<Msg("ping", 1, <<"u">>, 0)>>

XdgSurfaceEvents == <<Msg("configure", 1, <<"u">>, 0)>>

ToplevelEvents ==
  <<Msg("configure", 1, <<"i", "i", "a">>, 0), Msg("close", 1, <<>>, 0),
    Msg("configure_bounds", 4, <<"i", "i">>, 0), Msg("wm_capabilities", 5, <<"a">>, 0)>>

PopupEvents ==
  <<Msg("configure", 1, <<"i", "i", "i", "i">>, 0), Msg("popup_done", 1, <<>>, 0),
    Msg("repositioned", 3, <<"u">>, 0)>>

\* linux-dmabuf-unstable-v1-protocol.c

DmabufTypes ==
  <<"", "", "", "", "", "", "zwp_linux_buffer_params_v1", "zwp_linux_dmabuf_feedback_v1",
    "zwp_linux_dmabuf_feedback_v1", "wl_surface", "wl_buffer", "", "", "", "", "wl_buffer">>

DmabufRequests ==
  <<Msg("destroy", 1, <<>>, 0), Msg("create_params", 1, <<"n">>, 6),
    Msg("get_default_feedback", 4, <<"n">>, 7), Msg("get_surface_feedback", 4, <<"n", "o">>, 8)>>

ParamsRequests ==
  <<Msg("destroy", 1, <<>>, 0), Msg("add", 1, <<"h", "u", "u", "u", "u", "u">>, 0),
    Msg("create", 1, <<"i", "i", "u", "u">>, 0),
    Msg("create_immed", 2, <<"n", "i", "i", "u", "u">>, 10)>>

FeedbackRequests == <<Msg("destroy", 1, <<>>, 0)>>

DmabufEvents == <<Msg("format", 1, <<"u">>, 0), Msg("modifier", 3, <<"u", "u", "u">>, 0)>>

ParamsEvents == <<Msg("created", 1, <<"n">>, 15), Msg("failed", 1, <<>>, 0)>>

FeedbackEvents ==
  <<Msg("done", 1, <<>>, 0), Msg("format_table", 1, <<"h", "u">>, 0),
    Msg("main_device", 1, <<"a">>, 0), Msg("tranche_done", 1, <<>>, 0),
    Msg("tranche_target_device", 1, <<"a">>, 0), Msg("tranche_formats", 1, <<"a">>, 0),
    Msg("tranche_flags", 1, <<"u">>, 0)>>

-----------------------------------------------------------------------------
\* Both halves by interface.

Calls ==
  [xdg_wm_base |-> WmBaseFn, xdg_positioner |-> PositionerFn, xdg_surface |-> XdgSurfaceFn,
   xdg_toplevel |-> ToplevelFn, xdg_popup |-> PopupFn, zwp_linux_dmabuf_v1 |-> DmabufFn,
   zwp_linux_buffer_params_v1 |-> ParamsFn, zwp_linux_dmabuf_feedback_v1 |-> FeedbackFn]

Listeners ==
  [xdg_wm_base |-> WmBaseListener, xdg_surface |-> XdgSurfaceListener,
   xdg_toplevel |-> ToplevelListener, xdg_popup |-> PopupListener,
   zwp_linux_dmabuf_v1 |-> DmabufListener, zwp_linux_buffer_params_v1 |-> ParamsListener,
   zwp_linux_dmabuf_feedback_v1 |-> FeedbackListener]

Interface(version, requests, events, types) ==
  [version |-> version, requests |-> requests, events |-> events, types |-> types]

Interfaces ==
  [xdg_wm_base |-> Interface(7, WmBaseRequests, WmBaseEvents, XdgTypes),
   xdg_positioner |-> Interface(7, PositionerRequests, <<>>, XdgTypes),
   xdg_surface |-> Interface(7, XdgSurfaceRequests, XdgSurfaceEvents, XdgTypes),
   xdg_toplevel |-> Interface(7, ToplevelRequests, ToplevelEvents, XdgTypes),
   xdg_popup |-> Interface(7, PopupRequests, PopupEvents, XdgTypes),
   zwp_linux_dmabuf_v1 |-> Interface(5, DmabufRequests, DmabufEvents, DmabufTypes),
   zwp_linux_buffer_params_v1 |-> Interface(5, ParamsRequests, ParamsEvents, DmabufTypes),
   zwp_linux_dmabuf_feedback_v1 |-> Interface(5, FeedbackRequests, FeedbackEvents, DmabufTypes)]

\* The interface of a message's i-th argument, where that is an object.
ArgType(iface, msg, i) == Interfaces[iface].types[msg.types + i]
=============================================================================
