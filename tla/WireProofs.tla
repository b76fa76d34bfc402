------------------------------ MODULE WireProofs ------------------------------
(***************************************************************************)
(* That client and server stay together on the wire: every request is      *)
(* understood, every event finds its proxy and its listener member, under  *)
(* every order of calls and every reuse of ids, for any set of ids, any    *)
(* versions and any number of messages on their way.                       *)
(*                                                                         *)
(* The argument has two halves.  The tables: function by function, what    *)
(* the client's request functions pass is what the rows of wl_interface    *)
(* ask for (HalvesAgree), and each event's opcode counts to the listener   *)
(* member of its name (ListenersHear).  The messages: there is at any time *)
(* one assignment L of objects to ids that both sides and every message on *)
(* their way agree with (WireInv).  An id changes its meaning only while   *)
(* it is free, and no message knows a free id, because a proxy destroyed   *)
(* stays a zombie until the server's delete_id, the last word about it.    *)
(***************************************************************************)
EXTENDS Wire, SequenceTheorems, TLAPS

\* Arguments by what they are, and the interfaces of objects that are arguments.
Plain == {"n", "i", "u", "s", "h"}
Proxies == {"wl_surface", "wl_seat", "wl_output", "xdg_positioner", "xdg_surface", "xdg_toplevel"}

\* The interfaces of objects that a request makes.
Made == {"xdg_positioner", "xdg_surface", "xdg_toplevel", "xdg_popup", "wl_buffer",
         "zwp_linux_buffer_params_v1", "zwp_linux_dmabuf_feedback_v1"}

\* What a request function passes fits what the table's row asks for.
Fit(args, sig, types, k, new) ==
  /\ args \in Seq(Plain \cup Proxies)
  /\ DOMAIN sig = DOMAIN args /\ new \in Made \cup {""}
  /\ new # "" => 1 \in DOMAIN args /\ args[1] = "n"
  /\ \A i \in DOMAIN args :
       /\ sig[i] = "n" <=> args[i] = "n"
       /\ args[i] = "n" => new # "" /\ types[k + i] = new
       /\ args[i] \in Plain => sig[i] = args[i]
       /\ args[i] \notin Plain => sig[i] \in {"o", "?o"} /\ types[k + i] = args[i]

Agree(name, fn, table, types) ==
  LET row == table[fn.opcode + 1]
  IN  /\ fn.opcode \in Nat /\ fn.opcode < Len(table)
      /\ row.name = name /\ row.since = fn.since
      /\ IF name = "destroy" THEN fn.dtor = TRUE /\ fn.new = "" /\ fn.args = <<>>
                            ELSE fn.dtor = FALSE
      /\ Fit(fn.args, row.sig, types, row.types, fn.new)
-----------------------------------------------------------------------------
Is(fn, op, since, args, new, dtor) ==
  /\ fn.opcode = op /\ fn.since = since /\ fn.args = args
  /\ fn.new = new /\ fn.dtor = dtor

Row(table, op, name, since, sig, types) ==
  LET msg == table[op + 1]
  IN  /\ op \in Nat /\ op < Len(table)
      /\ msg.name = name /\ msg.since = since /\ msg.sig = sig /\ msg.types = types

\* What the constructors of the two halves construct.
LEMMA FnIs == \A op, since, args : Is(Fn(op, since, args), op, since, args, "", FALSE)
BY DEF Fn, Is

LEMMA NewIs ==
  ASSUME NEW op, NEW since, NEW new, NEW args
  PROVE  Is(New(op, since, new, args), op, since, args, new, FALSE)
<1> DEFINE f == Fn(op, since, args)
<1>1. Is(f, op, since, args, "", FALSE)
  BY FnIs
<1>2. DOMAIN f = {"opcode", "since", "args", "new", "dtor"}
  BY DEF Fn
<1> HIDE DEF f
<1>3. Is([f EXCEPT !.new = new], op, since, args, new, FALSE)
  BY <1>1, <1>2 DEF Is
<1> QED
  BY <1>3 DEF New, f

LEMMA DestroyIs == Is(Destroy, 0, 1, <<>>, "", TRUE)
<1> DEFINE f == Fn(0, 1, <<>>)
<1>1. Is(f, 0, 1, <<>>, "", FALSE)
  BY FnIs
<1>2. DOMAIN f = {"opcode", "since", "args", "new", "dtor"}
  BY DEF Fn
<1> HIDE DEF f
<1>3. Is([f EXCEPT !.dtor = TRUE], 0, 1, <<>>, "", TRUE)
  BY <1>1, <1>2 DEF Is
<1> QED
  BY <1>3 DEF Destroy, f

LEMMA RowIs ==
  ASSUME NEW table, NEW op, NEW name, NEW since, NEW sig, NEW types,
         op \in Nat, op < Len(table), table[op + 1] = Msg(name, since, sig, types)
  PROVE  Row(table, op, name, since, sig, types)
BY DEF Msg, Row

LEMMA Match ==
  ASSUME NEW name, NEW fn, NEW table, NEW types, NEW op, NEW since, NEW args, NEW new, NEW dtor,
         NEW sig, NEW k,
         Is(fn, op, since, args, new, dtor), Row(table, op, name, since, sig, k),
         Fit(args, sig, types, k, new),
         IF name = "destroy" THEN dtor = TRUE /\ new = "" /\ args = <<>> ELSE dtor = FALSE
  PROVE  Agree(name, fn, table, types)
<1>1. fn.opcode = op /\ fn.since = since /\ fn.args = args /\ fn.new = new /\ fn.dtor = dtor
  BY DEF Is
<1>2. table[fn.opcode + 1] = table[op + 1]
  BY <1>1
<1>3. Row(table, fn.opcode, name, since, sig, k)
  BY <1>1, <1>2 DEF Row
<1>4. IF name = "destroy" THEN fn.dtor = TRUE /\ fn.new = "" /\ fn.args = <<>>
                            ELSE fn.dtor = FALSE
  BY <1>1
<1>5. fn.opcode \in Nat /\ fn.opcode < Len(table)
  BY <1>1 DEF Row
<1>6. Fit(fn.args, table[fn.opcode + 1].sig, types, table[fn.opcode + 1].types, fn.new)
  BY <1>1, <1>3 DEF Row
<1> QED
  BY <1>1, <1>3, <1>4, <1>5, <1>6 DEF Agree, Row

\* Arguments that are not objects fit themselves.
LEMMA Scalars ==
  \A types, k :
    /\ Fit(<<>>, <<>>, types, k, "")
    /\ Fit(<<"u">>, <<"u">>, types, k, "")
    /\ Fit(<<"s">>, <<"s">>, types, k, "")
    /\ Fit(<<"i", "i">>, <<"i", "i">>, types, k, "")
    /\ Fit(<<"i", "i", "i", "i">>, <<"i", "i", "i", "i">>, types, k, "")
    /\ Fit(<<"i", "i", "u", "u">>, <<"i", "i", "u", "u">>, types, k, "")
    /\ Fit(<<"h", "u", "u", "u", "u", "u">>, <<"h", "u", "u", "u", "u", "u">>, types, k, "")
BY DEF Fit, Plain, Proxies, Made

LEMMA WmBaseTable ==
  \A name \in DOMAIN WmBaseFn : Agree(name, WmBaseFn[name], WmBaseRequests, XdgTypes)
<1> DEFINE F == WmBaseFn R == WmBaseRequests
<1>1. /\ DOMAIN F = {"destroy", "create_positioner", "get_xdg_surface", "pong"}
      /\ Is(F.destroy, 0, 1, <<>>, "", TRUE)
      /\ Is(F.create_positioner, 1, 1, <<"n">>, "xdg_positioner", FALSE)
      /\ Is(F.get_xdg_surface, 2, 1, <<"n", "wl_surface">>, "xdg_surface", FALSE)
      /\ Is(F.pong, 3, 1, <<"u">>, "", FALSE)
  BY FnIs, NewIs, DestroyIs DEF WmBaseFn
<1>2. /\ Row(R, 0, "destroy", 1, <<>>, 0)
      /\ Row(R, 1, "create_positioner", 1, <<"n">>, 4)
      /\ Row(R, 2, "get_xdg_surface", 1, <<"n", "o">>, 5)
      /\ Row(R, 3, "pong", 1, <<"u">>, 0)
  <2>1. Row(R, 0, "destroy", 1, <<>>, 0)
    BY RowIs DEF WmBaseRequests
  <2>2. Row(R, 1, "create_positioner", 1, <<"n">>, 4)
    BY RowIs DEF WmBaseRequests
  <2>3. Row(R, 2, "get_xdg_surface", 1, <<"n", "o">>, 5)
    BY RowIs DEF WmBaseRequests
  <2>4. Row(R, 3, "pong", 1, <<"u">>, 0)
    BY RowIs DEF WmBaseRequests
  <2> QED
    BY <2>1, <2>2, <2>3, <2>4
<1>3. /\ XdgTypes[5] = "xdg_positioner" /\ XdgTypes[6] = "xdg_surface"
      /\ XdgTypes[7] = "wl_surface"
  BY DEF XdgTypes
<1> HIDE DEF F, R
<1>4. /\ Fit(<<"n">>, <<"n">>, XdgTypes, 4, "xdg_positioner")
      /\ Fit(<<"n", "wl_surface">>, <<"n", "o">>, XdgTypes, 5, "xdg_surface")
  <2>1. Fit(<<"n">>, <<"n">>, XdgTypes, 4, "xdg_positioner")
    BY <1>3 DEF Fit, Plain, Proxies, Made
  <2>2. Fit(<<"n", "wl_surface">>, <<"n", "o">>, XdgTypes, 5, "xdg_surface")
    BY <1>3 DEF Fit, Plain, Proxies, Made
  <2> QED
    BY <2>1, <2>2
<1>5. Agree("destroy", F.destroy, R, XdgTypes)
  BY <1>1, <1>2, Scalars, <1>4, Match, Zenon
<1>6. Agree("create_positioner", F.create_positioner, R, XdgTypes)
  BY <1>1, <1>2, Scalars, <1>4, Match, Zenon
<1>7. Agree("get_xdg_surface", F.get_xdg_surface, R, XdgTypes)
  BY <1>1, <1>2, Scalars, <1>4, Match, Zenon
<1>8. Agree("pong", F.pong, R, XdgTypes)
  BY <1>1, <1>2, Scalars, <1>4, Match, Zenon
<1> QED
  BY <1>1, <1>5, <1>6, <1>7, <1>8 DEF F, R

LEMMA PositionerTable ==
  \A name \in DOMAIN PositionerFn : Agree(name, PositionerFn[name], PositionerRequests, XdgTypes)
<1> DEFINE F == PositionerFn R == PositionerRequests
<1>1. /\ DOMAIN F = {"destroy", "set_size", "set_anchor_rect", "set_anchor", "set_gravity",
                    "set_constraint_adjustment", "set_offset", "set_reactive",
                    "set_parent_size", "set_parent_configure"}
      /\ Is(F.destroy, 0, 1, <<>>, "", TRUE)
      /\ Is(F.set_size, 1, 1, <<"i", "i">>, "", FALSE)
      /\ Is(F.set_anchor_rect, 2, 1, <<"i", "i", "i", "i">>, "", FALSE)
      /\ Is(F.set_anchor, 3, 1, <<"u">>, "", FALSE)
      /\ Is(F.set_gravity, 4, 1, <<"u">>, "", FALSE)
      /\ Is(F.set_constraint_adjustment, 5, 1, <<"u">>, "", FALSE)
      /\ Is(F.set_offset, 6, 1, <<"i", "i">>, "", FALSE)
      /\ Is(F.set_reactive, 7, 3, <<>>, "", FALSE)
      /\ Is(F.set_parent_size, 8, 3, <<"i", "i">>, "", FALSE)
      /\ Is(F.set_parent_configure, 9, 3, <<"u">>, "", FALSE)
  BY FnIs, NewIs, DestroyIs DEF PositionerFn
<1>2. /\ Row(R, 0, "destroy", 1, <<>>, 0)
      /\ Row(R, 1, "set_size", 1, <<"i", "i">>, 0)
      /\ Row(R, 2, "set_anchor_rect", 1, <<"i", "i", "i", "i">>, 0)
      /\ Row(R, 3, "set_anchor", 1, <<"u">>, 0)
      /\ Row(R, 4, "set_gravity", 1, <<"u">>, 0)
      /\ Row(R, 5, "set_constraint_adjustment", 1, <<"u">>, 0)
      /\ Row(R, 6, "set_offset", 1, <<"i", "i">>, 0)
      /\ Row(R, 7, "set_reactive", 3, <<>>, 0)
      /\ Row(R, 8, "set_parent_size", 3, <<"i", "i">>, 0)
      /\ Row(R, 9, "set_parent_configure", 3, <<"u">>, 0)
  <2>11. /\ Len(R) = 10
         /\ R[1] = Msg("destroy", 1, <<>>, 0)
         /\ R[2] = Msg("set_size", 1, <<"i", "i">>, 0)
         /\ R[3] = Msg("set_anchor_rect", 1, <<"i", "i", "i", "i">>, 0)
         /\ R[4] = Msg("set_anchor", 1, <<"u">>, 0)
         /\ R[5] = Msg("set_gravity", 1, <<"u">>, 0)
         /\ R[6] = Msg("set_constraint_adjustment", 1, <<"u">>, 0)
         /\ R[7] = Msg("set_offset", 1, <<"i", "i">>, 0)
         /\ R[8] = Msg("set_reactive", 3, <<>>, 0)
         /\ R[9] = Msg("set_parent_size", 3, <<"i", "i">>, 0)
         /\ R[10] = Msg("set_parent_configure", 3, <<"u">>, 0)
    BY DEF PositionerRequests
  <2> HIDE DEF R
  <2>1. Row(R, 0, "destroy", 1, <<>>, 0)
    BY <2>11, RowIs
  <2>2. Row(R, 1, "set_size", 1, <<"i", "i">>, 0)
    BY <2>11, RowIs
  <2>3. Row(R, 2, "set_anchor_rect", 1, <<"i", "i", "i", "i">>, 0)
    BY <2>11, RowIs
  <2>4. Row(R, 3, "set_anchor", 1, <<"u">>, 0)
    BY <2>11, RowIs
  <2>5. Row(R, 4, "set_gravity", 1, <<"u">>, 0)
    BY <2>11, RowIs
  <2>6. Row(R, 5, "set_constraint_adjustment", 1, <<"u">>, 0)
    BY <2>11, RowIs
  <2>7. Row(R, 6, "set_offset", 1, <<"i", "i">>, 0)
    BY <2>11, RowIs
  <2>8. Row(R, 7, "set_reactive", 3, <<>>, 0)
    BY <2>11, RowIs
  <2>9. Row(R, 8, "set_parent_size", 3, <<"i", "i">>, 0)
    BY <2>11, RowIs
  <2>10. Row(R, 9, "set_parent_configure", 3, <<"u">>, 0)
    BY <2>11, RowIs
  <2> QED
    BY <2>1, <2>2, <2>3, <2>4, <2>5, <2>6, <2>7, <2>8, <2>9, <2>10
<1> HIDE DEF F, R
<1>5. Agree("destroy", F.destroy, R, XdgTypes)
  BY <1>1, <1>2, Scalars, Match, Zenon
<1>6. Agree("set_size", F.set_size, R, XdgTypes)
  BY <1>1, <1>2, Scalars, Match, Zenon
<1>7. Agree("set_anchor_rect", F.set_anchor_rect, R, XdgTypes)
  BY <1>1, <1>2, Scalars, Match, Zenon
<1>8. Agree("set_anchor", F.set_anchor, R, XdgTypes)
  BY <1>1, <1>2, Scalars, Match, Zenon
<1>9. Agree("set_gravity", F.set_gravity, R, XdgTypes)
  BY <1>1, <1>2, Scalars, Match, Zenon
<1>10. Agree("set_constraint_adjustment", F.set_constraint_adjustment, R, XdgTypes)
  BY <1>1, <1>2, Scalars, Match, Zenon
<1>11. Agree("set_offset", F.set_offset, R, XdgTypes)
  BY <1>1, <1>2, Scalars, Match, Zenon
<1>12. Agree("set_reactive", F.set_reactive, R, XdgTypes)
  BY <1>1, <1>2, Scalars, Match, Zenon
<1>13. Agree("set_parent_size", F.set_parent_size, R, XdgTypes)
  BY <1>1, <1>2, Scalars, Match, Zenon
<1>14. Agree("set_parent_configure", F.set_parent_configure, R, XdgTypes)
  BY <1>1, <1>2, Scalars, Match, Zenon
<1> QED
  BY <1>1, <1>5, <1>6, <1>7, <1>8, <1>9, <1>10, <1>11, <1>12, <1>13, <1>14 DEF F, R

LEMMA XdgSurfaceTable ==
  \A name \in DOMAIN XdgSurfaceFn : Agree(name, XdgSurfaceFn[name], XdgSurfaceRequests, XdgTypes)
<1> DEFINE F == XdgSurfaceFn R == XdgSurfaceRequests
<1>1. /\ DOMAIN F = {"destroy", "get_toplevel", "get_popup", "set_window_geometry",
                    "ack_configure"}
      /\ Is(F.destroy, 0, 1, <<>>, "", TRUE)
      /\ Is(F.get_toplevel, 1, 1, <<"n">>, "xdg_toplevel", FALSE)
      /\ Is(F.get_popup, 2, 1, <<"n", "xdg_surface", "xdg_positioner">>, "xdg_popup", FALSE)
      /\ Is(F.set_window_geometry, 3, 1, <<"i", "i", "i", "i">>, "", FALSE)
      /\ Is(F.ack_configure, 4, 1, <<"u">>, "", FALSE)
  BY FnIs, NewIs, DestroyIs DEF XdgSurfaceFn
<1>2. /\ Row(R, 0, "destroy", 1, <<>>, 0)
      /\ Row(R, 1, "get_toplevel", 1, <<"n">>, 7)
      /\ Row(R, 2, "get_popup", 1, <<"n", "?o", "o">>, 8)
      /\ Row(R, 3, "set_window_geometry", 1, <<"i", "i", "i", "i">>, 0)
      /\ Row(R, 4, "ack_configure", 1, <<"u">>, 0)
  BY RowIs DEF XdgSurfaceRequests
<1>3. /\ XdgTypes[8] = "xdg_toplevel" /\ XdgTypes[9] = "xdg_popup"
      /\ XdgTypes[10] = "xdg_surface" /\ XdgTypes[11] = "xdg_positioner"
  BY DEF XdgTypes
<1> HIDE DEF F, R
<1>4. /\ Fit(<<"n">>, <<"n">>, XdgTypes, 7, "xdg_toplevel")
      /\ Fit(<<"n", "xdg_surface", "xdg_positioner">>, <<"n", "?o", "o">>, XdgTypes, 8, "xdg_popup")
  <2>1. Fit(<<"n">>, <<"n">>, XdgTypes, 7, "xdg_toplevel")
    BY <1>3 DEF Fit, Plain, Proxies, Made
  <2>2. Fit(<<"n", "xdg_surface", "xdg_positioner">>, <<"n", "?o", "o">>, XdgTypes, 8, "xdg_popup")
    BY <1>3 DEF Fit, Plain, Proxies, Made
  <2> QED
    BY <2>1, <2>2
<1>5. Agree("destroy", F.destroy, R, XdgTypes)
  BY <1>1, <1>2, Scalars, <1>4, Match, Zenon
<1>6. Agree("get_toplevel", F.get_toplevel, R, XdgTypes)
  BY <1>1, <1>2, Scalars, <1>4, Match, Zenon
<1>7. Agree("get_popup", F.get_popup, R, XdgTypes)
  BY <1>1, <1>2, Scalars, <1>4, Match, Zenon
<1>8. Agree("set_window_geometry", F.set_window_geometry, R, XdgTypes)
  BY <1>1, <1>2, Scalars, <1>4, Match, Zenon
<1>9. Agree("ack_configure", F.ack_configure, R, XdgTypes)
  BY <1>1, <1>2, Scalars, <1>4, Match, Zenon
<1> QED
  BY <1>1, <1>5, <1>6, <1>7, <1>8, <1>9 DEF F, R

LEMMA ToplevelTable ==
  \A name \in DOMAIN ToplevelFn : Agree(name, ToplevelFn[name], ToplevelRequests, XdgTypes)
<1> DEFINE F == ToplevelFn R == ToplevelRequests
<1>1. /\ DOMAIN F = {"destroy", "set_parent", "set_title", "set_app_id", "show_window_menu",
                    "move", "resize", "set_max_size", "set_min_size", "set_maximized",
                    "unset_maximized", "set_fullscreen", "unset_fullscreen", "set_minimized"}
      /\ Is(F.destroy, 0, 1, <<>>, "", TRUE)
      /\ Is(F.set_parent, 1, 1, <<"xdg_toplevel">>, "", FALSE)
      /\ Is(F.set_title, 2, 1, <<"s">>, "", FALSE)
      /\ Is(F.set_app_id, 3, 1, <<"s">>, "", FALSE)
      /\ Is(F.show_window_menu, 4, 1, <<"wl_seat", "u", "i", "i">>, "", FALSE)
      /\ Is(F.move, 5, 1, <<"wl_seat", "u">>, "", FALSE)
      /\ Is(F.resize, 6, 1, <<"wl_seat", "u", "u">>, "", FALSE)
      /\ Is(F.set_max_size, 7, 1, <<"i", "i">>, "", FALSE)
      /\ Is(F.set_min_size, 8, 1, <<"i", "i">>, "", FALSE)
      /\ Is(F.set_maximized, 9, 1, <<>>, "", FALSE)
      /\ Is(F.unset_maximized, 10, 1, <<>>, "", FALSE)
      /\ Is(F.set_fullscreen, 11, 1, <<"wl_output">>, "", FALSE)
      /\ Is(F.unset_fullscreen, 12, 1, <<>>, "", FALSE)
      /\ Is(F.set_minimized, 13, 1, <<>>, "", FALSE)
  BY FnIs, NewIs, DestroyIs DEF ToplevelFn
<1>2. /\ Row(R, 0, "destroy", 1, <<>>, 0)
      /\ Row(R, 1, "set_parent", 1, <<"?o">>, 11)
      /\ Row(R, 2, "set_title", 1, <<"s">>, 0)
      /\ Row(R, 3, "set_app_id", 1, <<"s">>, 0)
      /\ Row(R, 4, "show_window_menu", 1, <<"o", "u", "i", "i">>, 12)
      /\ Row(R, 5, "move", 1, <<"o", "u">>, 16)
      /\ Row(R, 6, "resize", 1, <<"o", "u", "u">>, 18)
      /\ Row(R, 7, "set_max_size", 1, <<"i", "i">>, 0)
      /\ Row(R, 8, "set_min_size", 1, <<"i", "i">>, 0)
      /\ Row(R, 9, "set_maximized", 1, <<>>, 0)
      /\ Row(R, 10, "unset_maximized", 1, <<>>, 0)
      /\ Row(R, 11, "set_fullscreen", 1, <<"?o">>, 21)
      /\ Row(R, 12, "unset_fullscreen", 1, <<>>, 0)
      /\ Row(R, 13, "set_minimized", 1, <<>>, 0)
  <2>1. Row(R, 0, "destroy", 1, <<>>, 0)
    BY RowIs DEF ToplevelRequests
  <2>2. Row(R, 1, "set_parent", 1, <<"?o">>, 11)
    BY RowIs DEF ToplevelRequests
  <2>3. Row(R, 2, "set_title", 1, <<"s">>, 0)
    BY RowIs DEF ToplevelRequests
  <2>4. Row(R, 3, "set_app_id", 1, <<"s">>, 0)
    BY RowIs DEF ToplevelRequests
  <2>5. Row(R, 4, "show_window_menu", 1, <<"o", "u", "i", "i">>, 12)
    BY RowIs DEF ToplevelRequests
  <2>6. Row(R, 5, "move", 1, <<"o", "u">>, 16)
    BY RowIs DEF ToplevelRequests
  <2>7. Row(R, 6, "resize", 1, <<"o", "u", "u">>, 18)
    BY RowIs DEF ToplevelRequests
  <2>8. Row(R, 7, "set_max_size", 1, <<"i", "i">>, 0)
    BY RowIs DEF ToplevelRequests
  <2>9. Row(R, 8, "set_min_size", 1, <<"i", "i">>, 0)
    BY RowIs DEF ToplevelRequests
  <2>10. Row(R, 9, "set_maximized", 1, <<>>, 0)
    BY RowIs DEF ToplevelRequests
  <2>11. Row(R, 10, "unset_maximized", 1, <<>>, 0)
    BY RowIs DEF ToplevelRequests
  <2>12. Row(R, 11, "set_fullscreen", 1, <<"?o">>, 21)
    BY RowIs DEF ToplevelRequests
  <2>13. Row(R, 12, "unset_fullscreen", 1, <<>>, 0)
    BY RowIs DEF ToplevelRequests
  <2>14. Row(R, 13, "set_minimized", 1, <<>>, 0)
    BY RowIs DEF ToplevelRequests
  <2> QED
    BY <2>1, <2>2, <2>3, <2>4, <2>5, <2>6, <2>7, <2>8, <2>9, <2>10, <2>11, <2>12, <2>13,
       <2>14
<1>3. /\ XdgTypes[12] = "xdg_toplevel" /\ XdgTypes[13] = "wl_seat"
      /\ XdgTypes[17] = "wl_seat" /\ XdgTypes[19] = "wl_seat" /\ XdgTypes[22] = "wl_output"
  BY DEF XdgTypes
<1> HIDE DEF F, R
<1>4. /\ Fit(<<"xdg_toplevel">>, <<"?o">>, XdgTypes, 11, "")
      /\ Fit(<<"wl_seat", "u", "i", "i">>, <<"o", "u", "i", "i">>, XdgTypes, 12, "")
      /\ Fit(<<"wl_seat", "u">>, <<"o", "u">>, XdgTypes, 16, "")
      /\ Fit(<<"wl_seat", "u", "u">>, <<"o", "u", "u">>, XdgTypes, 18, "")
      /\ Fit(<<"wl_output">>, <<"?o">>, XdgTypes, 21, "")
  <2>1. Fit(<<"xdg_toplevel">>, <<"?o">>, XdgTypes, 11, "")
    BY <1>3 DEF Fit, Plain, Proxies, Made
  <2>2. Fit(<<"wl_seat", "u", "i", "i">>, <<"o", "u", "i", "i">>, XdgTypes, 12, "")
    BY <1>3 DEF Fit, Plain, Proxies, Made
  <2>3. Fit(<<"wl_seat", "u">>, <<"o", "u">>, XdgTypes, 16, "")
    BY <1>3 DEF Fit, Plain, Proxies, Made
  <2>4. Fit(<<"wl_seat", "u", "u">>, <<"o", "u", "u">>, XdgTypes, 18, "")
    BY <1>3 DEF Fit, Plain, Proxies, Made
  <2>5. Fit(<<"wl_output">>, <<"?o">>, XdgTypes, 21, "")
    BY <1>3 DEF Fit, Plain, Proxies, Made
  <2> QED
    BY <2>1, <2>2, <2>3, <2>4, <2>5
<1>5. Agree("destroy", F.destroy, R, XdgTypes)
  BY <1>1, <1>2, Scalars, <1>4, Match, Zenon
<1>6. Agree("set_parent", F.set_parent, R, XdgTypes)
  BY <1>1, <1>2, Scalars, <1>4, Match, Zenon
<1>7. Agree("set_title", F.set_title, R, XdgTypes)
  BY <1>1, <1>2, Scalars, <1>4, Match, Zenon
<1>8. Agree("set_app_id", F.set_app_id, R, XdgTypes)
  BY <1>1, <1>2, Scalars, <1>4, Match, Zenon
<1>9. Agree("show_window_menu", F.show_window_menu, R, XdgTypes)
  BY <1>1, <1>2, Scalars, <1>4, Match, Zenon
<1>10. Agree("move", F.move, R, XdgTypes)
  BY <1>1, <1>2, Scalars, <1>4, Match, Zenon
<1>11. Agree("resize", F.resize, R, XdgTypes)
  BY <1>1, <1>2, Scalars, <1>4, Match, Zenon
<1>12. Agree("set_max_size", F.set_max_size, R, XdgTypes)
  BY <1>1, <1>2, Scalars, <1>4, Match, Zenon
<1>13. Agree("set_min_size", F.set_min_size, R, XdgTypes)
  BY <1>1, <1>2, Scalars, <1>4, Match, Zenon
<1>14. Agree("set_maximized", F.set_maximized, R, XdgTypes)
  BY <1>1, <1>2, Scalars, <1>4, Match, Zenon
<1>15. Agree("unset_maximized", F.unset_maximized, R, XdgTypes)
  BY <1>1, <1>2, Scalars, <1>4, Match, Zenon
<1>16. Agree("set_fullscreen", F.set_fullscreen, R, XdgTypes)
  BY <1>1, <1>2, Scalars, <1>4, Match, Zenon
<1>17. Agree("unset_fullscreen", F.unset_fullscreen, R, XdgTypes)
  BY <1>1, <1>2, Scalars, <1>4, Match, Zenon
<1>18. Agree("set_minimized", F.set_minimized, R, XdgTypes)
  BY <1>1, <1>2, Scalars, <1>4, Match, Zenon
<1> QED
  BY <1>1, <1>5, <1>6, <1>7, <1>8, <1>9, <1>10, <1>11, <1>12, <1>13, <1>14, <1>15, <1>16,
     <1>17, <1>18 DEF F, R

LEMMA PopupTable ==
  \A name \in DOMAIN PopupFn : Agree(name, PopupFn[name], PopupRequests, XdgTypes)
<1> DEFINE F == PopupFn R == PopupRequests
<1>1. /\ DOMAIN F = {"destroy", "grab", "reposition"}
      /\ Is(F.destroy, 0, 1, <<>>, "", TRUE)
      /\ Is(F.grab, 1, 1, <<"wl_seat", "u">>, "", FALSE)
      /\ Is(F.reposition, 2, 3, <<"xdg_positioner", "u">>, "", FALSE)
  BY FnIs, NewIs, DestroyIs DEF PopupFn
<1>2. /\ Row(R, 0, "destroy", 1, <<>>, 0)
      /\ Row(R, 1, "grab", 1, <<"o", "u">>, 22)
      /\ Row(R, 2, "reposition", 3, <<"o", "u">>, 24)
  BY RowIs DEF PopupRequests
<1>3. /\ XdgTypes[23] = "wl_seat" /\ XdgTypes[25] = "xdg_positioner"
  BY DEF XdgTypes
<1> HIDE DEF F, R
<1>4. /\ Fit(<<"wl_seat", "u">>, <<"o", "u">>, XdgTypes, 22, "")
      /\ Fit(<<"xdg_positioner", "u">>, <<"o", "u">>, XdgTypes, 24, "")
  <2>1. Fit(<<"wl_seat", "u">>, <<"o", "u">>, XdgTypes, 22, "")
    BY <1>3 DEF Fit, Plain, Proxies, Made
  <2>2. Fit(<<"xdg_positioner", "u">>, <<"o", "u">>, XdgTypes, 24, "")
    BY <1>3 DEF Fit, Plain, Proxies, Made
  <2> QED
    BY <2>1, <2>2
<1>5. Agree("destroy", F.destroy, R, XdgTypes)
  BY <1>1, <1>2, Scalars, <1>4, Match, Zenon
<1>6. Agree("grab", F.grab, R, XdgTypes)
  BY <1>1, <1>2, Scalars, <1>4, Match, Zenon
<1>7. Agree("reposition", F.reposition, R, XdgTypes)
  BY <1>1, <1>2, Scalars, <1>4, Match, Zenon
<1> QED
  BY <1>1, <1>5, <1>6, <1>7 DEF F, R

LEMMA DmabufTable ==
  \A name \in DOMAIN DmabufFn : Agree(name, DmabufFn[name], DmabufRequests, DmabufTypes)
<1> DEFINE F == DmabufFn R == DmabufRequests
<1>1. /\ DOMAIN F = {"destroy", "create_params", "get_default_feedback",
                    "get_surface_feedback"}
      /\ Is(F.destroy, 0, 1, <<>>, "", TRUE)
      /\ Is(F.create_params, 1, 1, <<"n">>, "zwp_linux_buffer_params_v1", FALSE)
      /\ Is(F.get_default_feedback, 2, 4, <<"n">>, "zwp_linux_dmabuf_feedback_v1", FALSE)
      /\ Is(F.get_surface_feedback, 3, 4, <<"n", "wl_surface">>, "zwp_linux_dmabuf_feedback_v1", FALSE)
  BY FnIs, NewIs, DestroyIs DEF DmabufFn
<1>2. /\ Row(R, 0, "destroy", 1, <<>>, 0)
      /\ Row(R, 1, "create_params", 1, <<"n">>, 6)
      /\ Row(R, 2, "get_default_feedback", 4, <<"n">>, 7)
      /\ Row(R, 3, "get_surface_feedback", 4, <<"n", "o">>, 8)
  BY RowIs DEF DmabufRequests
<1>3. /\ DmabufTypes[7] = "zwp_linux_buffer_params_v1"
      /\ DmabufTypes[8] = "zwp_linux_dmabuf_feedback_v1"
      /\ DmabufTypes[9] = "zwp_linux_dmabuf_feedback_v1" /\ DmabufTypes[10] = "wl_surface"
  BY DEF DmabufTypes
<1> HIDE DEF F, R
<1>4. /\ Fit(<<"n">>, <<"n">>, DmabufTypes, 6, "zwp_linux_buffer_params_v1")
      /\ Fit(<<"n">>, <<"n">>, DmabufTypes, 7, "zwp_linux_dmabuf_feedback_v1")
      /\ Fit(<<"n", "wl_surface">>, <<"n", "o">>, DmabufTypes, 8, "zwp_linux_dmabuf_feedback_v1")
  <2>1. Fit(<<"n">>, <<"n">>, DmabufTypes, 6, "zwp_linux_buffer_params_v1")
    BY <1>3 DEF Fit, Plain, Proxies, Made
  <2>2. Fit(<<"n">>, <<"n">>, DmabufTypes, 7, "zwp_linux_dmabuf_feedback_v1")
    BY <1>3 DEF Fit, Plain, Proxies, Made
  <2>3. Fit(<<"n", "wl_surface">>, <<"n", "o">>, DmabufTypes, 8, "zwp_linux_dmabuf_feedback_v1")
    BY <1>3 DEF Fit, Plain, Proxies, Made
  <2> QED
    BY <2>1, <2>2, <2>3
<1>5. Agree("destroy", F.destroy, R, DmabufTypes)
  BY <1>1, <1>2, Scalars, <1>4, Match, Zenon
<1>6. Agree("create_params", F.create_params, R, DmabufTypes)
  BY <1>1, <1>2, Scalars, <1>4, Match, Zenon
<1>7. Agree("get_default_feedback", F.get_default_feedback, R, DmabufTypes)
  BY <1>1, <1>2, Scalars, <1>4, Match, Zenon
<1>8. Agree("get_surface_feedback", F.get_surface_feedback, R, DmabufTypes)
  BY <1>1, <1>2, Scalars, <1>4, Match, Zenon
<1> QED
  BY <1>1, <1>5, <1>6, <1>7, <1>8 DEF F, R

LEMMA ParamsTable ==
  \A name \in DOMAIN ParamsFn : Agree(name, ParamsFn[name], ParamsRequests, DmabufTypes)
<1> DEFINE F == ParamsFn R == ParamsRequests
<1>1. /\ DOMAIN F = {"destroy", "add", "create", "create_immed"}
      /\ Is(F.destroy, 0, 1, <<>>, "", TRUE)
      /\ Is(F.add, 1, 1, <<"h", "u", "u", "u", "u", "u">>, "", FALSE)
      /\ Is(F.create, 2, 1, <<"i", "i", "u", "u">>, "", FALSE)
      /\ Is(F.create_immed, 3, 2, <<"n", "i", "i", "u", "u">>, "wl_buffer", FALSE)
  BY FnIs, NewIs, DestroyIs DEF ParamsFn
<1>2. /\ Row(R, 0, "destroy", 1, <<>>, 0)
      /\ Row(R, 1, "add", 1, <<"h", "u", "u", "u", "u", "u">>, 0)
      /\ Row(R, 2, "create", 1, <<"i", "i", "u", "u">>, 0)
      /\ Row(R, 3, "create_immed", 2, <<"n", "i", "i", "u", "u">>, 10)
  BY RowIs DEF ParamsRequests
<1>3. /\ DmabufTypes[11] = "wl_buffer"
  BY DEF DmabufTypes
<1> HIDE DEF F, R
<1>4. /\ Fit(<<"n", "i", "i", "u", "u">>, <<"n", "i", "i", "u", "u">>, DmabufTypes, 10, "wl_buffer")
  BY <1>3 DEF Fit, Plain, Proxies, Made
<1>5. Agree("destroy", F.destroy, R, DmabufTypes)
  BY <1>1, <1>2, Scalars, <1>4, Match, Zenon
<1>6. Agree("add", F.add, R, DmabufTypes)
  BY <1>1, <1>2, Scalars, <1>4, Match, Zenon
<1>7. Agree("create", F.create, R, DmabufTypes)
  BY <1>1, <1>2, Scalars, <1>4, Match, Zenon
<1>8. Agree("create_immed", F.create_immed, R, DmabufTypes)
  BY <1>1, <1>2, Scalars, <1>4, Match, Zenon
<1> QED
  BY <1>1, <1>5, <1>6, <1>7, <1>8 DEF F, R

LEMMA FeedbackTable ==
  \A name \in DOMAIN FeedbackFn : Agree(name, FeedbackFn[name], FeedbackRequests, DmabufTypes)
<1> DEFINE F == FeedbackFn R == FeedbackRequests
<1>1. /\ DOMAIN F = {"destroy"}
      /\ Is(F.destroy, 0, 1, <<>>, "", TRUE)
  BY FnIs, NewIs, DestroyIs DEF FeedbackFn
<1>2. /\ Row(R, 0, "destroy", 1, <<>>, 0)
  BY RowIs DEF FeedbackRequests
<1> HIDE DEF F, R
<1>5. Agree("destroy", F.destroy, R, DmabufTypes)
  BY <1>1, <1>2, Scalars, Match, Zenon
<1> QED
  BY <1>1, <1>5 DEF F, R

-----------------------------------------------------------------------------
\* The interfaces that the tables know, and all others.
Kinds == DOMAIN Calls \cup {"wl_surface", "wl_seat", "wl_output", "wl_buffer", ""}

LEMMA Ifaces ==
  /\ DOMAIN Calls = DOMAIN Interfaces /\ DOMAIN Calls \subseteq Kinds
  /\ Made \subseteq Kinds \ {""} /\ Proxies \subseteq Kinds \ {""}
  /\ "" \in Kinds /\ "zombie" \notin Kinds /\ "" \notin DOMAIN Calls
  /\ Proxies \cap Plain = {}
<1>1. DOMAIN Calls =
        {"xdg_wm_base", "xdg_positioner", "xdg_surface", "xdg_toplevel", "xdg_popup",
         "zwp_linux_dmabuf_v1", "zwp_linux_buffer_params_v1", "zwp_linux_dmabuf_feedback_v1"}
  BY DEF Calls
<1>2. DOMAIN Interfaces = DOMAIN Calls
  BY <1>1 DEF Interfaces
<1> HIDE DEF Calls, Interfaces
<1> QED
  BY <1>1, <1>2 DEF Kinds, Made, Proxies, Plain

\* What a client's request function passes is what the table tells libwayland to send and
\* the server to read: for every function of the two protocols.
THEOREM HalvesAgree ==
  \A iface \in DOMAIN Calls : \A name \in DOMAIN Calls[iface] :
    Agree(name, Calls[iface][name], Interfaces[iface].requests, Interfaces[iface].types)
<1>1. /\ DOMAIN Calls =
           {"xdg_wm_base", "xdg_positioner", "xdg_surface", "xdg_toplevel", "xdg_popup",
            "zwp_linux_dmabuf_v1", "zwp_linux_buffer_params_v1", "zwp_linux_dmabuf_feedback_v1"}
      /\ Calls["xdg_wm_base"] = WmBaseFn /\ Calls["xdg_positioner"] = PositionerFn
      /\ Calls["xdg_surface"] = XdgSurfaceFn /\ Calls["xdg_toplevel"] = ToplevelFn
      /\ Calls["xdg_popup"] = PopupFn /\ Calls["zwp_linux_dmabuf_v1"] = DmabufFn
      /\ Calls["zwp_linux_buffer_params_v1"] = ParamsFn
      /\ Calls["zwp_linux_dmabuf_feedback_v1"] = FeedbackFn
  BY DEF Calls
<1> DEFINE Half(iface, requests_, types_) ==
             Interfaces[iface].requests = requests_ /\ Interfaces[iface].types = types_
<1>2. /\ Half("xdg_wm_base", WmBaseRequests, XdgTypes)
      /\ Half("xdg_positioner", PositionerRequests, XdgTypes)
      /\ Half("xdg_surface", XdgSurfaceRequests, XdgTypes)
      /\ Half("xdg_toplevel", ToplevelRequests, XdgTypes)
      /\ Half("xdg_popup", PopupRequests, XdgTypes)
      /\ Half("zwp_linux_dmabuf_v1", DmabufRequests, DmabufTypes)
      /\ Half("zwp_linux_buffer_params_v1", ParamsRequests, DmabufTypes)
      /\ Half("zwp_linux_dmabuf_feedback_v1", FeedbackRequests, DmabufTypes)
  BY DEF Interfaces, Interface
<1> QED
  BY <1>1, <1>2, WmBaseTable, PositionerTable, XdgSurfaceTable, ToplevelTable, PopupTable,
     DmabufTable, ParamsTable, FeedbackTable

\* What the row of an event is named the listener's member at its place is named.
Heard(listener, table) ==
  \A op \in DOMAIN table : /\ op \in Nat \ {0}
                           /\ table[op].name # "delete_id"
                           /\ listener[op] = table[op].name

LEMMA EventName == \A name, since, sig, types : Msg(name, since, sig, types).name = name
BY DEF Msg

\* An event's opcode counts to the listener member of its name.
LEMMA ListenersHear ==
  \A iface \in DOMAIN Interfaces : Heard(Listeners[iface], Interfaces[iface].events)
<1>1. /\ Heard(WmBaseListener, WmBaseEvents)
      /\ Heard(XdgSurfaceListener, XdgSurfaceEvents)
      /\ \A l : Heard(l, <<>>)
  BY EventName DEF Heard, WmBaseListener, WmBaseEvents, XdgSurfaceListener, XdgSurfaceEvents
<1>2. Heard(ToplevelListener, ToplevelEvents)
  BY EventName DEF Heard, ToplevelListener, ToplevelEvents
<1>3. Heard(PopupListener, PopupEvents)
  BY EventName DEF Heard, PopupListener, PopupEvents
<1>4. Heard(DmabufListener, DmabufEvents)
  BY EventName DEF Heard, DmabufListener, DmabufEvents
<1>5. Heard(ParamsListener, ParamsEvents)
  BY EventName DEF Heard, ParamsListener, ParamsEvents
<1>6. Heard(FeedbackListener, FeedbackEvents)
  BY EventName DEF Heard, FeedbackListener, FeedbackEvents
<1>7. /\ Listeners["xdg_wm_base"] = WmBaseListener
      /\ Listeners["xdg_surface"] = XdgSurfaceListener
      /\ Listeners["xdg_toplevel"] = ToplevelListener
      /\ Listeners["xdg_popup"] = PopupListener
      /\ Listeners["zwp_linux_dmabuf_v1"] = DmabufListener
      /\ Listeners["zwp_linux_buffer_params_v1"] = ParamsListener
      /\ Listeners["zwp_linux_dmabuf_feedback_v1"] = FeedbackListener
  BY DEF Listeners
<1>8. /\ DOMAIN Interfaces =
           {"xdg_wm_base", "xdg_positioner", "xdg_surface", "xdg_toplevel", "xdg_popup",
            "zwp_linux_dmabuf_v1", "zwp_linux_buffer_params_v1", "zwp_linux_dmabuf_feedback_v1"}
      /\ Interfaces["xdg_wm_base"].events = WmBaseEvents
      /\ Interfaces["xdg_positioner"].events = <<>>
      /\ Interfaces["xdg_surface"].events = XdgSurfaceEvents
      /\ Interfaces["xdg_toplevel"].events = ToplevelEvents
      /\ Interfaces["xdg_popup"].events = PopupEvents
      /\ Interfaces["zwp_linux_dmabuf_v1"].events = DmabufEvents
      /\ Interfaces["zwp_linux_buffer_params_v1"].events = ParamsEvents
      /\ Interfaces["zwp_linux_dmabuf_feedback_v1"].events = FeedbackEvents
  BY DEF Interfaces, Interface
<1> QED
  BY <1>1, <1>2, <1>3, <1>4, <1>5, <1>6, <1>7, <1>8
-----------------------------------------------------------------------------
\* The inductive invariant.  L gives each id the object that it stands for, or stood for
\* last, in every message on its way.

Object == [iface : Kinds, version : 0 .. 7]

Live(id) == proxies[id] \notin {None, Zombie}

Names(m, id) == m.id = id \/ \E i \in DOMAIN m.args : m.args[i] = <<"o", id>>

Destroys(m, id) == m.name = "destroy" /\ m.id = id

IsSeq(q) == \E S : q \in Seq(S)

\* A request that says of L's objects what its function says.
Passed(m, L, fn) ==
  /\ m.opcode = fn.opcode /\ fn.since <= L[m.id].version
  /\ DOMAIN m.args = DOMAIN fn.args
  /\ \A i \in DOMAIN fn.args :
       /\ fn.args[i] = "n" =>
            \E new \in Ids : /\ m.args[i] = <<"n", new>>
                             /\ L[new] = [iface |-> fn.new, version |-> L[m.id].version]
       /\ fn.args[i] \in Plain \ {"n"} => m.args[i] = <<fn.args[i], 0>>
       /\ fn.args[i] \notin Plain =>
            \E a \in Id : /\ m.args[i] = <<"o", a>>
                          /\ \/ L[a].iface = fn.args[i]
                             \/ a = 0 /\ Nullable(L[m.id].iface, fn, i)

Sent(m, L) ==
  /\ m.id \in Id /\ L[m.id].iface \in DOMAIN Calls
  /\ m.name \in DOMAIN Calls[L[m.id].iface]
  /\ Passed(m, L, Calls[L[m.id].iface][m.name])

\* An event of the object's interface.
Reported(e, L) ==
  /\ proxies[e.id] # None
  /\ e.iface = L[e.id].iface /\ e.iface \in DOMAIN Interfaces
  /\ e.opcode + 1 \in DOMAIN Interfaces[e.iface].events
  /\ Interfaces[e.iface].events[e.opcode + 1].name = e.name

Types ==
  /\ proxies \in [Id -> Object \cup {Zombie}] /\ proxies[0] = None
  /\ objects \in [Id -> Object]
  /\ IsSeq(requests) /\ IsSeq(events)
  /\ wrong = FALSE

\* L is what both sides hold.
Holds(L) ==
  /\ L[0] = None
  /\ \A id \in Id : Live(id) => L[id] = proxies[id]
  /\ \A id \in Id : objects[id] # None => objects[id] = L[id]

WellSent(L) == \A k \in DOMAIN requests : Sent(requests[k], L)

\* What a request names is there when it arrives, what it makes is not, and nothing
\* follows a destroy.
Arrives ==
  \A k \in DOMAIN requests : \A id \in Id \ {0} :
    /\ Names(requests[k], id) =>
         objects[id] # None \/ \E j \in DOMAIN requests : j < k /\ Creates(requests[j], id)
    /\ Creates(requests[k], id) =>
         objects[id] = None /\ \A j \in DOMAIN requests : Creates(requests[j], id) => j = k
    /\ Destroys(requests[k], id) =>
         proxies[id] = Zombie /\ \A j \in DOMAIN requests : j > k => ~Names(requests[j], id)

\* A live proxy has its object, or the request that makes it is on its way.
Present ==
  \A id \in Id : Live(id) =>
    objects[id] # None \/ \E k \in DOMAIN requests : Creates(requests[k], id)

Absent(q, id) == \A j \in DOMAIN q : ~Names(q[j], id) /\ ~Creates(q[j], id)

\* A delete_id is the last that is said of an id, and no message knows a free one.
Freed ==
  /\ \A k \in DOMAIN events : events[k].name = "delete_id" =>
       /\ proxies[events[k].id] = Zombie /\ objects[events[k].id] = None
       /\ Absent(requests, events[k].id)
       /\ \A j \in DOMAIN events : j > k => events[j].id # events[k].id
  /\ \A id \in Id \ {0} : proxies[id] = None =>
       objects[id] = None /\ Absent(requests, id) /\ \A j \in DOMAIN events : events[j].id # id

WellReported(L) ==
  \A k \in DOMAIN events :
    events[k].id \in Id /\ (events[k].name # "delete_id" => Reported(events[k], L))

WireInv(L) ==
  Types /\ Holds(L) /\ WellSent(L) /\ Arrives /\ Present /\ Freed /\ WellReported(L)
-----------------------------------------------------------------------------
\* Queues that grow and shrink: r is q with m behind it, or without its head.
Grown(q, r, m) ==
  /\ IsSeq(r)
  /\ \E l \in Nat : /\ l \notin DOMAIN q /\ DOMAIN r = DOMAIN q \cup {l} /\ r[l] = m
                    /\ \A k \in DOMAIN q : k < l /\ k \in Nat /\ r[k] = q[k]
                    /\ \A k \in DOMAIN r : ~(k > l)

LEMMA Grows == ASSUME NEW q, IsSeq(q), NEW m  PROVE Grown(q, Append(q, m), m)
<1> PICK S : q \in Seq(S)
  BY DEF IsSeq
<1> DEFINE T == S \cup {m}
<1>1. q \in Seq(T) /\ m \in T
  OBVIOUS
<1>2. /\ Append(q, m) \in Seq(T) /\ Len(Append(q, m)) = Len(q) + 1 /\ Len(q) \in Nat
      /\ DOMAIN q = 1 .. Len(q) /\ DOMAIN Append(q, m) = 1 .. Len(q) + 1
      /\ \A k \in 1 .. Len(q) : Append(q, m)[k] = q[k]
      /\ Append(q, m)[Len(q) + 1] = m
  BY <1>1, AppendProperties, LenProperties
<1> HIDE DEF T
<1>3. /\ Len(q) + 1 \in Nat /\ Len(q) + 1 \notin 1 .. Len(q)
      /\ 1 .. Len(q) + 1 = 1 .. Len(q) \cup {Len(q) + 1}
      /\ \A k \in 1 .. Len(q) : k < Len(q) + 1 /\ k \in Nat
      /\ \A k \in 1 .. Len(q) + 1 : ~(k > Len(q) + 1)
  BY <1>2
<1> QED
  BY <1>2, <1>3 DEF IsSeq, Grown

Shrunk(q, r) ==
  /\ IsSeq(r) /\ 1 \in DOMAIN q
  /\ \A k \in DOMAIN q : k \in Nat /\ k >= 1 /\ (k # 1 => k - 1 \in DOMAIN r)
  /\ \A k \in DOMAIN r : k \in Nat /\ k + 1 \in DOMAIN q /\ k + 1 > 1 /\ r[k] = q[k + 1]

LEMMA Shrinks ==
  ASSUME NEW q, IsSeq(q), q # <<>>
  PROVE  Shrunk(q, Tail(q)) /\ Head(q) = q[1]
<1> PICK S : q \in Seq(S)
  BY DEF IsSeq
<1>1. /\ Tail(q) \in Seq(S) /\ Len(Tail(q)) = Len(q) - 1 /\ Len(q) \in Nat /\ Len(q) > 0
      /\ DOMAIN q = 1 .. Len(q) /\ DOMAIN Tail(q) = 1 .. Len(q) - 1
      /\ \A k \in 1 .. Len(q) - 1 : Tail(q)[k] = q[k + 1]
      /\ Head(q) = q[1]
  BY HeadTailProperties, LenProperties, EmptySeq
<1>2. /\ 1 \in 1 .. Len(q)
      /\ \A k \in 1 .. Len(q) : k \in Nat /\ k >= 1 /\ (k # 1 => k - 1 \in 1 .. Len(q) - 1)
      /\ \A k \in 1 .. Len(q) - 1 : k \in Nat /\ k + 1 \in 1 .. Len(q) /\ k + 1 > 1
  BY <1>1
<1> QED
  BY <1>1, <1>2 DEF IsSeq, Shrunk

LEMMA Basics ==
  /\ 0 \in Id /\ Ids \subseteq Id /\ 0 \notin Ids
  /\ None \in Object /\ Zombie \notin Object /\ None # Zombie
  /\ None.iface = "" /\ Zombie.iface = "zombie"
<1>1. 0 \in Id /\ Ids \subseteq Id /\ 0 \notin Ids
  BY WireAssumption DEF Id
<1>2. None.iface = "" /\ Zombie.iface = "zombie" /\ None.version = 0
  BY DEF None, Zombie
<1>4. None \in Object
  <2>1. 0 \in 0 .. 7
    OBVIOUS
  <2>2. "" \in Kinds
    BY Ifaces
  <2> QED
    BY <2>1, <2>2 DEF None, Object
<1>3. Zombie \notin Object
  BY <1>2, Ifaces DEF Object
<1> QED
  BY <1>1, <1>2, <1>3, <1>4

\* The client's object of an id that lives.
LEMMA Lives ==
  ASSUME NEW L, WireInv(L), NEW id \in Id, Live(id)
  PROVE  /\ id # 0 /\ L[id] = proxies[id] /\ proxies[id] \in Object
         /\ proxies[id].iface \in Kinds /\ proxies[id].version \in 0 .. 7
<1>1. L[id] = proxies[id] /\ proxies[id] \in Object /\ id # 0
  BY DEF WireInv, Holds, Types, Live
<1> QED
  BY <1>1 DEF Object

\* Arguments of different kinds differ.
LEMMA Pairs ==
  \A a, b : /\ <<"o", a>> # <<"n", b>>
            /\ <<"o", a>> = <<"o", b>> => a = b
            /\ <<"n", a>> = <<"n", b>> => a = b
            /\ \A x \in Plain \ {"n"} : <<x, a>> # <<"n", b>> /\ <<x, a>> # <<"o", b>>
<1>1. \A a, b, c, d : <<a, b>> = <<c, d>> => a = c /\ b = d
  OBVIOUS
<1>2. "o" # "n" /\ \A x \in Plain \ {"n"} : x # "n" /\ x # "o"
  BY DEF Plain
<1> QED
  BY <1>1, <1>2, Zenon

LEMMA InitWire == Init => \E L \in [Id -> Object] : WireInv(L)
<1> SUFFICES ASSUME Init  PROVE proxies \in [Id -> Object] /\ WireInv(proxies)
  OBVIOUS
<1> PICK v \in Versions : proxies = [id \in Id |-> Bound(v, id)]
  BY DEF Init
<1>1. v \in 1 .. 7
  BY WireAssumption
<1>2. \A id \in Id : Bound(v, id) \in Object
  <2> SUFFICES ASSUME NEW id \in Id  PROVE Bound(v, id) \in Object
    OBVIOUS
  <2>1. /\ v \in 0 .. 7 /\ (IF v > 5 THEN 5 ELSE v) \in 0 .. 7 /\ 4 \in 0 .. 7 /\ 7 \in 0 .. 7
        /\ {"xdg_wm_base", "zwp_linux_dmabuf_v1", "wl_surface", "wl_seat", "wl_output"}
             \subseteq Kinds
    BY <1>1 DEF Kinds, Calls
  <2> QED
    BY <2>1, Basics DEF Bound, Object
<1>3. proxies[0] = None /\ \A id \in Id : proxies[id] = Bound(v, id)
  <2>1. Bound(v, 0) = None
    BY DEF Bound
  <2> HIDE DEF Bound
  <2> QED
    BY <2>1, Basics
<1>4. proxies \in [Id -> Object] /\ objects = proxies
  BY <1>2 DEF Init
<1>5. requests = <<>> /\ events = <<>> /\ wrong = FALSE /\ DOMAIN <<>> = {}
  BY DEF Init
<1>6. IsSeq(requests) /\ IsSeq(events)
  BY <1>5 DEF IsSeq
<1>7. Types /\ Holds(proxies)
  BY <1>3, <1>4, <1>5, <1>6 DEF Types, Holds
<1>8. WellSent(proxies) /\ Arrives /\ Freed /\ WellReported(proxies)
  BY <1>4, <1>5 DEF WellSent, Arrives, Freed, WellReported, Absent
<1>9. Present
  BY <1>4 DEF Present, Live
<1> QED
  BY <1>4, <1>7, <1>8, <1>9 DEF WireInv

\* A request says the same of objects that agree on the ids in it.
LEMMA SameSent ==
  ASSUME NEW m, NEW L, NEW K, Sent(m, L), \A i \in Id : Names(m, i) \/ Creates(m, i) => K[i] = L[i]
  PROVE  Sent(m, K)
<1>1. K[m.id] = L[m.id]
  BY DEF Sent, Names
<1> DEFINE fn == Calls[L[m.id].iface][m.name]
<1>2. Passed(m, L, fn)
  BY DEF Sent
<1> HIDE DEF fn
<1>3. ASSUME NEW i \in DOMAIN fn.args
      PROVE  /\ fn.args[i] = "n" =>
                  \E new \in Ids : /\ m.args[i] = <<"n", new>>
                                   /\ K[new] = [iface |-> fn.new, version |-> K[m.id].version]
             /\ fn.args[i] \in Plain \ {"n"} => m.args[i] = <<fn.args[i], 0>>
             /\ fn.args[i] \notin Plain =>
                  \E a \in Id : /\ m.args[i] = <<"o", a>>
                                /\ \/ K[a].iface = fn.args[i]
                                   \/ a = 0 /\ Nullable(K[m.id].iface, fn, i)
  <2>1. i \in DOMAIN m.args
    BY <1>2 DEF Passed
  <2>2. ASSUME fn.args[i] = "n"
        PROVE  \E new \in Ids : /\ m.args[i] = <<"n", new>>
                                /\ K[new] = [iface |-> fn.new, version |-> K[m.id].version]
    <3> PICK new \in Ids : /\ m.args[i] = <<"n", new>>
                           /\ L[new] = [iface |-> fn.new, version |-> L[m.id].version]
      BY <1>2, <2>2 DEF Passed
    <3>1. Creates(m, new) /\ new \in Id
      BY <2>1, Basics DEF Creates
    <3> QED
      BY <1>1, <3>1
  <2>3. ASSUME fn.args[i] \notin Plain
        PROVE  \E a \in Id : /\ m.args[i] = <<"o", a>>
                             /\ \/ K[a].iface = fn.args[i]
                                \/ a = 0 /\ Nullable(K[m.id].iface, fn, i)
    <3> PICK a \in Id : /\ m.args[i] = <<"o", a>>
                        /\ \/ L[a].iface = fn.args[i]
                           \/ a = 0 /\ Nullable(L[m.id].iface, fn, i)
      BY <1>2, <2>3 DEF Passed
    <3>1. Names(m, a)
      BY <2>1 DEF Names
    <3> QED
      BY <1>1, <3>1
  <2> QED
    BY <1>2, <2>2, <2>3 DEF Passed
<1>4. Passed(m, K, fn)
  BY <1>1, <1>2, <1>3 DEF Passed
<1> QED
  BY <1>1, <1>4 DEF Sent, fn

-----------------------------------------------------------------------------
\* A request is called.
LEMMA CallWire ==
  ASSUME NEW L \in [Id -> Object], WireInv(L), NEW id \in Id, Callable(id),
         NEW name \in DOMAIN Calls[proxies[id].iface], Call(id, name)
  PROVE  \E K \in [Id -> Object] : WireInv(K)'
<1> DEFINE fn == Calls[proxies[id].iface][name]
           proxyArgs == {i \in DOMAIN fn.args : fn.args[i] \notin {"n", "i", "u", "s", "h"}}
<1>1. Live(id) /\ L[id] = proxies[id] /\ id # 0 /\ proxies[id].version \in 0 .. 7
  BY Lives, Ifaces, Basics DEF Live, Callable
<1>2. Agree(name, fn, Interfaces[proxies[id].iface].requests, Interfaces[proxies[id].iface].types)
  BY HalvesAgree DEF Callable
<1>3. /\ fn.new \in Made \cup {""} /\ (fn.new # "" => 1 \in DOMAIN fn.args /\ fn.args[1] = "n")
      /\ \A i \in DOMAIN fn.args : /\ fn.args[i] = "n" => fn.new # ""
                                   /\ fn.args[i] \in Plain \cup Proxies
      /\ IF name = "destroy" THEN fn.dtor = TRUE /\ fn.new = "" /\ fn.args = <<>>
                             ELSE fn.dtor = FALSE
  <2> HIDE DEF fn
  <2>1. fn.args \in Seq(Plain \cup Proxies)
    BY <1>2 DEF Agree, Fit
  <2>2. \A i \in DOMAIN fn.args : fn.args[i] \in Plain \cup Proxies
    BY <2>1, ElementOfSeq, LenProperties
  <2> QED
    BY <1>2, <2>2 DEF Agree, Fit
<1>4. PICK new \in (IF fn.new = "" THEN {0} ELSE FreeIds), arg \in [proxyArgs -> Id] :
        /\ \A i \in proxyArgs : \/ proxies[arg[i]].iface = fn.args[i]
                                \/ arg[i] = 0 /\ Nullable(proxies[id].iface, fn, i)
        /\ requests' = Append(requests,
             [id |-> id, opcode |-> fn.opcode, name |-> name,
              args |-> [i \in DOMAIN fn.args |->
                          IF fn.args[i] = "n" THEN <<"n", new>>
                          ELSE IF i \in proxyArgs THEN <<"o", arg[i]>>
                          ELSE <<fn.args[i], 0>>]])
        /\ proxies' = [i \in Id |->
             CASE i = new /\ new # 0 -> [iface |-> fn.new, version |-> proxies[id].version]
               [] i = id /\ fn.dtor  -> Zombie
               [] OTHER              -> proxies[i]]
  BY DEF Call
<1>5. fn.since <= proxies[id].version /\ UNCHANGED <<objects, events, wrong>>
  BY DEF Call
<1>6. PICK m : m = [id |-> id, opcode |-> fn.opcode, name |-> name,
                    args |-> [i \in DOMAIN fn.args |->
                                IF fn.args[i] = "n" THEN <<"n", new>>
                                ELSE IF i \in proxyArgs THEN <<"o", arg[i]>>
                                ELSE <<fn.args[i], 0>>]]
  OBVIOUS
<1>7. requests' = Append(requests, m)
  BY <1>4, <1>6
<1>8. PICK f : f = fn
  OBVIOUS
<1> DEFINE made == [iface |-> f.new, version |-> proxies[id].version]
<1>9. PICK K : K = [i \in Id |-> IF i = new /\ new # 0 THEN made ELSE L[i]]
  OBVIOUS
<1>10. /\ m.id = id /\ m.opcode = f.opcode /\ m.name = name /\ DOMAIN m.args = DOMAIN f.args
       /\ \A i \in DOMAIN f.args :
            /\ f.args[i] = "n" => m.args[i] = <<"n", new>>
            /\ f.args[i] \in Plain \ {"n"} => m.args[i] = <<f.args[i], 0>>
            /\ f.args[i] \notin Plain => m.args[i] = <<"o", arg[i]>>
  BY <1>6, <1>8 DEF Plain
<1>11. /\ f.new \in Made \cup {""} /\ (f.new # "" => 1 \in DOMAIN f.args /\ f.args[1] = "n")
       /\ \A i \in DOMAIN f.args : /\ f.args[i] = "n" => f.new # ""
                                   /\ f.args[i] \in Plain \cup Proxies
       /\ IF name = "destroy" THEN f.dtor = TRUE /\ f.new = "" /\ f.args = <<>>
                              ELSE f.dtor = FALSE
  BY <1>3, <1>8
<1>12. \A i \in DOMAIN f.args : f.args[i] \notin Plain =>
         /\ arg[i] \in Id
         /\ \/ proxies[arg[i]].iface = f.args[i] /\ f.args[i] \in Proxies
            \/ arg[i] = 0 /\ Nullable(proxies[id].iface, f, i)
  BY <1>4, <1>8, <1>11 DEF Plain
<1>13. f.new = "" => new = 0
  BY <1>4, <1>8
<1>14. f.new # "" => /\ new \in Ids /\ new \in Id /\ new # 0 /\ proxies[new] = None /\ new # id
                     /\ objects[new] = None /\ Absent(requests, new)
                     /\ \A j \in DOMAIN events : events[j].id # new
  <2> SUFFICES ASSUME f.new # ""
               PROVE  /\ new \in Ids /\ new \in Id /\ new # 0 /\ proxies[new] = None /\ new # id
                      /\ objects[new] = None /\ Absent(requests, new)
                      /\ \A j \in DOMAIN events : events[j].id # new
    OBVIOUS
  <2>1. new \in Ids /\ proxies[new] = None
    BY <1>4, <1>8 DEF FreeIds
  <2>2. new \in Id /\ new # 0 /\ new # id
    BY <2>1, <1>1, Basics DEF Live
  <2> QED
    BY <2>1, <2>2 DEF WireInv, Freed
<1>15. \A i \in Id : proxies'[i] = IF i = new /\ new # 0 THEN made
                                   ELSE IF i = id /\ name = "destroy" THEN Zombie
                                   ELSE proxies[i]
  BY <1>4, <1>8, <1>11
<1> HIDE DEF fn, proxyArgs
<1>16. new # 0 => made \in Object /\ made # None /\ made # Zombie /\ made.iface = f.new
  <2>1. made.iface = f.new /\ made.version = proxies[id].version
    OBVIOUS
  <2>2. new # 0 => f.new \in Made /\ f.new \in Kinds /\ f.new # ""
    BY <1>11, <1>13, Ifaces
  <2>3. new # 0 => made \in Object
    BY <1>1, <2>2 DEF Object
  <2> QED
    BY <2>1, <2>2, <2>3, Basics, Ifaces
<1> HIDE DEF made
<1>17. /\ K \in [Id -> Object] /\ K[0] = None /\ K[id] = L[id]
       /\ \A i \in Id : i # new \/ new = 0 => K[i] = L[i]
       /\ new # 0 => K[new] = made
  <2>1. \A i \in Id : (IF i = new /\ new # 0 THEN made ELSE L[i]) \in Object
    BY <1>16
  <2> QED
    BY <1>9, <2>1, <1>13, <1>14, Basics DEF WireInv, Holds
\* What the request names lives, and it makes nothing but new.
<1>18. \A i \in Id \ {0} : Names(m, i) => Live(i) /\ i # new
  <2> SUFFICES ASSUME NEW i \in Id \ {0}, Names(m, i)  PROVE Live(i) /\ i # new
    OBVIOUS
  <2>1. CASE i = id
    BY <1>1, <1>13, <1>14, <2>1
  <2>2. CASE \E j \in DOMAIN m.args : m.args[j] = <<"o", i>>
    <3> PICK j \in DOMAIN m.args : m.args[j] = <<"o", i>>
      BY <2>2
    <3>1. j \in DOMAIN f.args /\ f.args[j] \notin Plain /\ arg[j] = i
      BY <1>10, Pairs, Zenon
    <3>2. proxies[i].iface \in Proxies
      BY <3>1, <1>12
    <3>3. Live(i)
      BY <3>2, Basics, Ifaces DEF Live
    <3> QED
      BY <3>3, <1>13, <1>14 DEF Live
  <2> QED
    BY <2>1, <2>2, <1>10 DEF Names
<1>19. \A i : Creates(m, i) <=> i = new /\ new # 0
  <2>1. ASSUME NEW i, Creates(m, i)  PROVE i = new /\ new # 0
    <3> PICK j \in DOMAIN m.args : m.args[j] = <<"n", i>>
      BY <2>1 DEF Creates
    <3>0. j \in DOMAIN f.args /\ m.args[j] = <<"n", i>>
      BY <1>10
    <3>1. f.args[j] = "n"
      <4>1. f.args[j] \notin Plain \ {"n"}
        BY <3>0, <1>10, Pairs, Zenon
      <4>2. f.args[j] \in Plain
        BY <3>0, <1>10, Pairs, Zenon
      <4> QED
        BY <4>1, <4>2
    <3>2. new = i
      BY <3>0, <3>1, <1>10, Pairs, Zenon
    <3> QED
      BY <3>0, <3>1, <3>2, <1>11, <1>14
  <2>2. ASSUME new # 0  PROVE Creates(m, new)
    <3>1. 1 \in DOMAIN m.args /\ m.args[1] = <<"n", new>>
      BY <2>2, <1>10, <1>11, <1>13
    <3> QED
      BY <3>1 DEF Creates
  <2> QED
    BY <2>1, <2>2
\* The queue.
<1>20. IsSeq(requests') /\ IsSeq(events')
  <2>1. IsSeq(Append(requests, m)) /\ IsSeq(events)
    BY Grows DEF WireInv, Types, Grown
  <2> QED
    BY <2>1, <1>5, <1>7 DEF IsSeq
<1>21. PICK l \in Nat : /\ l \notin DOMAIN requests /\ DOMAIN requests' = DOMAIN requests \cup {l}
                        /\ requests'[l] = m
                        /\ \A k \in DOMAIN requests : k < l /\ k \in Nat /\ requests'[k] = requests[k]
                        /\ \A k \in DOMAIN requests' : ~(k > l)
  <2>1. IsSeq(requests)
    BY DEF WireInv, Types
  <2>2. Grown(requests, Append(requests, m), m)
    BY <2>1, Grows
  <2> QED
    BY <2>2, <1>7 DEF Grown
<1>22. Types' /\ Holds(K)'
  <2>1. proxies' \in [Id -> Object \cup {Zombie}] /\ proxies'[0] = None
    <3>1. \A i \in Id : proxies'[i] \in Object \cup {Zombie}
      BY <1>15, <1>16 DEF WireInv, Types
    <3>2. proxies' \in [Id -> Object \cup {Zombie}]
      BY <1>4, <3>1
    <3> QED
      BY <3>2, <1>1, <1>15, <1>13, Basics DEF WireInv, Types
  <2>2. ASSUME NEW i \in Id, Live(i)'  PROVE K[i] = proxies'[i]
    BY <2>2, <1>15, <1>17 DEF WireInv, Holds, Live
  <2>3. ASSUME NEW i \in Id, objects[i] # None  PROVE objects[i] = K[i]
    BY <2>3, <1>13, <1>14, <1>17 DEF WireInv, Holds
  <2> QED
    BY <2>1, <2>2, <2>3, <1>5, <1>17, <1>20 DEF WireInv, Types, Holds
\* What was known of new before.
<1>23. new # 0 => \A k \in DOMAIN requests : ~Names(requests[k], new) /\ ~Creates(requests[k], new)
  BY <1>13, <1>14 DEF Absent
<1>24. WellSent(K)'
  <2>1. ASSUME NEW k \in DOMAIN requests  PROVE Sent(requests[k], K)
    <3>1. \A i \in Id : Names(requests[k], i) \/ Creates(requests[k], i) => K[i] = L[i]
      BY <1>17, <1>23
    <3> QED
      BY <3>1, SameSent DEF WireInv, WellSent
  <2>2. Sent(m, K)
    <3>1. \A i \in DOMAIN f.args : f.args[i] = "n" =>
            \E a \in Ids : /\ m.args[i] = <<"n", a>>
                           /\ K[a] = [iface |-> f.new, version |-> K[id].version]
      BY <1>1, <1>10, <1>11, <1>14, <1>17 DEF made
    <3>2. ASSUME NEW i \in DOMAIN f.args, f.args[i] \notin Plain
          PROVE  \E a \in Id : /\ m.args[i] = <<"o", a>>
                               /\ K[a].iface = f.args[i] \/ (a = 0 /\ Nullable(K[id].iface, f, i))
      <4>1. arg[i] \in Id /\ m.args[i] = <<"o", arg[i]>>
        BY <1>10, <1>12, <3>2
      <4>2. CASE proxies[arg[i]].iface = f.args[i] /\ f.args[i] \in Proxies
        <5>1. Live(arg[i])
          BY <4>2, Basics, Ifaces DEF Live
        <5>2. arg[i] # new \/ new = 0
          BY <5>1, <1>13, <1>14 DEF Live
        <5>3. K[arg[i]] = proxies[arg[i]]
          BY <4>1, <5>1, <5>2, <1>17, Lives
        <5> QED
          BY <4>1, <4>2, <5>3
      <4>3. CASE arg[i] = 0 /\ Nullable(proxies[id].iface, f, i)
        BY <1>1, <1>17, <4>1, <4>3
      <4> QED
        BY <1>12, <3>2, <4>2, <4>3
    <3>3. Passed(m, K, f)
      <4>1. m.opcode = f.opcode /\ f.since <= K[m.id].version /\ DOMAIN m.args = DOMAIN f.args
        BY <1>1, <1>5, <1>8, <1>10, <1>17
      <4>2. \A i \in DOMAIN f.args : f.args[i] \in Plain \ {"n"} => m.args[i] = <<f.args[i], 0>>
        BY <1>10
      <4>3. m.id = id
        BY <1>10
      <4> QED
        BY <3>1, <3>2, <4>1, <4>2, <4>3 DEF Passed
    <3>4. m.id \in Id /\ K[m.id] = proxies[id] /\ m.name = name
      BY <1>1, <1>10, <1>17
    <3> QED
      BY <1>8, <3>3, <3>4 DEF Sent, Callable, fn
  <2> QED
    BY <1>21, <2>1, <2>2 DEF WellSent
<1>25. Arrives'
  <2> SUFFICES ASSUME NEW k \in DOMAIN requests', NEW i \in Id \ {0}
               PROVE
        /\ Names(requests'[k], i) =>
             objects[i] # None \/ \E j \in DOMAIN requests' : j < k /\ Creates(requests'[j], i)
        /\ Creates(requests'[k], i) =>
             objects[i] = None /\ \A j \in DOMAIN requests' : Creates(requests'[j], i) => j = k
        /\ Destroys(requests'[k], i) =>
             proxies'[i] = Zombie /\ \A j \in DOMAIN requests' : j > k => ~Names(requests'[j], i)
    BY <1>5 DEF Arrives
  <2>1. CASE k \in DOMAIN requests
    <3>1. /\ Names(requests[k], i) =>
               objects[i] # None \/ \E j \in DOMAIN requests : j < k /\ Creates(requests[j], i)
          /\ Creates(requests[k], i) =>
               objects[i] = None /\ \A j \in DOMAIN requests : Creates(requests[j], i) => j = k
          /\ Destroys(requests[k], i) =>
               proxies[i] = Zombie /\ \A j \in DOMAIN requests : j > k => ~Names(requests[j], i)
      BY <2>1 DEF WireInv, Arrives
    <3>2. ASSUME Creates(requests[k], i)
          PROVE  objects[i] = None /\ \A j \in DOMAIN requests' : Creates(requests'[j], i) => j = k
      BY <2>1, <3>1, <3>2, <1>19, <1>21, <1>23
    <3>3. ASSUME Destroys(requests[k], i)
          PROVE  proxies'[i] = Zombie /\ \A j \in DOMAIN requests' : j > k => ~Names(requests'[j], i)
      <4>1. proxies[i] = Zombie /\ ~Live(i)
        BY <3>1, <3>3 DEF Live
      <4>2. proxies'[i] = Zombie
        BY <4>1, <1>13, <1>14, <1>15, Basics
      <4> QED
        BY <4>1, <4>2, <3>1, <3>3, <1>18, <1>21
    <3> QED
      BY <2>1, <3>1, <3>2, <3>3, <1>21
  <2>2. CASE k = l
    <3>1. ASSUME Names(m, i)
          PROVE  objects[i] # None \/ \E j \in DOMAIN requests' : j < l /\ Creates(requests'[j], i)
      <4>1. objects[i] # None \/ \E j \in DOMAIN requests : Creates(requests[j], i)
        BY <3>1, <1>18 DEF WireInv, Present
      <4> QED
        BY <4>1, <1>21
    <3>2. ASSUME Creates(m, i)
          PROVE  objects[i] = None /\ \A j \in DOMAIN requests' : Creates(requests'[j], i) => j = l
      BY <3>2, <1>13, <1>14, <1>19, <1>21, <1>23
    <3>3. ASSUME Destroys(m, i)
          PROVE  proxies'[i] = Zombie /\ \A j \in DOMAIN requests' : j > l => ~Names(requests'[j], i)
      <4>1. i = id /\ name = "destroy" /\ (i # new \/ new = 0)
        BY <3>3, <1>10, <1>13, <1>14 DEF Destroys
      <4> QED
        BY <4>1, <1>15, <1>21
    <3> QED
      BY <2>2, <3>1, <3>2, <3>3, <1>21
  <2> QED
    BY <2>1, <2>2, <1>21
<1>26. Present'
  <2> SUFFICES ASSUME NEW i \in Id, Live(i)'
               PROVE  objects[i] # None \/ \E k \in DOMAIN requests' : Creates(requests'[k], i)
    BY <1>5 DEF Present, Creates
  <2>1. CASE i = new /\ new # 0
    BY <2>1, <1>19, <1>21
  <2>2. CASE ~(i = new /\ new # 0)
    <3>1. Live(i)
      BY <2>2, <1>15 DEF Live
    <3> QED
      BY <3>1, <1>21 DEF WireInv, Present
  <2> QED
    BY <2>1, <2>2
<1>27. ASSUME NEW i \in Id \ {0}, ~Live(i), Absent(requests, i), i # new  PROVE Absent(requests', i)
  <2>1. \A k \in DOMAIN requests' : ~Names(requests'[k], i) /\ ~Creates(requests'[k], i)
    BY <1>27, <1>18, <1>19, <1>21 DEF Absent
  <2> QED
    BY <2>1 DEF Absent, Names, Creates
<1>28. Freed'
  <2>1. ASSUME NEW k \in DOMAIN events, events[k].name = "delete_id"
        PROVE  /\ proxies'[events[k].id] = Zombie /\ objects[events[k].id] = None
               /\ Absent(requests', events[k].id)
               /\ \A j \in DOMAIN events : j > k => events[j].id # events[k].id
    <3> PICK i : i = events[k].id
      OBVIOUS
    <3>1. /\ proxies[i] = Zombie /\ objects[i] = None /\ Absent(requests, i) /\ i \in Id
          /\ \A j \in DOMAIN events : j > k => events[j].id # i
      BY <2>1 DEF WireInv, Freed, WellReported
    <3>2. i # 0 /\ ~Live(i) /\ i # id /\ (i # new \/ new = 0)
      BY <3>1, <1>1, <1>13, <1>14, Basics DEF WireInv, Types, Live
    <3>3. i # new /\ proxies'[i] = Zombie
      BY <3>1, <3>2, <1>15
    <3>4. Absent(requests', i)
      BY <3>1, <3>2, <3>3, <1>27
    <3> QED
      BY <3>1, <3>3, <3>4, <1>5
  <2>2. ASSUME NEW i \in Id \ {0}, proxies'[i] = None
        PROVE  objects[i] = None /\ Absent(requests', i) /\ \A j \in DOMAIN events : events[j].id # i
    <3>1. proxies[i] = None /\ ~Live(i) /\ i # new
      BY <2>2, <1>15, <1>16, Basics DEF Live
    <3> QED
      BY <3>1, <1>27 DEF WireInv, Freed
  <2> QED
    BY <2>1, <2>2, <1>5 DEF Freed
<1>29. WellReported(K)'
  <2> SUFFICES ASSUME NEW k \in DOMAIN events
               PROVE  /\ events[k].id \in Id
                      /\ events[k].name # "delete_id" => Reported(events[k], K)'
    BY <1>5 DEF WellReported, Reported
  <2>1. events[k].id \in Id /\ (events[k].name # "delete_id" => Reported(events[k], L))
    BY DEF WireInv, WellReported
  <2>2. ASSUME events[k].name # "delete_id"
        PROVE  /\ K[events[k].id] = L[events[k].id] /\ proxies'[events[k].id] # None
    BY <2>1, <2>2, <1>13, <1>14, <1>15, <1>17, Basics DEF Reported
  <2> QED
    BY <2>1, <2>2, <1>5 DEF Reported
<1> QED
  BY <1>17, <1>22, <1>24, <1>25, <1>26, <1>28, <1>29 DEF WireInv

-----------------------------------------------------------------------------
\* The request that arrives names objects that are there.
LEMMA HeadArrives ==
  ASSUME NEW L \in [Id -> Object], WireInv(L), NEW m, 1 \in DOMAIN requests, m = requests[1],
         \A j \in DOMAIN requests : j \in Nat /\ j >= 1
  PROVE  /\ Sent(m, L)
         /\ \A i \in Id : Names(m, i) => objects[i] = L[i] /\ (i # 0 => objects[i] # None)
         /\ \A i \in Id : Creates(m, i) => i = 0 \/ objects[i] = None
<1>1. Sent(m, L)
  BY DEF WireInv, WellSent
<1>2. ASSUME NEW i \in Id \ {0}, Names(m, i)  PROVE objects[i] # None
  <2>1. objects[i] # None \/ \E j \in DOMAIN requests : j < 1 /\ Creates(requests[j], i)
    BY <1>2 DEF WireInv, Arrives
  <2>2. \A j \in DOMAIN requests : ~(j < 1)
    OBVIOUS
  <2> QED
    BY <2>1, <2>2
<1>3. L[0] = None /\ objects[0] = None
  BY Basics DEF WireInv, Holds
<1>4. \A i \in Id : Names(m, i) => objects[i] = L[i] /\ (i # 0 => objects[i] # None)
  BY <1>2, <1>3 DEF WireInv, Holds
<1>5. \A i \in Id : Creates(m, i) => i = 0 \/ objects[i] = None
  BY DEF WireInv, Arrives
<1> QED
  BY <1>1, <1>4, <1>5

\* What a request is, by what the row of the table asks for.
Decoded(m, L, fn, row) ==
  LET o == L[m.id]
  IN  /\ row.name = m.name /\ row.since <= o.version
      /\ DOMAIN row.sig = DOMAIN m.args
      /\ m.name = "destroy" => DOMAIN m.args = {}
      /\ fn.new \in Made \cup {""}
      /\ \A i \in DOMAIN m.args :
           \/ /\ row.sig[i] = "n"
              /\ ArgType(o.iface, row, i) = fn.new /\ fn.new # ""
              /\ \E new \in Ids : /\ m.args[i] = <<"n", new>>
                                  /\ L[new] = [iface |-> fn.new, version |-> o.version]
           \/ row.sig[i] \in Plain \ {"n"} /\ m.args[i] = <<row.sig[i], 0>>
           \/ /\ row.sig[i] \in {"o", "?o"}
              /\ \E a \in Id : /\ m.args[i] = <<"o", a>>
                               /\ \/ L[a].iface = ArgType(o.iface, row, i)
                                  \/ a = 0 /\ row.sig[i] = "?o"

LEMMA Decodes ==
  ASSUME NEW m, NEW L, Sent(m, L),
         NEW fn, fn = Calls[L[m.id].iface][m.name],
         NEW table, table = Interfaces[L[m.id].iface].requests,
         NEW row, row = table[m.opcode + 1]
  PROVE  m.opcode < Len(table) /\ Decoded(m, L, fn, row)
<1> DEFINE iface == L[m.id].iface
           types == Interfaces[iface].types
<1>1. iface \in DOMAIN Calls /\ m.name \in DOMAIN Calls[iface] /\ Passed(m, L, fn)
  BY DEF Sent
<1>2. Agree(m.name, fn, table, types)
  BY <1>1, HalvesAgree
<1>3. m.opcode = fn.opcode /\ fn.since <= L[m.id].version /\ DOMAIN m.args = DOMAIN fn.args
  BY <1>1 DEF Passed
<1>4. \A i : ArgType(iface, row, i) = types[row.types + i]
  BY DEF ArgType
<1>5. \A i : Nullable(iface, fn, i) <=> row.sig[i] = "?o"
  BY <1>3 DEF Nullable
<1> HIDE DEF types
<1>6. /\ fn.opcode < Len(table)
      /\ row.name = m.name /\ row.since = fn.since
      /\ (m.name = "destroy" => fn.args = <<>>)
      /\ Fit(fn.args, row.sig, types, row.types, fn.new)
  BY <1>2, <1>3 DEF Agree
<1>7. DOMAIN row.sig = DOMAIN m.args /\ fn.new \in Made \cup {""}
  BY <1>3, <1>6 DEF Fit
<1>8. m.name = "destroy" => DOMAIN m.args = {}
  <2>1. DOMAIN <<>> = {}
    OBVIOUS
  <2> QED
    BY <1>3, <1>6, <2>1
<1>9. ASSUME NEW i \in DOMAIN m.args
      PROVE  \/ /\ row.sig[i] = "n"
                /\ ArgType(iface, row, i) = fn.new /\ fn.new # ""
                /\ \E new \in Ids : /\ m.args[i] = <<"n", new>>
                                    /\ L[new] = [iface |-> fn.new, version |-> L[m.id].version]
             \/ /\ row.sig[i] \in Plain \ {"n"}
                /\ m.args[i] = <<row.sig[i], 0>>
             \/ /\ row.sig[i] \in {"o", "?o"}
                /\ \E a \in Id : /\ m.args[i] = <<"o", a>>
                                 /\ \/ L[a].iface = ArgType(iface, row, i)
                                    \/ a = 0 /\ row.sig[i] = "?o"
  <2>1. /\ i \in DOMAIN fn.args
        /\ row.sig[i] = "n" <=> fn.args[i] = "n"
        /\ fn.args[i] = "n" => fn.new # "" /\ types[row.types + i] = fn.new
        /\ fn.args[i] \in Plain => row.sig[i] = fn.args[i]
        /\ fn.args[i] \notin Plain =>
             row.sig[i] \in {"o", "?o"} /\ types[row.types + i] = fn.args[i]
    BY <1>3, <1>6 DEF Fit
  <2>2. CASE fn.args[i] = "n"
    BY <1>1, <1>4, <2>1, <2>2 DEF Passed
  <2>3. CASE fn.args[i] \in Plain \ {"n"}
    BY <1>1, <2>1, <2>3 DEF Passed
  <2>4. CASE fn.args[i] \notin Plain
    <3>1. \E a \in Id : /\ m.args[i] = <<"o", a>>
                        /\ L[a].iface = fn.args[i] \/ (a = 0 /\ Nullable(iface, fn, i))
      BY <1>1, <2>1, <2>4 DEF Passed
    <3> QED
      BY <1>4, <1>5, <2>1, <2>4, <3>1
  <2> QED
    BY <2>2, <2>3, <2>4
<1> QED
  BY <1>3, <1>6, <1>7, <1>8, <1>9 DEF Decoded

\* Every request is understood.
LEMMA HeadUnderstood ==
  ASSUME NEW L \in [Id -> Object], WireInv(L), NEW m, 1 \in DOMAIN requests, m = requests[1],
         \A j \in DOMAIN requests : j \in Nat /\ j >= 1
  PROVE  Understood(m)
<1>1. /\ Sent(m, L)
      /\ \A i \in Id : Names(m, i) => objects[i] = L[i]
      /\ \A i \in Id : Creates(m, i) => i = 0 \/ objects[i] = None
  BY HeadArrives
<1>2. m.id \in Id /\ Names(m, m.id) /\ objects[m.id] = L[m.id] /\ L[m.id].iface \in DOMAIN Interfaces
  BY <1>1, Ifaces DEF Sent, Names
<1> DEFINE iface == objects[m.id].iface
           fn == Calls[iface][m.name]
           table == Interfaces[iface].requests
           row == table[m.opcode + 1]
<1>3. m.opcode < Len(table) /\ Decoded(m, L, fn, row)
  BY <1>1, <1>2, Decodes
<1> HIDE DEF fn, table, row
<1>4. ASSUME NEW i \in DOMAIN row.sig
      PROVE  LET kind == m.args[i][1]
                 obj == m.args[i][2]
             IN  CASE row.sig[i] = "n"  -> kind = "n" /\ objects[obj] = None
                   [] row.sig[i] \in {"o", "?o"} ->
                        /\ kind = "o"
                        /\ \/ objects[obj].iface = ArgType(iface, row, i)
                           \/ obj = 0 /\ row.sig[i] = "?o"
                   [] OTHER -> kind = row.sig[i]
  <2>1. CASE row.sig[i] = "n"
    <3>1. PICK new \in Ids : m.args[i] = <<"n", new>>
      BY <1>3, <1>4, <2>1 DEF Plain, Decoded
    <3>2. m.args[i][1] = "n" /\ m.args[i][2] = new
      BY <3>1
    <3>3. objects[new] = None
      BY <1>1, <1>3, <1>4, <3>1, Basics DEF Creates, Decoded
    <3> QED
      BY <2>1, <3>2, <3>3
  <2>2. CASE row.sig[i] \in {"o", "?o"}
    <3>0. row.sig[i] # "n" /\ row.sig[i] \notin Plain
      BY <2>2 DEF Plain
    <3>1. PICK a \in Id : /\ m.args[i] = <<"o", a>>
                          /\ L[a].iface = ArgType(iface, row, i) \/ (a = 0 /\ row.sig[i] = "?o")
      BY <1>2, <1>3, <1>4, <3>0 DEF Decoded
    <3>2. m.args[i][1] = "o" /\ m.args[i][2] = a
      BY <3>1
    <3>3. objects[a] = L[a]
      BY <1>1, <1>3, <1>4, <3>1 DEF Names, Decoded
    <3> QED
      BY <2>2, <3>0, <3>1, <3>2, <3>3
  <2>3. CASE row.sig[i] \in Plain \ {"n"}
    <3>0. row.sig[i] # "n" /\ row.sig[i] \notin {"o", "?o"}
      BY <2>3 DEF Plain
    <3>1. m.args[i] = <<row.sig[i], 0>>
      BY <1>2, <1>3, <1>4, <3>0 DEF Decoded
    <3>2. m.args[i][1] = row.sig[i]
      BY <3>1
    <3> QED
      BY <3>0, <3>2
  <2> QED
    BY <1>3, <1>4, <2>1, <2>2, <2>3 DEF Decoded
<1>5. /\ iface \in DOMAIN Interfaces /\ m.opcode < Len(table)
      /\ row.name = m.name /\ row.since <= objects[m.id].version
      /\ DOMAIN row.sig = DOMAIN m.args
  BY <1>2, <1>3 DEF Decoded
<1> QED
  BY <1>4, <1>5, Zenon DEF Understood, row, table

\* What a request that arrives makes.
LEMMA Makes ==
  ASSUME NEW m, NEW L, NEW fn, NEW row, Decoded(m, L, fn, row), NEW i,
         NEW k \in DOMAIN row.sig, row.sig[k] = "n", m.args[k][2] = i
  PROVE  /\ Creates(m, i) /\ i \in Ids /\ L[i].iface \in Made
         /\ L[i] = [iface |-> ArgType(L[m.id].iface, row, k), version |-> L[m.id].version]
<1>1. /\ k \in DOMAIN m.args /\ fn.new \in Made
      /\ ArgType(L[m.id].iface, row, k) = fn.new
      /\ \E new \in Ids : /\ m.args[k] = <<"n", new>>
                          /\ L[new] = [iface |-> fn.new, version |-> L[m.id].version]
  <2>1. k \in DOMAIN m.args /\ row.sig[k] \notin Plain \ {"n"} /\ row.sig[k] \notin {"o", "?o"}
    BY DEF Decoded
  <2> QED
    BY <2>1 DEF Decoded
<1> PICK new \in Ids : /\ m.args[k] = <<"n", new>>
                       /\ L[new] = [iface |-> fn.new, version |-> L[m.id].version]
  BY <1>1
<1>2. new = i
  <2>1. m.args[k][2] = new
    OBVIOUS
  <2> QED
    BY <2>1
<1>3. L[i].iface = fn.new
  <2>1. [iface |-> fn.new, version |-> L[m.id].version].iface = fn.new
    OBVIOUS
  <2> QED
    BY <1>2, <2>1
<1> QED
  BY <1>1, <1>2, <1>3 DEF Creates

LEMMA MadeBy ==
  ASSUME NEW m, NEW L, NEW fn, NEW row, Decoded(m, L, fn, row), NEW i, Creates(m, i)
  PROVE  \E k \in DOMAIN row.sig : row.sig[k] = "n" /\ m.args[k][2] = i
<1> PICK k \in DOMAIN m.args : m.args[k] = <<"n", i>>
  BY DEF Creates
<1>1. k \in DOMAIN row.sig
  BY DEF Decoded
<1>2. m.args[k][2] = i
  OBVIOUS
<1>3. row.sig[k] = "n"
  <2>1. ~(row.sig[k] \in Plain \ {"n"} /\ m.args[k] = <<row.sig[k], 0>>)
    BY Pairs, Zenon
  <2>2. ~\E a \in Id : m.args[k] = <<"o", a>>
    BY Pairs, Zenon
  <2> QED
    BY <2>1, <2>2 DEF Decoded
<1> QED
  BY <1>1, <1>2, <1>3

-----------------------------------------------------------------------------
\* A request arrives.
LEMMA ReceiveWire ==
  ASSUME NEW L \in [Id -> Object], WireInv(L), Receive
  PROVE  WireInv(L)'
<1> DEFINE m == Head(requests)
           o == objects[m.id]
           fn == Calls[o.iface][m.name]
           table == Interfaces[o.iface].requests
           row == table[m.opcode + 1]
           made(i) == {k \in DOMAIN row.sig : row.sig[k] = "n" /\ m.args[k][2] = i}
<1>1. requests # <<>> /\ requests' = Tail(requests) /\ proxies' = proxies
  BY DEF Receive
<1>2. Shrunk(requests, requests') /\ m = requests[1]
  <2>1. IsSeq(requests)
    BY DEF WireInv, Types
  <2>2. Shrunk(requests, Tail(requests)) /\ Head(requests) = requests[1]
    BY <1>1, <2>1, Shrinks
  <2> QED
    BY <1>1, <2>2
<1>3. 1 \in DOMAIN requests /\ \A j \in DOMAIN requests : j \in Nat /\ j >= 1
  BY <1>2 DEF Shrunk
<1>4. Understood(m)
  BY <1>2, <1>3, HeadUnderstood
<1>5. /\ Sent(m, L)
      /\ \A i \in Id : Names(m, i) => objects[i] = L[i] /\ (i # 0 => objects[i] # None)
      /\ \A i \in Id : Creates(m, i) => i = 0 \/ objects[i] = None
  BY <1>2, <1>3, HeadArrives
<1>6. m.id \in Id /\ Names(m, m.id) /\ o = L[m.id] /\ m.id # 0
  <2>1. m.id \in Id /\ Names(m, m.id) /\ L[m.id].iface \in DOMAIN Calls
    BY <1>5 DEF Sent, Names
  <2>2. L[0].iface \notin DOMAIN Calls
    BY Basics, Ifaces DEF WireInv, Holds
  <2> QED
    BY <1>5, <2>1, <2>2
<1>7. Decoded(m, L, fn, row)
  BY <1>5, <1>6, Decodes
<1>8. /\ objects' = [i \in Id |->
           CASE made(i) # {} -> [iface |-> ArgType(o.iface, row, CHOOSE k \in made(i) : TRUE),
                                 version |-> o.version]
             [] row.name = "destroy" /\ i = m.id -> None
             [] OTHER -> objects[i]]
      /\ events' = IF row.name = "destroy"
                   THEN Append(events, [id |-> m.id, opcode |-> 0, name |-> "delete_id",
                                        iface |-> o.iface])
                   ELSE events
      /\ wrong' = wrong
  BY <1>4 DEF Receive
<1>9. row.name = m.name /\ (m.name = "destroy" => DOMAIN m.args = {})
  BY <1>7 DEF Decoded
<1>10. ASSUME NEW i
       PROVE  /\ made(i) # {} <=> Creates(m, i)
              /\ Creates(m, i) =>
                   /\ i \in Ids /\ L[i].iface \in Made
                   /\ L[i] = [iface |-> ArgType(o.iface, row, CHOOSE k \in made(i) : TRUE),
                              version |-> o.version]
  <2>1. ASSUME NEW k \in made(i)
        PROVE  /\ Creates(m, i) /\ i \in Ids /\ L[i].iface \in Made
               /\ L[i] = [iface |-> ArgType(o.iface, row, k), version |-> o.version]
    <3>1. k \in DOMAIN row.sig /\ row.sig[k] = "n" /\ m.args[k][2] = i
      BY <2>1
    <3> HIDE DEF row, fn, m
    <3> QED
      BY <1>6, <1>7, <3>1, Makes
  <2>2. Creates(m, i) => made(i) # {}
    <3> SUFFICES ASSUME Creates(m, i)  PROVE made(i) # {}
      OBVIOUS
    <3>1. \E k \in DOMAIN row.sig : row.sig[k] = "n" /\ m.args[k][2] = i
      <4> HIDE DEF row, fn, m
      <4> QED
        BY <1>7, MadeBy
    <3> QED
      BY <3>1
  <2> HIDE DEF made
  <2>3. made(i) # {} => (CHOOSE k \in made(i) : TRUE) \in made(i)
    OBVIOUS
  <2> QED
    BY <2>1, <2>2, <2>3
<1>11. \A i \in Id : objects'[i] = IF Creates(m, i) THEN L[i]
                                   ELSE IF m.name = "destroy" /\ i = m.id THEN None
                                   ELSE objects[i]
  <2> DEFINE obj(i) == [iface |-> ArgType(o.iface, row, CHOOSE k \in made(i) : TRUE),
                        version |-> o.version]
  <2> SUFFICES ASSUME NEW i \in Id
               PROVE  objects'[i] = IF Creates(m, i) THEN L[i]
                                    ELSE IF m.name = "destroy" /\ i = m.id THEN None
                                    ELSE objects[i]
    OBVIOUS
  <2>1. objects'[i] = CASE made(i) # {} -> obj(i)
                        [] row.name = "destroy" /\ i = m.id -> None
                        [] OTHER -> objects[i]
    <3> HIDE DEF made, row, o, m, None
    <3> QED
      BY <1>8
  <2>2. made(i) # {} <=> Creates(m, i)
    BY <1>10
  <2>3. Creates(m, i) => L[i] = obj(i)
    BY <1>10
  <2>4. m.name = "destroy" => ~Creates(m, i)
    BY <1>9 DEF Creates
  <2> HIDE DEF obj, made, row, o, m
  <2>5. CASE Creates(m, i)
    BY <1>9, <2>1, <2>2, <2>3, <2>5, <2>4
  <2>6. CASE ~Creates(m, i)
    BY <1>9, <2>1, <2>2, <2>6
  <2> QED
    BY <2>5, <2>6
<1>12. objects' \in [Id -> Object]
  <2>1. \A i \in Id : objects'[i] \in Object
    BY <1>11, Basics DEF WireInv, Types
  <2> HIDE DEF made, row, o, m
  <2> QED
    BY <1>8, <2>1
<1>13. PICK e : e = [id |-> m.id, opcode |-> 0, name |-> "delete_id", iface |-> o.iface]
  OBVIOUS
<1>14. e.id = m.id /\ e.name = "delete_id"
  BY <1>13
<1>15. events' = IF m.name = "destroy" THEN Append(events, e) ELSE events
  BY <1>8, <1>9, <1>13
<1> HIDE DEF m, o, fn, table, row, made
\* What makes an object destroys none.
<1>16. m.name = "destroy" => \A i : ~Creates(m, i)
  BY <1>9 DEF Creates
<1>17. \A i \in Id : Creates(m, i) => i \in Ids /\ L[i] # None /\ i # 0
  BY <1>10, Basics, Ifaces
<1>18. Types' /\ Holds(L)'
  <2>1. IsSeq(requests') /\ IsSeq(events')
    <3>1. IsSeq(Append(events, e)) /\ IsSeq(events)
      BY Grows DEF WireInv, Types, Grown
    <3> QED
      BY <1>2, <1>15, <3>1 DEF Shrunk
  <2>2. \A i \in Id : objects'[i] # None => objects'[i] = L[i]
    BY <1>11 DEF WireInv, Holds
  <2> QED
    BY <1>1, <1>8, <1>12, <2>1, <2>2 DEF WireInv, Types, Holds, Live, IsSeq
<1>19. \A k \in DOMAIN requests' : /\ k + 1 \in DOMAIN requests /\ k + 1 > 1 /\ k \in Nat
                                   /\ requests'[k] = requests[k + 1]
  BY <1>2 DEF Shrunk
<1>20. \A k \in DOMAIN requests : k \in Nat /\ k >= 1 /\ (k # 1 => k - 1 \in DOMAIN requests')
  BY <1>2 DEF Shrunk
\* Where a request was.
<1>21. \A k \in DOMAIN requests : k = 1 \/ \E j \in DOMAIN requests' : j + 1 = k
  <2> SUFFICES ASSUME NEW k \in DOMAIN requests, k # 1
               PROVE  \E j \in DOMAIN requests' : j + 1 = k
    OBVIOUS
  <2>1. k - 1 \in DOMAIN requests' /\ k - 1 + 1 = k
    BY <1>20
  <2> QED
    BY <2>1
<1>22. WellSent(L)'
  BY <1>19 DEF WireInv, WellSent
<1>23. Arrives'
  <2> SUFFICES ASSUME NEW k \in DOMAIN requests', NEW i \in Id \ {0}
               PROVE
        /\ Names(requests'[k], i) =>
             objects'[i] # None \/ \E j \in DOMAIN requests' : j < k /\ Creates(requests'[j], i)
        /\ Creates(requests'[k], i) =>
             objects'[i] = None /\ \A j \in DOMAIN requests' : Creates(requests'[j], i) => j = k
        /\ Destroys(requests'[k], i) =>
             proxies'[i] = Zombie /\ \A j \in DOMAIN requests' : j > k => ~Names(requests'[j], i)
    BY DEF Arrives
  <2>1. k + 1 \in DOMAIN requests /\ k + 1 > 1 /\ k + 1 # 1 /\ requests'[k] = requests[k + 1]
    BY <1>19
  <2> PICK n \in DOMAIN requests : n = k + 1 /\ n > 1 /\ n # 1 /\ requests'[k] = requests[n]
    BY <2>1
  <2>2. /\ Names(requests[n], i) =>
             objects[i] # None \/ \E j \in DOMAIN requests : j < n /\ Creates(requests[j], i)
        /\ Creates(requests[n], i) =>
             objects[i] = None /\ \A j \in DOMAIN requests : Creates(requests[j], i) => j = n
        /\ Destroys(requests[n], i) =>
             proxies[i] = Zombie /\ \A j \in DOMAIN requests : j > n => ~Names(requests[j], i)
    BY DEF WireInv, Arrives
  <2>3. ASSUME Names(requests[n], i)
        PROVE  objects'[i] # None \/ \E j \in DOMAIN requests' : j < k /\ Creates(requests'[j], i)
    <3>1. ~(m.name = "destroy" /\ i = m.id)
      <4>1. Destroys(m, m.id) /\ m.id \in Id \ {0} => \A j \in DOMAIN requests : j > 1 => ~Names(requests[j], m.id)
        BY <1>2, <1>3 DEF WireInv, Arrives
      <4> QED
        BY <1>6, <2>3, <4>1 DEF Destroys
    <3>2. CASE objects[i] # None
      BY <1>11, <1>17, <3>1, <3>2
    <3>3. CASE \E j \in DOMAIN requests : j < n /\ Creates(requests[j], i)
      <4> PICK j \in DOMAIN requests : j < n /\ Creates(requests[j], i)
        BY <3>3
      <4>1. CASE j = 1
        BY <1>2, <1>11, <1>17, <4>1
      <4>2. CASE j # 1
        <5> PICK b \in DOMAIN requests' : b + 1 = j
          BY <4>2, <1>21
        <5>1. b < k /\ requests'[b] = requests[j]
          BY <1>19
        <5> QED
          BY <5>1
      <4> QED
        BY <4>1, <4>2
    <3> QED
      BY <2>2, <2>3, <3>2, <3>3
  <2>4. ASSUME Creates(requests[n], i)
        PROVE  objects'[i] = None /\ \A j \in DOMAIN requests' : Creates(requests'[j], i) => j = k
    <3>1. ~Creates(m, i)
      BY <1>2, <1>3, <2>2, <2>4
    <3>2. objects'[i] = None
      BY <1>11, <2>2, <2>4, <3>1
    <3>3. ASSUME NEW j \in DOMAIN requests', Creates(requests'[j], i)  PROVE j = k
      <4>1. j + 1 = n /\ j \in Nat /\ k \in Nat
        BY <1>19, <2>2, <2>4, <3>3
      <4> QED
        BY <4>1
    <3> QED
      BY <3>2, <3>3
  <2>5. ASSUME Destroys(requests[n], i)
        PROVE  proxies'[i] = Zombie /\ \A j \in DOMAIN requests' : j > k => ~Names(requests'[j], i)
    <3>1. ASSUME NEW j \in DOMAIN requests', j > k  PROVE ~Names(requests'[j], i)
      <4>1. j + 1 \in DOMAIN requests /\ j + 1 > n /\ requests'[j] = requests[j + 1]
        BY <1>19, <3>1
      <4> QED
        BY <2>2, <2>5, <4>1
    <3> QED
      BY <1>1, <2>2, <2>5, <3>1
  <2> QED
    BY <2>3, <2>4, <2>5
<1>24. Present'
  <2> SUFFICES ASSUME NEW i \in Id, Live(i)
               PROVE  objects'[i] # None \/ \E k \in DOMAIN requests' : Creates(requests'[k], i)
    BY <1>1 DEF Present, Live
  <2>1. ~(m.name = "destroy" /\ i = m.id)
    <3>1. Destroys(m, m.id) /\ m.id \in Id \ {0} => proxies[m.id] = Zombie
      BY <1>2, <1>3 DEF WireInv, Arrives
    <3> QED
      BY <1>6, <3>1 DEF Destroys, Live
  <2>2. CASE objects[i] # None
    BY <1>11, <1>17, <2>1, <2>2
  <2>3. CASE \E k \in DOMAIN requests : Creates(requests[k], i)
    <3> PICK k \in DOMAIN requests : Creates(requests[k], i)
      BY <2>3
    <3>1. CASE k = 1
      BY <1>2, <1>11, <1>17, <3>1
    <3>2. CASE k # 1
      BY <1>19, <1>21, <3>2
    <3> QED
      BY <3>1, <3>2
  <2> QED
    BY <2>2, <2>3 DEF WireInv, Present
<1>25. ASSUME NEW i \in Id, Absent(requests, i)
       PROVE  /\ Absent(requests', i) /\ ~Names(m, i) /\ i # m.id
              /\ objects[i] = None => objects'[i] = None
  <2>1. ~Names(m, i) /\ ~Creates(m, i) /\ i # m.id
    BY <1>2, <1>3, <1>6, <1>25 DEF Absent
  <2>2. \A j \in DOMAIN requests' : ~Names(requests'[j], i) /\ ~Creates(requests'[j], i)
    BY <1>19, <1>25 DEF Absent
  <2> QED
    BY <1>11, <2>1, <2>2 DEF Absent
<1>26. ASSUME m.name = "destroy"
       PROVE  /\ proxies[m.id] = Zombie /\ objects'[m.id] = None /\ Absent(requests', m.id)
              /\ objects[m.id] # None
  <2>1. m.id \in Id \ {0} /\ Destroys(m, m.id) /\ objects[m.id] # None
    BY <1>5, <1>6, <1>26 DEF Destroys
  <2>2. proxies[m.id] = Zombie /\ \A j \in DOMAIN requests : j > 1 => ~Names(requests[j], m.id)
    BY <1>2, <1>3, <2>1 DEF WireInv, Arrives
  <2>3. \A j \in DOMAIN requests : ~Creates(requests[j], m.id)
    BY <2>1 DEF WireInv, Arrives
  <2>4. \A j \in DOMAIN requests' : ~Names(requests'[j], m.id) /\ ~Creates(requests'[j], m.id)
    BY <1>19, <2>2, <2>3
  <2>5. objects'[m.id] = None
    BY <1>6, <1>11, <1>16, <1>26
  <2> QED
    BY <2>1, <2>2, <2>4, <2>5 DEF Absent
<1>27. ASSUME NEW k \in DOMAIN events, events[k].name = "delete_id"
       PROVE  /\ proxies[events[k].id] = Zombie /\ objects'[events[k].id] = None
              /\ Absent(requests', events[k].id) /\ events[k].id # m.id
              /\ \A j \in DOMAIN events : j > k => events[j].id # events[k].id
  <2> PICK i : i = events[k].id
    OBVIOUS
  <2>1. /\ i \in Id /\ proxies[i] = Zombie /\ objects[i] = None /\ Absent(requests, i)
        /\ \A j \in DOMAIN events : j > k => events[j].id # i
    BY <1>27 DEF WireInv, Freed, WellReported
  <2>2. Absent(requests', i) /\ objects'[i] = None /\ i # m.id
    BY <1>25, <2>1
  <2> QED
    BY <2>1, <2>2
<1>28. ASSUME NEW i \in Id \ {0}, proxies[i] = None
       PROVE  /\ objects'[i] = None /\ Absent(requests', i) /\ i # m.id
              /\ \A j \in DOMAIN events : events[j].id # i
  <2>1. objects[i] = None /\ Absent(requests, i) /\ \A j \in DOMAIN events : events[j].id # i
    BY <1>28 DEF WireInv, Freed
  <2> QED
    BY <1>25, <2>1
<1>29. CASE m.name # "destroy"
  <2>1. events' = events
    BY <1>15, <1>29
  <2>2. Freed'
    BY <1>1, <1>27, <1>28, <2>1 DEF Freed
  <2>3. WellReported(L)'
    BY <1>1, <2>1 DEF WireInv, WellReported, Reported
  <2> QED
    BY <1>18, <1>22, <1>23, <1>24, <2>2, <2>3 DEF WireInv
<1>30. CASE m.name = "destroy"
  <2>1. events' = Append(events, e)
    BY <1>15, <1>30
  <2>2. Grown(events, events', e)
    <3>1. IsSeq(events)
      BY DEF WireInv, Types
    <3>2. Grown(events, Append(events, e), e)
      BY <3>1, Grows
    <3> QED
      BY <2>1, <3>2
  <2> PICK l \in Nat : /\ l \notin DOMAIN events /\ DOMAIN events' = DOMAIN events \cup {l}
                       /\ events'[l] = e
                       /\ \A k \in DOMAIN events : k < l /\ k \in Nat /\ events'[k] = events[k]
                       /\ \A k \in DOMAIN events' : ~(k > l)
    BY <2>2 DEF Grown
  <2>3. ASSUME NEW k \in DOMAIN events', events'[k].name = "delete_id"
        PROVE  /\ proxies'[events'[k].id] = Zombie /\ objects'[events'[k].id] = None
               /\ Absent(requests', events'[k].id)
               /\ \A j \in DOMAIN events' : j > k => events'[j].id # events'[k].id
    <3>1. CASE k = l
      BY <1>1, <1>14, <1>26, <1>30, <3>1
    <3>2. CASE k \in DOMAIN events
      <4>1. /\ proxies[events[k].id] = Zombie /\ objects'[events[k].id] = None
            /\ Absent(requests', events[k].id) /\ events[k].id # m.id
            /\ \A j \in DOMAIN events : j > k => events[j].id # events[k].id
        BY <1>27, <2>3, <3>2
      <4>2. events'[k] = events[k]
        BY <3>2
      <4>3. \A j \in DOMAIN events' : j > k => events'[j].id # events[k].id
        BY <1>14, <4>1
      <4> QED
        BY <1>1, <4>1, <4>2, <4>3
    <3> QED
      BY <3>1, <3>2
  <2>4. ASSUME NEW i \in Id \ {0}, proxies'[i] = None
        PROVE  /\ objects'[i] = None /\ Absent(requests', i)
               /\ \A j \in DOMAIN events' : events'[j].id # i
    BY <1>1, <1>14, <1>28, <2>4
  <2>5. Freed'
    BY <2>3, <2>4 DEF Freed
  <2>6. WellReported(L)'
    <3> SUFFICES ASSUME NEW k \in DOMAIN events'
                 PROVE  /\ events'[k].id \in Id
                        /\ events'[k].name # "delete_id" => Reported(events'[k], L)
      BY <1>1 DEF WellReported, Reported
    <3>1. CASE k = l
      BY <1>6, <1>14, <3>1
    <3>2. CASE k \in DOMAIN events
      BY <3>2 DEF WireInv, WellReported
    <3> QED
      BY <3>1, <3>2
  <2> QED
    BY <1>18, <1>22, <1>23, <1>24, <2>5, <2>6 DEF WireInv
<1> QED
  BY <1>29, <1>30

-----------------------------------------------------------------------------
\* An event is handled.
LEMMA HandleWire ==
  ASSUME NEW L \in [Id -> Object], WireInv(L), Handle
  PROVE  WireInv(L)'
<1>1. /\ events # <<>> /\ events' = Tail(events)
      /\ objects' = objects /\ requests' = requests
  BY DEF Handle
<1> PICK e : e = Head(events)
  OBVIOUS
<1>2. Shrunk(events, events') /\ e = events[1]
  BY <1>1, Shrinks DEF WireInv, Types
<1>3. /\ 1 \in DOMAIN events /\ \A k \in DOMAIN events : k \in Nat /\ k >= 1
      /\ \A k \in DOMAIN events' : /\ k + 1 \in DOMAIN events /\ k + 1 > 1 /\ k \in Nat
                                   /\ events'[k] = events[k + 1]
  BY <1>2 DEF Shrunk
<1>4. e.id \in Id /\ (e.name # "delete_id" => Reported(e, L))
  BY <1>2, <1>3 DEF WireInv, WellReported
\* A proxy that is there is what the event is about, and its listener knows the name.
<1>5. ASSUME e.name # "delete_id"
      PROVE  ~(proxies[e.id] # Zombie /\ Listeners[proxies[e.id].iface][e.opcode + 1] # e.name)
  <2> SUFFICES ASSUME proxies[e.id] # Zombie
               PROVE  Listeners[proxies[e.id].iface][e.opcode + 1] = e.name
    OBVIOUS
  <2>1. Reported(e, L) /\ proxies[e.id] = L[e.id]
    BY <1>4, <1>5 DEF WireInv, Holds, Live, Reported
  <2>2. proxies[e.id].iface = e.iface /\ e.iface \in DOMAIN Interfaces
    BY <2>1 DEF Reported
  <2>3. Heard(Listeners[e.iface], Interfaces[e.iface].events)
    BY <2>2, ListenersHear
  <2> QED
    BY <2>1, <2>2, <2>3 DEF Heard, Reported
<1>6. wrong' = FALSE /\ proxies' = IF e.name = "delete_id" THEN [proxies EXCEPT ![e.id] = None]
                                   ELSE proxies
  <2>1. wrong = FALSE
    BY DEF WireInv, Types
  <2>2. CASE e.name = "delete_id"
    BY <2>1, <2>2 DEF Handle
  <2>3. CASE e.name # "delete_id"
    BY <1>5, <2>1, <2>3 DEF Handle
  <2> QED
    BY <2>2, <2>3
\* What a delete_id leaves behind.
<1>7. ASSUME e.name = "delete_id"
      PROVE  /\ proxies[e.id] = Zombie /\ objects[e.id] = None /\ Absent(requests, e.id)
             /\ \A k \in DOMAIN events' : events'[k].id # e.id
  <2>1. /\ proxies[e.id] = Zombie /\ objects[e.id] = None /\ Absent(requests, e.id)
        /\ \A j \in DOMAIN events : j > 1 => events[j].id # e.id
    BY <1>2, <1>3, <1>7 DEF WireInv, Freed
  <2> QED
    BY <1>3, <2>1
<1>8. \A i \in Id : proxies'[i] = IF e.name = "delete_id" /\ i = e.id THEN None ELSE proxies[i]
  BY <1>6 DEF WireInv, Types
<1>9. None # Zombie /\ None \in Object
  BY Basics
<1>10. \A i \in Id : /\ Live(i)' <=> Live(i)
                     /\ proxies[i] = Zombie /\ proxies'[i] # Zombie => e.name = "delete_id" /\ i = e.id
  BY <1>7, <1>8, <1>9 DEF Live
<1>11. Types'
  <2>1. proxies' \in [Id -> Object \cup {Zombie}]
    BY <1>6, <1>9 DEF WireInv, Types
  <2>2. proxies'[0] = None
    <3>1. proxies[0] = None /\ 0 \in Id
      BY DEF WireInv, Types, Id
    <3> QED
      BY <1>8, <3>1
  <2>3. IsSeq(events') /\ IsSeq(requests')
    BY <1>1, <1>2 DEF WireInv, Types, Shrunk
  <2> QED
    BY <1>1, <1>6, <2>1, <2>2, <2>3 DEF WireInv, Types, IsSeq
<1>12. Holds(L)' /\ Present'
  <2>1. \A i \in Id : Live(i)' => Live(i) /\ proxies'[i] = proxies[i]
    BY <1>7, <1>8, <1>9 DEF Live
  <2> QED
    BY <1>1, <2>1 DEF WireInv, Holds, Present
<1>13. WellSent(L)'
  BY <1>1 DEF WireInv, WellSent
<1>14. Arrives'
  <2> SUFFICES ASSUME NEW k \in DOMAIN requests, NEW i \in Id \ {0}
               PROVE
        /\ Names(requests[k], i) =>
             objects[i] # None \/ \E j \in DOMAIN requests : j < k /\ Creates(requests[j], i)
        /\ Creates(requests[k], i) =>
             objects[i] = None /\ \A j \in DOMAIN requests : Creates(requests[j], i) => j = k
        /\ Destroys(requests[k], i) =>
             proxies'[i] = Zombie /\ \A j \in DOMAIN requests : j > k => ~Names(requests[j], i)
    BY <1>1 DEF Arrives
  <2>1. Destroys(requests[k], i) => ~Absent(requests, i)
    BY DEF Destroys, Absent, Names
  <2> QED
    BY <1>7, <1>8, <2>1 DEF WireInv, Arrives
<1>15. Freed'
  <2>1. ASSUME NEW k \in DOMAIN events', events'[k].name = "delete_id"
        PROVE  /\ proxies'[events'[k].id] = Zombie /\ objects[events'[k].id] = None
               /\ Absent(requests, events'[k].id)
               /\ \A j \in DOMAIN events' : j > k => events'[j].id # events'[k].id
    <3>1. k + 1 \in DOMAIN events /\ events'[k] = events[k + 1] /\ k \in Nat
      BY <1>3, <2>1
    <3> PICK i : i = events'[k].id
      OBVIOUS
    <3>2. /\ i \in Id /\ proxies[i] = Zombie /\ objects[i] = None /\ Absent(requests, i)
          /\ \A j \in DOMAIN events : j > k + 1 => events[j].id # i
      BY <2>1, <3>1 DEF WireInv, Freed, WellReported
    <3>3. \A j \in DOMAIN events' : j > k => events'[j].id # i
      <4> SUFFICES ASSUME NEW j \in DOMAIN events', j > k  PROVE events'[j].id # i
        OBVIOUS
      <4>1. j + 1 \in DOMAIN events /\ events'[j] = events[j + 1] /\ j \in Nat
        BY <1>3
      <4>2. j + 1 > k + 1
        BY <3>1, <4>1
      <4> QED
        BY <3>2, <4>1, <4>2
    <3>4. proxies'[i] = Zombie
      BY <1>7, <1>8, <2>1, <3>2
    <3> QED
      BY <3>2, <3>3, <3>4
  <2>2. ASSUME NEW i \in Id \ {0}, proxies'[i] = None
        PROVE  /\ objects[i] = None /\ Absent(requests, i)
               /\ \A j \in DOMAIN events' : events'[j].id # i
    <3>1. CASE proxies[i] = None
      BY <1>3, <2>2, <3>1 DEF WireInv, Freed
    <3>2. CASE proxies[i] # None
      BY <1>7, <1>8, <2>2, <3>2
    <3> QED
      BY <3>1, <3>2
  <2> QED
    BY <1>1, <2>1, <2>2 DEF Freed
<1>16. WellReported(L)'
  <2>1. ASSUME NEW k \in DOMAIN events'
        PROVE  /\ events'[k].id \in Id
               /\ events'[k].name # "delete_id" =>
                    Reported(events'[k], L) /\ proxies'[events'[k].id] # None
    <3>1. k + 1 \in DOMAIN events /\ events'[k] = events[k + 1]
      BY <1>3
    <3>2. events'[k].id \in Id /\ (events'[k].name # "delete_id" => Reported(events'[k], L))
      BY <3>1 DEF WireInv, WellReported
    <3>3. Reported(events'[k], L) => proxies[events'[k].id] # None
      BY DEF Reported
    <3> QED
      BY <1>7, <1>8, <3>2, <3>3
  <2> QED
    BY <2>1 DEF WellReported, Reported
<1> QED
  BY <1>11, <1>12, <1>13, <1>14, <1>15, <1>16 DEF WireInv

\* An event is sent.
LEMMA SendWire ==
  ASSUME NEW L \in [Id -> Object], WireInv(L), NEW id \in Id, SendEvent(id)
  PROVE  WireInv(L)'
<1> DEFINE table == Interfaces[objects[id].iface].events
<1>1. /\ objects[id].iface \in DOMAIN Interfaces
      /\ proxies' = proxies /\ objects' = objects /\ requests' = requests /\ wrong' = wrong
  BY DEF SendEvent
<1> PICK op \in DOMAIN table :
      events' = Append(events, [id |-> id, opcode |-> op - 1, name |-> table[op].name,
                                iface |-> objects[id].iface])
  BY DEF SendEvent
<1> PICK e : e = [id |-> id, opcode |-> op - 1, name |-> table[op].name,
                  iface |-> objects[id].iface]
  OBVIOUS
<1>2. /\ events' = Append(events, e) /\ e.id = id /\ e.name = table[op].name
      /\ e.iface = objects[id].iface /\ e.opcode = op - 1
  OBVIOUS
<1>3. Grown(events, events', e)
  <2>1. IsSeq(events)
    BY DEF WireInv, Types
  <2>2. Grown(events, Append(events, e), e)
    BY <2>1, Grows
  <2> QED
    BY <1>2, <2>2
<1> PICK l \in Nat : /\ l \notin DOMAIN events /\ DOMAIN events' = DOMAIN events \cup {l}
                     /\ events'[l] = e
                     /\ \A k \in DOMAIN events : k < l /\ k \in Nat /\ events'[k] = events[k]
                     /\ \A k \in DOMAIN events' : ~(k > l)
  BY <1>3 DEF Grown
<1>4. op \in Nat \ {0} /\ table[op].name # "delete_id"
  BY <1>1, ListenersHear DEF Heard
<1>5. op - 1 + 1 = op
  BY <1>4
<1>6. objects[id] # None /\ objects[id] = L[id] /\ id # 0
  <2>1. None.iface \notin DOMAIN Interfaces
    BY Basics, Ifaces
  <2>2. L[0] = None
    BY DEF WireInv, Holds
  <2> QED
    BY <1>1, <2>1, <2>2 DEF WireInv, Holds
<1>7. proxies[id] # None
  BY <1>6 DEF WireInv, Freed
<1>8. e.id \in Id /\ e.name # "delete_id" /\ Reported(e, L)
  <2>1. e.opcode + 1 = op
    BY <1>2, <1>5
  <2> QED
    BY <1>1, <1>2, <1>4, <1>6, <1>7, <2>1 DEF Reported
<1> HIDE DEF table
<1>9. Types' /\ Holds(L)' /\ WellSent(L)' /\ Arrives' /\ Present'
  <2>1. IsSeq(events')
    BY <1>3 DEF Grown
  <2>2. Types'
    BY <1>1, <2>1 DEF WireInv, Types, IsSeq
  <2> QED
    BY <1>1, <2>2 DEF WireInv, Holds, WellSent, Arrives, Present, Live
<1>10. Freed'
  <2>1. ASSUME NEW k \in DOMAIN events', events'[k].name = "delete_id"
        PROVE  /\ proxies[events'[k].id] = Zombie /\ objects[events'[k].id] = None
               /\ Absent(requests, events'[k].id)
               /\ \A j \in DOMAIN events' : j > k => events'[j].id # events'[k].id
    <3>1. k \in DOMAIN events /\ events'[k] = events[k]
      BY <1>8, <2>1
    <3>2. /\ proxies[events[k].id] = Zombie /\ objects[events[k].id] = None
          /\ Absent(requests, events[k].id)
          /\ \A j \in DOMAIN events : j > k => events[j].id # events[k].id
      BY <2>1, <3>1 DEF WireInv, Freed
    <3>3. e.id # events[k].id
      BY <1>2, <1>6, <3>2
    <3> QED
      BY <3>1, <3>2, <3>3
  <2>2. ASSUME NEW i \in Id \ {0}, proxies[i] = None
        PROVE  /\ objects[i] = None /\ Absent(requests, i)
               /\ \A j \in DOMAIN events' : events'[j].id # i
    BY <1>2, <1>7, <2>2 DEF WireInv, Freed
  <2> QED
    BY <1>1, <2>1, <2>2 DEF Freed
<1>11. WellReported(L)'
  <2> SUFFICES ASSUME NEW k \in DOMAIN events'
               PROVE  /\ events'[k].id \in Id
                      /\ events'[k].name # "delete_id" => Reported(events'[k], L)
    BY <1>1 DEF WellReported, Reported
  <2>1. CASE k = l
    BY <1>8, <2>1
  <2>2. CASE k \in DOMAIN events
    BY <2>2 DEF WireInv, WellReported
  <2> QED
    BY <2>1, <2>2
<1> QED
  BY <1>9, <1>10, <1>11 DEF WireInv

-----------------------------------------------------------------------------
\* L changes only when a call makes an object that takes over a free id.
LEMMA WireInvStep ==
  ASSUME NEW L \in [Id -> Object], WireInv(L), [Next]_vars
  PROVE  \E M \in [Id -> Object] : WireInv(M)'
<1>1. CASE \E id \in Id : Callable(id) /\ \E name \in DOMAIN Calls[proxies[id].iface] : Call(id, name)
  BY <1>1, CallWire
<1>2. CASE Handle
  BY <1>2, HandleWire
<1>3. CASE Receive
  BY <1>3, ReceiveWire
<1>4. CASE \E id \in Id : SendEvent(id)
  BY <1>4, SendWire
<1>5. CASE UNCHANGED vars
  <2>1. WireInv(L)'
    BY <1>5 DEF vars, WireInv, Types, IsSeq, Holds, Live, WellSent, Arrives, Present, Freed,
                WellReported, Reported
  <2> QED
    BY <2>1
<1> QED
  BY <1>1, <1>2, <1>3, <1>4, <1>5 DEF Next, Client, Server

Consistent == \E L \in [Id -> Object] : WireInv(L)

\* In every state the messages on their way agree on what each id stands for: every step
\* of the client and of the server (wl_proxy_marshal_flags behind the inline functions of
\* src/proto, and the dispatch by the wl_interface tables) keeps one such assignment.
THEOREM WireConsistent == Spec => []Consistent
<1>1. Init => Consistent
  BY InitWire DEF Consistent
<1>2. Consistent /\ [Next]_vars => Consistent'
  <2> SUFFICES ASSUME Consistent, [Next]_vars  PROVE Consistent'
    OBVIOUS
  <2> PICK L \in [Id -> Object] : WireInv(L)
    BY DEF Consistent
  <2>1. \E M \in [Id -> Object] : WireInv(M)'
    BY WireInvStep
  <2> QED
    BY <2>1 DEF Consistent
<1> QED
  BY <1>1, <1>2, PTL DEF Spec

\* Every variable has its type, and the server never keeps an object that the client's
\* wl_proxy_destroy has only marked.
THEOREM WireTypes == Spec => []TypeOK
<1>1. Consistent => TypeOK
  <2> SUFFICES ASSUME NEW L \in [Id -> Object], WireInv(L)  PROVE TypeOK
    BY DEF Consistent
  <2>1. Types /\ Holds(L)
    BY DEF WireInv
  <2>2. Zombie \notin Object /\ Zombie.version \in 0 .. 7 /\ 0 \in Id
    <3>1. Zombie.version = 0
      BY DEF Zombie
    <3>2. 0 \in 0 .. 7
      OBVIOUS
    <3> QED
      BY <3>1, <3>2, Basics
  <2>3. \A x \in Object : x.version \in 0 .. 7
    BY DEF Object
  <2>4. \A id \in Id : proxies[id].version \in 0 .. 7 /\ objects[id].version \in 0 .. 7
    BY <2>1, <2>2, <2>3 DEF Types
  <2>5. objects[0] = None
    BY <2>1, <2>2 DEF Holds
  <2> QED
    BY <2>1, <2>2, <2>4, <2>5 DEF TypeOK, Types
<1> QED
  BY <1>1, WireConsistent, PTL

\* Every request of the client half is decoded by the table half as the function that was
\* called, its new id free and its objects of the interfaces that were passed; every event
\* calls the listener member of its name: src/proto's inline functions, tables and
\* listener structs fit together under every order of calls and every reuse of ids.
THEOREM AllUnderstood == Spec => []NeverWrong
<1>1. Consistent => NeverWrong
  BY DEF Consistent, WireInv, Types, NeverWrong
<1> QED
  BY <1>1, WireConsistent, PTL

\* A proxy whose making has arrived is the same object at the server: interface and
\* version, however often its id was reused.
THEOREM SameOnBothSides == Spec => []SameObjects
<1>1. Consistent => SameObjects
  BY DEF Consistent, WireInv, Holds, Present, Live, SameObjects
<1> QED
  BY <1>1, WireConsistent, PTL

\* An event on its way finds the proxy it was sent for or that proxy destroyed, and a
\* delete_id finds it destroyed: wl_proxy_destroy keeps the id until then.
THEOREM EventsMeetProxy == Spec => []EventsFindProxy
<1>1. Consistent => EventsFindProxy
  <2> SUFFICES ASSUME NEW L \in [Id -> Object], WireInv(L), NEW k \in DOMAIN events
               PROVE  proxies[events[k].id].iface \in
                        IF events[k].name = "delete_id" THEN {"zombie"}
                        ELSE {events[k].iface, "zombie"}
    BY DEF Consistent, EventsFindProxy
  <2>1. Zombie.iface = "zombie"
    BY DEF Zombie
  <2>2. CASE events[k].name = "delete_id"
    BY <2>1, <2>2 DEF WireInv, Freed
  <2>3. CASE events[k].name # "delete_id"
    BY <2>1, <2>3 DEF WireInv, WellReported, Reported, Holds, Live
  <2> QED
    BY <2>2, <2>3
<1> QED
  BY <1>1, WireConsistent, PTL
=============================================================================
