------------------------------- MODULE River -------------------------------
(***************************************************************************)
(* The River backend (crates/realm-session/src/backend/river.rs) between   *)
(* the compositor and the session: the two input fences of its startup,    *)
(* the initial replay, the bounded service quantum of the loop, manage and *)
(* render sequences, size corrections, the choice of output, keyboard      *)
(* focus, devices that come and go, and the exit.                          *)
(*                                                                         *)
(* Sizes have one dimension, that of every output.  A request list that    *)
(* ends in manage_finish or render_finish is one request, with the sizes,  *)
(* the focus and the bindings it asks for.  The session is reduced to its  *)
(* transaction substate and answers with any projection; SessionSpec has   *)
(* the rest of it.  It assigns a window its identity when it answers the   *)
(* turn that announced it, so ~pending_open also stands for assigned.      *)
(* Left out: borders, stacking, and the content of titles, keys and        *)
(* modifiers.                                                              *)
(***************************************************************************)
EXTENDS RiverObjects

CONSTANTS
    Window,      \* windows, each opened at most once
    Sizes,       \* sizes the session asks for
    OutputSize,  \* the size of an output, one of Sizes
    MaxSize,     \* largest size a window takes
    SocketRoom,  \* requests the socket holds
    MaxTickets,  \* tickets after which the session changes its layout no more
    MaxUpsets    \* sizes changed unasked or late, objects plugged in and lost

ASSUME RiverAssumption ==
    IsFiniteSet(Window) /\ SocketRoom \in Nat \ {0} /\ DeviceLimit \in Nat

VARIABLES
    wins,      \* RiverBackend::windows
    b,         \* the other fields of RiverBackend
    decoded,   \* messages read and not dispatched
    out,       \* requests the transport buffers
    wire, req, \* the socket, to the backend and to the compositor
    comp,      \* the compositor
    sx,        \* the session: [phase, at, ticket, last, area, exclusive]
    budget     \* windows opened, upsets so far, and what was plugged in last

backend == <<wins, b, decoded, out>>
vars == <<backend, wire, req, comp, sx, budget>>

Event(kind, ticket, facts) == [kind |-> kind, ticket |-> ticket, facts |-> facts]
Without(f, w) == [v \in DOMAIN f \ {w} |-> f[v]]
With(f, w, x) == [v \in DOMAIN f \cup {w} |-> IF v = w THEN x ELSE f[v]]

\* A new connection: connect() has asked for the registry and its first sync.
\* River has one device, one output and one seat, numbered 0.
Init ==
    /\ wins = <<>> /\ decoded = <<>> /\ wire = <<>> /\ req = <<>>
    /\ out = <<Request("get_registry", {}), Request("sync", {})>>
    /\ b = [fence |-> "globals", globals |-> [i \in Interfaces |-> 0], held |-> <<>>,
            devices |-> {}, results |-> {}, outputs |-> <<>>, selected |-> None, lost |-> FALSE,
            seats |-> {}, seat |-> None, focused |-> None, exclusive |-> FALSE, replay |-> TRUE,
            open_turn |-> FALSE, turn_requested |-> FALSE, pending |-> None, policy |-> {},
            public |-> <<>>, drain_ticket |-> None, last_projection |-> None, deferred |-> <<>>,
            read_guard |-> FALSE, flush_pending |-> FALSE, flush_blocked |-> FALSE,
            terminal |-> FALSE, exit_flushed |-> FALSE]
    /\ comp = [bound |-> {}, devices |-> {0}, outputs |-> {0}, seats |-> {0},
               focus |-> None, exclusive |-> FALSE, keys |-> FALSE,
               at |-> "idle", news |-> <<>>, dirty |-> FALSE, dims |-> <<>>, asked |-> {},
               gone |-> FALSE, error |-> FALSE]
    /\ sx = [phase |-> "Connecting", at |-> "Idle", ticket |-> 0, last |-> 0, area |-> None,
             exclusive |-> FALSE]
    /\ budget = [opened |-> {}, upsets |-> 0, plugged |-> None]

-----------------------------------------------------------------------------
(* The compositor, by the main loop of river-window-management-v1.xml.     *)

Running == sx.phase # "Failed" /\ ~comp.gone
\* After a Quit nothing new is read.
Watched == Running /\ sx.phase \in {"Connecting", "Recovering", "Live"}
ManagerBound == "window_manager" \in comp.bound

\* Told in the next manage sequence, or at once.
News(ms) == comp.news \o (IF ManagerBound THEN ms ELSE <<>>)
AtOnce(interface, ms) == IF interface \in comp.bound THEN wire \o ms ELSE wire
\* River need not tell every client of its wl_output globals.
RegistryEvent(kind) == {wire, AtOnce("registry", <<Message(kind, "wl_output", 1)>>)}

\* A window opens or closes.
Happens ==
    /\ Watched /\ ManagerBound /\ comp.news = <<>>
    /\ \/ \E w \in Window \ budget.opened :
            /\ comp' = [comp EXCEPT !.news = <<Message("window", w, None)>>,
                                    !.dims = With(@, w, None)]
            /\ budget' = [budget EXCEPT !.opened = @ \cup {w}]
       \/ \E w \in DOMAIN comp.dims :
            /\ comp' = [comp EXCEPT !.news = <<Message("closed", w, None)>>,
                                    !.dims = Without(@, w), !.asked = @ \ {w},
                                    !.focus = IF @ = w THEN None ELSE @]
            /\ UNCHANGED budget
    /\ UNCHANGED <<backend, wire, req, sx>>

Upset(kind) == /\ Watched /\ budget.upsets < MaxUpsets
               /\ budget' = [budget EXCEPT !.upsets = @ + 1, !.plugged = kind]
\* One object is plugged in; a second upset takes one of its kind away.
Plugs(kind) == budget.plugged = None /\ Upset(kind)
Loses(kind) == budget.plugged \in {None, kind} /\ Upset("lost")
New == 1  \* the number of what is plugged in
Newer == 2  \* the number of a seat that takes another's place
NothingPlugged == budget.plugged = None  \* sizes go wrong, and users quit, only then

PlugDevice ==
    /\ Plugs("device")
    /\ comp' = [comp EXCEPT !.devices = @ \cup {New}]
    /\ \E kind \in DeviceKinds : wire' = AtOnce("input_manager", <<Message(kind, New, None)>>)
    /\ UNCHANGED <<backend, req, sx>>

\* Bound: a device goes only during the startup.
UnplugDevice ==
    /\ Loses("device") /\ sx.phase = "Connecting"
    /\ \E d \in comp.devices :
         /\ comp' = [comp EXCEPT !.devices = @ \ {d}]
         /\ wire' = AtOnce("input_manager", <<Message("device_removed", d, None)>>)
    /\ UNCHANGED <<backend, req, sx>>

PlugOutput ==
    /\ Plugs("output") /\ comp.news = <<>>
    /\ comp' = [comp EXCEPT !.outputs = @ \cup {New},
                  !.news = News(<<Message("output", New, None), Message("geometry", New, None)>>)]
    /\ wire' \in RegistryEvent("global")
    /\ UNCHANGED <<backend, req, sx>>

UnplugOutput ==
    /\ Loses("output")
    /\ \E o \in comp.outputs :
         comp' = [comp EXCEPT !.outputs = @ \ {o},
                              !.news = News(<<Message("output_removed", o, None)>>)]
    /\ wire' \in RegistryEvent("global_removed")
    /\ UNCHANGED <<backend, req, sx>>

PlugSeat ==
    /\ Plugs("seat") /\ comp.news = <<>>
    /\ comp' = [comp EXCEPT !.seats = @ \cup {New}, !.news = News(<<Message("seat", New, None)>>)]
    /\ UNCHANGED <<backend, wire, req, sx>>

\* A seat goes, and perhaps another comes at once.
UnplugSeat ==
    /\ Loses("seat")
    /\ \E s \in comp.seats :
         LET removed == <<Message("seat_removed", s, None)>>
         IN  \/ comp' = [comp EXCEPT !.seats = @ \ {s}, !.news = News(removed)]
             \/ comp' = [comp EXCEPT !.seats = (@ \ {s}) \cup {Newer},
                                     !.news = News(removed \o <<Message("seat", Newer, None)>>)]
    /\ UNCHANGED <<backend, wire, req, sx>>

\* A layer surface takes the keyboard, and gives it back.
TakeFocus ==
    /\ Plugs("focus") /\ ManagerBound /\ comp.news = <<>>
    /\ comp' = [comp EXCEPT !.news = <<Message("exclusive", None, TRUE)>>]
    /\ UNCHANGED <<backend, wire, req, sx>>
GiveFocus ==
    /\ budget.plugged = "focus" /\ comp.exclusive /\ Upset("lost")
    /\ comp' = [comp EXCEPT !.news = Append(@, Message("exclusive", None, FALSE))]
    /\ UNCHANGED <<backend, wire, req, sx>>

\* The user presses a key whose binding is enabled; or interacts with a window,
\* or its title changes.
PressKey ==
    /\ Plugs("key") /\ ManagerBound /\ comp.news = <<>>
    /\ \E kind \in {k \in {"key"} : comp.keys} \cup {k \in {"note"} : DOMAIN comp.dims # {}} :
         comp' = [comp EXCEPT !.news = <<Signal(kind)>>]
    /\ UNCHANGED <<backend, wire, req, sx>>

\* A layer surface has the keyboard from the sequence that says so.
Exclusive == LET said == SelectSeq(comp.news, LAMBDA m : m.kind = "exclusive")
             IN  IF said = <<>> THEN comp.exclusive ELSE said[Len(said)].size

ManageSequence ==
    /\ Running /\ comp.at = "idle" /\ (comp.news # <<>> \/ comp.dirty)
    /\ wire' = wire \o Append(comp.news, Signal("manage_start"))
    /\ comp' = [comp EXCEPT !.at = "manage", !.news = <<>>, !.dirty = FALSE, !.exclusive = Exclusive,
                            !.focus = IF Exclusive THEN None ELSE @]
    /\ UNCHANGED <<backend, req, sx, budget>>

InSomeOrder(S) == CHOOSE s \in [1..Cardinality(S) -> S] : IsInjective(s)

\* Windows that were asked for a size take one, not always the one asked for and
\* perhaps in a later sequence; others may change theirs unasked.
RenderSequence ==
    /\ Running /\ comp.at \in {"layout", "idle"}
    /\ \E took \in SUBSET DOMAIN comp.dims : \E size \in [took -> 1..MaxSize] :
         LET own == {w \in took \ comp.asked : size[w] # comp.dims[w]}
             late == IF comp.at = "layout" THEN comp.asked \ took ELSE {}
             said == InSomeOrder(took)
         IN  /\ took \ comp.asked = own
             /\ \A w \in own : comp.dims[w] # None
             /\ comp.at = "idle" => took # {}
             /\ own \cup late # {} => NothingPlugged
             /\ budget.upsets + Cardinality(own \cup late) <= MaxUpsets
             /\ budget' = [budget EXCEPT !.upsets = @ + Cardinality(own \cup late)]
             /\ wire' = wire \o [i \in DOMAIN said |-> Message("dims", said[i], size[said[i]])]
                             \o <<Signal("render_start")>>
             /\ comp' = [comp EXCEPT !.at = "render", !.asked = @ \ took,
                          !.dims = [w \in DOMAIN @ |-> IF w \in took THEN size[w] ELSE @[w]]]
    /\ UNCHANGED <<backend, req, sx>>

\* The globals River advertises: all it should, or one of them too old.
Adverts == {Required} \cup {[Required EXCEPT ![i] = @ - 1] : i \in Interfaces}
Advertised(versions) ==
    LET order == InSomeOrder(Interfaces)
    IN  [i \in DOMAIN order |-> Message("global", order[i], versions[order[i]])]
        \o <<Message("global", "wl_output", 1)>>

\* Objects in the order of their numbers.
Nth(objects, i) == CHOOSE o \in objects : Cardinality({p \in objects : p <= o}) = i
InOrder(objects) == [i \in 1..Cardinality(objects) |-> Nth(objects, i)]

\* What the initial replay tells of.
Replayed(ws) ==
    LET All(kind, objects) ==
            LET order == InOrder(objects) IN [i \in DOMAIN order |-> Message(kind, order[i], None)]
        windows == InSomeOrder(ws)
    IN  All("output", comp.outputs) \o All("geometry", comp.outputs) \o All("seat", comp.seats)
        \o [i \in DOMAIN windows |-> Message("window", windows[i], None)]

\* A request of the startup arrives.
CompositorConnects ==
    /\ Running /\ req # <<>>
    /\ req' = Tail(req)
    /\ \/ /\ Head(req).kind = "get_registry"
          /\ \E versions \in Adverts : wire' = wire \o Advertised(versions)
          /\ comp' = [comp EXCEPT !.bound = {"registry"}]
          /\ UNCHANGED budget
       \/ /\ Head(req).kind = "sync"
          /\ wire' = Append(wire, Signal("sync_done"))
          /\ UNCHANGED <<comp, budget>>
       \/ /\ Head(req).kind = "bind_companions"
          /\ \E kind \in [comp.devices -> DeviceKinds] :
               LET order == InOrder(comp.devices)
               IN  wire' = wire \o [i \in DOMAIN order |-> Message(kind[order[i]], order[i], None)]
          /\ comp' = [comp EXCEPT !.bound = @ \cup {"input_manager"}]
          /\ UNCHANGED budget
       \/ /\ Head(req).kind = "bind_window_manager"
          /\ \/ /\ \E ws \in SUBSET Window :
                     /\ comp' = [comp EXCEPT !.bound = @ \cup {"window_manager"},
                                             !.news = Replayed(ws), !.dims = [w \in ws |-> None]]
                     /\ budget' = [budget EXCEPT !.opened = ws]
                /\ UNCHANGED wire
             \/ wire' = Append(wire, Signal("unavailable")) /\ UNCHANGED <<comp, budget>>
    /\ UNCHANGED <<backend, sx>>

\* set_tap is answered before any later sync; a removed device may never answer.
CompositorTaps ==
    /\ Running /\ req # <<>> /\ Head(req).kind = "set_tap"
    /\ req' = Tail(req)
    /\ \E d \in Head(req).of :
         \/ \E ok \in BOOLEAN : wire' = Append(wire, Message("tap_result", d, ok))
         \/ d \notin comp.devices /\ UNCHANGED wire
    /\ UNCHANGED <<backend, comp, sx, budget>>

\* What a request makes of the compositor; one out of sequence is a
\* sequence_order error.
AfterRequest(r) ==
    LET focus == IF r.focus = "keep" \/ comp.exclusive THEN comp.focus
                 ELSE IF r.focus \in DOMAIN comp.dims THEN r.focus ELSE None
    IN  CASE r.kind = "manage_finish" /\ comp.at = "manage" ->
               [comp EXCEPT !.at = "layout", !.focus = focus, !.keys = @ \/ r.binds,
                            !.asked = @ \cup (r.of \cap DOMAIN comp.dims)]
          [] r.kind = "render_finish" /\ comp.at = "render" -> [comp EXCEPT !.at = "idle"]
          [] r.kind = "manage_dirty" -> [comp EXCEPT !.dirty = TRUE]
          [] r.kind = "get_output" ->
               [comp EXCEPT !.news = News([i \in 1..Cardinality(r.of \cap comp.outputs) |->
                                              Message("area", CHOOSE o \in r.of : TRUE, None)])]
          [] r.kind = "exit_session" -> [comp EXCEPT !.gone = TRUE]
          [] r.kind = "other" -> comp
          [] OTHER -> [comp EXCEPT !.error = TRUE]

CompositorReads ==
    /\ Running /\ req # <<>>
    /\ Head(req).kind \notin {"get_registry", "sync", "bind_companions", "bind_window_manager", "set_tap"}
    /\ req' = Tail(req) /\ comp' = AfterRequest(Head(req))
    /\ UNCHANGED <<backend, wire, sx, budget>>

-----------------------------------------------------------------------------
(* The answer to a turn.  A projection maps the windows it places to sizes. *)

Projections == UNION {[ws -> Sizes] : ws \in SUBSET DOMAIN wins}
Fullscreen(p) == \E w \in DOMAIN p : DOMAIN p = {w} /\ p[w] = OutputSize
\* The window a projection gives the keyboard, None under a layer surface.
FocusOf(p, exclusive) == IF exclusive \/ DOMAIN p = {} THEN None ELSE CHOOSE w \in DOMAIN p : TRUE

\* apply_manage_response for one placed window.
Managed(win, size, full) ==
    LET left == IF win.full /\ ~full
                THEN [win EXCEPT !.full = FALSE, !.proposed = None, !.awaiting = FALSE,
                                 !.placed = FALSE]
                ELSE win
    IN  IF full
        THEN [win EXCEPT !.full = TRUE, !.awaiting = @ /\ win.full]
        ELSE [left EXCEPT !.proposed = size, !.awaiting = @ \/ left.proposed # size]

apply_manage_response(p) ==
    [w \in DOMAIN wins |-> IF w \in DOMAIN p THEN Managed(wins[w], p[w], Fullscreen(p)) ELSE wins[w]]

\* The focus request: only when the focus changes, and not under a layer surface.
FocusRequest(p, focus) ==
    IF p = None \/ b.exclusive \/ b.focused = focus THEN "keep" ELSE focus

\* The windows it asks for a size, by proposal or by fullscreen.
Asks(p) == {w \in DOMAIN p : \/ Fullscreen(p) /\ ~wins[w].full
                             \/ ~Fullscreen(p) /\ (wins[w].full \/ wins[w].proposed # p[w])}

\* The deferred corrections an answer still asks for.
Corrected(p) == {w \in DOMAIN b.deferred \cap DOMAIN wins :
                    p = None \/ (w \in DOMAIN p /\ p[w] = b.deferred[w].target)}
Propose(ws, corrected) ==
    [w \in DOMAIN ws |-> IF w \in corrected
                         THEN [ws[w] EXCEPT !.proposed = b.deferred[w].size, !.awaiting = TRUE]
                         ELSE ws[w]]

\* respond_policy_turn with projection p, or with None; the bindings are enabled
\* from the first work area on.
respond_policy_turn(ticket, p, focus, binds) ==
    LET shown == IF p = None THEN <<>> ELSE p
        corrected == IF b.terminal THEN {} ELSE Corrected(p)
        asks == IF b.terminal THEN {} ELSE Asks(shown) \cup corrected
        ask == IF b.terminal THEN "keep" ELSE FocusRequest(p, focus)
    IN  /\ wins' = IF b.terminal THEN wins ELSE Propose(apply_manage_response(shown), corrected)
        /\ out' = Append(out, [Request("manage_finish", asks) EXCEPT !.focus = ask,
                                                                            !.binds = binds /\ ~b.terminal])
        /\ b' = [b EXCEPT !.public = Tail(@), !.open_turn = FALSE, !.flush_pending = TRUE,
                          !.terminal = FALSE,
                          !.focused = IF ask = "keep" THEN @ ELSE ask,
                          !.deferred = IF b.terminal THEN @ ELSE <<>>,
                          !.pending = [stage |-> "AwaitRender", ticket |-> ticket, projection |-> p,
                                       terminal |-> b.terminal, corrections |-> <<>>,
                                       correction_round |-> corrected # {}]]

-----------------------------------------------------------------------------
(* Dispatching a message: apply_runtime_event.                             *)

Fails(why) == /\ sx' = [sx EXCEPT !.phase = "Failed", !.at = why]
              /\ UNCHANGED <<wins, b, out>>

\* finish_policy_turn, of a backend whose events are policy.
finish_policy_turn(c, ws) ==
    LET opened == {w \in DOMAIN ws : ws[w].pending_open}
        selected == SelectOutput(c.selected, c.outputs, c.lost)
        facts == c.policy \cup (IF opened # {} THEN {"opened"} ELSE {})
                          \cup (IF c.lost /\ selected # None THEN {"area"} ELSE {})
                          \cup (IF c.replay THEN {"replay"} ELSE {})
    IN  [c EXCEPT !.open_turn = TRUE, !.policy = {}, !.drain_ticket = None, !.replay = FALSE,
                  !.selected = selected, !.lost = FALSE,
                  !.terminal = @ \/ selected = None \/ c.seat = None,
                  !.public = Append(@, Event("PolicyTurn", c.drain_ticket, facts))]

\* The completion that does not arm the drain tag.
CompleteForCorrection_Untagged(c) ==
    [c EXCEPT !.pending = None, !.deferred = c.pending.corrections,
              !.last_projection = IF c.pending.projection # None THEN c.pending.projection ELSE @,
              !.public = Append(@, Event("OperationCompleted", c.pending.ticket, {"ok"}))]
\* The response that waited for the correction sequence completes first.
CompleteForCorrection(c) ==
    [c EXCEPT !.pending = None, !.deferred = c.pending.corrections,
              !.last_projection = IF c.pending.projection # None THEN c.pending.projection ELSE @,
              !.public = Append(@, Event("OperationCompleted", c.pending.ticket, {"ok"})),
              !.drain_ticket = c.pending.ticket]

\* A seat selected after an earlier one that is still there.
SeatOutOfOrder ==
    /\ b.seat # None /\ SelectOutput(b.selected, b.outputs, b.lost) # None
    /\ \E s \in b.seats : s < b.seat

ManageStart ==
    LET asked == [b EXCEPT !.turn_requested = FALSE]
        settled == IF b.pending # None /\ b.pending.stage = "AwaitCorrectionManage"
                   THEN CompleteForCorrection(asked) ELSE asked
    IN  IF SeatOutOfOrder THEN Fails("protocol")
        ELSE
        /\ b' = finish_policy_turn(settled, wins)
        /\ wins' = [w \in DOMAIN wins |-> [wins[w] EXCEPT !.pending_open = FALSE]]
        /\ UNCHANGED <<out, sx>>

\* apply_render_response.
Short(w, p) == ~wins[w].full /\ wins[w].dims # None /\ wins[w].dims < p[w]
\* A window still short after its correction stays hidden.
Rendered_NeverShort(w, p, allow) ==
    IF w \in DOMAIN p
    THEN [wins[w] EXCEPT !.placed = @ \/ ~wins[w].full,
            !.hidden = IF wins[w].full \/ (wins[w].dims # None /\ ~Short(w, p)) THEN FALSE ELSE @]
    ELSE [wins[w] EXCEPT !.hidden = IF wins[w].pending_open THEN @ ELSE TRUE]
Rendered(w, p, allow) ==
    IF w \in DOMAIN p
    THEN [wins[w] EXCEPT !.placed = @ \/ ~wins[w].full,
            !.hidden = IF wins[w].full \/ (wins[w].dims # None /\ ~(allow /\ Short(w, p)))
                       THEN FALSE ELSE @]
    ELSE [wins[w] EXCEPT !.hidden = IF wins[w].pending_open THEN @ ELSE TRUE]
apply_render_response(p, allow) == [w \in DOMAIN wins |-> Rendered(w, p, allow)]
Corrections(p) ==
    [w \in {v \in DOMAIN p : Short(v, p)} |-> [target |-> p[w], size |-> 2 * p[w] - wins[w].dims]]

\* What a render sequence shows, None after a lost seat.
RenderedProjection ==
    CASE b.pending = None -> b.last_projection
      [] b.pending # None /\ b.pending.terminal -> None
      [] b.pending # None /\ ~b.pending.terminal ->
           IF b.pending.projection # None THEN b.pending.projection ELSE b.last_projection

RenderStart ==
    LET p == RenderedProjection
        stage == IF b.pending = None THEN "none" ELSE b.pending.stage
        allow == \/ stage = "AwaitCorrectionManage"
                 \/ stage = "AwaitRender" /\ ~b.pending.correction_round
        corrections == IF stage = "AwaitRender" /\ allow /\ p # None THEN Corrections(p) ELSE <<>>
        again == corrections # <<>>
    IN  IF stage = "FlushingRender" \/ (p # None /\ ~(DOMAIN p \subseteq DOMAIN wins))
        THEN Fails("protocol")
        ELSE /\ wins' = IF p = None THEN wins ELSE apply_render_response(p, allow)
             /\ out' = out \o (IF wins' # wins THEN <<Request("other", {})>> ELSE <<>>)
                           \o <<Request("render_finish", {})>>
                           \o (IF again THEN <<Request("manage_dirty", {})>> ELSE <<>>)
             /\ b' = [b EXCEPT !.flush_pending = TRUE,
                        !.pending = IF stage # "AwaitRender" THEN @
                                    ELSE [@ EXCEPT !.stage = IF again THEN "AwaitCorrectionManage"
                                                             ELSE "FlushingRender",
                                                   !.corrections = corrections,
                                                   !.correction_round = @ \/ again]]
             /\ UNCHANGED sx

WindowDimensions(w, size) ==
    LET win == wins[w]
        drift == /\ win.dims # size /\ ~win.awaiting /\ ~win.full /\ b.pending = None
                 /\ ~win.pending_open /\ win.placed
    IN  /\ wins' = [wins EXCEPT ![w].awaiting = FALSE, ![w].dims = size,
                                ![w].proposed = IF drift THEN None ELSE @]
        /\ b' = [b EXCEPT !.policy = IF drift THEN @ \cup {"drift"} ELSE @]
        /\ UNCHANGED <<out, sx>>

\* A handler that sends requests no sequence waits for.
SendsAll(c, requests) == /\ out' = out \o requests
                         /\ b' = [c EXCEPT !.flush_pending = @ \/ requests # <<>>]
                         /\ UNCHANGED sx
Sends(c) == SendsAll(c, <<Request("other", {})>>)
\* One that sends none.
Keeps(c) == b' = c /\ UNCHANGED <<out, sx>>

NewWindow == [pending_open |-> TRUE, dims |-> None, proposed |-> None, awaiting |-> FALSE,
              placed |-> FALSE, hidden |-> None, full |-> FALSE]
WindowCreated(w) == wins' = With(wins, w, NewWindow) /\ Sends(b)
WindowClosed(w) ==
    /\ wins' = Without(wins, w)
    /\ Sends([b EXCEPT !.policy = IF wins[w].pending_open THEN @ ELSE @ \cup {"closed"},
                       !.focused = IF @ = w THEN None ELSE @])

OutputCreated(o) ==
    /\ SendsAll([b EXCEPT !.outputs = With(@, o, NewOutput)], <<Request("get_output", {o})>>)
    /\ UNCHANGED wins
\* OutputPosition and OutputDimensions.
OutputGeometry(o) == Keeps([b EXCEPT !.outputs[o].geometry = TRUE]) /\ UNCHANGED wins

\* Windows full on the output that went are full no more.
Unfull == [w \in DOMAIN wins |-> IF ~wins[w].full THEN wins[w]
                                 ELSE [wins[w] EXCEPT !.full = FALSE, !.proposed = None,
                                                      !.awaiting = FALSE, !.placed = FALSE]]
OutputRemoved(o) ==
    /\ wins' = IF b.selected = o THEN Unfull ELSE wins
    /\ Sends([b EXCEPT !.outputs = Without(@, o), !.lost = @ \/ b.selected = o,
                       !.selected = IF @ = o THEN None ELSE @])

\* Only a change of the selected output's work area is told.
Workarea(o) ==
    /\ Keeps([b EXCEPT !.outputs[o].area = TRUE,
                       !.policy = IF b.selected = o THEN @ \cup {"area"} ELSE @])
    /\ UNCHANGED wins

\* The first seat is selected, and gets the bindings.
SeatCreated(s) ==
    /\ IF b.seat = None THEN Sends([b EXCEPT !.seats = @ \cup {s}, !.seat = s])
       ELSE Keeps([b EXCEPT !.seats = @ \cup {s}])
    /\ UNCHANGED wins
SeatRemoved(s) ==
    /\ Sends([b EXCEPT !.seats = @ \ {s}, !.seat = IF @ = s THEN None ELSE @,
                       !.terminal = @ \/ b.seat = s])
    /\ UNCHANGED wins

ExclusiveFocus(exclusive) ==
    /\ Keeps([b EXCEPT !.exclusive = exclusive, !.focused = IF exclusive THEN None ELSE @,
                       !.policy = @ \cup {IF exclusive THEN "exclusive" ELSE "inclusive"}])
    /\ UNCHANGED wins
\* A binding or an eaten key; or a modifier, a title or a window interacted with.
PolicyFact(kind) == Keeps([b EXCEPT !.policy = @ \cup {kind}]) /\ UNCHANGED wins

InputEvents(held) ==
    apply_input_events([devices |-> b.devices, results |-> b.results, sent |-> <<>>, error |-> "none"],
                       held)
InputEvent(m) ==
    \E s \in {InputEvents(<<m>>)} :
        IF s.error # "none" THEN Fails(s.error)
        ELSE /\ SendsAll([b EXCEPT !.devices = s.devices, !.results = s.results], s.sent)
             /\ UNCHANGED wins

\* An event about an object the backend does not know ends it.
About(known, handler) == IF known THEN handler ELSE Fails("protocol")

\* The events of the window manager, windows, outputs with their layer-shell
\* objects, seats with theirs and their bindings, input, and the registry.
ManagerEvent(m) ==
    \/ m.kind = "manage_start" /\ ManageStart
    \/ m.kind = "render_start" /\ RenderStart
    \/ m.kind = "window" /\ WindowCreated(m.w)
    \/ m.kind = "output" /\ OutputCreated(m.w)
    \/ m.kind = "seat" /\ SeatCreated(m.w)
    \/ m.kind = "unavailable" /\ Fails("unavailable")
WindowEvent(m) ==
    \/ m.kind = "dims" /\ About(m.w \in DOMAIN wins, WindowDimensions(m.w, m.size))
    \/ m.kind = "closed" /\ About(m.w \in DOMAIN wins, WindowClosed(m.w))
OutputEvent(m) ==
    \/ m.kind = "geometry" /\ About(m.w \in DOMAIN b.outputs, OutputGeometry(m.w))
    \/ m.kind = "area" /\ About(m.w \in DOMAIN b.outputs, Workarea(m.w))
    \/ m.kind = "output_removed" /\ About(m.w \in DOMAIN b.outputs, OutputRemoved(m.w))
SeatEvent(m) ==
    \/ m.kind = "seat_removed" /\ About(m.w \in b.seats, SeatRemoved(m.w))
    \/ m.kind = "exclusive" /\ ExclusiveFocus(m.size)
    \/ m.kind \in {"key", "note"} /\ PolicyFact(m.kind)

apply_runtime_event(m) ==
    \/ ManagerEvent(m) \/ WindowEvent(m) \/ OutputEvent(m) \/ SeatEvent(m)
    \/ m.kind \in InputKinds /\ InputEvent(m)
    \/ m.kind \in RegistryKinds /\ Fails("registry")

-----------------------------------------------------------------------------
(* connect(), which blocks: the discovery of globals, the two input fences, *)
(* and the window manager bound last.                                      *)

Connecting == sx.phase = "Connecting"
Writable == Len(req) < SocketRoom

\* Nothing is consumed while requests are unsent.
PumpFlush ==
    /\ Connecting /\ out # <<>> /\ Writable
    /\ req' = Append(req, Head(out)) /\ out' = Tail(out)
    /\ UNCHANGED <<wins, b, decoded, wire, comp, sx, budget>>

Consumes(fence) == Connecting /\ out = <<>> /\ wire # <<>> /\ b.fence = fence
Next_fence(c, requests) == b' = c /\ out' = requests /\ UNCHANGED <<wins, sx>>

Discovery ==
    /\ Consumes("globals")
    /\ wire' = Tail(wire)
    /\ LET m == Head(wire)
       IN  \/ m.kind = "global" /\ Next_fence([b EXCEPT !.globals = record(@, m.w, m.size)], <<>>)
           \/ m.kind = "global_removed" /\ Next_fence([b EXCEPT !.globals = remove(@, m.w)], <<>>)
           \/ /\ m.kind = "sync_done"
              /\ IF validate(b.globals)
                 THEN Next_fence([b EXCEPT !.fence = "devices"],
                                 <<Request("bind_companions", {}), Request("sync", {})>>)
                 ELSE Fails("globals")
    /\ UNCHANGED <<decoded, req, comp, budget>>

\* Until a fence's callback input events are held, then applied in order.
Holds(fence) ==
    /\ Consumes(fence) /\ Head(wire).kind # "sync_done"
    /\ wire' = Tail(wire)
    /\ Next_fence(IF Head(wire).kind \in InputKinds THEN [b EXCEPT !.held = Append(@, Head(wire))] ELSE b,
                  <<>>)
    /\ UNCHANGED <<decoded, req, comp, budget>>

DeviceFence ==
    /\ Consumes("devices") /\ Head(wire).kind = "sync_done"
    /\ wire' = Tail(wire)
    /\ \E s \in {InputEvents(b.held)} :
         IF s.error # "none" THEN Fails(s.error)
         ELSE Next_fence([b EXCEPT !.fence = "results", !.held = <<>>, !.devices = s.devices,
                                   !.results = s.results],
                         Append(s.sent, Request("sync", {})))
    /\ UNCHANGED <<decoded, req, comp, budget>>

\* A policy whose result has not come by the second callback ends the startup.
ResultFence ==
    /\ Consumes("results") /\ Head(wire).kind = "sync_done"
    /\ wire' = Tail(wire)
    /\ \E s \in {InputEvents(b.held)} :
         IF s.error # "none" THEN Fails(s.error)
         ELSE IF s.results # {} THEN Fails("unsettled")
         ELSE Next_fence([b EXCEPT !.fence = "manager", !.held = <<>>, !.devices = s.devices,
                                   !.results = {}],
                         Append(s.sent, Request("bind_window_manager", {})))
    /\ UNCHANGED <<decoded, req, comp, budget>>

\* flush_blocking has sent the last request.
Connected ==
    /\ Connecting /\ b.fence = "manager" /\ out = <<>>
    /\ sx' = [sx EXCEPT !.phase = "Recovering"]
    /\ b' = [b EXCEPT !.fence = "done", !.globals = [i \in Interfaces |-> 0]]
    /\ UNCHANGED <<wins, decoded, out, wire, req, comp, budget>>

-----------------------------------------------------------------------------
(* The loop: poll_interest, readiness, and one service quantum.            *)

Exiting == sx.phase = "Exiting"
Immediate == \/ b.flush_pending /\ ~b.flush_blocked
             \/ b.public # <<>>
             \/ ~b.open_turn /\ ~b.read_guard

\* run_combined_loop hands poll's readiness to a quantum only when none is immediate.
Ready(condition) == ~Immediate /\ condition

\* The startup's pump and the loop use the same quantum.
Up == sx.phase \in {"Recovering", "Live"}
Serviced == Up \/ Exiting
\* A blocked flush that fresh writability does not resume.
FlushDue_NeverResumed == b.flush_pending /\ ~b.flush_blocked
\* A blocked flush waits for fresh writability.
FlushDue == b.flush_pending /\ (~b.flush_blocked \/ Ready(Writable))

\* The flush of render_finish completes the response.
Completed(c) ==
    IF c.pending = None \/ c.pending.stage # "FlushingRender" THEN c
    ELSE LET ok == ~c.pending.terminal
         IN  [c EXCEPT !.pending = None,
                !.last_projection = IF ok /\ c.pending.projection # None THEN c.pending.projection
                                    ELSE @,
                !.public = Append(@, Event("OperationCompleted", c.pending.ticket,
                                           IF ok THEN {"ok"} ELSE {})),
                !.drain_ticket = IF ok THEN c.pending.ticket ELSE @]

ServiceFlush ==
    /\ Serviced /\ FlushDue
    /\ LET sent == IF Len(out) <= SocketRoom - Len(req) THEN Len(out) ELSE SocketRoom - Len(req)
       IN  /\ req' = req \o SubSeq(out, 1, sent)
           /\ out' = SubSeq(out, sent + 1, Len(out))
           /\ b' = CASE sent = Len(out) /\ ~Exiting ->
                          Completed([b EXCEPT !.flush_pending = FALSE, !.flush_blocked = FALSE])
                     [] sent = Len(out) /\ Exiting ->
                          [b EXCEPT !.flush_pending = FALSE, !.flush_blocked = FALSE,
                                    !.exit_flushed = TRUE, !.pending = None]
                     [] OTHER -> [b EXCEPT !.flush_blocked = sent = 0]
    /\ UNCHANGED <<wins, decoded, wire, comp, sx, budget>>

\* After the exit request only the disconnect counts: Disconnected, ExitComplete.
ServiceExit ==
    /\ Exiting /\ ~FlushDue
    /\ sx' = [sx EXCEPT !.phase = IF Ready(comp.gone) /\ b.exit_flushed THEN "ExitComplete" ELSE @]
    /\ UNCHANGED <<backend, wire, req, comp, budget>>

\* The next quantum of a live session, after flushes and public events.
Ingress == Up /\ ~FlushDue /\ b.public = <<>> /\ ~b.open_turn

ServiceDispatch ==
    /\ Ingress /\ ~b.read_guard /\ decoded # <<>>
    /\ decoded' = Tail(decoded)
    /\ apply_runtime_event(Head(decoded))
    /\ UNCHANGED <<wire, req, comp, budget>>

\* Nothing decoded is left: the empty marker, if a response waits for it.
ServiceDrained ==
    /\ Ingress /\ ~b.read_guard /\ decoded = <<>> /\ b.drain_ticket # None
    /\ b' = [b EXCEPT !.drain_ticket = None,
                      !.public = Append(@, Event("RetainedObservationsDrained", b.drain_ticket, {}))]
    /\ UNCHANGED <<wins, decoded, out, wire, req, comp, sx, budget>>

ServicePrepareRead ==
    /\ Ingress /\ ~b.read_guard /\ decoded = <<>> /\ b.drain_ticket = None
    /\ b' = [b EXCEPT !.read_guard = TRUE]
    /\ UNCHANGED <<wins, decoded, out, wire, req, comp, sx, budget>>

\* What has arrived by now is read at once.
ServiceRead ==
    /\ Ingress /\ b.read_guard /\ Ready(wire # <<>>)
    /\ \E n \in 1..Len(wire) : /\ decoded' = SubSeq(wire, 1, n)
                               /\ wire' = SubSeq(wire, n + 1, Len(wire))
    /\ b' = [b EXCEPT !.read_guard = FALSE]
    /\ UNCHANGED <<wins, out, req, comp, sx, budget>>

-----------------------------------------------------------------------------
(* The session takes the public event of the quantum.                      *)

TakesEvent == Up /\ ~FlushDue /\ b.public # <<>>

\* validate_policy_turn: the tag the session's substate asks for, the replay first
\* and in it only windows and one change of exclusive focus.
Expected(ev) == /\ IF sx.at = "AwaitingDrain" THEN ev.ticket = sx.ticket
                   ELSE sx.at # "InFlight" /\ ev.ticket = None
                /\ ("replay" \in ev.facts) = (sx.last = 0)
                /\ "replay" \in ev.facts =>
                      /\ ev.facts \subseteq {"replay", "opened", "exclusive", "inclusive"}
                      /\ ~({"exclusive", "inclusive"} \subseteq ev.facts)
\* Bindings and eaten keys are for a live session.
Early(ev) == "key" \in ev.facts /\ sx.phase # "Live"

\* There is no projection before the first work area.  A window that opened or
\* closed, a new work area or exclusive focus makes it part of the answer.
Answers(ev, area) ==
    LET last == IF b.last_projection = None THEN <<>> ELSE b.last_projection
        kept == [w \in DOMAIN last \cap DOMAIN wins |-> last[w]]
    IN  IF area = None THEN {None}
        ELSE (IF sx.last < MaxTickets THEN Projections ELSE {kept})
             \cup (IF ev.facts \ {"key", "note", "drift"} = {} THEN {None} ELSE {})

\* Of two changes in one turn the later counts, which the backend also has.
SessionExclusive(ev) == IF ev.facts \cap {"exclusive", "inclusive"} = {} THEN sx.exclusive ELSE b.exclusive

handle_policy_turn ==
    /\ TakesEvent /\ Head(b.public).kind = "PolicyTurn"
    /\ LET ev == Head(b.public)
           ticket == IF sx.at = "AwaitingTurn" THEN sx.ticket ELSE sx.last + 1
       IN  IF ~Expected(ev) THEN Fails("sequence")
           ELSE IF Early(ev) THEN Fails("early")
           ELSE \E area \in {IF "area" \in ev.facts THEN b.selected ELSE sx.area} :
                \E exclusive \in {SessionExclusive(ev)} :
                /\ sx' = [sx EXCEPT !.at = "InFlight", !.ticket = ticket, !.area = area,
                                    !.last = IF ticket > @ THEN ticket ELSE @,
                                    !.exclusive = exclusive]
                /\ \E p \in Answers(ev, area) :
                     respond_policy_turn(ticket, p, IF p = None THEN None ELSE FocusOf(p, exclusive),
                                         area # None)
    /\ UNCHANGED <<decoded, wire, req, comp, budget>>

handle_operation_completed ==
    /\ TakesEvent /\ Head(b.public).kind = "OperationCompleted"
    /\ LET ev == Head(b.public)
       IN  IF sx.at # "InFlight" \/ ev.ticket # sx.ticket THEN Fails("sequence")
           ELSE IF ev.facts = {} THEN Fails("unusable")
           ELSE /\ sx' = [sx EXCEPT !.at = "AwaitingDrain"]
                /\ b' = [b EXCEPT !.public = Tail(@)]
                /\ UNCHANGED <<wins, out>>
    /\ UNCHANGED <<decoded, wire, req, comp, budget>>

\* The transaction ends: the session is live once it has projected, and then the
\* transaction may have staged a Quit.
handle_observations_drained ==
    /\ TakesEvent /\ Head(b.public).kind = "RetainedObservationsDrained"
    /\ IF sx.at # "AwaitingDrain" \/ Head(b.public).ticket # sx.ticket THEN Fails("sequence")
       ELSE /\ \E phase \in IF sx.phase = "Live" THEN {"Live"} \cup {p \in {"QuitPending"} : NothingPlugged}
                          ELSE {IF sx.area = None THEN "Recovering" ELSE "Live"} :
                 sx' = [sx EXCEPT !.at = "Idle", !.ticket = 0, !.phase = phase]
            /\ b' = [b EXCEPT !.public = Tail(@)]
            /\ UNCHANGED <<wins, out>>
    /\ UNCHANGED <<decoded, wire, req, comp, budget>>

\* Timers and clients are served when no quantum is immediate.
OthersServed == sx.phase = "Live" /\ b.public = <<>> /\ b.read_guard

\* An action or a key repeat asks for a turn: request_policy_turn.
request_policy_turn ==
    /\ OthersServed /\ ~Immediate /\ sx.at = "Idle" /\ sx.last < MaxTickets
    /\ sx' = [sx EXCEPT !.at = "AwaitingTurn", !.ticket = sx.last + 1, !.last = @ + 1]
    /\ out' = IF b.turn_requested THEN out ELSE Append(out, Request("manage_dirty", {}))
    /\ b' = [b EXCEPT !.turn_requested = TRUE, !.flush_pending = @ \/ ~b.turn_requested]
    /\ UNCHANGED <<wins, decoded, wire, req, comp, budget>>

\* A client's Quit: the backend is not serviced until the exit begins.
begin_direct_quit ==
    /\ OthersServed /\ NothingPlugged
    /\ sx' = [sx EXCEPT !.phase = "QuitPending", !.at = "Idle", !.ticket = 0]
    /\ UNCHANGED <<backend, wire, req, comp, budget>>

\* An exit that takes an answered turn for an open one.
begin_exit_session_FinishesTwice ==
    /\ sx.phase = "QuitPending"
    /\ sx' = [sx EXCEPT !.phase = "Exiting"]
    /\ out' = out \o (IF b.pending # None THEN <<Request("manage_finish", {})>> ELSE <<>>)
                  \o <<Request("exit_session", {})>>
    /\ b' = [b EXCEPT !.read_guard = FALSE, !.public = <<>>, !.open_turn = FALSE, !.pending = None,
                      !.flush_pending = TRUE, !.flush_blocked = FALSE]
    /\ UNCHANGED <<wins, decoded, wire, req, comp, budget>>
\* begin_exit_session_inner: an open turn is finished, nothing else is answered.
begin_exit_session ==
    /\ sx.phase = "QuitPending"
    /\ sx' = [sx EXCEPT !.phase = "Exiting"]
    /\ out' = out \o (IF b.open_turn THEN <<Request("manage_finish", {})>> ELSE <<>>)
                  \o <<Request("exit_session", {})>>
    /\ b' = [b EXCEPT !.read_guard = FALSE, !.public = <<>>, !.open_turn = FALSE, !.pending = None,
                      !.flush_pending = TRUE, !.flush_blocked = FALSE]
    /\ UNCHANGED <<wins, decoded, wire, req, comp, budget>>

Service ==
    \/ ServiceFlush \/ ServiceDispatch \/ ServiceDrained \/ ServicePrepareRead \/ ServiceRead
    \/ handle_policy_turn \/ handle_operation_completed \/ handle_observations_drained
    \/ ServiceExit
    \/ PumpFlush \/ Discovery \/ Holds("devices") \/ Holds("results") \/ DeviceFence \/ ResultFence
    \/ Connected

Next ==
    \/ Service
    \/ request_policy_turn \/ begin_direct_quit \/ begin_exit_session
    \/ PlugDevice \/ UnplugDevice \/ PlugOutput \/ UnplugOutput \/ PlugSeat \/ UnplugSeat
    \/ TakeFocus \/ GiveFocus \/ PressKey
    \/ Happens \/ ManageSequence \/ RenderSequence
    \/ CompositorReads \/ CompositorConnects \/ CompositorTaps

Spec == Init /\ [][Next]_vars

-----------------------------------------------------------------------------
(* Properties.                                                             *)

\* manage_finish answers a manage_start and render_finish a render_start: River
\* never receives one out of sequence, whatever was blocked, corrected or quit.
SequenceOrder == ~comp.error

\* What ends the backend, other than River saying so.  A sequence or protocol
\* error: a request queued behind a render_finish that a partial flush has sent,
\* so that River's next sequence meets a response the backend has not completed,
\* or a seat selected after one that stays.  A key that comes early: only in the
\* tagged turn of a completed layout, whose response enabled the bindings and
\* whose drain makes the session live.  An unsettled policy: the device was announced between the two fences or is gone,
\* never one the first fence saw and that is still there; that a device which is
\* gone ends the startup is not what SPEC 0003 says of it.  No usable output:
\* none that is plugged in has told its work area.  No usable seat: the selected
\* one is gone, whether or not another has taken its place.
FatalCauses ==
    sx.phase = "Failed" =>
        /\ sx.at \in {"sequence", "protocol"} =>
             \/ b.pending # None /\ b.pending.stage = "FlushingRender" /\ out # <<>>
             \/ sx.at = "protocol" /\ b.seat = Newer /\ New \in b.seats
        /\ sx.at = "early" =>
             Head(b.public).ticket = sx.ticket /\ b.pending = None /\ b.last_projection # None
        /\ sx.at = "unsettled" =>
             \A d \in InputEvents(b.held).results :
                 d \in comp.devices => d \notin b.results
        /\ sx.at = "unusable" =>
             \/ b.seat \in {None, Newer}
             \/ \A o \in comp.outputs : o \notin DOMAIN b.outputs \/ ~b.outputs[o].area

\* At rest every window the projection places is shown, once it has a size, and
\* every other one is hidden: no correction or late answer leaves one behind.
\* The session tiles on an output that is there, and the window it focuses has
\* the keyboard unless a layer surface has it.
ShownAtRest ==
    sx.phase = "Live" /\ sx.at = "Idle" /\ comp.at = "idle" /\ comp.news = <<>>
    /\ wire = <<>> /\ decoded = <<>> /\ b.public = <<>> =>
        /\ \A w \in DOMAIN wins :
              IF w \in DOMAIN b.last_projection
              THEN wins[w].hidden = FALSE \/ (wins[w].dims = None /\ ~wins[w].full)
              ELSE wins[w].hidden = TRUE
        /\ sx.area = b.selected /\ b.selected \in comp.outputs
        /\ comp.focus = FocusOf(b.last_projection, comp.exclusive)

\* The loop services the backend whenever it can, the shutdown gates open in
\* bounded time, and River reads requests and carries a sequence on.
Fairness ==
    /\ WF_vars(Service) /\ WF_vars(begin_exit_session)
    /\ WF_vars(ManageSequence)
    /\ WF_vars(CompositorReads \/ CompositorConnects \/ CompositorTaps)
    /\ WF_vars(comp.at = "layout" /\ RenderSequence)
FairSpec == Spec /\ Fairness

\* Every answer to a turn completes or fails, through blocked flushes, late sizes
\* and at most one correction: the session never stays in flight.
ResponsesComplete == sx.at = "InFlight" ~> sx.at # "InFlight"

\* A completed response is followed by its empty marker or its tagged turn, as
\* SPEC 0003 (A43) says of a pending response that completes.
DrainFollows == sx.at = "AwaitingDrain" ~> sx.at # "AwaitingDrain"

\* The exit ends: the disconnect after the flushed exit request is reported and
\* the loop returns ExitComplete, as SPEC 0003 says of the exit drain.
ExitCompletes == sx.phase = "Exiting" ~> sx.phase = "ExitComplete"
=============================================================================
