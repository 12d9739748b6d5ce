---------------------------- MODULE SessionSpec ----------------------------
(***************************************************************************)
(* The session as the daemon runs it: Session<B> and the part of the       *)
(* runtime that owns its results (the pending control requester, the       *)
(* repeat timer, the clock), against a backend that keeps the WmBackend    *)
(* contract and a compositor that may do anything between two turns.       *)
(*                                                                         *)
(* A turn and its answer are one step, as in handle_policy_turn; what the  *)
(* compositor did since the last one is chosen when the turn comes.        *)
(***************************************************************************)
EXTENDS Session

CONSTANTS
    Snapshots,   \* snapshot files a restarted daemon may find
    Requests,    \* control requests: [action, arg]
    Workareas,
    MaxTickets,  \* tickets, hence transactions, of one behaviour
    MaxEvents,   \* observations between two turns
    MaxMinutes   \* clock ticks

ASSUME SessionAssumption == MaxEvents \in Nat /\ None \notin Workareas

VARIABLES
    phase,           \* SessionLifecyclePhase, or Failed: the daemon exits
    failure,         \* [phase, why] of a fatal error
    auth,            \* the committed AuthorityState
    last_projection, enabled, repeat_target,
    tx,              \* TransactionSubstate: [at, ticket]
    active,          \* Option<ActiveTransaction>
    last_ticket,
    state,           \* the published RealmState
    rt,              \* RuntimeOwners: [pending, armed, dirty]
    owed,            \* effect keys pressed before a Quit, less effects released
    minute,          \* the wall clock the bar should show
    comp             \* compositor and backend, as of the last turn

session == <<phase, failure, auth, last_projection, enabled, repeat_target, tx, active,
             last_ticket, state, rt, owed>>
vars == <<session, minute, comp>>

Idle == [at |-> "Idle", ticket |-> 0]
Startup == {"InitialReplay", "FinalizingReplay"}
Serving == phase \in Startup \cup {"Live"}

\* A daemon that has just connected, and a compositor it has told nothing.
Fresh(authority) ==
    [auth |-> authority, tx |-> Idle, active |-> Nothing, state |-> policy_visible_state(Connected(EmptySnapshot)),
     rt |-> [pending |-> None, armed |-> FALSE, dirty |-> FALSE],
     comp |-> [windows |-> {}, assigned |-> <<>>, area |-> None,
               exclusive |-> FALSE, enabled |-> {}, down |-> {}, eat |-> FALSE, shown |-> <<>>]]

Init ==
    \E file \in Snapshots :
        LET fresh == Fresh(Connected(LoadSnapshot(file)))
        IN  /\ phase = "InitialReplay" /\ failure = None /\ minute = 0
            /\ auth = fresh.auth /\ tx = fresh.tx /\ active = fresh.active /\ state = fresh.state
            /\ rt = fresh.rt /\ comp = fresh.comp /\ owed = 0 /\ last_ticket = 0
            /\ last_projection = <<>> /\ enabled = {} /\ repeat_target = None

-----------------------------------------------------------------------------
(* What the compositor may have done since the last turn: the events of the *)
(* turn, in order, and the compositor after them.                          *)

Event(kind, id, val) == [kind |-> kind, id |-> id, val |-> val]
Seen(kind, id, val, after) == [event |-> Event(kind, id, val), comp |-> after]

\* A window opened and closed between two turns is never announced.
WindowObservations(c) ==
    {Seen("WindowOpened", w, NewTitle, [c EXCEPT !.windows = @ \cup {w}]) : w \in Window \ c.windows}
    \cup {Seen("WindowClosed", w, None, [c EXCEPT !.assigned = Drop(@, w)]) : w \in DOMAIN c.assigned}
    \cup {Seen("TitleChanged", w, t, c) : w \in DOMAIN c.assigned, t \in Titles}

\* The output, and the keyboard focus of windows and of layer surfaces.
SeatObservations(c) ==
    {Seen("WorkareaChanged", None, area, [c EXCEPT !.area = area]) : area \in Workareas \ {c.area}}
    \cup {Seen("FocusChanged", w, None, c) : w \in DOMAIN c.assigned \cup {None}}
    \cup {Seen("ExclusiveFocusChanged", None, ~c.exclusive, [c EXCEPT !.exclusive = ~@])}

\* Repeating stops when another key goes down.
KeyObservations(c) ==
    {Seen("BindingPressed", id, None, [c EXCEPT !.down = @ \cup {id}, !.eat = FALSE]) :
        id \in c.enabled \ c.down}
    \cup {Seen("BindingReleased", id, None, [c EXCEPT !.down = @ \ {id}]) : id \in c.down}
    \cup {Seen("BindingRepeatStopped", id, None, c) : id \in c.down}
    \cup {Seen("UnboundKeyEaten", None, None, [c EXCEPT !.eat = FALSE]) : eaten \in {TRUE} \cap {c.eat}}

\* "The compositor should wait for the manage sequence to complete before
\* processing further input events" (river-xkb-bindings-v1.xml): one per turn.
InputEvents == BindingEvents \cup {"UnboundKeyEaten"}
MaySee(h, kind) ==
    kind \in InputEvents => \A i \in DOMAIN h.events : h.events[i].kind \notin InputEvents
Observations(c) == WindowObservations(c) \cup SeatObservations(c) \cup KeyObservations(c)
Observe(h) ==
    {[events |-> Append(h.events, o.event), comp |-> o.comp] :
        o \in {p \in Observations(h.comp) : MaySee(h, p.event.kind)}}

\* The first turn replays what exists and ends with the barrier.
Observed ==
    LET upto[n \in 0..MaxEvents] ==
            IF n = 0 THEN {[events |-> <<>>, comp |-> comp]}
            ELSE LET hs == upto[n - 1] IN hs \cup UNION {Observe(h) : h \in hs}
    IN  upto[MaxEvents]
Replayed(h) ==
    /\ \A i \in DOMAIN h.events : h.events[i].kind \in {"WindowOpened", "ExclusiveFocusChanged"}
    /\ \A i, j \in DOMAIN h.events :
         h.events[i].kind = "ExclusiveFocusChanged" /\ h.events[j].kind = h.events[i].kind
           => i = j
Barrier(h) == [h EXCEPT !.events = Append(@, Event("InitialReplayComplete", None, None))]
Histories ==
    IF phase = "InitialReplay" THEN {Barrier(h) : h \in {k \in Observed : Replayed(k)}}
    ELSE Observed

-----------------------------------------------------------------------------
(* The session.                                                            *)

\* The error ends the daemon, and what it held in memory is gone with it.
Fatal(why) ==
    /\ phase' = "Failed" /\ failure' = [phase |-> phase, why |-> why]
    /\ LET fresh == Fresh(Connected(EmptySnapshot))
       IN  /\ auth' = fresh.auth /\ tx' = fresh.tx /\ active' = fresh.active
           /\ state' = fresh.state /\ rt' = fresh.rt /\ comp' = fresh.comp
    /\ owed' = 0 /\ last_ticket' = 0 /\ minute' = 0
    /\ last_projection' = <<>> /\ enabled' = {} /\ repeat_target' = None

\* The NotReady test of every action.
Admitted == phase = "Live" /\ tx = Idle

NewTransaction == new_active_transaction(auth, last_projection, enabled)

\* Allocates the ticket and asks the backend for a turn.
AwaitTurn(a, at) ==
    /\ last_ticket < MaxTickets
    /\ last_ticket' = last_ticket + 1
    /\ tx' = [at |-> at, ticket |-> last_ticket + 1]
    /\ active' = Some(a)
    /\ UNCHANGED <<phase, failure, auth, last_projection, enabled, repeat_target, state>>

\* An external action waits for its turn; its requester waits for the boundary.
\* The runtime takes a second requester for a broken invariant.
AwaitExternalTurn(a) ==
    IF rt.pending # None THEN Fatal("invariant")
    ELSE /\ AwaitTurn([a EXCEPT !.original = last_ticket + 1], "AwaitingExternalTurn")
         /\ rt' = [rt EXCEPT !.pending = last_ticket + 1]
         /\ UNCHANGED <<owed, minute, comp>>

\* request_policy_turn failed with an I/O error: rolled back, the client told.
RequestRefused ==
    /\ last_ticket < MaxTickets /\ last_ticket' = last_ticket + 1
    /\ UNCHANGED <<phase, failure, auth, last_projection, enabled, repeat_target, tx, active,
                   state, rt, owed, minute, comp>>

\* install_authority and publish_current_state without a compositor turn.
InstallNow(authority) ==
    /\ auth' = authority
    /\ state' = policy_visible_state(authority)
    /\ UNCHANGED <<phase, failure, last_projection, enabled, repeat_target, tx, active,
                   last_ticket>>

\* stage_policy_ledger_update of a ledger that changed.
StageLedger(a, projection) ==
    IF projection = last_projection
    THEN InstallNow(a.working) /\ UNCHANGED <<rt, owed, minute, comp>>
    ELSE \/ AwaitExternalTurn([a EXCEPT !.projection = projection, !.required = TRUE])
         \/ RequestRefused
         \/ Fatal("backend")

stage_ledger_update(r) ==
    LET a == [NewTransaction EXCEPT !.working.ledger = LedgerAction(@, r.action, r.arg)]
    IN  /\ Admitted
        /\ r.action # "Banish" /\ a.working.ledger # auth.ledger
        /\ StageLedger(a, project_authority(a.working))

request_close_focused(r) ==
    /\ Admitted
    /\ r.action = "Banish" /\ LedgerFocus(auth.ledger) # NoWin
    /\ \/ AwaitExternalTurn([NewTransaction EXCEPT !.close_target = LedgerFocus(auth.ledger)])
       \/ RequestRefused
       \/ Fatal("backend")

\* A minute that passed during the transaction waits for the next one.
Fold_Never(authority) == authority
\* ClockRuntime::fold_if_clean: a minute that passed during the transaction.
Fold(authority) == IF rt.dirty THEN [authority EXCEPT !.modules = minute] ELSE authority

\* SessionTimers::apply_repeat of a RepeatTimerDirective.
apply_repeat(armed, directive) ==
    directive = "Arm" \/ (directive = "Preserve" /\ armed)

\* finalize_active, and handle_session_update of what it returns.
finalize_active(a) ==
    LET entering_live == phase = "FinalizingReplay" /\ a.working.area # None /\ a.submitted
        live == IF entering_live THEN "Live" ELSE IF a.bootstrap THEN "FinalizingReplay" ELSE phase
        repeat == FinalRepeat(a, repeat_target)
        authority == IF live = "Live" /\ ~a.quit_staged THEN Fold(a.working) ELSE a.working
    IN  IF a.original # None /\ a.original # rt.pending
        THEN Fatal("invariant")
        ELSE /\ phase' = IF a.quit_staged THEN "QuitPending" ELSE live
             /\ auth' = authority
             /\ last_projection' = IF a.submitted THEN a.projection ELSE last_projection
             /\ enabled' = a.enabled
             /\ repeat_target' = repeat.target
             /\ state' = IF live = "Live" THEN policy_visible_state(authority) ELSE state
             /\ rt' = [pending |-> IF a.original # None THEN None ELSE rt.pending,
                       armed |-> apply_repeat(rt.armed, repeat.timer),
                       dirty |-> FALSE]
             /\ owed' = owed - Len(a.effects)
             /\ active' = Nothing /\ tx' = Idle
             /\ UNCHANGED <<failure, minute, last_ticket, comp>>

\* assign_window of what the turn opened, and respond_policy_turn: the backend
\* must know every window the answer names, one identity for each.
Accepts(c, assigned, r) ==
    /\ \A b, d \in DOMAIN assigned : assigned[b] = assigned[d] => b = d
    /\ \A b \in DOMAIN c.assigned \cap DOMAIN assigned : assigned[b] = c.assigned[b]
    /\ r.closes \subseteq Range(assigned)
    /\ \A p \in Range(r.projection) : \A i \in DOMAIN p :
         p[i].win \in Range(assigned) /\ p[i].rect.w > 0 /\ p[i].rect.h > 0

Applied(c, assigned, r) ==
    [c EXCEPT !.assigned = assigned, !.enabled = r.enabled,
              !.eat = @ \/ r.edge = "Ensure",
              !.shown = IF r.projection = Nothing THEN @ ELSE r.projection[1]]

\* Effects asked for before a Quit, counted from the events alone.
EffectPresses(events, quit) ==
    Cardinality({i \in DOMAIN events :
        /\ events[i].kind = "BindingPressed" /\ Keymap[events[i].id].action \in EffectActions
        /\ ~quit
        /\ \A j \in 1..(i - 1) : ~(/\ events[j].kind = "BindingPressed"
                                   /\ Keymap[events[j].id].action = "Quit")})

\* The end of handle_policy_turn: the backend takes the answer r, always as
\* Pending (river's respond_policy_turn), or refuses it.
Respond(h, ticket, r, quit) ==
    LET a == Submitted(r)
        assigned == [b \in a.working.bound |-> a.working.ids[b]]
    IN  IF ~Accepts(h.comp, assigned, r) THEN Fatal("contract")
        ELSE /\ comp' = Applied(h.comp, assigned, r)
             /\ last_ticket' = Max2(last_ticket, ticket)
             /\ owed' = owed + EffectPresses(h.events, quit)
             /\ phase' = IF a.bootstrap THEN "FinalizingReplay" ELSE phase
             /\ active' = Some(a)
             /\ tx' = [at |-> "InFlight", ticket |-> ticket]
             /\ UNCHANGED <<failure, auth, last_projection, enabled, repeat_target, state, rt,
                            minute>>

\* handle_policy_turn.  A turn comes when something was observed or asked for.
PolicyTurn(h) ==
    LET staged == tx.at \in {"AwaitingExternalTurn", "AwaitingInternalTurn"}
        base == IF active = Nothing THEN NewTransaction ELSE active[1]
        ticket == IF staged THEN tx.ticket ELSE last_ticket + 1
        error == validate_policy_turn(phase, base.working, Len(base.effects),
                                      base.quit_staged, h.events)
    IN  /\ ticket <= MaxTickets
        /\ h.events # <<>> \/ staged
        /\ IF error # None THEN Fatal(error)
           ELSE \E r \in {AnswerTurn(phase, BeginTurn(base, staged), repeat_target,
                                        h.events)} :
                  Respond(h, ticket, r, base.quit_staged)

\* OperationCompleted of the answer: the compositor applied it.
OperationCompleted ==
    /\ Serving /\ tx.at = "InFlight"
    /\ tx' = [tx EXCEPT !.at = "AwaitingDrain"]
    /\ UNCHANGED <<phase, failure, auth, last_projection, enabled, repeat_target, active,
                   last_ticket, state, rt, owed, minute, comp>>

\* RetainedObservationsDrained: nothing arrived while the answer was applied.
ObservationsDrained ==
    /\ Serving /\ tx.at = "AwaitingDrain"
    /\ finalize_active(active[1])

\* What fire_key_repeat rechecks of its target.
RepeatAllowed == /\ repeat_target \in auth.held \cap enabled
                 /\ Keymap[repeat_target].repeatable

\* The end of fire_key_repeat: what needs no turn is installed at once.
RepeatAction(a) ==
    /\ IF ~a.required /\ ~a.binding_changed /\ a.closes = {}
       THEN InstallNow(Fold(a.working)) /\ rt' = [rt EXCEPT !.dirty = FALSE]
       ELSE /\ AwaitTurn([a EXCEPT !.projection = project_authority(a.working)],
                         "AwaitingInternalTurn")
            /\ UNCHANGED rt
    /\ UNCHANGED <<owed, minute, comp>>

\* service_repeat: the armed timer expires and fire_key_repeat finds its target.
fire_key_repeat ==
    /\ rt.armed /\ Admitted /\ repeat_target # None /\ RepeatAllowed
    /\ RepeatAction([apply_binding_action(NewTransaction, repeat_target)
                       EXCEPT !.repeat_candidate = None])

\* consume_clock: the timer expires when a minute begins, and is set to the next.
consume_clock == minute < MaxMinutes /\ minute' = minute + 1

\* service_clock: shown at once, or at the end of the private transaction.
Tick ==
    /\ phase = "Live" /\ consume_clock
    /\ auth' = IF tx = Idle THEN [auth EXCEPT !.modules = minute'] ELSE auth
    /\ state' = IF tx = Idle THEN [state EXCEPT !.modules = minute'] ELSE state
    /\ rt' = [rt EXCEPT !.dirty = tx # Idle]
    /\ UNCHANGED <<phase, failure, last_projection, enabled, repeat_target, tx, active,
                   last_ticket, owed, comp>>

\* abandon_private_transaction, and the edge that stops the repeat timer.
Abandon ==
    /\ active' = Nothing /\ tx' = Idle /\ repeat_target' = None
    /\ rt' = [rt EXCEPT !.armed = apply_repeat(@, "Disarm")]
    /\ UNCHANGED <<failure, auth, last_projection, enabled, last_ticket, state, owed, minute, comp>>

\* The direct Quit of a control client.  From QuitPending on the backend is not
\* serviced: what it observes is never read.
begin_direct_quit ==
    /\ phase = "Live" /\ phase' = "QuitPending" /\ Abandon

\* Once the Quit is answered, or at once when a key asked for it.
begin_shutdown == phase = "QuitPending" /\ phase' = "ShuttingDown" /\ Abandon

ExitStep(from, to) ==
    /\ phase = from /\ phase' = to
    /\ UNCHANGED <<failure, auth, last_projection, enabled, repeat_target, tx, active,
                   last_ticket, state, rt, owed, minute>>

\* The compositor is left with the keys of the committed mode; a backend that
\* cannot take the request ends the daemon.
begin_exit_session ==
    \/ /\ ExitStep("ShuttingDown", "Exiting")
       /\ comp' = [comp EXCEPT !.enabled = enabled]
    \/ phase = "ShuttingDown" /\ Fatal("backend")
complete_expected_exit == ExitStep("Exiting", "ExitComplete") /\ UNCHANGED comp

\* Disconnected, a failed completion, or an error of WmBackend::service.
BackendFails == Serving /\ Fatal("backend")

Next ==
    \/ \E r \in Requests : stage_ledger_update(r) \/ request_close_focused(r)
    \/ Serving /\ tx.at # "InFlight" /\ \E h \in Histories : PolicyTurn(h)
    \/ OperationCompleted \/ ObservationsDrained
    \/ fire_key_repeat \/ Tick
    \/ begin_direct_quit \/ begin_shutdown \/ begin_exit_session \/ complete_expected_exit
    \/ BackendFails

Spec == Init /\ [][Next]_vars

-----------------------------------------------------------------------------
Clean == phase = "Live" /\ tx = Idle

\* At a clean boundary (finalize_active, the local install) the compositor
\* shows the projection of the committed ledger and arms the keys of the
\* committed mode, whatever was opened, closed, pressed or resized while the
\* answers were under way.  Outside Nav it is still told to eat the next key.
CleanBoundaryShown ==
    Clean => /\ comp.shown = project_authority(auth) /\ comp.shown = last_projection
             /\ comp.enabled = enabled_bindings(auth.mode) /\ comp.enabled = enabled
             /\ comp.eat <=> auth.mode # "Nav"

\* Whenever the daemon may be asked for its snapshot (Session::snapshot, whose
\* expect must not panic), what it writes is what the next daemon accepts and
\* recovers: the same ledger without its history, the same identities and the
\* same watermark.  Its windows are the ones with metadata, and the backend
\* knows each of them, and no other, under the same WinId.
LiveSnapshotValid ==
    phase = "Live" =>
        /\ \E s \in {from_json(to_json(snapshot(auth)))} :
             /\ s # None
             /\ Restored(s) = [ledger |-> discard_undo_history(auth.ledger),
                               ids |-> auth.ids, next |-> auth.next]
        /\ DOMAIN auth.windows = AllWindows(auth.ledger)
        /\ tx = Idle => comp.assigned = auth.ids

\* The repeat timer runs exactly while the session has a repeat target, and at
\* a clean boundary that target is a held, enabled, repeatable binding: no
\* lost release or mode change leaves a key repeating by itself.  From the Quit
\* on nothing repeats.
RepeatTimerOwned ==
    /\ rt.armed <=> repeat_target # None
    /\ Clean /\ rt.armed => RepeatAllowed
    /\ phase \notin Startup \cup {"Live"} => ~rt.armed

\* The runtime owes an answer exactly when the private transaction carries the
\* action that asked for it: no request is answered twice, dropped, or answered
\* with the outcome of another.  And every effect key pressed before a Quit is
\* staged or was handed to the worker, once, however many turns the transaction
\* took.
TransactionOwesItsOwn ==
    phase = "Live" =>
        /\ rt.pending = (IF active = Nothing THEN None ELSE active[1].original)
        /\ owed = (IF active = Nothing THEN 0 ELSE Len(active[1].effects))

\* Once live, a session never answers a turn with something the backend
\* refuses (a window that is gone, a conflicting identity), never rejects a
\* turn of a backend that keeps its contract and never loses its requester.
NoContractFailureOnceLive ==
    failure # None /\ failure.phase = "Live" => failure.why \notin {"contract", "invariant"}

\* What subscribers last got is the state of the committed authority at a
\* clean boundary, and the clock in it is the current minute.
PublishedIsCurrent == Clean => state = policy_visible_state(auth) /\ state.modules = minute
=============================================================================
