------------------------------ MODULE Session ------------------------------
(***************************************************************************)
(* The transaction reducer of realm-session                                *)
(* (crates/realm-session/src/session.rs): what one policy turn, one key    *)
(* repeat or one control request makes of the authority and of the private *)
(* transaction.  SessionSpec runs it against the backend.                  *)
(*                                                                         *)
(* Left out, because no decision of the reducer reads them: chord_echo and *)
(* active_modifiers, effective_focus, text lengths, watched_modifiers.     *)
(***************************************************************************)
EXTENDS SnapshotWire

CONSTANTS
    Window,             \* BackendWindowId
    Keymap,             \* BackendBindingId -> [action, arg, mode, repeatable]
    Titles, NewTitle,   \* window titles; the one a new window reports
    MaxWinId,           \* u64::MAX of next_win_id
    MaxManagedWindows,  \* MAX_MANAGED_WINDOWS
    MaxStagedEffects    \* MAX_STAGED_EFFECTS

BindingId == DOMAIN Keymap

\* The bindings of realm-core::keys: focus and swap repeat, nothing else does.
ASSUME KeymapAssumption ==
    /\ None \notin BindingId
    /\ \A id \in BindingId : Keymap[id].repeatable <=> Keymap[id].action \in {"Focus", "Swap"}

EffectActions == {"Spawn", "Terminal", "Launcher", "ReloadTheme", "Quit"}
PanelActions == {"ToggleWhichKey", "Grimoire"}

\* An Option of a structure; None stands for the others.
Some(x) == <<x>>
Nothing == <<>>

Drop(f, k) == [x \in DOMAIN f \ {k} |-> f[x]]
With(f, k, v) == [x \in DOMAIN f \cup {k} |-> IF x = k THEN v ELSE f[x]]

-----------------------------------------------------------------------------
(* Reading an authority.                                                   *)

\* AuthorityState at connect, from a recovered snapshot or an empty one.
Connected(recovered) ==
    [ledger |-> recovered.ledger, ids |-> recovered.ids, next |-> recovered.next,
     windows |-> <<>>, bound |-> {}, area |-> None, exclusive |-> FALSE,
     mode |-> "Nav", panels |-> {}, modules |-> 0, held |-> {}]

enabled_bindings(mode) == {b \in BindingId : Keymap[b].mode = mode}

\* No binding is armed before the replay is answered and the output known.
desired_binding_state(phase, auth) ==
    IF auth.area = None \/ phase = "InitialReplay" THEN {} ELSE enabled_bindings(auth.mode)

\* While a layer surface has the keyboard no window is focused.
Unfocused(p, exclusive) == [i \in DOMAIN p |-> [p[i] EXCEPT !.focused = @ /\ ~exclusive]]
project_authority(auth) ==
    IF auth.area = None THEN <<>>
    ELSE Unfocused(project(active_orbit(auth.ledger), auth.area), auth.exclusive)

\* policy_visible_state, without the revision.
policy_visible_state(auth) ==
    LET win == LedgerFocus(auth.ledger)
    IN  [active |-> auth.ledger.active,
         counts |-> [o \in OrbitId |-> Len(auth.ledger.orbits[o].windows)],
         layout |-> active_orbit(auth.ledger).layout,
         mode |-> auth.mode, panels |-> auth.panels, modules |-> auth.modules,
         title |-> IF ~auth.exclusive /\ win \in DOMAIN auth.windows
                   THEN auth.windows[win] ELSE None]

-----------------------------------------------------------------------------
(* The private transaction.                                                *)

new_active_transaction(auth, projection, enabled) ==
    [working |-> auth, projection |-> projection, original |-> None,
     closes |-> {}, edge |-> "Preserve", enabled |-> enabled, effects |-> <<>>, close_target |-> None,
     repeat_candidate |-> None, disarm |-> FALSE, required |-> FALSE,
     submitted |-> FALSE, binding_changed |-> FALSE, bootstrap |-> FALSE,
     quit_staged |-> FALSE]

LedgerAction(L, action, arg) ==
    CASE action = "Focus" -> focus_step(L, arg)
      [] action = "Swap" -> swap(L, arg)
      [] action = "Orbit" -> switch_orbit(L, arg)
      [] action = "MoveToOrbit" -> move_to_orbit(L, arg)
      [] action = "Stow" -> toggle_stow(L)
      [] action = "SetLayout" -> set_layout(L, arg)
      [] action = "Fullscreen" -> toggle_fullscreen(L)
      [] action = "Undo" -> undo(L)
      [] OTHER -> L

\* A SessionEffect, released after the action that shares its transaction.
Effect(action, after) == [kind |-> action, after |-> after]

\* Leaving for Nav puts the grimoire away.
EnterMode(w, mode) ==
    [w EXCEPT !.mode = mode,
              !.panels = IF mode = "Nav" THEN w.panels \ {"Grimoire"} ELSE w.panels]

\* The match of apply_binding_action.
BindingEffect(a, action, arg) ==
    CASE action \in EffectActions ->
           [a EXCEPT !.effects = Append(@, Effect(action, a.original)),
                     !.quit_staged = @ \/ action = "Quit"]
      [] action = "EnterMode" ->
           [a EXCEPT !.working = EnterMode(@, arg),
                     !.binding_changed = TRUE,
                     !.edge = IF arg = "Nav" THEN "Preserve" ELSE "Ensure"]
      [] action = "Banish" ->
           [a EXCEPT !.closes = @ \cup ({LedgerFocus(a.working.ledger)} \ {NoWin})]
      [] action \in PanelActions ->
           [a EXCEPT !.working.panels = IF action \in @ THEN @ \ {action}
                                                        ELSE @ \cup {action}]
      [] OTHER -> [a EXCEPT !.working.ledger = LedgerAction(@, action, arg)]

\* The end of apply_binding_action, which made b of a.
AfterAction(a, b, id) ==
    [b EXCEPT !.required = @ \/ project_authority(a.working) # project_authority(b.working),
              !.repeat_candidate = IF Keymap[id].repeatable THEN id ELSE @]
\* Nothing counts after a staged Quit.
apply_binding_action(a, id) ==
    IF a.quit_staged THEN a
    ELSE AfterAction(a, BindingEffect(a, Keymap[id].action, Keymap[id].arg), id)

-----------------------------------------------------------------------------
(* The events of a policy turn: [kind, id, val].                           *)

BindingEvents == {"BindingPressed", "BindingReleased", "BindingRepeatStopped"}
ReplayEvents == {"WindowOpened", "FocusChanged", "ExclusiveFocusChanged",
                 "InitialReplayComplete"}

\* validate_policy_turn: None, or why the turn is refused as a whole.
\* effects and quit are what the transaction has staged so far.
TurnStart(phase, base, effects, quit) ==
    [known |-> IF phase = "InitialReplay" THEN {}
               ELSE {b \in DOMAIN base.ids : b \in base.bound /\ base.ids[b] \in DOMAIN base.windows},
     mapped |-> DOMAIN base.ids, next |-> base.next,
     effects |-> effects, quit |-> quit, error |-> None]

\* An event no backend sends in this phase, or about a window it never announced.
Refused(phase, acc, e) ==
    \/ phase = "InitialReplay" /\ e.kind \notin ReplayEvents
    \/ phase # "Live" /\ e.kind \in BindingEvents \cup {"UnboundKeyEaten"}
    \/ /\ e.kind \in {"WindowClosed", "TitleChanged", "FocusChanged", "GeometryDrifted"}
       /\ e.id # None /\ e.id \notin acc.known

ValidateEvent(phase, acc, e) ==
    LET fresh == e.id \notin acc.mapped
        full == Cardinality(acc.known \cup {e.id}) > MaxManagedWindows
        counted == IF Keymap[e.id].action \in EffectActions THEN 1 ELSE 0
    IN  IF acc.error # None THEN acc
        ELSE IF Refused(phase, acc, e) THEN [acc EXCEPT !.error = "contract"]
        ELSE CASE e.kind = "WindowOpened" ->
                    [acc EXCEPT !.known = @ \cup {e.id}, !.mapped = @ \cup {e.id},
                                !.next = IF fresh THEN @ + 1 ELSE @,
                                !.error = IF fresh /\ acc.next = MaxWinId THEN "exhausted"
                                          ELSE IF full THEN "capacity" ELSE None]
               [] e.kind = "WindowClosed" ->
                    [acc EXCEPT !.known = @ \ {e.id}, !.mapped = @ \ {e.id}]
               [] e.kind = "BindingPressed" /\ ~acc.quit ->
                    [acc EXCEPT !.effects = @ + counted, !.quit = Keymap[e.id].action = "Quit"]
               [] OTHER -> acc

ValidateEvents(phase, start, events) ==
    LET acc[i \in 0..Len(events)] ==
            IF i = 0 THEN start ELSE ValidateEvent(phase, acc[i - 1], events[i])
    IN  acc[Len(events)]

validate_policy_turn(phase, base, effects, quit, events) ==
    LET end == ValidateEvents(phase, TurnStart(phase, base, effects, quit), events)
    IN  IF end.error = None /\ end.effects > MaxStagedEffects THEN "capacity" ELSE end.error

\* WindowOpened of the reducers: the window keeps its WinId or gets the next
\* one, is summoned into the active orbit unless the ledger has it, and bound.
AdmitWindow(w, e) ==
    LET win == IF e.id \in DOMAIN w.ids THEN w.ids[e.id] ELSE w.next
    IN  [w EXCEPT !.ids = With(@, e.id, win),
                  !.next = IF e.id \in DOMAIN w.ids THEN @ ELSE @ + 1,
                  !.ledger = summon(@, win, @.active),
                  !.windows = With(@, win, e.val),
                  !.bound = @ \cup {e.id}]

\* The windows of the replay, in its order.
AdmitEach(w, events) ==
    LET after[i \in 0..Len(events)] ==
            IF i = 0 THEN w
            ELSE IF events[i].kind = "WindowOpened" THEN AdmitWindow(after[i - 1], events[i])
            ELSE after[i - 1]
    IN  after[Len(events)]
BanishOthers(L, order, kept) ==
    LET after[i \in 0..Len(order)] ==
            IF i = 0 THEN L
            ELSE IF order[i] \in kept THEN after[i - 1] ELSE banish(after[i - 1], order[i])
    IN  after[Len(order)]

\* reduce_initial_replay: banish what the compositor no longer has, admit what
\* it replays, forget the undo history.
reduce_initial_replay(a, events) ==
    LET w == a.working
        opened == {i \in DOMAIN events : events[i].kind = "WindowOpened"}
        replayed == DOMAIN w.ids \cap {events[i].id : i \in opened}
        persisted_order == Concatenated([o \in OrbitId |-> w.ledger.orbits[o].windows])
        kept == [w EXCEPT !.ledger = BanishOthers(@, persisted_order, {w.ids[b] : b \in replayed}),
                          !.ids = [b \in replayed |-> @[b]],
                          !.windows = <<>>, !.bound = {}]
    IN  [a EXCEPT !.working = [AdmitEach(kept, events) EXCEPT
                    !.ledger = discard_undo_history(@), !.area = None,
                    !.exclusive = \E i \in DOMAIN events :
                        events[i].kind = "ExclusiveFocusChanged" /\ events[i].val],
                  !.bootstrap = TRUE, !.closes = {}]

\* A close request survives the close of its window.
ForgetWindow_KeepsClose(a, e) ==
    LET win == a.working.ids[e.id]
    IN  [a EXCEPT !.working = [@ EXCEPT !.ids = Drop(@, e.id), !.bound = @ \ {e.id},
                                        !.windows = Drop(@, win), !.ledger = banish(@, win)],
                  !.required = @ \/ a.working.area # None]
\* The space of a closed window is not given to the others.
ForgetWindow_NoProjection(a, e) ==
    LET win == a.working.ids[e.id]
    IN  [a EXCEPT !.working = [@ EXCEPT !.ids = Drop(@, e.id), !.bound = @ \ {e.id},
                                        !.windows = Drop(@, win), !.ledger = banish(@, win)],
                  !.closes = @ \ {win},
                  !.close_target = IF @ = win THEN None ELSE @]
\* The mapping of a closed window stays.
ForgetWindow_KeepsIdentity(a, e) ==
    LET win == a.working.ids[e.id]
    IN  [a EXCEPT !.working = [@ EXCEPT !.bound = @ \ {e.id}, !.windows = Drop(@, win),
                                        !.ledger = banish(@, win)],
                  !.closes = @ \ {win},
                  !.required = @ \/ a.working.area # None,
                  !.close_target = IF @ = win THEN None ELSE @]
\* The WindowClosed arm: the window leaves the ledger, the mapping and the
\* closes this response was about to ask for.
ForgetWindow(a, e) ==
    LET win == a.working.ids[e.id]
    IN  [a EXCEPT !.working = [@ EXCEPT !.ids = Drop(@, e.id), !.bound = @ \ {e.id},
                                        !.windows = Drop(@, win), !.ledger = banish(@, win)],
                  !.closes = @ \ {win},
                  !.required = @ \/ a.working.area # None,
                  !.close_target = IF @ = win THEN None ELSE @]
EatNextKey(a) == [a EXCEPT !.edge = IF a.working.mode # "Nav" THEN "Ensure" ELSE @]
PressBinding(a, id) ==
    EatNextKey(apply_binding_action([a EXCEPT !.working.held = @ \cup {id}], id))

\* One event of reduce_policy_events; target is the session's repeat target.
reduce_policy_event(a, e, target) ==
    LET known == a.working.area # None
    IN  CASE e.kind = "WindowOpened" ->
               [a EXCEPT !.working = AdmitWindow(@, e), !.required = @ \/ known]
          [] e.kind = "WindowClosed" -> ForgetWindow(a, e)
          [] e.kind = "TitleChanged" ->
               [a EXCEPT !.working.windows = With(@, a.working.ids[e.id], e.val)]
          [] e.kind = "FocusChanged" ->
               LET observed == IF e.id \in DOMAIN a.working.ids THEN a.working.ids[e.id] ELSE NoWin
               IN  [a EXCEPT !.required = @ \/ (/\ known /\ ~a.working.exclusive
                                                /\ observed # LedgerFocus(a.working.ledger))]
          [] e.kind = "ExclusiveFocusChanged" ->
               [a EXCEPT !.required = @ \/ (known /\ a.working.exclusive # e.val),
                         !.working.exclusive = e.val]
          [] e.kind = "WorkareaChanged" ->
               [a EXCEPT !.required = @ \/ a.working.area # e.val, !.working.area = e.val]
          [] e.kind = "BindingPressed" -> PressBinding(a, e.id)
          [] e.kind \in {"BindingReleased", "BindingRepeatStopped"} ->
               [a EXCEPT !.working.held = @ \ {e.id},
                         !.disarm = @ \/ e.id \in {a.repeat_candidate, target}]
          [] e.kind = "UnboundKeyEaten" ->
               [a EXCEPT !.working.mode = "Nav", !.edge = "Preserve",
                         !.binding_changed = @ \/ a.working.mode # "Nav"]
          [] OTHER -> a

reduce_policy_events(a, events, target) ==
    LET after[i \in 0..Len(events)] ==
            IF i = 0 THEN a ELSE reduce_policy_event(after[i - 1], events[i], target)
    IN  after[Len(events)]

-----------------------------------------------------------------------------
(* Answering a turn.                                                       *)

\* A later turn of the transaction drops the effects staged so far.
BeginTurn_DropsEffects(a, staged) ==
    [a EXCEPT !.closes = {a.close_target} \cap DOMAIN a.working.windows,
              !.edge = "Preserve", !.binding_changed = FALSE, !.effects = <<>>,
              !.required = @ /\ staged]
\* handle_policy_turn up to the response: what earlier turns of the same
\* transaction asked for is not asked again; a projection staged before the
\* turn was requested is.
BeginTurn(a, staged) ==
    [a EXCEPT !.closes = {a.close_target} \cap DOMAIN a.working.windows,
              !.edge = "Preserve", !.binding_changed = FALSE,
              !.required = @ /\ staged]

Answer(a, projection, enabled) ==
    [active |-> [a EXCEPT !.projection = projection, !.enabled = enabled],
     projection |-> IF a.required /\ a.working.area # None THEN Some(projection) ELSE Nothing,
     closes |-> a.closes, enabled |-> enabled, edge |-> a.edge]
derive_response(phase, a) ==
    Answer(a, project_authority(a.working), desired_binding_state(phase, a.working))

AnswerTurn(phase, begun, target, events) ==
    derive_response(phase, IF phase = "InitialReplay" THEN reduce_initial_replay(begun, events)
                           ELSE reduce_policy_events(begun, events, target))

\* What handle_policy_turn keeps of an accepted answer.
Submitted(r) ==
    [r.active EXCEPT !.close_target = None, !.closes = {}, !.edge = "Preserve",
                     !.submitted = @ \/ r.projection # Nothing]

\* The target keeps repeating after its key went up.
FinalRepeat_IgnoresRelease(a, target) ==
    LET candidate == a.repeat_candidate
        chosen == IF candidate = None THEN target
                  ELSE IF candidate \in a.working.held \cap a.enabled THEN candidate ELSE None
        keeps == ~a.quit_staged /\ chosen \in a.enabled
    IN  [target |-> IF keeps THEN chosen ELSE None,
         timer |-> CASE keeps /\ candidate # None -> "Arm"
                     [] keeps /\ candidate = None -> "Preserve"
                     [] OTHER -> "Disarm"]
\* The key-repeat part of finalize_active: the target and the directive.
FinalRepeat(a, target) ==
    LET MayRepeat(id) == id \in a.working.held /\ id \in a.enabled /\ Keymap[id].repeatable
        chosen == IF a.repeat_candidate = None THEN target
                  ELSE IF MayRepeat(a.repeat_candidate) THEN a.repeat_candidate ELSE None
        keeps == ~a.quit_staged /\ chosen \in a.working.held \cap a.enabled
        armed == a.repeat_candidate # None /\ chosen # None
        dropped == target # None \/ a.repeat_candidate # None \/ a.quit_staged
    IN  [target |-> IF keeps THEN chosen ELSE None,
         timer |-> IF keeps /\ armed THEN "Arm"
                   ELSE IF a.disarm \/ (~keeps /\ dropped) THEN "Disarm" ELSE "Preserve"]
=============================================================================
