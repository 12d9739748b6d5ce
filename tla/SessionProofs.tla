--------------------------- MODULE SessionProofs ----------------------------
(***************************************************************************)
(* Proofs about SessionSpec, for any windows, keymap of the kind the       *)
(* daemon builds, snapshots, requests, outputs and bounds.                 *)
(*                                                                         *)
(* A turn is proved event by event.  What the compositor did since the     *)
(* last turn is a trace: the compositor before the first event, after each *)
(* of them, and at the end.  TurnInv relates the private transaction and   *)
(* the compositor at every point of the trace, and SessionInv what is left *)
(* of that between two turns.  The folds of Session are functions over the *)
(* positions of the turn; that such a function exists, and that it keeps   *)
(* an invariant, is shown by looking at the least position without.        *)
(***************************************************************************)
EXTENDS SessionSpec, FiniteSetTheorems, WellFoundedInduction, TLAPS

\* A sequence, of whatever elements.
IsSeq(s) == s \in Seq({s[i] : i \in DOMAIN s})

AuthorityFields == {"ledger", "ids", "next", "windows", "bound", "area", "exclusive", "mode",
                    "panels", "modules", "held"}
TransactionFields == {"working", "projection", "original", "closes", "edge", "enabled", "effects",
                      "close_target", "repeat_candidate", "disarm", "required", "submitted",
                      "binding_changed", "bootstrap", "quit_staged"}
CompositorFields == {"windows", "assigned", "area", "exclusive", "enabled", "down", "eat", "shown"}

IsTransaction(a) ==
    /\ DOMAIN a = TransactionFields /\ DOMAIN a.working = AuthorityFields
    /\ IsSeq(a.effects)
    /\ a.repeat_candidate \in BindingId \cup {None}

\* The compositor presses bindings only.
IsCompositor(c) ==
    /\ DOMAIN c = CompositorFields
    /\ c.enabled \subseteq BindingId /\ c.down \subseteq BindingId

\* No binding before the output is known.
Desired(w) == IF w.area = None THEN {} ELSE enabled_bindings(w.mode)

Awaiting == {"AwaitingExternalTurn", "AwaitingInternalTurn"}

Shape ==
    /\ phase \in Startup \cup {"Live", "QuitPending", "ShuttingDown", "Exiting", "ExitComplete", "Failed"}
    /\ tx = Idle \/ tx.at \in Awaiting \cup {"InFlight", "AwaitingDrain"}
    /\ DOMAIN tx = {"at", "ticket"}
    /\ tx = Idle <=> active = Nothing
    /\ active # Nothing => active = Some(active[1]) /\ IsTransaction(active[1]) /\ Serving
    /\ DOMAIN auth = AuthorityFields /\ DOMAIN rt = {"pending", "armed", "dirty"}
    /\ IsCompositor(comp) /\ enabled \subseteq BindingId
    /\ minute \in Nat
    /\ phase = "InitialReplay" => tx = Idle /\ auth.area = None
    /\ phase = "Live" /\ active # Nothing => ~active[1].bootstrap

\* The transaction carries what is owed.
Owes ==
    Serving => /\ rt.pending = (IF active = Nothing THEN None ELSE active[1].original)
               /\ owed = (IF active = Nothing THEN 0 ELSE Len(active[1].effects))

\* The target is released only together with the timer.
Repeats ==
    /\ rt.armed <=> repeat_target # None
    /\ repeat_target # None => /\ repeat_target \in BindingId /\ Keymap[repeat_target].repeatable
                               /\ Serving
    /\ active = Nothing /\ repeat_target # None => repeat_target \in auth.held \cap enabled
    /\ active # Nothing =>
         LET a == active[1]
         IN  a.disarm /\ a.repeat_candidate = None /\ ~a.quit_staged => repeat_target \notin a.working.held

\* The clock, and what was published.
Shows ==
    Serving => /\ rt.dirty => phase = "Live"
               /\ ~rt.dirty => minute = (IF active = Nothing THEN auth.modules
                                                             ELSE active[1].working.modules)
               /\ active = Nothing => ~rt.dirty
               /\ active = Nothing /\ phase = "Live" => state = policy_visible_state(auth)

\* What the compositor was told, and what it is still to be told.
Told(w, on) ==
    /\ on = Desired(w) /\ comp.enabled = on
    /\ comp.eat <=> w.mode # "Nav"
    /\ w.area = None => comp.shown = <<>>
    /\ phase = "Live" => w.area # None
ToldAll ==
    Serving => /\ active = Nothing => /\ Told(auth, enabled)
                                      /\ comp.shown = project_authority(auth)
                                      /\ comp.shown = last_projection
               /\ active # Nothing =>
                    LET a == active[1]
                    IN  /\ Told(a.working, a.enabled)
                        /\ ~a.submitted => comp.shown = last_projection
                        /\ \/ comp.shown = project_authority(a.working)
                           \/ tx.at \in Awaiting /\ a.required
                        /\ tx.at \notin Awaiting => a.projection = comp.shown
                        /\ tx.at \in Awaiting => ~a.submitted /\ ~a.bootstrap

SessionInv == Shape /\ Owes /\ Repeats /\ Shows /\ ToldAll

-----------------------------------------------------------------------------
(* Reading an authority.                                                   *)

\* The projection is of the ledger, the output and the exclusive focus.
LEMMA SameProjection ==
    ASSUME NEW v, NEW w, v.ledger = w.ledger, v.area = w.area, v.exclusive = w.exclusive
    PROVE  project_authority(v) = project_authority(w)
BY Zenon DEF project_authority

\* Nothing is shown before the output is known.
LEMMA NoProjection ==
    ASSUME NEW w, w.area = None
    PROVE  project_authority(w) = <<>>
BY Zenon DEF project_authority

\* Bindings are bindings.
LEMMA DesiredAreBindings ==
    ASSUME NEW w
    PROVE  Desired(w) \subseteq BindingId
BY DEF Desired, enabled_bindings

-----------------------------------------------------------------------------
(* What the compositor does between two turns.                             *)

\* One event, and the compositor before and after it.
Observes(c, e, d) == [event |-> e, comp |-> d] \in Observations(c)

\* The observations, one by one.
Opens(c, e, d) == \E w \in Window \ c.windows : /\ e = Event("WindowOpened", w, NewTitle)
                                                /\ d = [c EXCEPT !.windows = @ \cup {w}]
Closes(c, e, d) == \E w \in DOMAIN c.assigned : /\ e = Event("WindowClosed", w, None)
                                                /\ d = [c EXCEPT !.assigned = Drop(@, w)]
Retitles(c, e, d) ==
    \E w \in DOMAIN c.assigned, t \in Titles : e = Event("TitleChanged", w, t) /\ d = c
Resizes(c, e, d) == \E area \in Workareas : /\ e = Event("WorkareaChanged", None, area)
                                            /\ d = [c EXCEPT !.area = area]
Focuses(c, e, d) ==
    \E w \in DOMAIN c.assigned \cup {None} : e = Event("FocusChanged", w, None) /\ d = c
Excludes(c, e, d) == /\ e = Event("ExclusiveFocusChanged", None, ~c.exclusive)
                     /\ d = [c EXCEPT !.exclusive = ~@]
Presses(c, e, d) == \E id \in c.enabled \ c.down :
                        /\ e = Event("BindingPressed", id, None)
                        /\ d = [c EXCEPT !.down = @ \cup {id}, !.eat = FALSE]
Releases(c, e, d) == \E id \in c.down : /\ e = Event("BindingReleased", id, None)
                                        /\ d = [c EXCEPT !.down = @ \ {id}]
StopsRepeating(c, e, d) == \E id \in c.down : e = Event("BindingRepeatStopped", id, None) /\ d = c
EatsKey(c, e, d) == e = Event("UnboundKeyEaten", None, None) /\ d = [c EXCEPT !.eat = FALSE]

\* An observation is one of the ten the compositor can make.
LEMMA ObservationsOneByOne ==
    ASSUME NEW c, NEW e, NEW d, Observes(c, e, d)
    PROVE  \/ Opens(c, e, d) \/ Closes(c, e, d) \/ Retitles(c, e, d)
           \/ Resizes(c, e, d) \/ Focuses(c, e, d) \/ Excludes(c, e, d)
           \/ Presses(c, e, d) \/ Releases(c, e, d) \/ StopsRepeating(c, e, d) \/ EatsKey(c, e, d)
<1> DEFINE p == [event |-> e, comp |-> d]
<1>1. p \in WindowObservations(c) \/ p \in SeatObservations(c) \/ p \in KeyObservations(c)
  BY DEF Observes, Observations
<1>2. CASE p \in WindowObservations(c)
  <2>1. CASE \E w \in Window \ c.windows :
              p = Seen("WindowOpened", w, NewTitle, [c EXCEPT !.windows = @ \cup {w}])
    <3>1. PICK w \in Window \ c.windows : p = Seen("WindowOpened", w, NewTitle, [c EXCEPT !.windows = @ \cup {w}])
      BY <2>1, Zenon
    <3>2. e = Event("WindowOpened", w, NewTitle) /\ d = [c EXCEPT !.windows = @ \cup {w}]
      BY <3>1 DEF Seen
    <3>. QED BY <3>1, <3>2, Zenon DEF Opens
  <2>2. CASE \E w \in DOMAIN c.assigned :
              p = Seen("WindowClosed", w, None, [c EXCEPT !.assigned = Drop(@, w)])
    <3>1. PICK w \in DOMAIN c.assigned : p = Seen("WindowClosed", w, None, [c EXCEPT !.assigned = Drop(@, w)])
      BY <2>2, Zenon
    <3>2. e = Event("WindowClosed", w, None) /\ d = [c EXCEPT !.assigned = Drop(@, w)]
      BY <3>1 DEF Seen
    <3>. QED BY <3>1, <3>2, Zenon DEF Closes
  <2>3. CASE \E w \in DOMAIN c.assigned, t \in Titles : p = Seen("TitleChanged", w, t, c)
    <3>1. PICK w \in DOMAIN c.assigned, t \in Titles : p = Seen("TitleChanged", w, t, c)
      BY <2>3, Zenon
    <3>2. e = Event("TitleChanged", w, t) /\ d = c
      BY <3>1 DEF Seen
    <3>. QED BY <3>1, <3>2, Zenon DEF Retitles
  <2> HIDE DEF p
  <2>4. \/ \E w \in Window \ c.windows :
             p = Seen("WindowOpened", w, NewTitle, [c EXCEPT !.windows = @ \cup {w}])
        \/ \E w \in DOMAIN c.assigned :
             p = Seen("WindowClosed", w, None, [c EXCEPT !.assigned = Drop(@, w)])
        \/ \E w \in DOMAIN c.assigned, t \in Titles : p = Seen("TitleChanged", w, t, c)
    BY <1>2 DEF WindowObservations
  <2>. QED BY <2>1, <2>2, <2>3, <2>4, Zenon
<1>3. CASE p \in SeatObservations(c)
  <2>1. CASE \E area \in Workareas \ {c.area} :
              p = Seen("WorkareaChanged", None, area, [c EXCEPT !.area = area])
    <3>1. PICK area \in Workareas \ {c.area} : p = Seen("WorkareaChanged", None, area, [c EXCEPT !.area = area])
      BY <2>1, Zenon
    <3>2. e = Event("WorkareaChanged", None, area) /\ d = [c EXCEPT !.area = area]
      BY <3>1 DEF Seen
    <3>. QED BY <3>1, <3>2, Zenon DEF Resizes
  <2>2. CASE \E w \in DOMAIN c.assigned \cup {None} : p = Seen("FocusChanged", w, None, c)
    <3>1. PICK w \in DOMAIN c.assigned \cup {None} : p = Seen("FocusChanged", w, None, c)
      BY <2>2, Zenon
    <3>2. e = Event("FocusChanged", w, None) /\ d = c
      BY <3>1 DEF Seen
    <3>. QED BY <3>1, <3>2, Zenon DEF Focuses
  <2>3. CASE p = Seen("ExclusiveFocusChanged", None, ~c.exclusive, [c EXCEPT !.exclusive = ~@])
    BY <2>3 DEF Seen, Excludes
  <2>. QED BY <1>3, <2>1, <2>2, <2>3 DEF SeatObservations
<1>4. CASE p \in KeyObservations(c)
  <2>1. CASE \E id \in c.enabled \ c.down :
              p = Seen("BindingPressed", id, None, [c EXCEPT !.down = @ \cup {id}, !.eat = FALSE])
    <3>1. PICK id \in c.enabled \ c.down : p = Seen("BindingPressed", id, None, [c EXCEPT !.down = @ \cup {id}, !.eat = FALSE])
      BY <2>1, Zenon
    <3>2. e = Event("BindingPressed", id, None) /\ d = [c EXCEPT !.down = @ \cup {id}, !.eat = FALSE]
      BY <3>1 DEF Seen
    <3>. QED BY <3>1, <3>2, Zenon DEF Presses
  <2>2. CASE \E id \in c.down : p = Seen("BindingReleased", id, None, [c EXCEPT !.down = @ \ {id}])
    <3>1. PICK id \in c.down : p = Seen("BindingReleased", id, None, [c EXCEPT !.down = @ \ {id}])
      BY <2>2, Zenon
    <3>2. e = Event("BindingReleased", id, None) /\ d = [c EXCEPT !.down = @ \ {id}]
      BY <3>1 DEF Seen
    <3>. QED BY <3>1, <3>2, Zenon DEF Releases
  <2>3. CASE \E id \in c.down : p = Seen("BindingRepeatStopped", id, None, c)
    <3>1. PICK id \in c.down : p = Seen("BindingRepeatStopped", id, None, c)
      BY <2>3, Zenon
    <3>2. e = Event("BindingRepeatStopped", id, None) /\ d = c
      BY <3>1 DEF Seen
    <3>. QED BY <3>1, <3>2, Zenon DEF StopsRepeating
  <2>4. CASE p = Seen("UnboundKeyEaten", None, None, [c EXCEPT !.eat = FALSE])
    BY <2>4 DEF Seen, EatsKey
  <2>. QED BY <1>4, <2>1, <2>2, <2>3, <2>4, Zenon DEF KeyObservations
<1> HIDE DEF p
<1>. QED BY <1>1, <1>2, <1>3, <1>4, Zenon

\* What an event does to the compositor: only a key makes it forget to eat the
\* next one, and only bindings are pressed and released.
EventFacts(c, e, d) ==
    /\ IsCompositor(d) /\ d.enabled = c.enabled /\ d.shown = c.shown
    /\ \/ /\ e.kind \in {"WindowOpened", "WindowClosed", "TitleChanged", "FocusChanged",
                         "ExclusiveFocusChanged"}
          /\ d.eat = c.eat
       \/ e.kind = "WorkareaChanged" /\ e.val \in Workareas /\ d.eat = c.eat
       \/ /\ e.kind \in {"BindingReleased", "BindingRepeatStopped"}
          /\ e.id \in BindingId /\ d.eat = c.eat
       \/ e.kind = "BindingPressed" /\ e.id \in BindingId /\ d.eat = FALSE
       \/ e.kind = "UnboundKeyEaten" /\ d.eat = FALSE

\* What every observation leaves alone of the compositor, and what its kind says.
LEMMA ObservationFacts ==
    ASSUME NEW c, IsCompositor(c), NEW e, NEW d, Observes(c, e, d)
    PROVE  EventFacts(c, e, d)
<1> USE DEF EventFacts, Event, IsCompositor, CompositorFields
<1>1. CASE Opens(c, e, d)
  BY <1>1 DEF Opens
<1>2. CASE Closes(c, e, d)
  BY <1>2 DEF Closes
<1>3. CASE Retitles(c, e, d)
  BY <1>3 DEF Retitles
<1>4. CASE Resizes(c, e, d)
  BY <1>4 DEF Resizes
<1>5. CASE Focuses(c, e, d)
  BY <1>5 DEF Focuses
<1>6. CASE Excludes(c, e, d)
  BY <1>6 DEF Excludes
<1>7. CASE Presses(c, e, d)
  BY <1>7 DEF Presses
<1>8. CASE Releases(c, e, d)
  BY <1>8 DEF Releases
<1>9. CASE StopsRepeating(c, e, d)
  BY <1>9 DEF StopsRepeating
<1>10. CASE EatsKey(c, e, d)
  BY <1>10 DEF EatsKey
<1> HIDE DEF EventFacts, Event, IsCompositor, CompositorFields
<1>. QED
  BY <1>1, <1>2, <1>3, <1>4, <1>5, <1>6, <1>7, <1>8, <1>9, <1>10, ObservationsOneByOne, Zenon

-----------------------------------------------------------------------------
(* The events of a turn, reduced one after the other.                      *)

\* reduce_policy_events is what its recursion says, for any events.
LEMMA EventsFold ==
    ASSUME NEW a, NEW events, IsSeq(events), NEW target
    PROVE  \E f : /\ f = [i \in 0..Len(events) |->
                            IF i = 0 THEN a ELSE reduce_policy_event(f[i - 1], events[i], target)]
                  /\ reduce_policy_events(a, events, target) = f[Len(events)]
<1> DEFINE n == Len(events)
           One(g, i) == IF i = 0 THEN a ELSE reduce_policy_event(g[i - 1], events[i], target)
           T == {k \in 0..n : ~ \E g : g = [i \in 0..k |-> One(g, i)]}
<1>1. n \in Nat
  BY DEF IsSeq
<1> HIDE DEF n
<1>2. T = {}
  <2> SUFFICES ASSUME T # {} PROVE FALSE
    OBVIOUS
  <2>1. T \subseteq Nat
    BY <1>1
  <2>2. PICK m \in T : \A k \in T : ~(<<k, m>> \in OpToRel(<, Nat))
    BY <2>1, NatLessThanWellFounded, WFMin, Zenon
  <2>3. \A k \in T : ~(k < m)
    BY <2>1, <2>2, Zenon DEF OpToRel
  <2>4. m # 0
    <3> DEFINE g == [i \in 0..0 |-> a]
    <3>1. g = [i \in 0..0 |-> One(g, i)]
      OBVIOUS
    <3>. QED BY <3>1, Zenon
  <2>5. m \in Nat /\ m - 1 \in 0..n /\ m \in 1..n /\ m - 1 < m
    BY <1>1, <2>4
  <2>6. PICK g : g = [i \in 0..(m - 1) |-> One(g, i)]
    <3> HIDE DEF One
    <3>. QED BY <2>3, <2>5
  <2> DEFINE h == [i \in 0..m |-> IF i < m THEN g[i]
                                  ELSE reduce_policy_event(g[m - 1], events[m], target)]
  <2>7. ASSUME NEW i \in 0..m PROVE h[i] = One(h, i)
    <3>1. CASE i < m
      BY <2>5, <2>6, <3>1
    <3>2. CASE i = m
      BY <2>4, <2>5, <3>2
    <3>. QED BY <2>5, <3>1, <3>2
  <2>8. h = [i \in 0..m |-> One(h, i)]
    BY <2>7
  <2>. QED BY <2>8, Zenon
<1>3. PICK g : g = [i \in 0..n |-> One(g, i)]
  <2> HIDE DEF One
  <2>. QED BY <1>1, <1>2
<1> DEFINE f == CHOOSE c : c = [i \in 0..n |-> One(c, i)]
<1>4. f = [i \in 0..n |-> One(f, i)]
  <2> HIDE DEF One
  <2>. QED BY <1>3, Zenon
<1>5. reduce_policy_events(a, events, target) = f[n]
  BY DEF reduce_policy_events, n
<1> HIDE DEF f
<1>. QED BY <1>4, <1>5, Zenon DEF n

-----------------------------------------------------------------------------
(* One event of a turn.                                                    *)

\* The effect keys among the first n events that count, and a Quit among them.
IsPress(e) == e.kind = "BindingPressed"
QuitPressed(events, n) == \E j \in 1..n : IsPress(events[j]) /\ Keymap[events[j].id].action = "Quit"
Counted(events, quit, n) ==
    {i \in 1..n : /\ IsPress(events[i]) /\ Keymap[events[i].id].action \in EffectActions
                  /\ ~quit /\ ~QuitPressed(events, i - 1)}

\* What a transaction b that began the turn as a, and the compositor c, have in
\* common after n of its events.
TurnInv(a, b, c, events, n) ==
    /\ IsTransaction(b) /\ IsCompositor(c)
    /\ b.original = a.original /\ b.submitted = a.submitted /\ b.bootstrap = a.bootstrap
    /\ b.working.modules = a.working.modules
    /\ a.working.area # None => b.working.area # None
    /\ c.enabled = comp.enabled /\ c.shown = comp.shown
    /\ b.disarm /\ b.repeat_candidate = None /\ ~b.quit_staged => repeat_target \notin b.working.held
    /\ (c.eat \/ b.edge = "Ensure") <=> b.working.mode # "Nav"
    /\ b.working.area = None => c.shown = <<>>
    /\ b.required \/ c.shown = project_authority(b.working)
    /\ b.quit_staged <=> a.quit_staged \/ QuitPressed(events, n)
    /\ IsFiniteSet(Counted(events, a.quit_staged, n))
    /\ Len(b.effects) = Len(a.effects) + Cardinality(Counted(events, a.quit_staged, n))

\* Only a press changes what was asked for.
LEMMA NoPress ==
    ASSUME NEW events, NEW quit, NEW n \in Nat \ {0}, ~IsPress(events[n])
    PROVE  /\ QuitPressed(events, n) <=> QuitPressed(events, n - 1)
           /\ Counted(events, quit, n) = Counted(events, quit, n - 1)
<1>1. 1..n = 1..(n - 1) \cup {n}
  OBVIOUS
<1>. QED BY <1>1 DEF QuitPressed, Counted

\* A press of an effect key before any Quit counts, and no other.
LEMMA OnePress ==
    ASSUME NEW events, NEW quit, NEW n \in Nat \ {0}, IsPress(events[n]),
           IsFiniteSet(Counted(events, quit, n - 1))
    PROVE  LET action == Keymap[events[n].id].action
               before == quit \/ QuitPressed(events, n - 1)
               counts == ~before /\ action \in EffectActions
           IN  /\ QuitPressed(events, n) <=> QuitPressed(events, n - 1) \/ action = "Quit"
               /\ IsFiniteSet(Counted(events, quit, n))
               /\ Cardinality(Counted(events, quit, n)) =
                    Cardinality(Counted(events, quit, n - 1)) + (IF counts THEN 1 ELSE 0)
<1> DEFINE action == Keymap[events[n].id].action
           before == quit \/ QuitPressed(events, n - 1)
           counts == ~before /\ action \in EffectActions
           C == Counted(events, quit, n - 1)
<1>1. 1..n = 1..(n - 1) \cup {n} /\ n \notin 1..(n - 1)
  OBVIOUS
<1>2. QuitPressed(events, n) <=> QuitPressed(events, n - 1) \/ action = "Quit"
  BY <1>1 DEF QuitPressed
<1>3. n \notin C /\ Counted(events, quit, n) = IF counts THEN C \cup {n} ELSE C
  BY <1>1 DEF Counted
<1>4. /\ IsFiniteSet(C \cup {n}) /\ Cardinality(C \cup {n}) = Cardinality(C) + 1
      /\ Cardinality(C) \in Nat
  BY <1>3, FS_AddElement, FS_CardinalityType
<1> HIDE DEF C
<1>. QED BY <1>2, <1>3, <1>4 DEF C

\* What a transaction is after a binding's action.
ActionFacts(b, r, action, arg) ==
    /\ IsTransaction(r)
    /\ r.original = b.original /\ r.submitted = b.submitted /\ r.bootstrap = b.bootstrap
    /\ r.repeat_candidate = b.repeat_candidate /\ r.disarm = b.disarm /\ r.required = b.required
    /\ r.enabled = b.enabled
    /\ r.working.modules = b.working.modules /\ r.working.held = b.working.held
    /\ r.working.area = b.working.area /\ r.working.exclusive = b.working.exclusive
    /\ Len(r.effects) = Len(b.effects) + (IF action \in EffectActions THEN 1 ELSE 0)
    /\ r.quit_staged <=> b.quit_staged \/ action = "Quit"
    /\ IF action = "EnterMode"
       THEN r.working.mode = arg /\ r.edge = (IF arg = "Nav" THEN "Preserve" ELSE "Ensure")
       ELSE r.working.mode = b.working.mode /\ r.edge = b.edge

\* A sequence over any set is one of its own elements.
LEMMA SeqIsSeq ==
    ASSUME NEW S, NEW s \in Seq(S)
    PROVE  IsSeq(s)
BY DEF IsSeq

\* A sequence with a further element.
LEMMA Appended ==
    ASSUME NEW s, IsSeq(s), NEW x
    PROVE  /\ IsSeq(Append(s, x)) /\ Len(Append(s, x)) = Len(s) + 1 /\ Len(s) \in Nat
           /\ DOMAIN s = 1..Len(s) /\ DOMAIN Append(s, x) = 1..(Len(s) + 1)
           /\ \A i \in 1..Len(s) : Append(s, x)[i] = s[i]
           /\ Append(s, x)[Len(s) + 1] = x
<1> DEFINE S == {s[i] : i \in DOMAIN s} \cup {x}
<1>1. s \in Seq(S) /\ x \in S
  <2>1. s \in Seq({s[i] : i \in DOMAIN s})
    BY DEF IsSeq
  <2>. QED BY <2>1
<1> HIDE DEF S
<1>2. Append(s, x) \in Seq(S)
  BY <1>1
<1>3. IsSeq(Append(s, x))
  BY <1>2, SeqIsSeq, ZenonT(30)
<1>. QED BY <1>1, <1>3

\* What the action of a binding changes, one action at a time.
LEMMA BindingEffectFacts ==
    ASSUME NEW b, IsTransaction(b), NEW action, NEW arg
    PROVE  ActionFacts(b, BindingEffect(b, action, arg), action, arg)
<1> DEFINE r == BindingEffect(b, action, arg)
<1> USE DEF ActionFacts, IsTransaction, TransactionFields, AuthorityFields
<1>0. Len(b.effects) \in Nat
  BY DEF IsSeq
<1>1. CASE action \in EffectActions
  <2> DEFINE more == Append(b.effects, Effect(action, b.original))
  <2>1. r = [b EXCEPT !.effects = more, !.quit_staged = @ \/ action = "Quit"]
    BY <1>1, ZenonT(30) DEF BindingEffect, EffectActions, PanelActions
  <2>2. IsSeq(more) /\ Len(more) = Len(b.effects) + 1
    BY Appended
  <2>3. action # "EnterMode"
    BY <1>1 DEF EffectActions
  <2> HIDE DEF more, r
  <2>4. /\ DOMAIN r = DOMAIN b /\ r.working = b.working /\ r.edge = b.edge /\ r.effects = more
        /\ r.quit_staged = (b.quit_staged \/ action = "Quit")
        /\ r.original = b.original /\ r.submitted = b.submitted /\ r.bootstrap = b.bootstrap
        /\ r.repeat_candidate = b.repeat_candidate /\ r.disarm = b.disarm
        /\ r.required = b.required /\ r.enabled = b.enabled
    BY <2>1
  <2>5. ActionFacts(b, r, action, arg)
    BY <1>0, <1>1, <2>2, <2>3, <2>4, Zenon
  <2> HIDE DEF ActionFacts
  <2>. QED BY <2>5, Zenon DEF r
<1>2. CASE action = "EnterMode"
  <2> DEFINE v == EnterMode(b.working, arg)
  <2>1. r = [b EXCEPT !.working = v, !.binding_changed = TRUE,
                      !.edge = IF arg = "Nav" THEN "Preserve" ELSE "Ensure"]
    BY <1>2, Zenon DEF BindingEffect, EffectActions, PanelActions
  <2>2. /\ DOMAIN v = DOMAIN b.working /\ v.mode = arg /\ v.modules = b.working.modules
        /\ v.held = b.working.held /\ v.area = b.working.area /\ v.exclusive = b.working.exclusive
    BY DEF EnterMode
  <2> HIDE DEF v, r
  <2>3. ActionFacts(b, r, action, arg)
    BY <1>0, <1>2, <2>1, <2>2 DEF EffectActions
  <2> HIDE DEF ActionFacts
  <2>. QED BY <2>3, Zenon DEF r
<1>3. CASE action = "Banish"
  <2>1. r = [b EXCEPT !.closes = @ \cup ({LedgerFocus(b.working.ledger)} \ {NoWin})]
    BY <1>3, Zenon DEF BindingEffect, EffectActions, PanelActions
  <2>. QED BY <1>0, <1>3, <2>1 DEF EffectActions
<1>4. CASE action \in PanelActions
  <2>1. r = [b EXCEPT !.working.panels = IF action \in @ THEN @ \ {action} ELSE @ \cup {action}]
    BY <1>4, Zenon DEF BindingEffect, EffectActions, PanelActions
  <2>. QED BY <1>0, <1>4, <2>1 DEF EffectActions, PanelActions
<1>5. CASE action \notin EffectActions \cup {"EnterMode", "Banish"} \cup PanelActions
  <2>1. r = [b EXCEPT !.working.ledger = LedgerAction(@, action, arg)]
    BY <1>5, Zenon DEF BindingEffect
  <2>. QED BY <1>0, <1>5, <2>1 DEF EffectActions, PanelActions
<1>. QED BY <1>1, <1>2, <1>3, <1>4, <1>5

\* apply_binding_action: nothing counts after a Quit, and a projection that
\* changed is asked for.
ApplyFacts(b, q, id) ==
    /\ IsTransaction(q)
    /\ q.original = b.original /\ q.submitted = b.submitted /\ q.bootstrap = b.bootstrap
    /\ q.disarm = b.disarm /\ q.enabled = b.enabled
    /\ q.working.modules = b.working.modules /\ q.working.held = b.working.held
    /\ q.working.area = b.working.area /\ q.working.exclusive = b.working.exclusive
    /\ b.quit_staged \/ q.repeat_candidate = (IF Keymap[id].repeatable THEN id ELSE b.repeat_candidate)
    /\ q.quit_staged <=> b.quit_staged \/ Keymap[id].action = "Quit"
    /\ Len(q.effects) = Len(b.effects) + (IF ~b.quit_staged /\ Keymap[id].action \in EffectActions
                                          THEN 1 ELSE 0)
    /\ \/ q.working.mode = b.working.mode /\ q.edge = b.edge
       \/ q.edge = IF q.working.mode = "Nav" THEN "Preserve" ELSE "Ensure"
    /\ b.required => q.required
    /\ q.required \/ project_authority(q.working) = project_authority(b.working)
    /\ Keymap[id].action \notin {"EnterMode"} => q.working.mode = b.working.mode /\ q.edge = b.edge

\* apply_binding_action: the action, and the projection and edge that follow from it.
LEMMA ApplyBindingFacts ==
    ASSUME NEW b, IsTransaction(b), NEW id \in BindingId
    PROVE  ApplyFacts(b, apply_binding_action(b, id), id)
<1> DEFINE action == Keymap[id].action
           arg == Keymap[id].arg
           r == BindingEffect(b, action, arg)
           q == AfterAction(b, r, id)
           changed == project_authority(b.working) # project_authority(r.working)
<1>0. Len(b.effects) \in Nat
  BY DEF IsTransaction, IsSeq
<1>1. CASE b.quit_staged
  <2>1. apply_binding_action(b, id) = b
    BY <1>1 DEF apply_binding_action
  <2>. QED BY <1>0, <1>1, <2>1 DEF ApplyFacts
<1>2. CASE ~b.quit_staged
  <2>1. apply_binding_action(b, id) = q
    BY <1>2, Zenon DEF apply_binding_action
  <2>2. ActionFacts(b, r, action, arg)
    BY BindingEffectFacts, Zenon
  <2> HIDE DEF r, action, arg
  <2>3. IsTransaction(r)
    BY <2>2 DEF ActionFacts
  <2>4. /\ DOMAIN q = DOMAIN r /\ q.required = (r.required \/ changed)
        /\ q.repeat_candidate = (IF Keymap[id].repeatable THEN id ELSE r.repeat_candidate)
        /\ q.original = r.original /\ q.submitted = r.submitted /\ q.bootstrap = r.bootstrap
        /\ q.disarm = r.disarm /\ q.working = r.working /\ q.effects = r.effects
        /\ q.quit_staged = r.quit_staged /\ q.edge = r.edge /\ q.enabled = r.enabled
    BY <2>3 DEF AfterAction, IsTransaction, TransactionFields
  <2> HIDE DEF q, changed
  <2>5. IsTransaction(q)
    BY <2>3, <2>4 DEF IsTransaction
  <2>6. q.required \/ project_authority(q.working) = project_authority(b.working)
    BY <2>4, Zenon DEF changed
  <2>7. ApplyFacts(b, q, id)
    BY <1>2, <2>2, <2>4, <2>5, <2>6, Zenon DEF ApplyFacts, ActionFacts, action, arg
  <2>. QED BY <2>1, <2>7, Zenon
<1>. QED BY <1>1, <1>2

\* Two counts that differ by a constant still do when both grow by as much.
LEMMA BothGrow ==
    ASSUME NEW p \in Nat, NEW k \in Nat, NEW x \in {0, 1}
    PROVE  (p + k) + x = p + (k + x)
OBVIOUS

\* A press.
LEMMA PressStep ==
    ASSUME NEW a, NEW b, NEW c, NEW d, NEW events, NEW n \in Nat \ {0},
           TurnInv(a, b, c, events, n - 1), IsPress(events[n]), events[n].id \in BindingId,
           IsCompositor(d), d.enabled = c.enabled, d.shown = c.shown, d.eat = FALSE,
           Len(a.effects) \in Nat,
           repeat_target \in BindingId => Keymap[repeat_target].repeatable
    PROVE  TurnInv(a, PressBinding(b, events[n].id), d, events, n)
<1> DEFINE id == events[n].id
           p == [b EXCEPT !.working.held = @ \cup {id}]
           q == apply_binding_action(p, id)
           r == EatNextKey(q)
           C(k) == Cardinality(Counted(events, a.quit_staged, k))
<1>1. IsTransaction(b) /\ IsFiniteSet(Counted(events, a.quit_staged, n - 1))
  BY DEF TurnInv
<1>2. /\ IsTransaction(p) /\ p.original = b.original /\ p.submitted = b.submitted
      /\ p.bootstrap = b.bootstrap /\ p.repeat_candidate = b.repeat_candidate
      /\ p.disarm = b.disarm /\ p.required = b.required /\ p.edge = b.edge
      /\ p.effects = b.effects /\ p.quit_staged = b.quit_staged
      /\ p.working.ledger = b.working.ledger /\ p.working.area = b.working.area
      /\ p.working.exclusive = b.working.exclusive /\ p.working.mode = b.working.mode
      /\ p.working.modules = b.working.modules /\ p.working.held = b.working.held \cup {id}
  BY <1>1 DEF IsTransaction, TransactionFields, AuthorityFields
<1>3. project_authority(p.working) = project_authority(b.working)
  BY <1>2, SameProjection, Zenon
<1> HIDE DEF p
<1>4. ApplyFacts(p, q, id)
  BY <1>2, ApplyBindingFacts, Zenon
<1> HIDE DEF q
<1>5. /\ IsTransaction(q)
      /\ DOMAIN r = DOMAIN q /\ r.working = q.working /\ r.effects = q.effects
      /\ r.original = q.original /\ r.submitted = q.submitted /\ r.bootstrap = q.bootstrap
      /\ r.disarm = q.disarm /\ r.repeat_candidate = q.repeat_candidate
      /\ r.quit_staged = q.quit_staged /\ r.required = q.required
      /\ r.edge = IF q.working.mode # "Nav" THEN "Ensure" ELSE q.edge
  <2>1. IsTransaction(q)
    BY <1>4 DEF ApplyFacts
  <2>. QED BY <2>1 DEF EatNextKey, IsTransaction, TransactionFields
<1> HIDE DEF r
<1>6. IsTransaction(r)
  BY <1>5 DEF IsTransaction
<1>7. /\ QuitPressed(events, n) <=> QuitPressed(events, n - 1) \/ Keymap[id].action = "Quit"
      /\ IsFiniteSet(Counted(events, a.quit_staged, n)) /\ C(n - 1) \in Nat
      /\ C(n) = C(n - 1) + (IF /\ ~(a.quit_staged \/ QuitPressed(events, n - 1))
                               /\ Keymap[id].action \in EffectActions THEN 1 ELSE 0)
  BY <1>1, OnePress, FS_CardinalityType
<1>8. /\ r.quit_staged <=> a.quit_staged \/ QuitPressed(events, n)
      /\ Len(r.effects) = Len(a.effects) + C(n)
  <2>1. /\ b.quit_staged <=> a.quit_staged \/ QuitPressed(events, n - 1)
        /\ Len(b.effects) = Len(a.effects) + C(n - 1)
    BY DEF TurnInv
  <2> HIDE DEF C, id
  <2>2. r.quit_staged <=> a.quit_staged \/ QuitPressed(events, n)
    BY <1>2, <1>4, <1>5, <1>7, <2>1, Zenon DEF ApplyFacts
  <2>3. Len(r.effects) = Len(b.effects) + (IF ~b.quit_staged /\ Keymap[id].action \in EffectActions
                                           THEN 1 ELSE 0)
    BY <1>2, <1>4, <1>5, Zenon DEF ApplyFacts
  <2>4. C(n) = C(n - 1) + (IF ~b.quit_staged /\ Keymap[id].action \in EffectActions THEN 1 ELSE 0)
    BY <1>7, <2>1, Zenon
  <2>5. Len(r.effects) = Len(a.effects) + C(n)
    <3>1. PICK x \in {0, 1} :
            x = IF ~b.quit_staged /\ Keymap[id].action \in EffectActions THEN 1 ELSE 0
      BY Zenon
    <3>2. Len(r.effects) = Len(b.effects) + x /\ C(n) = C(n - 1) + x
      BY <2>3, <2>4, <3>1, Zenon
    <3>3. Len(b.effects) = Len(a.effects) + C(n - 1) /\ C(n - 1) \in Nat
      BY <1>7, <2>1, Zenon
    <3>4. (Len(a.effects) + C(n - 1)) + x = Len(a.effects) + (C(n - 1) + x)
      BY <3>3, BothGrow, Zenon
    <3>. QED BY <3>2, <3>3, <3>4, Zenon
  <2>. QED BY <2>2, <2>5
<1>9. (d.eat \/ r.edge = "Ensure") <=> r.working.mode # "Nav"
  <2>1. (c.eat \/ b.edge = "Ensure") <=> b.working.mode # "Nav"
    BY DEF TurnInv
  <2>. QED BY <1>2, <1>4, <1>5, <2>1 DEF ApplyFacts
<1>10. r.disarm /\ r.repeat_candidate = None /\ ~r.quit_staged => repeat_target \notin r.working.held
  <2>1. b.disarm /\ b.repeat_candidate = None /\ ~b.quit_staged => repeat_target \notin b.working.held
    BY DEF TurnInv
  <2>2. id # None
    BY KeymapAssumption, Zenon
  <2>. QED BY <1>2, <1>4, <1>5, <2>1, <2>2, SMTT(30) DEF ApplyFacts
<1>11. r.required \/ d.shown = project_authority(r.working)
  <2>1. b.required \/ c.shown = project_authority(b.working)
    BY Zenon DEF TurnInv
  <2>. QED BY <1>2, <1>3, <1>4, <1>5, <2>1 DEF ApplyFacts
<1>12. /\ r.original = a.original /\ r.submitted = a.submitted /\ r.bootstrap = a.bootstrap
       /\ r.working.modules = a.working.modules
       /\ a.working.area # None => r.working.area # None
       /\ d.enabled = comp.enabled /\ d.shown = comp.shown
       /\ r.working.area = None => d.shown = <<>>
  BY <1>2, <1>4, <1>5 DEF TurnInv, ApplyFacts
<1>13. TurnInv(a, r, d, events, n)
  BY <1>6, <1>7, <1>8, <1>9, <1>10, <1>11, <1>12, Zenon DEF TurnInv
<1>. QED BY <1>13, Zenon DEF PressBinding, p, q, r

\* What an event other than a press changes of a transaction: held keys, the
\* disarm request, a required projection, and what its authority shows.
QuietFacts(b, r, c, d) ==
    /\ IsTransaction(r)
    /\ r.original = b.original /\ r.submitted = b.submitted /\ r.bootstrap = b.bootstrap
    /\ r.effects = b.effects /\ r.quit_staged = b.quit_staged
    /\ r.repeat_candidate = b.repeat_candidate
    /\ r.working.modules = b.working.modules
    /\ r.working.area # b.working.area => r.working.area # None
    /\ r.working.held \subseteq b.working.held
    /\ r.disarm => b.disarm \/ repeat_target \notin r.working.held \/ b.repeat_candidate # None
    /\ b.required => r.required
    /\ r.required \/ project_authority(r.working) = project_authority(b.working)
    /\ \/ r.working.mode = b.working.mode /\ r.edge = b.edge /\ d.eat = c.eat
       \/ r.working.mode = "Nav" /\ r.edge = "Preserve" /\ d.eat = FALSE

\* An event that presses no binding keeps the invariant of the turn when it only moves
\* what QuietFacts allows.
LEMMA QuietStep ==
    ASSUME NEW a, NEW b, NEW c, NEW d, NEW r, NEW events, NEW n \in Nat \ {0},
           TurnInv(a, b, c, events, n - 1), ~IsPress(events[n]), QuietFacts(b, r, c, d),
           IsCompositor(d), d.enabled = c.enabled, d.shown = c.shown
    PROVE  TurnInv(a, r, d, events, n)
<1>1. /\ QuitPressed(events, n) <=> QuitPressed(events, n - 1)
      /\ Counted(events, a.quit_staged, n) = Counted(events, a.quit_staged, n - 1)
  BY NoPress
<1>2. r.working.area = None => d.shown = <<>>
  BY DEF TurnInv, QuietFacts
<1>3. r.required \/ d.shown = project_authority(r.working)
  BY DEF TurnInv, QuietFacts
<1>4. r.disarm /\ r.repeat_candidate = None /\ ~r.quit_staged => repeat_target \notin r.working.held
  BY DEF TurnInv, QuietFacts
<1>5. (d.eat \/ r.edge = "Ensure") <=> r.working.mode # "Nav"
  BY DEF TurnInv, QuietFacts
<1>6. a.working.area # None => r.working.area # None
  BY DEF TurnInv, QuietFacts
<1>7. /\ IsTransaction(r)
      /\ r.original = a.original /\ r.submitted = a.submitted /\ r.bootstrap = a.bootstrap
      /\ r.working.modules = a.working.modules
      /\ d.enabled = comp.enabled /\ d.shown = comp.shown
      /\ r.effects = b.effects /\ r.quit_staged = b.quit_staged
  BY Zenon DEF TurnInv, QuietFacts
<1>8. /\ r.quit_staged <=> a.quit_staged \/ QuitPressed(events, n)
      /\ IsFiniteSet(Counted(events, a.quit_staged, n))
      /\ Len(r.effects) = Len(a.effects) + Cardinality(Counted(events, a.quit_staged, n))
  BY <1>1, <1>7 DEF TurnInv
<1>. QED BY <1>2, <1>3, <1>4, <1>5, <1>6, <1>7, <1>8, ZenonT(30) DEF TurnInv

\* A window that opened.
LEMMA OpenedStep ==
    ASSUME NEW b, NEW e, NEW c, NEW d, e.kind = "WindowOpened", d.eat = c.eat,
           IsTransaction(b)
    PROVE  QuietFacts(b, reduce_policy_event(b, e, repeat_target), c, d)
<1> DEFINE w == AdmitWindow(b.working, e)
           r == [b EXCEPT !.working = w, !.required = @ \/ b.working.area # None]
<1>1. reduce_policy_event(b, e, repeat_target) = r
  BY Zenon DEF reduce_policy_event
<1>2. /\ DOMAIN w = DOMAIN b.working /\ w.area = b.working.area /\ w.held = b.working.held
      /\ w.mode = b.working.mode /\ w.modules = b.working.modules
  BY DEF AdmitWindow, IsTransaction, AuthorityFields
<1> HIDE DEF w
<1>3. /\ DOMAIN r = DOMAIN b /\ r.working = w /\ r.required = (b.required \/ b.working.area # None)
      /\ r.original = b.original /\ r.submitted = b.submitted /\ r.bootstrap = b.bootstrap
      /\ r.effects = b.effects /\ r.quit_staged = b.quit_staged
      /\ r.repeat_candidate = b.repeat_candidate /\ r.disarm = b.disarm /\ r.edge = b.edge
  BY DEF IsTransaction, TransactionFields
<1> HIDE DEF r
<1>4. r.required \/ project_authority(r.working) = project_authority(b.working)
  BY <1>2, <1>3, NoProjection, Zenon
<1>5. QuietFacts(b, r, c, d)
  BY <1>2, <1>3, <1>4, Zenon DEF QuietFacts, IsTransaction
<1>. QED BY <1>1, <1>5, Zenon

\* A window that closed.
LEMMA ClosedStep ==
    ASSUME NEW b, NEW e, NEW c, NEW d, e.kind = "WindowClosed", d.eat = c.eat,
           IsTransaction(b)
    PROVE  QuietFacts(b, reduce_policy_event(b, e, repeat_target), c, d)
<1> DEFINE r == ForgetWindow(b, e)
<1>1. reduce_policy_event(b, e, repeat_target) = r
  BY DEF reduce_policy_event
<1>2. /\ DOMAIN r = DOMAIN b /\ r.required = (b.required \/ b.working.area # None)
      /\ r.original = b.original /\ r.submitted = b.submitted /\ r.bootstrap = b.bootstrap
      /\ r.effects = b.effects /\ r.quit_staged = b.quit_staged
      /\ r.repeat_candidate = b.repeat_candidate /\ r.disarm = b.disarm /\ r.edge = b.edge
      /\ DOMAIN r.working = DOMAIN b.working /\ r.working.area = b.working.area
      /\ r.working.held = b.working.held /\ r.working.mode = b.working.mode
      /\ r.working.modules = b.working.modules
  BY Zenon DEF ForgetWindow, IsTransaction, TransactionFields, AuthorityFields
<1> HIDE DEF r
<1>3. r.required \/ project_authority(r.working) = project_authority(b.working)
  BY <1>2, NoProjection, Zenon
<1>4. QuietFacts(b, r, c, d)
  BY <1>2, <1>3, Zenon DEF QuietFacts, IsTransaction
<1>. QED BY <1>1, <1>4, Zenon

\* A new title.
LEMMA RetitledStep ==
    ASSUME NEW b, NEW e, NEW c, NEW d, e.kind = "TitleChanged", d.eat = c.eat,
           IsTransaction(b)
    PROVE  QuietFacts(b, reduce_policy_event(b, e, repeat_target), c, d)
<1> DEFINE r == [b EXCEPT !.working.windows = With(@, b.working.ids[e.id], e.val)]
<1>1. reduce_policy_event(b, e, repeat_target) = r
  BY Zenon DEF reduce_policy_event
<1>2. /\ DOMAIN r = DOMAIN b /\ DOMAIN r.working = DOMAIN b.working
      /\ r.original = b.original /\ r.submitted = b.submitted /\ r.bootstrap = b.bootstrap
      /\ r.effects = b.effects /\ r.quit_staged = b.quit_staged
      /\ r.repeat_candidate = b.repeat_candidate
      /\ r.working.modules = b.working.modules /\ r.working.ledger = b.working.ledger
      /\ r.working.area = b.working.area /\ r.working.exclusive = b.working.exclusive /\ r.working.held = b.working.held
      /\ r.working.mode = b.working.mode /\ r.disarm = b.disarm /\ r.edge = b.edge /\ r.required = b.required
  BY DEF IsTransaction, TransactionFields, AuthorityFields
<1> HIDE DEF r
<1>3. r.required \/ project_authority(r.working) = project_authority(b.working)
  BY <1>2, SameProjection, Zenon
<1>4. QuietFacts(b, r, c, d)
  BY <1>2, <1>3, KeymapAssumption, SessionAssumption DEF QuietFacts, IsTransaction
<1>. QED BY <1>1, <1>4, Zenon

\* An observed focus.
LEMMA FocusedStep ==
    ASSUME NEW b, NEW e, NEW c, NEW d, e.kind = "FocusChanged", d.eat = c.eat,
           IsTransaction(b)
    PROVE  QuietFacts(b, reduce_policy_event(b, e, repeat_target), c, d)
<1> DEFINE observed == IF e.id \in DOMAIN b.working.ids THEN b.working.ids[e.id] ELSE NoWin
           drifted == /\ b.working.area # None /\ ~b.working.exclusive
                      /\ observed # LedgerFocus(b.working.ledger)
           r == [b EXCEPT !.required = @ \/ drifted]
<1>1. reduce_policy_event(b, e, repeat_target) = r
  BY Zenon DEF reduce_policy_event
<1>2. /\ DOMAIN r = DOMAIN b /\ DOMAIN r.working = DOMAIN b.working
      /\ r.original = b.original /\ r.submitted = b.submitted /\ r.bootstrap = b.bootstrap
      /\ r.effects = b.effects /\ r.quit_staged = b.quit_staged
      /\ r.repeat_candidate = b.repeat_candidate
      /\ r.working.modules = b.working.modules /\ r.working.ledger = b.working.ledger
      /\ r.working.area = b.working.area /\ r.working.exclusive = b.working.exclusive /\ r.working.held = b.working.held
      /\ r.working.mode = b.working.mode /\ r.disarm = b.disarm /\ r.edge = b.edge /\ r.required = (b.required \/ drifted)
  BY DEF IsTransaction, TransactionFields, AuthorityFields
<1> HIDE DEF r
<1>3. r.required \/ project_authority(r.working) = project_authority(b.working)
  BY <1>2, SameProjection, Zenon
<1>4. QuietFacts(b, r, c, d)
  BY <1>2, <1>3, KeymapAssumption, SessionAssumption, Zenon DEF QuietFacts, IsTransaction
<1>. QED BY <1>1, <1>4, Zenon

\* A layer surface takes or leaves the keyboard.
LEMMA ExclusiveStep ==
    ASSUME NEW b, NEW e, NEW c, NEW d, e.kind = "ExclusiveFocusChanged", d.eat = c.eat,
           IsTransaction(b)
    PROVE  QuietFacts(b, reduce_policy_event(b, e, repeat_target), c, d)
<1> DEFINE r == [b EXCEPT !.required = @ \/ (b.working.area # None /\ b.working.exclusive # e.val),
                         !.working.exclusive = e.val]
<1>1. reduce_policy_event(b, e, repeat_target) = r
  BY Zenon DEF reduce_policy_event
<1>2. /\ DOMAIN r = DOMAIN b /\ DOMAIN r.working = DOMAIN b.working
      /\ r.original = b.original /\ r.submitted = b.submitted /\ r.bootstrap = b.bootstrap
      /\ r.effects = b.effects /\ r.quit_staged = b.quit_staged
      /\ r.repeat_candidate = b.repeat_candidate
      /\ r.working.modules = b.working.modules /\ r.working.ledger = b.working.ledger
      /\ r.working.area = b.working.area /\ r.working.held = b.working.held
      /\ r.working.mode = b.working.mode /\ r.disarm = b.disarm /\ r.edge = b.edge
      /\ r.working.exclusive = e.val
      /\ r.required = (b.required \/ (b.working.area # None /\ b.working.exclusive # e.val))
  BY DEF IsTransaction, TransactionFields, AuthorityFields
<1> HIDE DEF r
<1>3. r.required \/ project_authority(r.working) = project_authority(b.working)
  BY <1>2, SameProjection, NoProjection, Zenon
<1>4. QuietFacts(b, r, c, d)
  BY <1>2, <1>3, KeymapAssumption, SessionAssumption, Zenon DEF QuietFacts, IsTransaction
<1>. QED BY <1>1, <1>4, Zenon

\* An output.
LEMMA ResizedStep ==
    ASSUME NEW b, NEW e, NEW c, NEW d, e.kind = "WorkareaChanged", e.val \in Workareas, d.eat = c.eat,
           IsTransaction(b)
    PROVE  QuietFacts(b, reduce_policy_event(b, e, repeat_target), c, d)
<1> DEFINE r == [b EXCEPT !.required = @ \/ b.working.area # e.val, !.working.area = e.val]
<1>1. reduce_policy_event(b, e, repeat_target) = r
  BY Zenon DEF reduce_policy_event
<1>2. /\ DOMAIN r = DOMAIN b /\ DOMAIN r.working = DOMAIN b.working
      /\ r.original = b.original /\ r.submitted = b.submitted /\ r.bootstrap = b.bootstrap
      /\ r.effects = b.effects /\ r.quit_staged = b.quit_staged
      /\ r.repeat_candidate = b.repeat_candidate
      /\ r.working.modules = b.working.modules /\ r.working.ledger = b.working.ledger
      /\ r.working.exclusive = b.working.exclusive /\ r.working.held = b.working.held
      /\ r.working.mode = b.working.mode /\ r.disarm = b.disarm /\ r.edge = b.edge
      /\ r.working.area = e.val /\ r.required = (b.required \/ b.working.area # e.val)
  BY DEF IsTransaction, TransactionFields, AuthorityFields
<1> HIDE DEF r
<1>3. r.required \/ project_authority(r.working) = project_authority(b.working)
  BY <1>2, SameProjection, Zenon
<1>4. QuietFacts(b, r, c, d)
  BY <1>2, <1>3, KeymapAssumption, SessionAssumption, ZenonT(30) DEF QuietFacts, IsTransaction
<1>. QED BY <1>1, <1>4, Zenon

\* A key that goes up, or stops repeating.
LEMMA ReleasedStep ==
    ASSUME NEW b, NEW e, NEW c, NEW d, e.kind \in {"BindingReleased", "BindingRepeatStopped"},
           e.id \in BindingId, d.eat = c.eat,
           IsTransaction(b)
    PROVE  QuietFacts(b, reduce_policy_event(b, e, repeat_target), c, d)
<1> DEFINE r == [b EXCEPT !.working.held = @ \ {e.id},
                         !.disarm = @ \/ e.id \in {b.repeat_candidate, repeat_target}]
<1>1. reduce_policy_event(b, e, repeat_target) = r
  BY Zenon DEF reduce_policy_event
<1>2. /\ DOMAIN r = DOMAIN b /\ DOMAIN r.working = DOMAIN b.working
      /\ r.original = b.original /\ r.submitted = b.submitted /\ r.bootstrap = b.bootstrap
      /\ r.effects = b.effects /\ r.quit_staged = b.quit_staged
      /\ r.repeat_candidate = b.repeat_candidate
      /\ r.working.modules = b.working.modules /\ r.working.ledger = b.working.ledger
      /\ r.working.area = b.working.area /\ r.working.exclusive = b.working.exclusive
      /\ r.working.mode = b.working.mode /\ r.edge = b.edge /\ r.required = b.required
      /\ r.working.held = b.working.held \ {e.id}
      /\ r.disarm = (b.disarm \/ e.id \in {b.repeat_candidate, repeat_target})
  BY DEF IsTransaction, TransactionFields, AuthorityFields
<1> HIDE DEF r
<1>3. r.required \/ project_authority(r.working) = project_authority(b.working)
  BY <1>2, SameProjection, Zenon
<1>4. QuietFacts(b, r, c, d)
  BY <1>2, <1>3, KeymapAssumption, SessionAssumption, Zenon DEF QuietFacts, IsTransaction
<1>. QED BY <1>1, <1>4, Zenon

\* A key without a binding leaves for Nav.
LEMMA EatenStep ==
    ASSUME NEW b, NEW e, NEW c, NEW d, e.kind = "UnboundKeyEaten", d.eat = FALSE,
           IsTransaction(b)
    PROVE  QuietFacts(b, reduce_policy_event(b, e, repeat_target), c, d)
<1> DEFINE r == [b EXCEPT !.working.mode = "Nav", !.edge = "Preserve",
                         !.binding_changed = @ \/ b.working.mode # "Nav"]
<1>1. reduce_policy_event(b, e, repeat_target) = r
  BY Zenon DEF reduce_policy_event
<1>2. /\ DOMAIN r = DOMAIN b /\ DOMAIN r.working = DOMAIN b.working
      /\ r.original = b.original /\ r.submitted = b.submitted /\ r.bootstrap = b.bootstrap
      /\ r.effects = b.effects /\ r.quit_staged = b.quit_staged
      /\ r.repeat_candidate = b.repeat_candidate
      /\ r.working.modules = b.working.modules /\ r.working.ledger = b.working.ledger
      /\ r.working.area = b.working.area /\ r.working.exclusive = b.working.exclusive /\ r.working.held = b.working.held
      /\ r.disarm = b.disarm /\ r.required = b.required
      /\ r.working.mode = "Nav" /\ r.edge = "Preserve"
  BY DEF IsTransaction, TransactionFields, AuthorityFields
<1> HIDE DEF r
<1>3. r.required \/ project_authority(r.working) = project_authority(b.working)
  BY <1>2, SameProjection, Zenon
<1>4. QuietFacts(b, r, c, d)
  BY <1>2, <1>3, KeymapAssumption, SessionAssumption DEF QuietFacts, IsTransaction
<1>. QED BY <1>1, <1>4, Zenon

\* Every event of a turn.
LEMMA EventStep ==
    ASSUME NEW a, NEW b, NEW c, NEW d, NEW events, NEW n \in Nat \ {0},
           TurnInv(a, b, c, events, n - 1), Observes(c, events[n], d), Len(a.effects) \in Nat,
           repeat_target \in BindingId => Keymap[repeat_target].repeatable
    PROVE  TurnInv(a, reduce_policy_event(b, events[n], repeat_target), d, events, n)
<1> DEFINE e == events[n]
           r == reduce_policy_event(b, e, repeat_target)
<1>1. IsTransaction(b) /\ IsCompositor(c)
  BY DEF TurnInv
<1>2. EventFacts(c, e, d)
  BY <1>1, ObservationFacts
<1>3. IsCompositor(d) /\ d.enabled = c.enabled /\ d.shown = c.shown
  BY <1>2 DEF EventFacts
<1>4. CASE e.kind = "BindingPressed"
  <2>1. IsPress(events[n]) /\ e.id \in BindingId /\ d.eat = FALSE
    BY <1>2, <1>4 DEF EventFacts, IsPress
  <2>2. TurnInv(a, PressBinding(b, e.id), d, events, n)
    BY <1>3, <2>1, PressStep, Zenon
  <2>3. r = PressBinding(b, e.id)
    BY <1>4, Zenon DEF reduce_policy_event
  <2>. QED BY <2>2, <2>3
<1>5. CASE e.kind # "BindingPressed"
  <2>1. QuietFacts(b, r, c, d)
    <3>0. CASE d.eat = c.eat
      <4>1. CASE e.kind = "WindowOpened"
        BY <1>1, <3>0, <4>1, OpenedStep, Zenon
      <4>2. CASE e.kind = "WindowClosed"
        BY <1>1, <3>0, <4>2, ClosedStep, Zenon
      <4>3. CASE e.kind = "TitleChanged"
        BY <1>1, <3>0, <4>3, RetitledStep, Zenon
      <4>4. CASE e.kind = "FocusChanged"
        BY <1>1, <3>0, <4>4, FocusedStep, Zenon
      <4>5. CASE e.kind = "ExclusiveFocusChanged"
        BY <1>1, <3>0, <4>5, ExclusiveStep, Zenon
      <4>6. CASE e.kind = "WorkareaChanged" /\ e.val \in Workareas
        BY <1>1, <3>0, <4>6, ResizedStep, ZenonT(30)
      <4>7. CASE e.kind \in {"BindingReleased", "BindingRepeatStopped"} /\ e.id \in BindingId
        BY <1>1, <3>0, <4>7, ReleasedStep
      <4>8. CASE e.kind = "UnboundKeyEaten" /\ d.eat = FALSE
        BY <1>1, <4>8, EatenStep, Zenon
      <4>. HIDE DEF e, r
      <4>. QED BY <1>2, <1>5, <4>1, <4>2, <4>3, <4>4, <4>5, <4>6, <4>7, <4>8, Zenon DEF EventFacts
    <3>1. CASE e.kind = "UnboundKeyEaten" /\ d.eat = FALSE
      BY <1>1, <3>1, EatenStep, Zenon
    <3>. HIDE DEF e, r
    <3>. QED BY <1>2, <1>5, <3>0, <3>1, Zenon DEF EventFacts
  <2>2. ~IsPress(events[n])
    BY <1>5 DEF IsPress
  <2>. QED BY <1>3, <2>1, <2>2, QuietStep
<1>. QED BY <1>4, <1>5

-----------------------------------------------------------------------------
(* The histories of a turn.                                                *)

\* A compositor after each of the events.
IsTrace(c, h) ==
    /\ DOMAIN c = 0..Len(h.events) /\ c[0] = comp /\ c[Len(h.events)] = h.comp
    /\ \A i \in 1..Len(h.events) : Observes(c[i - 1], h.events[i], c[i])
HistoryOK(h) == DOMAIN h = {"events", "comp"} /\ IsSeq(h.events) /\ \E c : IsTrace(c, h)

\* An observation is an event and a compositor.
LEMMA ObservationShape ==
    ASSUME NEW c, NEW o \in Observations(c)
    PROVE  Observes(c, o.event, o.comp)
<1>1. o = [event |-> o.event, comp |-> o.comp]
  <2>1. CASE o \in WindowObservations(c)
    BY <2>1 DEF WindowObservations, Seen
  <2>2. CASE o \in SeatObservations(c)
    BY <2>2 DEF SeatObservations, Seen
  <2>3. CASE o \in KeyObservations(c)
    <3>1. PICK kind, id, val, after : o = Seen(kind, id, val, after)
      BY <2>3, Zenon DEF KeyObservations
    <3>. QED BY <3>1 DEF Seen
  <2>. QED BY <2>1, <2>2, <2>3, Zenon DEF Observations
<1>. QED BY <1>1, Zenon DEF Observes

\* One more event.
LEMMA ObserveStep ==
    ASSUME NEW h, HistoryOK(h), NEW k \in Observe(h)
    PROVE  HistoryOK(k)
<1>1. PICK o \in Observations(h.comp) : k = [events |-> Append(h.events, o.event), comp |-> o.comp]
  BY Zenon DEF Observe
<1>2. Observes(h.comp, o.event, o.comp)
  BY ObservationShape, Zenon
<1>3. PICK c : IsTrace(c, h)
  BY DEF HistoryOK
<1> DEFINE n == Len(h.events)
           d == [i \in 0..(n + 1) |-> IF i <= n THEN c[i] ELSE o.comp]
<1>4. k.events = Append(h.events, o.event) /\ k.comp = o.comp /\ DOMAIN k = {"events", "comp"}
  BY <1>1
<1>5. /\ IsSeq(k.events) /\ Len(k.events) = n + 1 /\ n \in Nat
      /\ \A i \in 1..n : k.events[i] = h.events[i]
      /\ k.events[n + 1] = o.event
  <2>1. IsSeq(h.events)
    BY DEF HistoryOK
  <2>. QED BY <1>4, <2>1, Appended
<1>6. IsTrace(d, k)
  <2>1. DOMAIN d = 0..Len(k.events) /\ d[0] = comp /\ d[Len(k.events)] = k.comp
    BY <1>3, <1>4, <1>5 DEF IsTrace
  <2>2. ASSUME NEW i \in 1..Len(k.events) PROVE Observes(d[i - 1], k.events[i], d[i])
    <3>1. CASE i \in 1..n
      <4>1. d[i - 1] = c[i - 1] /\ d[i] = c[i] /\ k.events[i] = h.events[i]
        BY <1>5, <3>1
      <4>2. Observes(c[i - 1], h.events[i], c[i])
        BY <1>3, <3>1, Zenon DEF IsTrace
      <4>. QED BY <4>1, <4>2
    <3>2. CASE i = n + 1
      <4>1. d[i - 1] = h.comp /\ d[i] = o.comp /\ k.events[i] = o.event
        BY <1>3, <1>5, <3>2 DEF IsTrace
      <4>. QED BY <1>2, <4>1
    <3>. QED BY <1>5, <3>1, <3>2
  <2> HIDE DEF d
  <2>. QED BY <2>1, <2>2 DEF IsTrace
<1>. QED BY <1>4, <1>5, <1>6, Zenon DEF HistoryOK

NoHistory == {[events |-> <<>>, comp |-> comp]}
Further(hs) == hs \cup UNION {Observe(h) : h \in hs}

\* Observed is what its recursion says.
LEMMA ObservedFold ==
    \E f : /\ f = [i \in 0..MaxEvents |-> IF i = 0 THEN NoHistory ELSE Further(f[i - 1])]
                  /\ Observed = f[MaxEvents]
<1> DEFINE n == MaxEvents
           One(g, i) == IF i = 0 THEN NoHistory ELSE Further(g[i - 1])
           T == {k \in 0..n : ~ \E g : g = [i \in 0..k |-> One(g, i)]}
<1>1. n \in Nat
  BY SessionAssumption
<1> HIDE DEF n
<1>2. T = {}
  <2> SUFFICES ASSUME T # {} PROVE FALSE
    OBVIOUS
  <2>1. T \subseteq Nat
    BY <1>1
  <2>2. PICK m \in T : \A k \in T : ~(<<k, m>> \in OpToRel(<, Nat))
    BY <2>1, NatLessThanWellFounded, WFMin, Zenon
  <2>3. \A k \in T : ~(k < m)
    BY <2>1, <2>2, Zenon DEF OpToRel
  <2>4. m # 0
    <3> DEFINE g == [i \in 0..0 |-> NoHistory]
    <3>1. g = [i \in 0..0 |-> One(g, i)]
      OBVIOUS
    <3>. QED BY <3>1, Zenon
  <2>5. m \in Nat /\ m - 1 \in 0..n /\ m \in 1..n /\ m - 1 < m
    BY <1>1, <2>4
  <2>6. PICK g : g = [i \in 0..(m - 1) |-> One(g, i)]
    <3> HIDE DEF One
    <3>. QED BY <2>3, <2>5
  <2> DEFINE last == Further(g[m - 1])
             h == [i \in 0..m |-> IF i < m THEN g[i] ELSE last]
  <2>7. ASSUME NEW i \in 0..m PROVE h[i] = One(h, i)
    <3>1. CASE i < m
      BY <2>5, <2>6, <3>1
    <3>2. CASE i = m
      <4>1. h[i - 1] = g[m - 1] /\ i # 0
        BY <2>4, <2>5, <3>2
      <4>2. h[i] = last
        BY <2>5, <3>2
      <4>. QED BY <3>2, <4>1, <4>2, Zenon
    <3>. QED BY <2>5, <3>1, <3>2
  <2>8. h = [i \in 0..m |-> One(h, i)]
    <3> HIDE DEF One
    <3>. QED BY <2>7
  <2>. QED BY <2>8, Zenon
<1>3. PICK g : g = [i \in 0..n |-> One(g, i)]
  <2> HIDE DEF One
  <2>. QED BY <1>1, <1>2
<1> DEFINE f == CHOOSE c : c = [i \in 0..n |-> One(c, i)]
<1>4. f = [i \in 0..n |-> One(f, i)]
  <2> HIDE DEF One
  <2>. QED BY <1>3, Zenon
<1>5. Observed = f[n]
  BY Zenon DEF Observed, NoHistory, Further, n
<1> HIDE DEF f
<1>. QED BY <1>4, <1>5, Zenon DEF n

\* Every history has its trace.
LEMMA ObservedTraces ==
    ASSUME NEW h \in Observed
    PROVE  HistoryOK(h)
<1>1. PICK f : /\ f = [i \in 0..MaxEvents |-> IF i = 0 THEN NoHistory ELSE Further(f[i - 1])]
               /\ Observed = f[MaxEvents]
  BY ObservedFold, Zenon
<1> DEFINE T == {i \in 0..MaxEvents : \E k \in f[i] : ~HistoryOK(k)}
<1>2. T \subseteq Nat /\ MaxEvents \in 0..MaxEvents
  BY SessionAssumption
<1>3. SUFFICES ASSUME T # {} PROVE FALSE
  BY <1>1, <1>2
<1>4. PICK m \in T : \A i \in T : ~(<<i, m>> \in OpToRel(<, Nat))
  BY <1>2, <1>3, NatLessThanWellFounded, WFMin, Zenon
<1>5. \A i \in T : ~(i < m)
  BY <1>2, <1>4, Zenon DEF OpToRel
<1>6. PICK k \in f[m] : ~HistoryOK(k)
  OBVIOUS
<1>7. m # 0
  <2> SUFFICES ASSUME m = 0 PROVE FALSE
    OBVIOUS
  <2>1. k = [events |-> <<>>, comp |-> comp]
    <3>1. f[m] = NoHistory
      BY <1>1, <1>2
    <3>. QED BY <1>6, <3>1 DEF NoHistory
  <2>2. IsSeq(<<>>) /\ Len(<<>>) = 0
    BY DEF IsSeq
  <2>3. IsTrace([i \in 0..0 |-> comp], k)
    BY <2>1, <2>2 DEF IsTrace
  <2>4. k.events = <<>> /\ DOMAIN k = {"events", "comp"}
    BY <2>1
  <2>. QED BY <1>6, <2>2, <2>3, <2>4, Zenon DEF HistoryOK
<1>8. m - 1 \in 0..MaxEvents /\ m - 1 < m /\ m \in 0..MaxEvents
  BY <1>2, <1>7, SessionAssumption
<1>9. ASSUME NEW j \in f[m - 1] PROVE HistoryOK(j)
  BY <1>5, <1>8, Zenon
<1>10. f[m] = f[m - 1] \cup UNION {Observe(j) : j \in f[m - 1]}
  BY <1>1, <1>7, <1>8, Zenon DEF Further
<1>. QED BY <1>6, <1>9, <1>10, ObserveStep, Zenon

-----------------------------------------------------------------------------
(* A turn.                                                                 *)

\* A transaction at the begin of a turn.
Begun(a) ==
    /\ IsTransaction(a) /\ IsCompositor(comp)
    /\ a.disarm /\ a.repeat_candidate = None /\ ~a.quit_staged => repeat_target \notin a.working.held
    /\ (comp.eat \/ a.edge = "Ensure") <=> a.working.mode # "Nav"
    /\ a.working.area = None => comp.shown = <<>>
    /\ a.required \/ comp.shown = project_authority(a.working)
    /\ repeat_target \in BindingId => Keymap[repeat_target].repeatable

\* The events of a history keep what a transaction and the compositor have in common.
LEMMA TurnReduced ==
    ASSUME NEW a, Begun(a), NEW h, HistoryOK(h)
    PROVE  TurnInv(a, reduce_policy_events(a, h.events, repeat_target), h.comp, h.events, Len(h.events))
<1> DEFINE n == Len(h.events)
           e == h.events
<1>1. n \in Nat /\ IsSeq(e) /\ Len(a.effects) \in Nat
  BY DEF HistoryOK, IsSeq, Begun, IsTransaction
<1>2. PICK c : IsTrace(c, h)
  BY DEF HistoryOK
<1>3. PICK f : /\ f = [i \in 0..n |-> IF i = 0 THEN a ELSE reduce_policy_event(f[i - 1], e[i], repeat_target)]
               /\ reduce_policy_events(a, e, repeat_target) = f[n]
  <2>1. IsSeq(h.events)
    BY <1>1
  <2>2. \A t : \E f : /\ f = [i \in 0..n |-> IF i = 0 THEN a ELSE reduce_policy_event(f[i - 1], e[i], t)]
                      /\ reduce_policy_events(a, e, t) = f[n]
    BY <2>1, EventsFold, ZenonT(30)
  <2>. QED BY <2>2, Zenon
<1> DEFINE T == {i \in 0..n : ~TurnInv(a, f[i], c[i], e, i)}
<1>4. T \subseteq Nat /\ n \in 0..n /\ c[n] = h.comp
  BY <1>1, <1>2 DEF IsTrace
<1>5. SUFFICES ASSUME T # {} PROVE FALSE
  BY <1>3, <1>4
<1>6. PICK m \in T : \A i \in T : ~(<<i, m>> \in OpToRel(<, Nat))
  BY <1>4, <1>5, NatLessThanWellFounded, WFMin, Zenon
<1>7. \A i \in T : ~(i < m)
  BY <1>4, <1>6, Zenon DEF OpToRel
<1>8. m # 0
  <2>1. f[0] = a /\ c[0] = comp
    BY <1>1, <1>2, <1>3 DEF IsTrace
  <2>2. ~QuitPressed(e, 0) /\ Counted(e, a.quit_staged, 0) = {}
    BY DEF QuitPressed, Counted
  <2>3. IsFiniteSet({}) /\ Cardinality({}) = 0
    BY FS_EmptySet
  <2>4. TurnInv(a, a, comp, e, 0)
    <3>1. /\ a.quit_staged <=> a.quit_staged \/ QuitPressed(e, 0)
          /\ IsFiniteSet(Counted(e, a.quit_staged, 0))
      BY <2>2, <2>3, Zenon
    <3>2. Len(a.effects) = Len(a.effects) + Cardinality(Counted(e, a.quit_staged, 0))
      <4>1. Cardinality(Counted(e, a.quit_staged, 0)) = 0
        BY <2>2, <2>3, Zenon
      <4>. QED BY <1>1, <4>1
    <3>. QED BY <3>1, <3>2, Zenon DEF TurnInv, Begun
  <2>. QED BY <2>1, <2>4
<1>9. m \in Nat \ {0} /\ m - 1 \in 0..n /\ m \in 1..n /\ m - 1 < m
  BY <1>1, <1>8
<1>10. TurnInv(a, f[m - 1], c[m - 1], e, m - 1)
  BY <1>7, <1>9, Zenon
<1>11. Observes(c[m - 1], e[m], c[m])
  BY <1>2, <1>9, Zenon DEF IsTrace
<1>12. f[m] = reduce_policy_event(f[m - 1], e[m], repeat_target)
  BY <1>3, <1>8, <1>9, Zenon
<1>13. repeat_target \in BindingId => Keymap[repeat_target].repeatable
  BY DEF Begun
<1>14. TurnInv(a, reduce_policy_event(f[m - 1], e[m], repeat_target), c[m], e, m)
  BY <1>1, <1>9, <1>10, <1>11, <1>13, EventStep, ZenonT(30)
<1>15. TurnInv(a, f[m], c[m], e, m)
  BY <1>12, <1>14
<1>. QED BY <1>15

\* BeginTurn of a transaction.
LEMMA BegunFacts ==
    ASSUME NEW a, IsTransaction(a), NEW staged \in BOOLEAN
    PROVE  LET b == BeginTurn(a, staged)
           IN  /\ IsTransaction(b) /\ b.working = a.working /\ b.edge = "Preserve"
               /\ b.original = a.original /\ b.effects = a.effects /\ b.submitted = a.submitted
               /\ b.bootstrap = a.bootstrap /\ b.quit_staged = a.quit_staged
               /\ b.repeat_candidate = a.repeat_candidate /\ b.disarm = a.disarm
               /\ b.required = (a.required /\ staged)
<1> DEFINE b == BeginTurn(a, staged)
<1>1. /\ b.working = a.working /\ b.edge = "Preserve"
      /\ b.original = a.original /\ b.effects = a.effects /\ b.submitted = a.submitted
      /\ b.bootstrap = a.bootstrap /\ b.quit_staged = a.quit_staged
      /\ b.repeat_candidate = a.repeat_candidate /\ b.disarm = a.disarm
      /\ b.required = (a.required /\ staged) /\ DOMAIN b = DOMAIN a
  BY DEF BeginTurn, IsTransaction, TransactionFields
<1> HIDE DEF b
<1>2. IsTransaction(b)
  BY <1>1, Zenon DEF IsTransaction
<1>. QED BY <1>1, <1>2 DEF b

\* The answer of a turn, and what is kept of it.
LEMMA SubmittedFacts ==
    ASSUME NEW a, IsTransaction(a), NEW ph
    PROVE  LET r == derive_response(ph, a)
               s == Submitted(r)
           IN  /\ IsTransaction(s) /\ s.working = a.working
               /\ s.projection = project_authority(a.working)
               /\ s.enabled = desired_binding_state(ph, a.working) /\ s.enabled = r.enabled
               /\ s.original = a.original /\ s.effects = a.effects /\ s.bootstrap = a.bootstrap
               /\ s.quit_staged = a.quit_staged /\ s.repeat_candidate = a.repeat_candidate
               /\ s.disarm = a.disarm /\ s.required = a.required
               /\ r.edge = a.edge
               /\ r.projection = IF a.required /\ a.working.area # None
                                 THEN Some(project_authority(a.working)) ELSE Nothing
               /\ s.submitted = (a.submitted \/ (a.required /\ a.working.area # None))
<1> DEFINE p == project_authority(a.working)
           on == desired_binding_state(ph, a.working)
           r == Answer(a, p, on)
           s == Submitted(r)
           x == [a EXCEPT !.projection = p, !.enabled = on]
<1>1. derive_response(ph, a) = r
  BY Zenon DEF derive_response
<1> HIDE DEF p, on
<1>2. /\ r.active = x /\ r.enabled = on /\ r.edge = a.edge
      /\ r.projection = IF a.required /\ a.working.area # None THEN Some(p) ELSE Nothing
  BY DEF Answer
<1>3. Some(p) # Nothing
  BY DEF Some, Nothing
<1>4. /\ DOMAIN x = DOMAIN a /\ x.projection = p /\ x.enabled = on /\ x.working = a.working
      /\ x.original = a.original /\ x.effects = a.effects /\ x.bootstrap = a.bootstrap
      /\ x.quit_staged = a.quit_staged /\ x.repeat_candidate = a.repeat_candidate
      /\ x.disarm = a.disarm /\ x.required = a.required /\ x.submitted = a.submitted
  BY DEF IsTransaction, TransactionFields
<1> HIDE DEF r, x
<1>5. /\ DOMAIN s = DOMAIN x /\ s.projection = x.projection /\ s.enabled = x.enabled
      /\ s.working = x.working
      /\ s.original = x.original /\ s.effects = x.effects /\ s.bootstrap = x.bootstrap
      /\ s.quit_staged = x.quit_staged /\ s.repeat_candidate = x.repeat_candidate
      /\ s.disarm = x.disarm /\ s.required = x.required
      /\ s.submitted = (x.submitted \/ r.projection # Nothing)
  BY <1>2, <1>4 DEF Submitted, IsTransaction, TransactionFields
<1> HIDE DEF s
<1>6. IsTransaction(s)
  BY <1>4, <1>5 DEF IsTransaction
<1>7. s.submitted = (a.submitted \/ (a.required /\ a.working.area # None))
  BY <1>2, <1>3, <1>4, <1>5
<1>. QED BY <1>1, <1>2, <1>4, <1>5, <1>6, <1>7 DEF p, on, s

-----------------------------------------------------------------------------
(* The replay.                                                             *)

Admit(w, e) == IF e.kind = "WindowOpened" THEN AdmitWindow(w, e) ELSE w

\* AdmitEach is what its recursion says.
LEMMA AdmitFold ==
    ASSUME NEW w, NEW events, IsSeq(events)
    PROVE  \E f : /\ f = [i \in 0..Len(events) |-> IF i = 0 THEN w ELSE Admit(f[i - 1], events[i])]
                  /\ AdmitEach(w, events) = f[Len(events)]
<1> DEFINE n == Len(events)
           One(g, i) == IF i = 0 THEN w ELSE Admit(g[i - 1], events[i])
           T == {k \in 0..n : ~ \E g : g = [i \in 0..k |-> One(g, i)]}
<1>1. n \in Nat
  BY DEF IsSeq
<1> HIDE DEF n
<1>2. T = {}
  <2> SUFFICES ASSUME T # {} PROVE FALSE
    OBVIOUS
  <2>1. T \subseteq Nat
    BY <1>1
  <2>2. PICK m \in T : \A k \in T : ~(<<k, m>> \in OpToRel(<, Nat))
    BY <2>1, NatLessThanWellFounded, WFMin, Zenon
  <2>3. \A k \in T : ~(k < m)
    BY <2>1, <2>2, Zenon DEF OpToRel
  <2>4. m # 0
    <3> DEFINE g == [i \in 0..0 |-> w]
    <3>1. g = [i \in 0..0 |-> One(g, i)]
      OBVIOUS
    <3>. QED BY <3>1, Zenon
  <2>5. m \in Nat /\ m - 1 \in 0..n /\ m \in 1..n /\ m - 1 < m
    BY <1>1, <2>4, SMTT(30)
  <2>6. PICK g : g = [i \in 0..(m - 1) |-> One(g, i)]
    <3> HIDE DEF One
    <3>. QED BY <2>3, <2>5
  <2> DEFINE last == Admit(g[m - 1], events[m])
             h == [i \in 0..m |-> IF i < m THEN g[i] ELSE last]
  <2>7. ASSUME NEW i \in 0..m PROVE h[i] = One(h, i)
    <3>1. CASE i < m
      BY <2>5, <2>6, <3>1
    <3>2. CASE i = m
      <4>1. h[i - 1] = g[m - 1] /\ i # 0
        BY <2>4, <2>5, <3>2
      <4>2. h[i] = last
        BY <2>5, <3>2
      <4>. QED BY <3>2, <4>1, <4>2, Zenon
    <3>. QED BY <2>5, <3>1, <3>2
  <2>8. h = [i \in 0..m |-> One(h, i)]
    <3> HIDE DEF One
    <3>. QED BY <2>7
  <2>. QED BY <2>8, Zenon
<1>3. PICK g : g = [i \in 0..n |-> One(g, i)]
  <2> HIDE DEF One
  <2>. QED BY <1>1, <1>2
<1> DEFINE f == CHOOSE c : c = [i \in 0..n |-> One(c, i)]
<1>4. f = [i \in 0..n |-> One(f, i)]
  <2> HIDE DEF One
  <2>. QED BY <1>3, Zenon
<1>5. AdmitEach(w, events) = f[n]
  BY Zenon DEF AdmitEach, Admit, n
<1> HIDE DEF f
<1>. QED BY <1>4, <1>5, Zenon DEF n

\* What admitting windows leaves alone.
Admits(w, v) ==
    /\ DOMAIN v = AuthorityFields
    /\ v.mode = w.mode /\ v.modules = w.modules /\ v.held = w.held

\* Admitting the replayed windows touches windows, ids and ledger only.
LEMMA AdmitEachFacts ==
    ASSUME NEW w, DOMAIN w = AuthorityFields, NEW events, IsSeq(events)
    PROVE  Admits(w, AdmitEach(w, events))
<1> DEFINE n == Len(events)
<1>1. PICK f : /\ f = [i \in 0..n |-> IF i = 0 THEN w ELSE Admit(f[i - 1], events[i])]
               /\ AdmitEach(w, events) = f[n]
  BY AdmitFold, Zenon
<1> DEFINE T == {i \in 0..n : ~Admits(w, f[i])}
<1>2. T \subseteq Nat /\ n \in 0..n /\ n \in Nat
  BY DEF IsSeq
<1>3. SUFFICES ASSUME T # {} PROVE FALSE
  BY <1>1, <1>2, Zenon
<1>4. PICK m \in T : \A i \in T : ~(<<i, m>> \in OpToRel(<, Nat))
  BY <1>2, <1>3, NatLessThanWellFounded, WFMin, Zenon
<1>5. \A i \in T : ~(i < m)
  BY <1>2, <1>4, Zenon DEF OpToRel
<1>6. m # 0
  <2>1. f[0] = w
    BY <1>1, <1>2
  <2>. QED BY <2>1 DEF Admits
<1>7. m - 1 \in 0..n /\ m - 1 < m /\ m \in 0..n
  BY <1>2, <1>6
<1>8. Admits(w, f[m - 1])
  BY <1>5, <1>7, Zenon
<1>9. f[m] = Admit(f[m - 1], events[m])
  BY <1>1, <1>6, <1>7, Zenon
<1> DEFINE x == f[m - 1]
           e == events[m]
<1>10. /\ DOMAIN AdmitWindow(x, e) = DOMAIN x /\ AdmitWindow(x, e).held = x.held
       /\ AdmitWindow(x, e).mode = x.mode /\ AdmitWindow(x, e).modules = x.modules
  <2>1. DOMAIN x = AuthorityFields
    BY <1>8 DEF Admits
  <2> HIDE DEF x, e
  <2>. QED BY <2>1 DEF AdmitWindow, AuthorityFields
<1>11. Admits(w, f[m])
  <2> HIDE DEF e
  <2>. QED BY <1>8, <1>9, <1>10 DEF Admits, Admit, e
<1>. QED BY <1>11

\* The initial replay rebuilds the authority and leaves the rest of the transaction.
LEMMA ReplayFacts ==
    ASSUME NEW a, IsTransaction(a), NEW events, IsSeq(events)
    PROVE  LET r == reduce_initial_replay(a, events)
           IN  /\ IsTransaction(r) /\ r.bootstrap = TRUE /\ r.working.area = None
               /\ r.working.mode = a.working.mode /\ r.working.modules = a.working.modules
               /\ r.working.held = a.working.held
               /\ r.original = a.original /\ r.effects = a.effects /\ r.submitted = a.submitted
               /\ r.edge = a.edge /\ r.quit_staged = a.quit_staged
               /\ r.repeat_candidate = a.repeat_candidate /\ r.disarm = a.disarm
               /\ r.required = a.required
<1> DEFINE w == a.working
           opened == {i \in DOMAIN events : events[i].kind = "WindowOpened"}
           replayed == DOMAIN w.ids \cap {events[i].id : i \in opened}
           persisted_order == Concatenated([o \in OrbitId |-> w.ledger.orbits[o].windows])
           kept == [w EXCEPT !.ledger = BanishOthers(@, persisted_order, {w.ids[b] : b \in replayed}),
                             !.ids = [b \in replayed |-> @[b]],
                             !.windows = <<>>, !.bound = {}]
           taken == \E i \in DOMAIN events :
                        events[i].kind = "ExclusiveFocusChanged" /\ events[i].val
           v == AdmitEach(kept, events)
           x == [v EXCEPT !.ledger = discard_undo_history(@), !.area = None, !.exclusive = taken]
           r == [a EXCEPT !.working = x, !.bootstrap = TRUE, !.closes = {}]
<1>1. reduce_initial_replay(a, events) = r
  BY Zenon DEF reduce_initial_replay
<1>2. /\ DOMAIN kept = AuthorityFields /\ kept.mode = w.mode /\ kept.modules = w.modules
      /\ kept.held = w.held
  <2> HIDE DEF replayed, persisted_order
  <2>. QED BY DEF IsTransaction, AuthorityFields
<1> HIDE DEF kept, taken
<1>3. Admits(kept, v)
  BY <1>2, AdmitEachFacts, Zenon
<1> HIDE DEF v
<1>4. /\ DOMAIN x = AuthorityFields /\ x.mode = w.mode /\ x.modules = w.modules
      /\ x.held = w.held /\ x.area = None
  BY <1>2, <1>3 DEF Admits, AuthorityFields
<1> HIDE DEF x, w
<1>5. /\ DOMAIN r = DOMAIN a /\ r.working = x /\ r.bootstrap = TRUE
      /\ r.original = a.original /\ r.effects = a.effects /\ r.submitted = a.submitted
      /\ r.edge = a.edge /\ r.quit_staged = a.quit_staged
      /\ r.repeat_candidate = a.repeat_candidate /\ r.disarm = a.disarm
      /\ r.required = a.required
  BY DEF IsTransaction, TransactionFields
<1> HIDE DEF r
<1>6. IsTransaction(r)
  BY <1>4, <1>5 DEF IsTransaction
<1>7. LET q == r
      IN  /\ IsTransaction(q) /\ q.bootstrap = TRUE /\ q.working.area = None
          /\ q.working.mode = a.working.mode /\ q.working.modules = a.working.modules
          /\ q.working.held = a.working.held
          /\ q.original = a.original /\ q.effects = a.effects /\ q.submitted = a.submitted
          /\ q.edge = a.edge /\ q.quit_staged = a.quit_staged
          /\ q.repeat_candidate = a.repeat_candidate /\ q.disarm = a.disarm
          /\ q.required = a.required
  BY <1>4, <1>5, <1>6 DEF w
<1>. QED BY <1>1, <1>7, Zenon

-----------------------------------------------------------------------------
(* The steps.                                                              *)

\* An option is empty or holds its value.
LEMMA NothingIsNotSome ==
    ASSUME NEW x
    PROVE  Some(x) # Nothing /\ Some(x)[1] = x
BY DEF Some, Nothing

\* A new daemon.
LEMMA FreshFacts ==
    ASSUME NEW recovered
    PROVE  LET w == Connected(recovered)
               fresh == Fresh(w)
           IN  /\ DOMAIN w = AuthorityFields /\ w.area = None /\ w.mode = "Nav" /\ w.modules = 0
               /\ fresh.auth = w /\ fresh.tx = Idle /\ fresh.active = Nothing
               /\ fresh.rt = [pending |-> None, armed |-> FALSE, dirty |-> FALSE]
               /\ IsCompositor(fresh.comp) /\ fresh.comp.shown = <<>>
               /\ fresh.comp.enabled = {} /\ fresh.comp.eat = FALSE
<1> DEFINE w == Connected(recovered)
<1>1. DOMAIN w = AuthorityFields /\ w.area = None /\ w.mode = "Nav" /\ w.modules = 0
  BY DEF Connected, AuthorityFields
<1> HIDE DEF w
<1>2. LET fresh == Fresh(w)
      IN  /\ fresh.auth = w /\ fresh.tx = Idle /\ fresh.active = Nothing
          /\ fresh.rt = [pending |-> None, armed |-> FALSE, dirty |-> FALSE]
          /\ IsCompositor(fresh.comp) /\ fresh.comp.shown = <<>>
          /\ fresh.comp.enabled = {} /\ fresh.comp.eat = FALSE
  BY Zenon DEF Fresh, IsCompositor, CompositorFields
<1>. QED BY <1>1, <1>2, Zenon DEF w

\* At the start nothing is told and nothing owed.
LEMMA InitInv ==
    ASSUME Init
    PROVE  SessionInv
<1>1. PICK file \in Snapshots :
        LET fresh == Fresh(Connected(LoadSnapshot(file)))
        IN  /\ phase = "InitialReplay" /\ failure = None /\ minute = 0
            /\ auth = fresh.auth /\ tx = fresh.tx /\ active = fresh.active /\ state = fresh.state
            /\ rt = fresh.rt /\ comp = fresh.comp /\ owed = 0 /\ last_ticket = 0
            /\ last_projection = <<>> /\ enabled = {} /\ repeat_target = None
  BY DEF Init
<1>2. /\ phase = "InitialReplay" /\ minute = 0 /\ tx = Idle /\ active = Nothing /\ owed = 0
      /\ rt = [pending |-> None, armed |-> FALSE, dirty |-> FALSE]
      /\ DOMAIN auth = AuthorityFields /\ auth.area = None /\ auth.mode = "Nav" /\ auth.modules = 0
      /\ IsCompositor(comp) /\ comp.shown = <<>> /\ comp.enabled = {} /\ comp.eat = FALSE
      /\ last_projection = <<>> /\ enabled = {} /\ repeat_target = None
  BY <1>1, FreshFacts, ZenonT(30)
<1>3. project_authority(auth) = <<>>
  BY <1>2, NoProjection
<1>4. Shape
  BY <1>2, Zenon DEF Shape, Idle, Startup
<1>5. Owes /\ Repeats /\ Shows
  BY <1>2, Zenon DEF Owes, Repeats, Shows
<1>6. ToldAll
  BY <1>2, <1>3 DEF ToldAll, Told, Desired
<1>. QED BY <1>4, <1>5, <1>6 DEF SessionInv

\* An error leaves nothing.
LEMMA FatalStep ==
    ASSUME NEW why, Fatal(why)
    PROVE  SessionInv'
<1> DEFINE fresh == Fresh(Connected(EmptySnapshot))
<1>1. /\ phase' = "Failed" /\ minute' = 0 /\ tx' = Idle /\ active' = Nothing
      /\ rt' = [pending |-> None, armed |-> FALSE, dirty |-> FALSE]
      /\ DOMAIN auth' = AuthorityFields /\ IsCompositor(comp')
      /\ enabled' = {} /\ repeat_target' = None
  <2>1. /\ phase' = "Failed" /\ minute' = 0 /\ tx' = fresh.tx /\ active' = fresh.active
        /\ rt' = fresh.rt /\ auth' = fresh.auth /\ comp' = fresh.comp
        /\ enabled' = {} /\ repeat_target' = None
    BY Zenon DEF Fatal
  <2> HIDE DEF fresh
  <2>2. /\ fresh.tx = Idle /\ fresh.active = Nothing
        /\ fresh.rt = [pending |-> None, armed |-> FALSE, dirty |-> FALSE]
        /\ DOMAIN fresh.auth = AuthorityFields /\ IsCompositor(fresh.comp)
    BY FreshFacts, Zenon DEF fresh
  <2>. QED BY <2>1, <2>2
<1>2. ~Serving'
  BY <1>1, Zenon DEF Serving, Startup
<1>3. Shape'
  BY <1>1, Zenon DEF Shape, Idle, IsCompositor
<1>4. Owes' /\ Shows' /\ ToldAll'
  BY <1>2 DEF Owes, Shows, ToldAll
<1>5. Repeats'
  BY <1>1 DEF Repeats
<1>. QED BY <1>3, <1>4, <1>5, Zenon DEF SessionInv

\* A step that changes nothing of this.
LEMMA SameStep ==
    ASSUME SessionInv,
           UNCHANGED <<phase, auth, last_projection, enabled, repeat_target, tx, active, state, rt,
                       owed, minute, comp>>
    PROVE  SessionInv'
<1>1. Shape' /\ Owes' /\ Repeats'
  BY Zenon DEF SessionInv, Shape, Owes, Repeats, Serving
<1>2. Shows'
  BY Zenon DEF SessionInv, Shows, Serving
<1>3. ToldAll'
  BY Zenon DEF SessionInv, ToldAll, Told, Serving
<1>. QED BY <1>1, <1>2, <1>3, Zenon DEF SessionInv

\* From the Quit on.
LEMMA StoppedStep ==
    ASSUME SessionInv, ~Serving',
           phase' \in {"QuitPending", "ShuttingDown", "Exiting", "ExitComplete"},
           active' = Nothing, tx' = Idle, repeat_target' = None,
           DOMAIN rt' = DOMAIN rt, ~rt'.armed, UNCHANGED <<auth, enabled, minute>>,
           IsCompositor(comp')
    PROVE  SessionInv'
<1>1. Shape'
  BY Zenon DEF SessionInv, Shape, Idle, IsCompositor
<1>2. Owes' /\ Shows' /\ ToldAll'
  BY DEF Owes, Shows, ToldAll
<1>3. Repeats'
  BY DEF Repeats
<1>. QED BY <1>1, <1>2, <1>3, Zenon DEF SessionInv

\* The Quit, the shutdown and the exit.
LEMMA QuitStep ==
    ASSUME SessionInv,
           begin_direct_quit \/ begin_shutdown \/ begin_exit_session \/ complete_expected_exit
    PROVE  SessionInv'
<1> DEFINE stops == phase' \in {"QuitPending", "ShuttingDown", "Exiting", "ExitComplete"}
<1>1. CASE begin_direct_quit \/ begin_shutdown
  <2>1. /\ stops /\ active' = Nothing /\ tx' = Idle /\ repeat_target' = None
        /\ DOMAIN rt' = DOMAIN rt /\ ~rt'.armed /\ UNCHANGED <<auth, enabled, minute, comp>>
    BY <1>1, Zenon DEF begin_direct_quit, begin_shutdown, Abandon, apply_repeat, SessionInv, Shape
  <2>2. ~Serving' /\ IsCompositor(comp')
    BY <2>1 DEF Serving, Startup, SessionInv, Shape
  <2>. QED BY <2>1, <2>2, StoppedStep
<1>2. CASE begin_exit_session \/ complete_expected_exit
  <2>1. CASE phase = "ShuttingDown" /\ Fatal("backend")
    BY <2>1, FatalStep
  <2>2. CASE \/ ExitStep("ShuttingDown", "Exiting") /\ comp' = [comp EXCEPT !.enabled = enabled]
             \/ ExitStep("Exiting", "ExitComplete") /\ comp' = comp
    <3>1. /\ ~Serving /\ ~Serving' /\ stops
          /\ UNCHANGED <<auth, enabled, repeat_target, tx, active, rt, minute>>
      BY <2>2 DEF ExitStep, Serving, Startup
    <3>2. active = Nothing /\ tx = Idle /\ repeat_target = None /\ ~rt.armed
      BY <3>1 DEF SessionInv, Shape, Repeats
    <3>3. IsCompositor(comp')
      BY <2>2, Zenon DEF SessionInv, Shape, IsCompositor, CompositorFields
    <3>. QED BY <3>1, <3>2, <3>3, StoppedStep
  <2>. QED BY <1>2, <2>1, <2>2 DEF begin_exit_session, complete_expected_exit
<1>. QED BY <1>1, <1>2

\* A session between two transactions.
LEMMA AtRest ==
    ASSUME SessionInv, phase = "Live", tx = Idle
    PROVE  /\ Serving /\ active = Nothing /\ DOMAIN auth = AuthorityFields
           /\ rt.pending = None /\ owed = 0 /\ DOMAIN rt = {"pending", "armed", "dirty"}
           /\ ~rt.dirty /\ minute = auth.modules /\ minute \in Nat
           /\ state = policy_visible_state(auth)
           /\ enabled = Desired(auth) /\ comp.enabled = enabled
           /\ comp.eat <=> auth.mode # "Nav"
           /\ auth.area # None
           /\ comp.shown = project_authority(auth) /\ comp.shown = last_projection
<1>1. Serving /\ active = Nothing
  BY DEF SessionInv, Shape, Serving
<1>. QED BY <1>1 DEF SessionInv, Shape, Owes, Shows, ToldAll, Told

\* An authority installed without a turn.
LEMMA InstallStep ==
    ASSUME SessionInv, phase = "Live", tx = Idle, NEW w,
           auth' = w, state' = policy_visible_state(w),
           UNCHANGED <<phase, last_projection, enabled, repeat_target, tx, active, owed, comp>>,
           DOMAIN w = AuthorityFields, w.area = auth.area, w.mode = auth.mode, w.held = auth.held,
           project_authority(w) = project_authority(auth),
           minute' \in Nat, w.modules = minute',
           DOMAIN rt' = DOMAIN rt, rt'.pending = rt.pending, rt'.armed = rt.armed, ~rt'.dirty
    PROVE  SessionInv'
<1>1. Serving /\ Serving' /\ active = Nothing
  BY AtRest, Zenon DEF Serving
<1>2. Shape'
  BY <1>1, Zenon DEF SessionInv, Shape
<1>3. Owes'
  BY <1>1 DEF SessionInv, Owes
<1>4. Repeats'
  BY <1>1, ZenonT(30) DEF SessionInv, Repeats
<1>5. Shows'
  BY <1>1, Zenon DEF Shows
<1>6. ToldAll'
  <2>1. Desired(w) = Desired(auth)
    BY ZenonT(30) DEF Desired
  <2>2. Told(auth, enabled)'
    BY <2>1, AtRest DEF Told
  <2>. QED BY <1>1, <2>2, AtRest, ZenonT(30) DEF ToldAll
<1>. QED BY <1>2, <1>3, <1>4, <1>5, <1>6, Zenon DEF SessionInv

\* The clock.
LEMMA TickStep ==
    ASSUME SessionInv, Tick
    PROVE  SessionInv'
<1>1. /\ phase = "Live" /\ minute' = minute + 1
      /\ auth' = IF tx = Idle THEN [auth EXCEPT !.modules = minute'] ELSE auth
      /\ state' = IF tx = Idle THEN [state EXCEPT !.modules = minute'] ELSE state
      /\ rt' = [rt EXCEPT !.dirty = tx # Idle]
      /\ UNCHANGED <<phase, last_projection, enabled, repeat_target, tx, active, owed, comp>>
  BY DEF Tick, consume_clock
<1>2. minute' \in Nat
  BY <1>1 DEF SessionInv, Shape
<1>3. /\ DOMAIN rt' = DOMAIN rt /\ rt'.pending = rt.pending /\ rt'.armed = rt.armed
      /\ rt'.dirty = (tx # Idle)
  BY <1>1 DEF SessionInv, Shape
<1>4. CASE tx = Idle
  <2>1. state = policy_visible_state(auth) /\ DOMAIN auth = AuthorityFields
    BY <1>1, <1>4, AtRest
  <2> DEFINE w == [auth EXCEPT !.modules = minute']
  <2>2. /\ DOMAIN w = AuthorityFields /\ w.ledger = auth.ledger /\ w.area = auth.area
        /\ w.exclusive = auth.exclusive /\ w.mode = auth.mode /\ w.held = auth.held
        /\ w.panels = auth.panels /\ w.windows = auth.windows /\ w.modules = minute'
    BY <2>1 DEF AuthorityFields
  <2>3. auth' = w /\ state' = [state EXCEPT !.modules = minute']
    BY <1>1, <1>4
  <2> HIDE DEF w
  <2>4. state' = policy_visible_state(w)
    BY <2>1, <2>2, <2>3 DEF policy_visible_state
  <2>5. project_authority(w) = project_authority(auth)
    BY <2>2, SameProjection, Zenon
  <2>. QED BY <1>1, <1>2, <1>3, <1>4, <2>2, <2>3, <2>4, <2>5, InstallStep, ZenonT(30)
<1>5. CASE tx # Idle
  <2>1. UNCHANGED <<auth, state>> /\ rt'.dirty
    BY <1>1, <1>3, <1>5, ZenonT(30)
  <2>2. active # Nothing /\ Serving /\ Serving'
    BY <1>1, <1>5 DEF SessionInv, Shape, Serving
  <2>3. Shape' /\ Owes' /\ Repeats'
    BY <1>1, <1>2, <1>3, <2>1, <2>2 DEF SessionInv, Shape, Owes, Repeats
  <2>4. Shows'
    BY <1>1, <2>1, <2>2 DEF SessionInv, Shows
  <2>5. ToldAll'
    BY <1>1, <2>1, <2>2, Zenon DEF SessionInv, ToldAll, Told
  <2>. QED BY <2>3, <2>4, <2>5 DEF SessionInv
<1>. QED BY <1>4, <1>5

\* A transaction that waits for its turn.
LEMMA StagedStep ==
    ASSUME SessionInv, phase = "Live", tx = Idle, NEW a, NEW at \in Awaiting,
           tx' = [at |-> at, ticket |-> last_ticket + 1], active' = Some(a),
           UNCHANGED <<phase, auth, last_projection, enabled, repeat_target, owed, minute, comp>>,
           DOMAIN rt' = DOMAIN rt, rt'.armed = rt.armed, rt'.dirty = rt.dirty,
           rt'.pending = a.original,
           IsTransaction(a), Len(a.effects) = 0, ~a.submitted, ~a.bootstrap, ~a.disarm,
           a.enabled = enabled,
           a.working.mode = auth.mode, a.working.area = auth.area, a.working.modules = auth.modules,
           a.required \/ project_authority(a.working) = project_authority(auth)
    PROVE  SessionInv'
<1>1. Serving /\ Serving' /\ active' # Nothing /\ active'[1] = a
  BY AtRest, NothingIsNotSome, Zenon DEF Serving
<1>2. tx' # Idle /\ tx'.at = at /\ DOMAIN tx' = {"at", "ticket"}
  BY DEF Awaiting, Idle
<1>3. Shape'
  BY <1>1, <1>2, ZenonT(30) DEF SessionInv, Shape
<1>4. Owes'
  BY <1>1, AtRest, ZenonT(30) DEF Owes
<1>5. Repeats'
  BY <1>1, ZenonT(30) DEF SessionInv, Repeats
<1>6. Shows'
  BY <1>1, AtRest, ZenonT(30) DEF Shows
<1>7. ToldAll'
  <2>1. Desired(a.working) = Desired(auth)
    BY Zenon DEF Desired
  <2>2. /\ a.enabled = Desired(a.working) /\ comp.enabled = a.enabled
        /\ comp.eat <=> a.working.mode # "Nav"
        /\ a.working.area # None
    BY <2>1, AtRest, Zenon
  <2>3. Told(a.working, a.enabled)'
    BY <2>2 DEF Told
  <2>. QED BY <1>1, <1>2, <2>3, AtRest, Zenon DEF ToldAll
<1>. QED BY <1>3, <1>4, <1>5, <1>6, <1>7, Zenon DEF SessionInv

\* A transaction that has just begun.
LEMMA NewTransactionFacts ==
    /\ DOMAIN NewTransaction = TransactionFields /\ NewTransaction.working = auth
    /\ NewTransaction.original = None /\ NewTransaction.effects = <<>>
    /\ NewTransaction.submitted = FALSE /\ NewTransaction.bootstrap = FALSE
    /\ NewTransaction.disarm = FALSE /\ NewTransaction.required = FALSE
    /\ NewTransaction.enabled = enabled /\ NewTransaction.quit_staged = FALSE
    /\ NewTransaction.repeat_candidate = None /\ NewTransaction.edge = "Preserve"
BY Zenon DEF NewTransaction, new_active_transaction, TransactionFields

\* A new transaction has the shape of one.
LEMMA NewIsTransaction ==
    ASSUME DOMAIN auth = AuthorityFields
    PROVE  IsTransaction(NewTransaction)
<1>1. IsSeq(<<>>)
  BY DEF IsSeq
<1> HIDE DEF NewTransaction
<1>. QED BY <1>1, NewTransactionFacts DEF IsTransaction

\* A request that waits.
LEMMA ExternalStep ==
    ASSUME SessionInv, phase = "Live", tx = Idle, NEW a, AwaitExternalTurn(a),
           IsTransaction(a), Len(a.effects) = 0, ~a.submitted, ~a.bootstrap, ~a.disarm,
           a.enabled = enabled,
           a.working.mode = auth.mode, a.working.area = auth.area, a.working.modules = auth.modules,
           a.required \/ project_authority(a.working) = project_authority(auth)
    PROVE  SessionInv'
<1>1. rt.pending = None /\ DOMAIN rt = {"pending", "armed", "dirty"}
  BY AtRest
<1> DEFINE b == [a EXCEPT !.original = last_ticket + 1]
<1>2. /\ AwaitTurn(b, "AwaitingExternalTurn") /\ rt' = [rt EXCEPT !.pending = last_ticket + 1]
      /\ UNCHANGED <<owed, minute, comp>>
  BY <1>1, Zenon DEF AwaitExternalTurn
<1>3. /\ DOMAIN b = DOMAIN a /\ b.original = last_ticket + 1 /\ b.effects = a.effects
      /\ b.submitted = a.submitted /\ b.bootstrap = a.bootstrap /\ b.disarm = a.disarm
      /\ b.enabled = a.enabled /\ b.working = a.working /\ b.required = a.required
      /\ b.repeat_candidate = a.repeat_candidate
  BY Zenon DEF IsTransaction, TransactionFields
<1> HIDE DEF b
<1>4. IsTransaction(b)
  BY <1>3 DEF IsTransaction
<1>5. /\ DOMAIN rt' = DOMAIN rt /\ rt'.armed = rt.armed /\ rt'.dirty = rt.dirty
      /\ rt'.pending = b.original
  BY <1>1, <1>2, <1>3
<1>6. "AwaitingExternalTurn" \in Awaiting
  BY DEF Awaiting
<1>. QED BY <1>2, <1>3, <1>4, <1>5, <1>6, StagedStep, Zenon DEF AwaitTurn

\* A request refused by the backend, before or after it was staged.
LEMMA RefusedStep ==
    ASSUME SessionInv, RequestRefused
    PROVE  SessionInv'
BY SameStep DEF RequestRefused

\* A control request that changes the ledger.
LEMMA LedgerStep ==
    ASSUME SessionInv, NEW r, stage_ledger_update(r)
    PROVE  SessionInv'
<1> DEFINE n == NewTransaction
           a == [n EXCEPT !.working.ledger = LedgerAction(@, r.action, r.arg)]
           p == project_authority(a.working)
<1>1. phase = "Live" /\ tx = Idle /\ StageLedger(a, p)
  BY Zenon DEF stage_ledger_update, Admitted
<1>2. DOMAIN auth = AuthorityFields /\ IsTransaction(n) /\ n.working = auth
  BY <1>1, AtRest, NewIsTransaction, NewTransactionFacts
<1>3. /\ DOMAIN a = DOMAIN n /\ a.original = n.original /\ a.effects = n.effects
      /\ a.submitted = n.submitted /\ a.bootstrap = n.bootstrap /\ a.disarm = n.disarm
      /\ a.enabled = n.enabled /\ a.required = n.required
      /\ a.repeat_candidate = n.repeat_candidate
      /\ DOMAIN a.working = AuthorityFields /\ a.working.mode = auth.mode
      /\ a.working.area = auth.area /\ a.working.modules = auth.modules
      /\ a.working.held = auth.held
  <2> HIDE DEF n
  <2>. QED BY <1>2, Zenon DEF IsTransaction, TransactionFields, AuthorityFields
<1>4. IsTransaction(a)
  <2> HIDE DEF a, n
  <2>. QED BY <1>2, <1>3, Zenon DEF IsTransaction
<1>5. CASE p = last_projection
  <2>1. InstallNow(a.working) /\ UNCHANGED <<rt, owed, minute, comp>>
    BY <1>1, <1>5, Zenon DEF StageLedger
  <2>2. project_authority(a.working) = project_authority(auth)
    BY <1>1, <1>5, AtRest, Zenon
  <2> HIDE DEF a, p, n
  <2>3. minute' \in Nat /\ a.working.modules = minute' /\ ~rt'.dirty
    BY <1>1, <1>3, <2>1, AtRest
  <2>. QED BY <1>1, <1>3, <2>1, <2>2, <2>3, InstallStep DEF InstallNow
<1>6. CASE p # last_projection
  <2> DEFINE b == [a EXCEPT !.projection = p, !.required = TRUE]
  <2>1. AwaitExternalTurn(b) \/ RequestRefused \/ Fatal("backend")
    BY <1>1, <1>6, Zenon DEF StageLedger
  <2> HIDE DEF a, p, n
  <2>2. /\ DOMAIN b = DOMAIN a /\ b.effects = a.effects /\ b.required = TRUE
        /\ b.submitted = a.submitted /\ b.bootstrap = a.bootstrap /\ b.disarm = a.disarm
        /\ b.enabled = a.enabled /\ b.working = a.working
        /\ b.repeat_candidate = a.repeat_candidate
    BY <1>4, Zenon DEF IsTransaction, TransactionFields
  <2> HIDE DEF b
  <2>3. IsTransaction(b)
    BY <1>4, <2>2, Zenon DEF IsTransaction
  <2>4. Len(b.effects) = 0 /\ ~b.submitted /\ ~b.bootstrap /\ ~b.disarm /\ b.enabled = enabled
    <3>1. b.effects = <<>> /\ ~b.submitted /\ ~b.bootstrap /\ ~b.disarm /\ b.enabled = enabled
      BY <1>3, <2>2, NewTransactionFacts, Zenon DEF n
    <3>. QED BY <3>1
  <2>5. CASE AwaitExternalTurn(b)
    BY <1>1, <1>3, <2>2, <2>3, <2>4, <2>5, ExternalStep, Zenon
  <2>. QED BY <2>1, <2>5, RefusedStep, FatalStep
<1>. QED BY <1>5, <1>6

\* A control request to close the focused window.
LEMMA CloseStep ==
    ASSUME SessionInv, NEW r, request_close_focused(r)
    PROVE  SessionInv'
<1> DEFINE n == NewTransaction
           b == [n EXCEPT !.close_target = LedgerFocus(auth.ledger)]
<1>1. /\ phase = "Live" /\ tx = Idle
      /\ AwaitExternalTurn(b) \/ RequestRefused \/ Fatal("backend")
  BY Zenon DEF request_close_focused, Admitted
<1>2. DOMAIN auth = AuthorityFields /\ IsTransaction(n) /\ n.working = auth
  BY <1>1, AtRest, NewIsTransaction, NewTransactionFacts
<1>3. /\ DOMAIN b = DOMAIN n /\ b.effects = n.effects
      /\ b.submitted = n.submitted /\ b.bootstrap = n.bootstrap /\ b.disarm = n.disarm
      /\ b.enabled = n.enabled /\ b.working = n.working /\ b.required = n.required
      /\ b.repeat_candidate = n.repeat_candidate
  <2> HIDE DEF n
  <2>. QED BY <1>2, Zenon DEF IsTransaction, TransactionFields
<1>4. IsTransaction(b)
  <2> HIDE DEF b, n
  <2>. QED BY <1>2, <1>3, Zenon DEF IsTransaction
<1>5. Len(b.effects) = 0 /\ ~b.submitted /\ ~b.bootstrap /\ ~b.disarm /\ b.enabled = enabled
  <2> HIDE DEF b
  <2>. QED BY <1>3, NewTransactionFacts
<1> HIDE DEF b
<1>6. b.working = auth
  BY <1>2, <1>3
<1>7. CASE AwaitExternalTurn(b)
  BY <1>1, <1>4, <1>5, <1>6, <1>7, ExternalStep, Zenon
<1>. QED BY <1>1, <1>7, RefusedStep, FatalStep

\* The repeat timer fires.
LEMMA RepeatStep ==
    ASSUME SessionInv, fire_key_repeat
    PROVE  SessionInv'
<1> DEFINE n == NewTransaction
           q == apply_binding_action(n, repeat_target)
           a == [q EXCEPT !.repeat_candidate = None]
<1>1. phase = "Live" /\ tx = Idle /\ repeat_target # None /\ RepeatAction(a)
  BY Zenon DEF fire_key_repeat, Admitted
<1>2. repeat_target \in BindingId /\ Keymap[repeat_target].action \in {"Focus", "Swap"}
  BY <1>1, KeymapAssumption DEF SessionInv, Repeats
<1>3. IsTransaction(n) /\ n.working = auth /\ DOMAIN auth = AuthorityFields
  BY <1>1, AtRest, NewIsTransaction, NewTransactionFacts
<1>4. ApplyFacts(n, q, repeat_target)
  BY <1>2, <1>3, ApplyBindingFacts, Zenon
<1> HIDE DEF n, q
<1>5. /\ IsTransaction(q) /\ q.original = n.original /\ q.submitted = n.submitted
      /\ q.enabled = n.enabled /\ q.bootstrap = n.bootstrap /\ q.disarm = n.disarm
      /\ q.working.modules = auth.modules /\ q.working.held = auth.held
      /\ q.working.area = auth.area /\ q.working.mode = auth.mode
      /\ Len(q.effects) = Len(n.effects) + 0
      /\ q.required \/ project_authority(q.working) = project_authority(auth)
  BY <1>2, <1>3, <1>4, ZenonT(30) DEF ApplyFacts, EffectActions
<1>6. /\ DOMAIN a = DOMAIN q /\ a.working = q.working /\ a.original = q.original
      /\ a.submitted = q.submitted /\ a.bootstrap = q.bootstrap /\ a.disarm = q.disarm
      /\ a.effects = q.effects /\ a.required = q.required /\ a.enabled = q.enabled
      /\ a.repeat_candidate = None
  BY <1>5, Zenon DEF IsTransaction, TransactionFields
<1> HIDE DEF a
<1>7. DOMAIN a.working = AuthorityFields
  BY <1>5, <1>6, Zenon DEF IsTransaction
<1>8. /\ Len(a.effects) = 0 /\ ~a.submitted /\ ~a.bootstrap /\ ~a.disarm /\ a.original = None
  BY <1>5, <1>6, NewTransactionFacts DEF n
<1>9. CASE ~a.required /\ ~a.binding_changed /\ a.closes = {}
  <2>1. /\ InstallNow(Fold(a.working)) /\ rt' = [rt EXCEPT !.dirty = FALSE]
        /\ UNCHANGED <<owed, minute, comp>>
    BY <1>1, <1>9, Zenon DEF RepeatAction
  <2>2. Fold(a.working) = a.working
    BY <1>1, AtRest DEF Fold
  <2>3. /\ auth' = a.working /\ state' = policy_visible_state(a.working)
        /\ UNCHANGED <<phase, last_projection, enabled, repeat_target, tx, active, owed, comp, minute>>
    BY <2>1, <2>2 DEF InstallNow
  <2>4. /\ DOMAIN rt' = DOMAIN rt /\ rt'.pending = rt.pending /\ rt'.armed = rt.armed /\ ~rt'.dirty
    BY <1>1, <2>1, AtRest, Zenon
  <2>5. project_authority(a.working) = project_authority(auth)
    BY <1>5, <1>6, <1>9, Zenon
  <2>6. minute' \in Nat /\ a.working.modules = minute'
    BY <1>1, <1>5, <1>6, <2>3, AtRest, Zenon
  <2>. QED BY <1>1, <1>5, <1>6, <1>7, <2>3, <2>4, <2>5, <2>6, InstallStep, ZenonT(30)
<1>10. CASE ~(~a.required /\ ~a.binding_changed /\ a.closes = {})
  <2> DEFINE b == [a EXCEPT !.projection = project_authority(a.working)]
  <2>1. AwaitTurn(b, "AwaitingInternalTurn") /\ UNCHANGED <<rt, owed, minute, comp>>
    BY <1>1, <1>10, Zenon DEF RepeatAction
  <2>2. /\ DOMAIN b = DOMAIN a /\ b.effects = a.effects /\ b.required = a.required
        /\ b.submitted = a.submitted /\ b.bootstrap = a.bootstrap /\ b.disarm = a.disarm
        /\ b.enabled = a.enabled /\ b.working = a.working /\ b.original = a.original
        /\ b.repeat_candidate = a.repeat_candidate
    BY <1>5, <1>6 DEF IsTransaction, TransactionFields
  <2> HIDE DEF b
  <2>3. IsTransaction(b)
    BY <1>5, <1>6, <2>2, ZenonT(30) DEF IsTransaction
  <2>4. rt.pending = b.original
    BY <1>1, <1>8, <2>2, AtRest, Zenon
  <2>5. "AwaitingInternalTurn" \in Awaiting
    BY Zenon DEF Awaiting
  <2>6. b.enabled = enabled
    BY <1>5, <1>6, <2>2, NewTransactionFacts DEF n
  <2>. QED BY <1>1, <1>5, <1>6, <1>8, <2>1, <2>2, <2>3, <2>4, <2>5, <2>6, StagedStep, Zenon DEF AwaitTurn
<1>. QED BY <1>9, <1>10

\* The compositor applied the answer.
LEMMA CompletedStep ==
    ASSUME SessionInv, OperationCompleted
    PROVE  SessionInv'
<1>1. /\ Serving /\ tx.at = "InFlight" /\ tx' = [tx EXCEPT !.at = "AwaitingDrain"]
      /\ UNCHANGED <<phase, failure, auth, last_projection, enabled, repeat_target, active,
                     last_ticket, state, rt, owed, minute, comp>>
  BY DEF OperationCompleted
<1>2. tx # Idle /\ tx' # Idle /\ tx'.at = "AwaitingDrain" /\ DOMAIN tx' = {"at", "ticket"}
  BY <1>1 DEF SessionInv, Shape, Idle
<1>3. Serving' /\ active # Nothing
  BY <1>1, <1>2 DEF SessionInv, Shape, Serving
<1>4. Shape'
  BY <1>1, <1>2, <1>3 DEF SessionInv, Shape, Startup
<1>5. Owes' /\ Repeats'
  BY <1>1, <1>3 DEF SessionInv, Owes, Repeats
<1>6. Shows'
  BY <1>1, <1>3 DEF SessionInv, Shows
<1>7. ToldAll'
  BY <1>1, <1>2, <1>3, Zenon DEF SessionInv, ToldAll, Told, Awaiting
<1>. QED BY <1>4, <1>5, <1>6, <1>7 DEF SessionInv

\* The repeat target and its timer at the end of a transaction.
LEMMA FinalRepeatFacts ==
    ASSUME NEW a, IsTransaction(a), NEW target, NEW armed \in BOOLEAN,
           a.enabled \subseteq BindingId, armed <=> target # None,
           target # None => target \in BindingId /\ Keymap[target].repeatable,
           a.disarm /\ a.repeat_candidate = None /\ ~a.quit_staged => target \notin a.working.held
    PROVE  LET repeat == FinalRepeat(a, target)
           IN  /\ apply_repeat(armed, repeat.timer) <=> repeat.target # None
               /\ repeat.target # None =>
                    /\ repeat.target \in BindingId /\ Keymap[repeat.target].repeatable
                    /\ repeat.target \in a.working.held \cap a.enabled
                    /\ ~a.quit_staged
<1> DEFINE MayRepeat(id) == id \in a.working.held /\ id \in a.enabled /\ Keymap[id].repeatable
           candidate == a.repeat_candidate
           chosen == IF candidate = None THEN target
                     ELSE IF MayRepeat(candidate) THEN candidate ELSE None
           keeps == ~a.quit_staged /\ chosen \in a.working.held \cap a.enabled
           arm == candidate # None /\ chosen # None
           dropped == target # None \/ candidate # None \/ a.quit_staged
           timer == IF keeps /\ arm THEN "Arm"
                    ELSE IF a.disarm \/ (~keeps /\ dropped) THEN "Disarm" ELSE "Preserve"
           last == IF keeps THEN chosen ELSE None
           repeat == FinalRepeat(a, target)
<1>1. repeat.timer = timer /\ repeat.target = last
  BY ZenonT(30) DEF FinalRepeat
<1>2. last # None <=> keeps
  BY KeymapAssumption, Zenon
<1>3. keeps => /\ chosen \in BindingId /\ Keymap[chosen].repeatable
               /\ chosen \in a.working.held \cap a.enabled /\ ~a.quit_staged
  BY KeymapAssumption
<1>4. keeps /\ candidate = None => armed /\ ~a.disarm
  BY KeymapAssumption
<1>5. ~keeps /\ ~dropped => ~armed
  OBVIOUS
<1>6. keeps /\ candidate # None => arm
  BY KeymapAssumption
<1>7. candidate = None => ~arm
  OBVIOUS
<1> HIDE DEF keeps, dropped, arm, chosen, candidate
<1>8. timer = "Arm" \/ (timer = "Preserve" /\ armed) <=> keeps
  BY <1>4, <1>5, <1>6, <1>7, Zenon
<1> HIDE DEF timer
<1>9. apply_repeat(armed, timer) <=> last # None
  BY <1>2, <1>8 DEF apply_repeat
<1> HIDE DEF repeat
<1>10. last # None => last = chosen
  OBVIOUS
<1> HIDE DEF last
<1>. QED BY <1>1, <1>2, <1>3, <1>9, <1>10 DEF repeat

\* The end of a transaction.
LEMMA FinalStep ==
    ASSUME SessionInv, ObservationsDrained
    PROVE  SessionInv'
<1> DEFINE a == active[1]
           entering_live == phase = "FinalizingReplay" /\ a.working.area # None /\ a.submitted
           live == IF entering_live THEN "Live" ELSE IF a.bootstrap THEN "FinalizingReplay" ELSE phase
           repeat == FinalRepeat(a, repeat_target)
           authority == IF live = "Live" /\ ~a.quit_staged THEN Fold(a.working) ELSE a.working
<1>1. Serving /\ tx.at = "AwaitingDrain" /\ finalize_active(a)
  BY Zenon DEF ObservationsDrained
<1>2. /\ active # Nothing /\ IsTransaction(a) /\ phase # "InitialReplay"
      /\ phase = "Live" => ~a.bootstrap
  BY <1>1, SMTT(30) DEF SessionInv, Shape, Idle
<1>3. rt.pending = a.original /\ owed = Len(a.effects) /\ Len(a.effects) \in Nat
  BY <1>1, <1>2 DEF SessionInv, Owes, IsTransaction, IsSeq
<1>4. /\ phase' = IF a.quit_staged THEN "QuitPending" ELSE live
      /\ auth' = authority
      /\ last_projection' = IF a.submitted THEN a.projection ELSE last_projection
      /\ enabled' = a.enabled
      /\ repeat_target' = repeat.target
      /\ state' = IF live = "Live" THEN policy_visible_state(authority) ELSE state
      /\ rt' = [pending |-> IF a.original # None THEN None ELSE rt.pending,
                armed |-> apply_repeat(rt.armed, repeat.timer),
                dirty |-> FALSE]
      /\ owed' = owed - Len(a.effects)
      /\ active' = Nothing /\ tx' = Idle /\ UNCHANGED <<minute, comp>>
  <2>1. ~(a.original # None /\ a.original # rt.pending)
    BY <1>3, Zenon
  <2>. QED BY <1>1, <2>1, Zenon DEF finalize_active
<1>5. /\ Told(a.working, a.enabled) /\ comp.shown = project_authority(a.working)
      /\ ~a.submitted => comp.shown = last_projection
      /\ a.projection = comp.shown
  BY <1>1, <1>2, Zenon DEF SessionInv, ToldAll, Awaiting
<1>6. a.enabled \subseteq BindingId
  BY <1>5, DesiredAreBindings, Zenon DEF Told
<1>7. /\ rt'.armed <=> repeat_target' # None
      /\ repeat_target' # None =>
           /\ repeat_target' \in BindingId /\ Keymap[repeat_target'].repeatable
           /\ repeat_target' \in a.working.held \cap a.enabled
           /\ ~a.quit_staged
  <2> DEFINE armed == repeat_target # None
  <2>1. /\ armed \in BOOLEAN
        /\ armed <=> repeat_target # None
        /\ repeat_target # None => repeat_target \in BindingId /\ Keymap[repeat_target].repeatable
        /\ a.disarm /\ a.repeat_candidate = None /\ ~a.quit_staged
             => repeat_target \notin a.working.held
    BY <1>2 DEF SessionInv, Repeats
  <2>2. apply_repeat(rt.armed, repeat.timer) <=> apply_repeat(armed, repeat.timer)
    <3>1. rt.armed <=> armed
      BY DEF SessionInv, Repeats
    <3> HIDE DEF armed, repeat
    <3>. QED BY <3>1, ZenonT(30) DEF apply_repeat
  <2>3. /\ apply_repeat(armed, repeat.timer) <=> repeat.target # None
        /\ repeat.target # None =>
             /\ repeat.target \in BindingId /\ Keymap[repeat.target].repeatable
             /\ repeat.target \in a.working.held \cap a.enabled
             /\ ~a.quit_staged
    <3> HIDE DEF armed, a
    <3>. QED BY <1>2, <1>6, <2>1, FinalRepeatFacts, Zenon
  <2>4. rt'.armed = apply_repeat(rt.armed, repeat.timer) /\ repeat_target' = repeat.target
    BY <1>4, Zenon
  <2> HIDE DEF armed, repeat, a
  <2>. QED BY <2>2, <2>3, <2>4, Zenon
<1>8. live \in {"Live", "FinalizingReplay"}
  BY <1>1, <1>2, Zenon DEF Serving, Startup
<1>9. live = "Live" => a.working.area # None
  BY <1>5, Zenon DEF Told
<1>10. rt.dirty => live = "Live"
  BY <1>1, <1>2, Zenon DEF SessionInv, Shows
<1>11. ~rt.dirty => minute = a.working.modules
  BY <1>1, <1>2 DEF SessionInv, Shows
<1> HIDE DEF live, repeat
<1>12. /\ DOMAIN authority = AuthorityFields
       /\ authority.ledger = a.working.ledger /\ authority.area = a.working.area
       /\ authority.exclusive = a.working.exclusive /\ authority.mode = a.working.mode
       /\ authority.held = a.working.held
       /\ ~a.quit_staged => authority.modules = minute
  <2>1. DOMAIN a.working = AuthorityFields
    BY <1>2 DEF IsTransaction
  <2> HIDE DEF a
  <2>. QED BY <1>10, <1>11, <2>1 DEF Fold, AuthorityFields
<1> HIDE DEF authority
<1>13. project_authority(authority) = project_authority(a.working)
  BY <1>12, SameProjection, ZenonT(30)
<1>14. Desired(authority) = Desired(a.working)
  BY <1>12, Zenon DEF Desired
<1>15. Serving' <=> ~a.quit_staged
  BY <1>4, <1>8, Zenon DEF Serving, Startup
<1> HIDE DEF a
<1>16. Shape'
  <2>1. minute \in Nat /\ IsCompositor(comp)
    BY Zenon DEF SessionInv, Shape
  <2>2. /\ phase' \in {"QuitPending", "Live", "FinalizingReplay"}
        /\ active' = Nothing /\ tx' = Idle /\ enabled' \subseteq BindingId
        /\ DOMAIN auth' = AuthorityFields /\ minute' = minute /\ comp' = comp
    BY <1>4, <1>6, <1>8, <1>12, Zenon
  <2>3. DOMAIN rt' = {"pending", "armed", "dirty"}
    BY <1>4, Zenon
  <2>4. DOMAIN Idle = {"at", "ticket"}
    BY DEF Idle
  <2>. QED BY <2>1, <2>2, <2>3, <2>4 DEF Shape, Startup
<1>17. Owes'
  <2>1. owed - Len(a.effects) = 0
    BY <1>3
  <2>. QED BY <1>3, <1>4, <1>15, <2>1, Zenon DEF Owes
<1>18. Repeats'
  BY <1>4, <1>7, <1>12, <1>15, Zenon DEF Repeats
<1>19. Shows'
  BY <1>4, <1>12, <1>15 DEF Shows
<1>20. ToldAll'
  <2>1. ASSUME Serving' PROVE Told(auth, enabled)'
    BY <1>4, <1>5, <1>9, <1>12, <1>14, <1>15, <2>1, ZenonT(30) DEF Told
  <2>2. comp'.shown = project_authority(auth') /\ comp'.shown = last_projection'
    BY <1>4, <1>5, <1>13, Zenon
  <2>. QED BY <1>4, <2>1, <2>2, ZenonT(30) DEF ToldAll
<1>. QED BY <1>16, <1>17, <1>18, <1>19, <1>20 DEF SessionInv

-----------------------------------------------------------------------------
(* The turn as a step.                                                     *)

\* What a history leaves alone of the compositor.
HistoryFacts(c, replay) ==
    /\ IsCompositor(c) /\ c.enabled = comp.enabled /\ c.shown = comp.shown
    /\ replay => c.eat = comp.eat

\* By induction along the trace, what HistoryFacts says holds at its end.
LEMMA HistoryKeeps ==
    ASSUME NEW h, HistoryOK(h), IsCompositor(comp)
    PROVE  HistoryFacts(h.comp, Replayed(h))
<1> DEFINE n == Len(h.events)
<1>1. PICK c : IsTrace(c, h)
  BY DEF HistoryOK
<1>2. n \in Nat /\ DOMAIN h.events = 1..n
  <2>1. IsSeq(h.events)
    BY ZenonT(30) DEF HistoryOK
  <2>. QED BY <2>1 DEF IsSeq
<1> DEFINE T == {i \in 0..n : ~HistoryFacts(c[i], Replayed(h))}
<1>3. T \subseteq Nat /\ n \in 0..n /\ c[n] = h.comp
  BY <1>1, <1>2, SMTT(30) DEF IsTrace
<1>4. SUFFICES ASSUME T # {} PROVE FALSE
  BY <1>3
<1>5. PICK m \in T : \A i \in T : ~(<<i, m>> \in OpToRel(<, Nat))
  BY <1>3, <1>4, NatLessThanWellFounded, WFMin, Zenon
<1>6. \A i \in T : ~(i < m)
  BY <1>3, <1>5, Zenon DEF OpToRel
<1>7. m # 0
  <2>1. c[0] = comp
    BY <1>1 DEF IsTrace
  <2>. QED BY <2>1, Zenon DEF HistoryFacts
<1>8. m \in 1..n /\ m - 1 \in 0..n /\ m - 1 < m
  BY <1>2, <1>7
<1>9. HistoryFacts(c[m - 1], Replayed(h))
  BY <1>6, <1>8, Zenon
<1>10. Observes(c[m - 1], h.events[m], c[m])
  BY <1>1, <1>8, ZenonT(30) DEF IsTrace
<1>11. EventFacts(c[m - 1], h.events[m], c[m])
  BY <1>9, <1>10, ObservationFacts, Zenon DEF HistoryFacts
<1>12. Replayed(h) => h.events[m].kind \in {"WindowOpened", "ExclusiveFocusChanged"}
  BY <1>2, <1>8 DEF Replayed
<1>13. HistoryFacts(c[m], Replayed(h))
  <2> DEFINE e == h.events[m]
             replay == Replayed(h)
             x == c[m - 1]
             y == c[m]
  <2>1. HistoryFacts(x, replay) /\ EventFacts(x, e, y)
        /\ (replay => e.kind \in {"WindowOpened", "ExclusiveFocusChanged"})
    BY <1>9, <1>11, <1>12, Zenon
  <2> HIDE DEF e, replay, x, y
  <2>2. HistoryFacts(y, replay)
    BY <2>1 DEF HistoryFacts, EventFacts
  <2>. QED BY <2>2, Zenon DEF replay, y
<1>. QED BY <1>13

\* The transaction a turn begins with.
TurnBase == IF active = Nothing THEN NewTransaction ELSE active[1]
BaseOK(a) ==
    /\ IsTransaction(a) /\ Told(a.working, a.enabled)
    /\ rt.pending = a.original /\ owed = Len(a.effects)
    /\ a.disarm /\ a.repeat_candidate = None /\ ~a.quit_staged => repeat_target \notin a.working.held
    /\ ~rt.dirty => minute = a.working.modules
    /\ ~a.submitted => comp.shown = last_projection
    /\ comp.shown = project_authority(a.working) \/ (tx.at \in Awaiting /\ a.required)
    /\ phase = "Live" => ~a.bootstrap
    /\ phase = "InitialReplay" => a = NewTransaction

\* Whichever transaction a turn starts from, the invariant says enough about it.
LEMMA TurnBaseOK ==
    ASSUME SessionInv, Serving
    PROVE  BaseOK(TurnBase)
<1>1. CASE active = Nothing
  <2>1. DOMAIN auth = AuthorityFields
    BY DEF SessionInv, Shape
  <2>2. IsTransaction(NewTransaction)
    BY <2>1, NewIsTransaction, Zenon
  <2>3. /\ Told(auth, enabled) /\ rt.pending = None /\ owed = 0 /\ ~rt.dirty /\ minute = auth.modules
        /\ comp.shown = project_authority(auth) /\ comp.shown = last_projection
    BY <1>1 DEF SessionInv, ToldAll, Owes, Shows
  <2>4. Len(<<>>) = 0
    OBVIOUS
  <2> DEFINE a == NewTransaction
  <2>5. BaseOK(a)
    <3>1. /\ a.working = auth /\ a.enabled = enabled /\ a.original = None /\ a.effects = <<>>
          /\ a.disarm = FALSE /\ a.bootstrap = FALSE
      BY NewTransactionFacts
    <3> HIDE DEF a
    <3>2. a = NewTransaction
      BY DEF a
    <3>. QED BY <2>2, <2>3, <2>4, <3>1, <3>2, ZenonT(30) DEF BaseOK
  <2>. QED BY <1>1, <2>5, Zenon DEF TurnBase
<1>2. CASE active # Nothing
  <2> DEFINE a == active[1]
  <2>1. /\ IsTransaction(a) /\ phase # "InitialReplay"
        /\ phase = "Live" => ~a.bootstrap
    BY <1>2 DEF SessionInv, Shape
  <2>2. BaseOK(a)
    BY <1>2, <2>1, Zenon DEF SessionInv, ToldAll, Owes, Shows, Repeats, BaseOK
  <2>. QED BY <1>2, <2>2, Zenon DEF TurnBase
<1>. QED BY <1>1, <1>2

\* What the events of a turn made of the transaction a and of the compositor.
ReducedOK(a, b, c, asked) ==
    /\ IsTransaction(b) /\ IsCompositor(c)
    /\ b.original = a.original /\ b.submitted = a.submitted
    /\ b.working.modules = a.working.modules
    /\ c.shown = comp.shown
    /\ phase = "Live" => b.working.area # None /\ ~b.bootstrap
    /\ phase = "InitialReplay" => b.bootstrap /\ b.working.area = None
    /\ b.disarm /\ b.repeat_candidate = None /\ ~b.quit_staged => repeat_target \notin b.working.held
    /\ (c.eat \/ b.edge = "Ensure") <=> b.working.mode # "Nav"
    /\ b.working.area = None => c.shown = <<>>
    /\ b.required \/ c.shown = project_authority(b.working)
    /\ Len(b.effects) = Len(a.effects) + asked

\* A turn of a running session.
LEMMA LiveTurnReduced ==
    ASSUME SessionInv, Serving, phase # "InitialReplay", NEW h, HistoryOK(h), NEW a, BaseOK(a)
    PROVE  ReducedOK(a, reduce_policy_events(BeginTurn(a, tx.at \in Awaiting), h.events, repeat_target),
                     h.comp, Cardinality(Counted(h.events, a.quit_staged, Len(h.events))))
<1> DEFINE staged == tx.at \in Awaiting
           b == BeginTurn(a, staged)
           r == reduce_policy_events(b, h.events, repeat_target)
           n == Len(h.events)
<1>1. IsTransaction(a) /\ IsCompositor(comp) /\ staged \in BOOLEAN
  <2>1. IsTransaction(a)
    BY Zenon DEF BaseOK
  <2>2. IsCompositor(comp)
    BY Zenon DEF SessionInv, Shape
  <2>. QED BY <2>1, <2>2
<1>2. /\ IsTransaction(b) /\ b.working = a.working /\ b.edge = "Preserve"
      /\ b.original = a.original /\ b.effects = a.effects /\ b.submitted = a.submitted
      /\ b.bootstrap = a.bootstrap /\ b.quit_staged = a.quit_staged
      /\ b.repeat_candidate = a.repeat_candidate /\ b.disarm = a.disarm
      /\ b.required = (a.required /\ staged)
  BY <1>1, BegunFacts, ZenonT(30)
<1> HIDE DEF b
<1>3. repeat_target \in BindingId => Keymap[repeat_target].repeatable
  BY KeymapAssumption DEF SessionInv, Repeats
<1>4. b.required \/ comp.shown = project_authority(b.working)
  BY <1>2, ZenonT(30) DEF BaseOK
<1>5. Begun(b)
  BY <1>1, <1>2, <1>3, <1>4 DEF Begun, BaseOK, Told
<1>6. TurnInv(b, r, h.comp, h.events, n)
  BY <1>5, TurnReduced, Zenon
<1> HIDE DEF r, n
<1>7. /\ IsTransaction(r) /\ IsCompositor(h.comp)
      /\ r.original = a.original /\ r.submitted = a.submitted
      /\ r.working.modules = a.working.modules /\ h.comp.shown = comp.shown
      /\ r.disarm /\ r.repeat_candidate = None /\ ~r.quit_staged => repeat_target \notin r.working.held
      /\ (h.comp.eat \/ r.edge = "Ensure") <=> r.working.mode # "Nav"
      /\ r.working.area = None => h.comp.shown = <<>>
      /\ r.required \/ h.comp.shown = project_authority(r.working)
      /\ Len(r.effects) = Len(a.effects) + Cardinality(Counted(h.events, a.quit_staged, n))
  BY <1>2, <1>6, Zenon DEF TurnInv
<1>8. phase = "Live" => r.working.area # None /\ ~r.bootstrap
  BY <1>2, <1>6, Zenon DEF TurnInv, BaseOK, Told
<1>9. ReducedOK(a, r, h.comp, Cardinality(Counted(h.events, a.quit_staged, n)))
  BY <1>7, <1>8, Zenon DEF ReducedOK
<1>. QED BY <1>9, Zenon DEF r, b, n

\* The first turn.
LEMMA ReplayTurnReduced ==
    ASSUME SessionInv, phase = "InitialReplay", NEW h, HistoryOK(h), Replayed(h), NEW a, BaseOK(a),
           NEW events, IsSeq(events)
    PROVE  ReducedOK(a, reduce_initial_replay(BeginTurn(a, tx.at \in Awaiting), events), h.comp, 0)
<1> DEFINE staged == tx.at \in Awaiting
           b == BeginTurn(a, staged)
           r == reduce_initial_replay(b, events)
<1>1. IsTransaction(a) /\ IsCompositor(comp) /\ staged \in BOOLEAN
  <2>1. IsTransaction(a)
    BY Zenon DEF BaseOK
  <2>2. IsCompositor(comp)
    BY Zenon DEF SessionInv, Shape
  <2>. QED BY <2>1, <2>2
<1>2. /\ IsTransaction(b) /\ b.working = a.working /\ b.edge = "Preserve"
      /\ b.original = a.original /\ b.effects = a.effects /\ b.submitted = a.submitted
      /\ b.bootstrap = a.bootstrap /\ b.quit_staged = a.quit_staged
      /\ b.repeat_candidate = a.repeat_candidate /\ b.disarm = a.disarm
      /\ b.required = (a.required /\ staged)
  BY <1>1, BegunFacts, Zenon
<1> HIDE DEF b
<1>3. /\ IsTransaction(r) /\ r.bootstrap = TRUE /\ r.working.area = None
      /\ r.working.mode = b.working.mode /\ r.working.modules = b.working.modules
      /\ r.working.held = b.working.held
      /\ r.original = b.original /\ r.effects = b.effects /\ r.submitted = b.submitted
      /\ r.edge = b.edge /\ r.quit_staged = b.quit_staged
      /\ r.repeat_candidate = b.repeat_candidate /\ r.disarm = b.disarm
      /\ r.required = b.required
  BY <1>2, ReplayFacts, Zenon
<1> HIDE DEF r
<1>4. IsCompositor(h.comp) /\ h.comp.shown = comp.shown /\ h.comp.eat = comp.eat
  BY <1>1, HistoryKeeps, Zenon DEF HistoryFacts
<1>5. a.working.area = None
  BY NewTransactionFacts DEF BaseOK, SessionInv, Shape
<1>6. comp.shown = <<>> /\ (comp.eat <=> a.working.mode # "Nav")
  BY <1>5, ZenonT(30) DEF BaseOK, Told
<1>7. project_authority(r.working) = <<>>
  BY <1>3, NoProjection, Zenon
<1>8. Len(r.effects) = Len(a.effects) + 0
  BY <1>1, <1>2, <1>3 DEF IsTransaction, IsSeq
<1>9. r.disarm /\ r.repeat_candidate = None /\ ~r.quit_staged => repeat_target \notin r.working.held
  <2>1. a.disarm /\ a.repeat_candidate = None /\ ~a.quit_staged => repeat_target \notin a.working.held
    BY Zenon DEF BaseOK
  <2>. QED BY <1>2, <1>3, <2>1, Zenon
<1>10. ReducedOK(a, r, h.comp, 0)
  BY <1>2, <1>3, <1>4, <1>6, <1>7, <1>8, <1>9 DEF ReducedOK
<1>. QED BY <1>10, Zenon DEF r, b

\* The answer of a turn.
LEMMA AnswerStep ==
    ASSUME SessionInv, Serving, NEW a, BaseOK(a), NEW h, NEW b, NEW ticket, NEW quit,
           ReducedOK(a, b, h.comp, EffectPresses(h.events, quit)),
           Respond(h, ticket, derive_response(phase, b), quit)
    PROVE  SessionInv'
<1> DEFINE r == derive_response(phase, b)
           s == Submitted(r)
           assigned == [x \in s.working.bound |-> s.working.ids[x]]
           w == b.working
<1>1. CASE ~Accepts(h.comp, assigned, r)
  <2>1. Fatal("contract")
    BY <1>1, Zenon DEF Respond
  <2>. QED BY <2>1, FatalStep
<1>2. CASE Accepts(h.comp, assigned, r)
  <2>1. /\ comp' = Applied(h.comp, assigned, r)
        /\ owed' = owed + EffectPresses(h.events, quit)
        /\ phase' = IF s.bootstrap THEN "FinalizingReplay" ELSE phase
        /\ active' = Some(s)
        /\ tx' = [at |-> "InFlight", ticket |-> ticket]
        /\ UNCHANGED <<failure, auth, last_projection, enabled, repeat_target, state, rt, minute>>
    BY <1>2, Zenon DEF Respond
  <2>2. /\ IsTransaction(s) /\ s.working = w
        /\ s.projection = project_authority(w)
        /\ s.enabled = desired_binding_state(phase, w) /\ s.enabled = r.enabled
        /\ s.original = b.original /\ s.effects = b.effects /\ s.bootstrap = b.bootstrap
        /\ s.quit_staged = b.quit_staged /\ s.repeat_candidate = b.repeat_candidate
        /\ s.disarm = b.disarm /\ s.required = b.required
        /\ r.edge = b.edge
        /\ r.projection = IF b.required /\ w.area # None
                          THEN Some(project_authority(w)) ELSE Nothing
        /\ s.submitted = (b.submitted \/ (b.required /\ w.area # None))
    BY SubmittedFacts, Zenon DEF ReducedOK
  <2> HIDE DEF s, r, assigned
  <2>3. /\ DOMAIN comp' = DOMAIN h.comp /\ comp'.enabled = r.enabled /\ comp'.down = h.comp.down
        /\ comp'.eat = (h.comp.eat \/ r.edge = "Ensure")
        /\ comp'.shown = IF r.projection = Nothing THEN h.comp.shown ELSE r.projection[1]
    BY <2>1 DEF Applied, ReducedOK, IsCompositor, CompositorFields
  <2>4. comp'.shown = project_authority(w)
    <3>1. CASE b.required /\ w.area # None
      BY <2>2, <2>3, <3>1, NothingIsNotSome, ZenonT(30)
    <3>2. CASE w.area = None
      BY <2>2, <2>3, <3>2, NoProjection, ZenonT(30) DEF ReducedOK
    <3>3. CASE ~b.required
      BY <2>2, <2>3, <3>3, ZenonT(30) DEF ReducedOK
    <3>. QED BY <3>1, <3>2, <3>3
  <2>5. s.enabled = Desired(w)
    BY <2>2, ZenonT(30) DEF desired_binding_state, Desired, ReducedOK
  <2>6. /\ Serving' /\ phase' # "InitialReplay"
        /\ phase' = "Live" => w.area # None /\ ~s.bootstrap
    BY <2>1, <2>2, ZenonT(30) DEF Serving, Startup, ReducedOK
  <2>7. active' # Nothing /\ active'[1] = s
    BY <2>1, NothingIsNotSome, Zenon
  <2>8. tx' # Idle /\ tx'.at = "InFlight" /\ tx'.at \notin Awaiting /\ DOMAIN tx' = {"at", "ticket"}
    BY <2>1 DEF Idle, Awaiting
  <2>9. IsCompositor(comp')
    BY <2>2, <2>3, <2>5, DesiredAreBindings, ZenonT(30) DEF ReducedOK, IsCompositor
  <2>10. Shape'
    BY <2>1, <2>2, <2>6, <2>7, <2>8, <2>9, ZenonT(30) DEF SessionInv, Shape, Startup
  <2>11. Owes'
    BY <2>1, <2>2, <2>6, <2>7, ZenonT(30) DEF Owes, BaseOK, ReducedOK
  <2>12. Repeats'
    BY <2>1, <2>2, <2>6, <2>7, ZenonT(30) DEF SessionInv, Repeats, ReducedOK
  <2>13. Shows'
    <3>1. rt.dirty => phase' = "Live"
      BY <2>1, <2>2, ZenonT(30) DEF SessionInv, Shows, ReducedOK
    <3>. QED BY <2>1, <2>2, <2>6, <2>7, <3>1, ZenonT(30) DEF Shows, BaseOK, ReducedOK
  <2>14. ToldAll'
    <3>1. comp'.eat <=> w.mode # "Nav"
      BY <2>2, <2>3, ZenonT(30) DEF ReducedOK
    <3>2. w.area = None => comp'.shown = <<>>
      BY <2>4, NoProjection, Zenon
    <3>3. PICK t : t = s
      OBVIOUS
    <3>4. t.working = w /\ t.enabled = Desired(w) /\ comp'.enabled = t.enabled
      BY <2>2, <2>3, <2>5, <3>3, ZenonT(30)
    <3>5. Told(t.working, t.enabled)'
      BY <2>6, <3>1, <3>2, <3>4, Zenon DEF Told
    <3>6. ~t.submitted => comp'.shown = last_projection'
      BY <2>1, <2>2, <2>3, <3>3, ZenonT(30) DEF BaseOK, ReducedOK
    <3>7. /\ active'[1] = t /\ comp'.shown = project_authority(t.working)
          /\ t.projection = comp'.shown
      BY <2>2, <2>4, <2>7, <3>3, Zenon
    <3>. QED BY <2>6, <2>7, <2>8, <3>5, <3>6, <3>7, ZenonT(30) DEF ToldAll
  <2>. QED BY <2>10, <2>11, <2>12, <2>13, <2>14 DEF SessionInv
<1>. QED BY <1>1, <1>2, Zenon

\* The effect keys of a turn, counted from its events.
LEMMA PressesCounted ==
    ASSUME NEW events, IsSeq(events), NEW quit
    PROVE  EffectPresses(events, quit) = Cardinality(Counted(events, quit, Len(events)))
<1>1. DOMAIN events = 1..Len(events)
  BY DEF IsSeq
<1> DEFINE S == {i \in DOMAIN events :
                  /\ events[i].kind = "BindingPressed" /\ Keymap[events[i].id].action \in EffectActions
                  /\ ~quit
                  /\ \A j \in 1..(i - 1) : ~(/\ events[j].kind = "BindingPressed"
                                             /\ Keymap[events[j].id].action = "Quit")}
<1>2. S = Counted(events, quit, Len(events))
  BY <1>1, Zenon DEF Counted, IsPress, QuitPressed
<1>3. EffectPresses(events, quit) = Cardinality(S)
  BY Zenon DEF EffectPresses
<1>. QED BY <1>2, <1>3, Zenon

\* No effect key is pressed in the replay.
LEMMA ReplayPresses ==
    ASSUME NEW h, HistoryOK(h), Replayed(h), NEW quit
    PROVE  LET events == Append(h.events, Event("InitialReplayComplete", None, None))
           IN  IsSeq(events) /\ EffectPresses(events, quit) = 0
<1> DEFINE e == Event("InitialReplayComplete", None, None)
           events == Append(h.events, e)
           n == Len(h.events)
<1>1. /\ IsSeq(events) /\ n \in Nat /\ DOMAIN h.events = 1..n /\ DOMAIN events = 1..(n + 1)
      /\ \A i \in 1..n : events[i] = h.events[i]
      /\ events[n + 1] = e
  BY Appended DEF HistoryOK
<1>2. e.kind = "InitialReplayComplete"
  BY DEF Event
<1> HIDE DEF e, events, n
<1>3. ASSUME NEW i \in DOMAIN events PROVE events[i].kind # "BindingPressed"
  <2>1. CASE i \in 1..n
    BY <1>1, <2>1 DEF Replayed
  <2>2. CASE i = n + 1
    BY <1>1, <1>2, <2>2
  <2>. QED BY <1>1, <2>1, <2>2, SMTT(30)
<1>4. EffectPresses(events, quit) = Cardinality({})
  BY <1>3, Zenon DEF EffectPresses
<1>5. EffectPresses(events, quit) = 0
  BY <1>4, FS_EmptySet
<1>. QED BY <1>1, <1>5, Zenon DEF events, e

\* handle_policy_turn.
LEMMA TurnStep ==
    ASSUME SessionInv, Serving, NEW h \in Histories, PolicyTurn(h)
    PROVE  SessionInv'
<1> DEFINE staged == tx.at \in Awaiting
           a == TurnBase
           b == BeginTurn(a, staged)
           ticket == IF staged THEN tx.ticket ELSE last_ticket + 1
           error == validate_policy_turn(phase, a.working, Len(a.effects), a.quit_staged, h.events)
<1>1. \/ Fatal(error)
      \/ Respond(h, ticket, AnswerTurn(phase, b, repeat_target, h.events), a.quit_staged)
  BY Zenon DEF PolicyTurn, TurnBase, Awaiting
<1>2. BaseOK(a)
  BY TurnBaseOK, Zenon
<1> HIDE DEF a, ticket, error
<1>3. CASE Fatal(error)
  BY <1>3, FatalStep, Zenon
<1>4. CASE /\ Respond(h, ticket, AnswerTurn(phase, b, repeat_target, h.events), a.quit_staged)
           /\ phase # "InitialReplay"
  <2>1. h \in Observed
    BY <1>4 DEF Histories
  <2>2. HistoryOK(h)
    BY <2>1, ObservedTraces
  <2> DEFINE r == reduce_policy_events(b, h.events, repeat_target)
  <2>3. AnswerTurn(phase, b, repeat_target, h.events) = derive_response(phase, r)
    BY <1>4, Zenon DEF AnswerTurn
  <2>4. ReducedOK(a, r, h.comp, Cardinality(Counted(h.events, a.quit_staged, Len(h.events))))
    BY <1>2, <1>4, <2>2, LiveTurnReduced, Zenon
  <2>5. EffectPresses(h.events, a.quit_staged) = Cardinality(Counted(h.events, a.quit_staged, Len(h.events)))
    BY <2>2, PressesCounted, Zenon DEF HistoryOK
  <2> HIDE DEF r, b
  <2>6. /\ Respond(h, ticket, derive_response(phase, r), a.quit_staged)
        /\ ReducedOK(a, r, h.comp, EffectPresses(h.events, a.quit_staged))
    BY <1>4, <2>3, <2>4, <2>5, Zenon
  <2>. QED BY <1>2, <2>6, AnswerStep, Zenon
<1>5. CASE /\ Respond(h, ticket, AnswerTurn(phase, b, repeat_target, h.events), a.quit_staged)
           /\ phase = "InitialReplay"
  <2>1. PICK k \in Observed : Replayed(k) /\ h = Barrier(k)
    BY <1>5, Zenon DEF Histories
  <2>2. HistoryOK(k)
    BY <2>1, ObservedTraces
  <2> DEFINE events == Append(k.events, Event("InitialReplayComplete", None, None))
  <2>3. IsSeq(events) /\ EffectPresses(events, a.quit_staged) = 0
    BY <2>1, <2>2, ReplayPresses, Zenon
  <2>4. h.events = events /\ h.comp = k.comp
    <3>1. DOMAIN k = {"events", "comp"}
      BY <2>2 DEF HistoryOK
    <3>. QED BY <2>1, <3>1 DEF Barrier
  <2> HIDE DEF events
  <2> DEFINE r == reduce_initial_replay(b, events)
  <2>5. AnswerTurn(phase, b, repeat_target, h.events) = derive_response(phase, r)
    BY <1>5, <2>4, Zenon DEF AnswerTurn
  <2>6. ReducedOK(a, r, k.comp, 0)
    BY <1>2, <1>5, <2>1, <2>2, <2>3, ReplayTurnReduced, ZenonT(30)
  <2> HIDE DEF r, b
  <2>7. /\ Respond(h, ticket, derive_response(phase, r), a.quit_staged)
        /\ ReducedOK(a, r, h.comp, EffectPresses(h.events, a.quit_staged))
    BY <1>5, <2>3, <2>4, <2>5, <2>6, ZenonT(30)
  <2>. QED BY <1>2, <2>7, AnswerStep, Zenon
<1>. QED BY <1>1, <1>3, <1>4, <1>5

\* Every step.
LEMMA NextInv ==
    ASSUME SessionInv, [Next]_vars
    PROVE  SessionInv'
<1>1. CASE \E r \in Requests : stage_ledger_update(r) \/ request_close_focused(r)
  BY <1>1, LedgerStep, CloseStep, Zenon
<1>2. CASE Serving /\ tx.at # "InFlight" /\ \E h \in Histories : PolicyTurn(h)
  BY <1>2, TurnStep, Zenon
<1>3. CASE OperationCompleted
  BY <1>3, CompletedStep
<1>4. CASE ObservationsDrained
  BY <1>4, FinalStep, Zenon
<1>5. CASE fire_key_repeat
  BY <1>5, RepeatStep
<1>6. CASE Tick
  BY <1>6, TickStep
<1>7. CASE begin_direct_quit \/ begin_shutdown \/ begin_exit_session \/ complete_expected_exit
  BY <1>7, QuitStep
<1>8. CASE BackendFails
  BY <1>8, FatalStep DEF BackendFails
<1>9. CASE UNCHANGED vars
  BY <1>9, SameStep DEF vars, session
<1>. QED BY <1>1, <1>2, <1>3, <1>4, <1>5, <1>6, <1>7, <1>8, <1>9, ZenonT(30) DEF Next

-----------------------------------------------------------------------------
(* The theorems.                                                           *)

\* The inductive invariant: the session, its private transaction, the owners of
\* the runtime and the compositor agree after every step.
THEOREM SessionInductive == Spec => []SessionInv
BY InitInv, NextInv, PTL DEF Spec

\* The repeat timer of the runtime runs exactly while the session has a target,
\* which at a clean boundary is held, enabled and repeatable (finalize_active,
\* fire_key_repeat).
THEOREM RepeatTimerIsOwned == Spec => []RepeatTimerOwned
<1>1. SessionInv => RepeatTimerOwned
  BY DEF SessionInv, Shape, Repeats, RepeatTimerOwned, RepeatAllowed, Clean, Serving
<1>. QED BY SessionInductive, <1>1, PTL

\* The requester and the effects the runtime owes are those of the transaction.
THEOREM TransactionOwesOnlyItsOwn == Spec => []TransactionOwesItsOwn
<1>1. SessionInv => TransactionOwesItsOwn
  BY Zenon DEF SessionInv, Owes, TransactionOwesItsOwn, Serving
<1>. QED BY SessionInductive, <1>1, PTL

\* At a clean boundary the compositor shows the committed ledger, arms the keys
\* of the committed mode and eats the next key outside Nav.
THEOREM CleanBoundaryIsShown == Spec => []CleanBoundaryShown
<1>1. SessionInv => CleanBoundaryShown
  BY AtRest, Zenon DEF CleanBoundaryShown, Clean, Desired
<1>. QED BY SessionInductive, <1>1, PTL

\* At a clean boundary the published state is that of the committed authority.
THEOREM PublishedStateIsCurrent == Spec => []PublishedIsCurrent
<1>1. SessionInv => PublishedIsCurrent
  <2>1. policy_visible_state(auth).modules = auth.modules
    BY DEF policy_visible_state
  <2>. QED BY <2>1, AtRest, Zenon DEF PublishedIsCurrent, Clean
<1>. QED BY SessionInductive, <1>1, PTL
=============================================================================
