----------------------------- MODULE BarProofs ------------------------------
(***************************************************************************)
(* Proofs about the daemon's endpoint with the bar that connects to it     *)
(* (Endpoint and Startup), and about what that bar shows (Display).  The   *)
(* two specifications share no state; their theorems stand side by side.   *)
(*                                                                         *)
(* Endpoint and Startup: for any set of daemons and inodes and any number  *)
(* of faults.  The inductive invariant of Endpoint is the lock discipline: *)
(* whoever is past the lock holds it, whoever has a socket is in the steps *)
(* that own the entry, and in those steps the entry is the socket's.  The  *)
(* start and the bar only ever take steps of Endpoint, so the discipline   *)
(* carries over, and with it a daemon that was reported ready can be       *)
(* reached.                                                                *)
(*                                                                         *)
(* Display: RedrawIsDue for any panels, sizes, keymaps, levels and number  *)
(* of events.  The inductive invariant adds to it the types, and that a    *)
(* surface is there only once a state was received.                        *)
(***************************************************************************)
EXTENDS Startup, Display, TLAPS

-----------------------------------------------------------------------------
(* Endpoint.                                                               *)

Unlocked == {"idle", "lock"}
Owning == {"verify", "bound", "active"}

\* What holds of one daemon: the lock, the socket, the entry and the identity it
\* has seen, by the step it is at.
Discipline(d) ==
    /\ pc[d] \notin Unlocked <=> lock = d
    /\ sock[d].ino # None <=> pc[d] \in Owning
    /\ sock[d].listening => pc[d] = "active"
    /\ pc[d] \in Owning => entry = sock[d].ino
    /\ pc[d] = "bind" => entry = None

LockDiscipline == DaemonTypeOK /\ \A d \in Daemons : Discipline(d)

\* Nobody has the lock or a socket at first.
LEMMA InitDiscipline == DaemonInit => LockDiscipline
<1> SUFFICES ASSUME DaemonInit PROVE LockDiscipline
  OBVIOUS
<1>1. DaemonTypeOK
  BY Zenon DEF DaemonInit, DaemonTypeOK, Closed, Pcs
<1>2. ASSUME NEW d \in Daemons PROVE Discipline(d)
  <2>1. pc[d] = "idle" /\ lock = None /\ entry = None
    BY DEF DaemonInit
  <2>2. sock[d] = Closed
    BY DEF DaemonInit
  <2>3. sock[d].ino = None /\ ~sock[d].listening
    BY <2>2 DEF Closed
  <2>. QED BY <2>1, <2>3, NoneIsNeither DEF Discipline, Unlocked, Owning
<1>. QED BY <1>1, <1>2 DEF LockDiscipline

\* Every step of every daemon keeps the discipline.
LEMMA StepDiscipline ==
    ASSUME LockDiscipline, [DaemonNext]_daemonVars
    PROVE  LockDiscipline'
<1> USE NoneIsNeither DEF LockDiscipline, DaemonTypeOK, Discipline, Closed, Pcs,
        Unlocked, Owning, Goto, Leave
<1>1. CASE UNCHANGED daemonVars
  BY <1>1 DEF daemonVars
<1>2. ASSUME NEW d \in Daemons, Prepare(d) PROVE LockDiscipline'
  BY <1>2 DEF Prepare
<1>3. ASSUME NEW d \in Daemons, Acquire(d) PROVE LockDiscipline'
  BY <1>3 DEF Acquire
<1>4. ASSUME NEW d \in Daemons, StatEntry(d) PROVE LockDiscipline'
  BY <1>4 DEF StatEntry
<1>5. ASSUME NEW d \in Daemons, Probe(d) PROVE LockDiscipline'
  BY <1>5 DEF Probe
<1>6. ASSUME NEW d \in Daemons, Recheck(d) PROVE LockDiscipline'
  BY <1>6 DEF Recheck
<1>7. ASSUME NEW d \in Daemons, UnlinkStale(d) PROVE LockDiscipline'
  BY <1>7 DEF UnlinkStale
<1>8. ASSUME NEW d \in Daemons, Bind(d) PROVE LockDiscipline'
  <2>1. CASE entry # None
    BY <1>8, <2>1 DEF Bind
  <2>2. CASE entry = None
    <3>1. PICK i \in Inodes : /\ entry' = i
                              /\ sock' = [sock EXCEPT ![d] = [ino |-> i, listening |-> FALSE]]
      BY <1>8, <2>2 DEF Bind
    <3>2. /\ pc[d] = "bind" /\ pc' = [pc EXCEPT ![d] = "verify"]
          /\ UNCHANGED <<realm, lock, seen>>
      BY <1>8, <2>2 DEF Bind
    <3>3. DaemonTypeOK'
      BY <3>1, <3>2
    <3>4. Discipline(d)'
      BY <3>1, <3>2
    <3>5. ASSUME NEW e \in Daemons, e # d PROVE Discipline(e)'
      BY <3>1, <3>2, <3>5
    <3>. QED BY <3>3, <3>4, <3>5
  <2>. QED BY <2>1, <2>2
<1>9. ASSUME NEW d \in Daemons, Verify(d) PROVE LockDiscipline'
  BY <1>9 DEF Verify
<1>10. ASSUME NEW d \in Daemons, Activate(d) PROVE LockDiscipline'
  BY <1>10, ZenonT(30) DEF Activate
<1>11. ASSUME NEW d \in Daemons, CloseSocket(d) PROVE LockDiscipline'
  BY <1>11 DEF CloseSocket
<1>12. ASSUME NEW d \in Daemons, DropStat(d) PROVE LockDiscipline'
  BY <1>12 DEF DropStat
<1>13. ASSUME NEW d \in Daemons, DropUnlink(d) PROVE LockDiscipline'
  BY <1>13 DEF DropUnlink
<1>14. ASSUME NEW d \in Daemons, Release(d) PROVE LockDiscipline'
  BY <1>14 DEF Release
<1>15. ASSUME NEW d \in Daemons, Crash(d) PROVE LockDiscipline'
  BY <1>15 DEF Crash
<1>. QED
  <2> HIDE DEF LockDiscipline
  <2>. QED BY <1>1, <1>2, <1>3, <1>4, <1>5, <1>6, <1>7, <1>8, <1>9, <1>10, <1>11, <1>12,
              <1>13, <1>14, <1>15 DEF DaemonNext, StartStep, EndStep

\* The discipline gives the run's invariant: two daemons with sockets would
\* both hold the lock.
LEMMA DisciplineSuffices == LockDiscipline => OneReachableListener
BY NoneIsNeither DEF LockDiscipline, DaemonTypeOK, Discipline, OneReachableListener, Owning,
   Unlocked

\* The lock discipline of EndpointLock and EndpointOwnership holds throughout.
THEOREM EndpointInductive == DaemonSpec => []LockDiscipline
<1>1. DaemonInit => LockDiscipline
  BY InitDiscipline
<1>2. LockDiscipline /\ [DaemonNext]_daemonVars => LockDiscipline'
  BY StepDiscipline
<1>. QED BY <1>1, <1>2, PTL DEF DaemonSpec

\* At most one daemon ever has the control socket, and while it listens the
\* entry is its own, whatever the others do and whoever is killed.
THEOREM EndpointExclusive == DaemonSpec => []OneReachableListener
BY EndpointInductive, DisciplineSuffices, PTL

-----------------------------------------------------------------------------
(* Startup.                                                                *)

Degraded == {None} \cup {read_degraded_handoff(h) : h \in Handoff}
Boots == [at : {"none", "started", "loaded", "live", "ready"}, degraded : Degraded]

\* What the start adds to the discipline of one daemon: it is reported ready
\* in its last step only, and there it listens.
Serving(d) ==
    /\ boot[d].at = "ready" => pc[d] = "active"
    /\ pc[d] = "active" => sock[d].listening

StartInv == LockDiscipline /\ boot \in [Daemons -> Boots] /\ \A d \in Daemons : Serving(d)

-----------------------------------------------------------------------------
\* A step of one daemon leaves the others' places and sockets alone.
LEMMA OthersUntouched ==
    ASSUME LockDiscipline, NEW d \in Daemons, NEW e \in Daemons, e # d,
           StartStep(d) \/ CloseSocket(d) \/ EndStep(d) \/ Crash(d)
    PROVE  pc'[e] = pc[e] /\ sock'[e] = sock[e]
<1> USE DEF LockDiscipline, DaemonTypeOK, Goto, Leave
<1>1. CASE StartStep(d)
  BY <1>1 DEF StartStep, Prepare, Acquire, StatEntry, Probe, Recheck, UnlinkStale, Bind, Verify,
              Activate
<1>2. CASE CloseSocket(d)
  BY <1>2 DEF CloseSocket
<1>3. CASE EndStep(d)
  BY <1>3 DEF EndStep, DropStat, DropUnlink, Release
<1>4. CASE Crash(d)
  BY <1>4 DEF Crash
<1>. QED BY <1>1, <1>2, <1>3, <1>4

\* A daemon comes to its last step by listening, and leaves that step only by
\* closing its socket or by dying.
LEMMA ActiveListens ==
    ASSUME LockDiscipline, NEW d \in Daemons
    PROVE  /\ StartStep(d) => /\ pc[d] # "active"
                              /\ pc'[d] = "active" => sock'[d].listening
           /\ CloseSocket(d) \/ EndStep(d) \/ Crash(d) => pc'[d] # "active"
           /\ EndStep(d) => pc[d] # "active"
<1> USE DEF LockDiscipline, DaemonTypeOK, Goto, Leave, Pcs
<1>1. StartStep(d) => /\ pc[d] # "active"
                      /\ pc'[d] = "active" => sock'[d].listening
  BY DEF StartStep, Prepare, Acquire, StatEntry, Probe, Recheck, UnlinkStale, Bind, Verify, Activate
<1>2. CloseSocket(d) \/ EndStep(d) \/ Crash(d) => pc'[d] # "active"
  BY DEF CloseSocket, EndStep, DropStat, DropUnlink, Release, Crash
<1>3. EndStep(d) => pc[d] # "active"
  BY DEF EndStep, DropStat, DropUnlink, Release
<1>. QED BY <1>1, <1>2, <1>3

\* The daemons of a start take the steps of Endpoint and no others.
LEMMA StepRefines == [Next]_vars => [DaemonNext]_daemonVars
<1> SUFFICES ASSUME [Next]_vars PROVE [DaemonNext]_daemonVars
  OBVIOUS
<1>1. CASE UNCHANGED vars
  BY <1>1 DEF vars, daemonVars
<1>2. ASSUME NEW d \in Daemons, DaemonStarts(d) \/ DaemonEnds(d) \/ DaemonQuits(d) \/ DaemonCrashes(d)
      PROVE  DaemonNext
  BY <1>2 DEF DaemonStarts, DaemonEnds, DaemonQuits, DaemonCrashes, DaemonNext
<1>3. ASSUME NEW d \in Daemons, BootStep(d) PROVE UNCHANGED daemonVars
  BY <1>3 DEF BootStep, LoadStartupSnapshot, RecoverUntilLive, notify_ready, Reaches
<1>4. ASSUME BarStep \/ ExchangeTimesOut \/ SubscriptionBreaks PROVE UNCHANGED daemonVars
  BY <1>4 DEF BarStep, ChooseWatch, ArmWatch, Connect, ConnectRefused, Exchange, ExchangeCut,
              WatchFires, RetryInterval, SubscriptionEnds, BarRestarts, ExchangeTimesOut, SubscriptionBreaks
<1>. QED BY <1>1, <1>2, <1>3, <1>4 DEF Next

\* A step that is no daemon's changes neither a start nor what it relies on.
LEMMA BarLeavesBoots == BarStep \/ ExchangeTimesOut \/ SubscriptionBreaks => UNCHANGED <<boot, daemonVars>>
BY DEF BarStep, ChooseWatch, ArmWatch, Connect, ConnectRefused, Exchange, ExchangeCut, WatchFires,
       RetryInterval, SubscriptionEnds, BarRestarts, ExchangeTimesOut, SubscriptionBreaks

-----------------------------------------------------------------------------
\* Before the start the invariant holds.
LEMMA InitServing == Init => StartInv
<1> SUFFICES ASSUME Init PROVE StartInv
  OBVIOUS
<1>1. LockDiscipline
  BY InitDiscipline DEF Init
<1>2. NotStarted \in Boots
  BY DEF NotStarted, Boots, Degraded
<1>3. boot = [d \in Daemons |-> NotStarted]
  BY DEF Init
<1>4. boot \in [Daemons -> Boots]
  BY <1>2, <1>3
<1>5. ASSUME NEW d \in Daemons PROVE Serving(d)
  BY <1>3 DEF Init, DaemonInit, Serving, NotStarted
<1>. QED BY <1>1, <1>4, <1>5 DEF StartInv

\* Every step of the start keeps a ready daemon in its last step.
LEMMA StepServing ==
    ASSUME StartInv, [Next]_vars
    PROVE  StartInv'
<1>1. LockDiscipline'
  BY StepRefines, StepDiscipline DEF StartInv
<1>2. NotStarted \in Boots /\ NotStarted.at # "ready"
  BY DEF NotStarted, Boots, Degraded
<1>3. CASE UNCHANGED <<boot, daemonVars>>
  BY <1>1, <1>3 DEF StartInv, Serving, daemonVars
<1>4. ASSUME NEW d \in Daemons,
             StartStep(d) \/ CloseSocket(d) \/ EndStep(d) \/ Crash(d),
             boot' \in [Daemons -> Boots],
             \A e \in Daemons : e # d => boot'[e] = boot[e],
             boot'[d].at = "ready" => pc'[d] = "active",
             pc'[d] = "active" => sock'[d].listening
      PROVE  StartInv'
  <2>1. ASSUME NEW e \in Daemons, e # d PROVE Serving(e)'
    <3>1. pc'[e] = pc[e] /\ sock'[e] = sock[e]
      BY <1>4, <2>1, OthersUntouched DEF StartInv
    <3>. QED BY <1>4, <2>1, <3>1 DEF StartInv, Serving
  <2>2. Serving(d)'
    BY <1>4 DEF Serving
  <2>. QED BY <1>1, <1>4, <2>1, <2>2 DEF StartInv
<1>5. ASSUME NEW d \in Daemons, DaemonStarts(d) PROVE StartInv'
  <2>1. StartStep(d)
    BY <1>5 DEF DaemonStarts
  <2>2. pc[d] # "active" /\ (pc'[d] = "active" => sock'[d].listening)
    BY <2>1, ActiveListens DEF StartInv
  <2>3. boot[d].at # "ready"
    BY <2>2 DEF StartInv, Serving
  <2>4. CASE pc[d] = "idle"
    <3>1. PICK codes \in Degraded : boot' = [boot EXCEPT ![d] = [at |-> "started", degraded |-> codes]]
      BY <1>5, <2>4 DEF DaemonStarts, run_production_daemon, Degraded
    <3>2. [at |-> "started", degraded |-> codes] \in Boots
      BY DEF Boots
    <3>. QED BY <1>4, <2>1, <2>2, <3>1, <3>2 DEF StartInv
  <2>5. CASE pc[d] # "idle"
    <3>1. boot' = [boot EXCEPT ![d] = IF pc'[d] = "idle" THEN NotStarted ELSE @]
      BY <1>5, <2>5 DEF DaemonStarts
    <3>. QED BY <1>2, <1>4, <2>1, <2>2, <2>3, <3>1 DEF StartInv
  <2>. QED BY <2>4, <2>5
<1>6. ASSUME NEW d \in Daemons, BootStep(d) PROVE StartInv'
  <2>1. PICK at \in {"loaded", "live", "ready"} :
            /\ boot' = [boot EXCEPT ![d].at = at] /\ UNCHANGED daemonVars
            /\ at = "ready" => pc[d] = "active"
    BY <1>6 DEF BootStep, LoadStartupSnapshot, RecoverUntilLive, notify_ready, Reaches
  <2>2. boot' \in [Daemons -> Boots] /\ boot'[d].at = at
    BY <2>1 DEF StartInv, Boots
  <2>3. ASSUME NEW e \in Daemons PROVE Serving(e)'
    BY <2>1, <2>2 DEF StartInv, Serving, daemonVars
  <2>. QED BY <1>1, <2>2, <2>3 DEF StartInv
<1>7. ASSUME NEW d \in Daemons, DaemonEnds(d) PROVE StartInv'
  <2>1. EndStep(d) /\ boot' = boot
    BY <1>7 DEF DaemonEnds
  <2>2. pc[d] # "active" /\ pc'[d] # "active"
    BY <2>1, ActiveListens DEF StartInv
  <2>. QED BY <1>4, <2>1, <2>2 DEF StartInv, Serving
<1>8. ASSUME NEW d \in Daemons, DaemonQuits(d) \/ DaemonCrashes(d) PROVE StartInv'
  <2>1. (CloseSocket(d) \/ Crash(d)) /\ boot' = [boot EXCEPT ![d] = NotStarted]
    BY <1>8 DEF DaemonQuits, DaemonCrashes, Cut
  <2>2. pc'[d] # "active"
    BY <2>1, ActiveListens DEF StartInv
  <2>. QED BY <1>2, <1>4, <2>1, <2>2 DEF StartInv
<1>9. ASSUME BarStep \/ ExchangeTimesOut \/ SubscriptionBreaks PROVE StartInv'
  BY <1>3, <1>9, BarLeavesBoots
<1>10. CASE UNCHANGED vars
  BY <1>3, <1>10 DEF vars
<1>. QED BY <1>5, <1>6, <1>7, <1>8, <1>9, <1>10 DEF Next

-----------------------------------------------------------------------------
\* run_production_daemon and the bar implement the endpoint's specification:
\* whatever was proved of it holds of every start.
THEOREM StartupRefinesEndpoint == Spec => DaemonSpec
<1>1. Init => DaemonInit
  BY DEF Init
<1>. QED BY <1>1, StepRefines, PTL DEF Spec, DaemonSpec

\* So one daemon at most has the control socket, and its entry, through any
\* number of starts, failures and ends.
THEOREM StartupExclusive == Spec => []OneReachableListener
BY StartupRefinesEndpoint, EndpointExclusive, PTL

\* notify_ready() is true: a daemon that has reported itself ready listens, and
\* the entry leads to it, until it ends.
THEOREM ReadyDaemonIsReachable == Spec => []ReadyIsReachable
<1>1. StartInv => ReadyIsReachable
  BY DEF StartInv, LockDiscipline, Discipline, Serving, ReadyIsReachable, Owning
<1>. QED BY <1>1, InitServing, StepServing, PTL DEF Spec

-----------------------------------------------------------------------------
(* Display.                                                                *)

PanelSets == SUBSET Panels
States == [modules : Snapshots, panels : PanelSets]
Frames == [shows : Snapshots \union Keymaps, size : Sizes]
Surfaces ==
    [mapped : {TRUE}, configured : BOOLEAN, size : Sizes, pending : BOOLEAN,
     frame : Frames \union {Nothing}, shown : Frames \union {Nothing}, callback : BOOLEAN,
     busy : [Sizes -> Nat]]
Places == {"proc", "battery", "store", "unlock", "notify", "wait", "stopped"}
Messages ==
    [kind : {"State"}, value : States] \union [kind : {"Keymap"}, value : Keymaps]
        \union [kind : {"Shutdown", "Failed"}]

Threads ==
    [pc : Places, prev : BOOLEAN, cpu : Levels \union {Unset}, battery : Levels \union {Unset},
     failed : BOOLEAN, source : BOOLEAN, todo : BOOLEAN]
Sessions ==
    [phase : {"Live", "QuitPending"}, modules : Snapshots, panels : PanelSets,
     tx : {Unset} \union [panels : PanelSets]]

SamplerTypeOK ==
    /\ thread \in Threads
    /\ supply \in [battery : Levels, uevent : BOOLEAN]
    /\ mail \in [slot : Snapshots \union {Unset}, locked : BOOLEAN, event : BOOLEAN]
    /\ clock \in [sampler : Snapshots \union {Unset}, dirty : BOOLEAN]
    /\ clock.dirty => clock.sampler \in Snapshots
    /\ session \in Sessions

\* A user interface App.
Apps == [state : States \union {Nothing}, keymap : Keymaps, exit : BOOLEAN, failure : BOOLEAN,
         surfaces : [Kinds -> Surfaces \union {Absent}]]

\* A configured surface shows the frame, or the frame waits; and no other one
\* waits, which is what a retry relies on.
ShowsOrWaits(s, frame) ==
    /\ s.configured => s.shown = frame \/ (s.pending /\ s.callback /\ s.frame = frame)
    /\ s.frame # Nothing => s.configured /\ s.frame = frame

Due(a, k) == Mapped(a, k) => a.state # Nothing /\ ShowsOrWaits(a.surfaces[k], Rendered(a, k))

AppOK(a) == a \in Apps /\ \A k \in Kinds : Due(a, k)

\* The sample in the mailbox is announced, or about to be.
Announced == mail.slot # Unset => mail.event \/ thread.pc \in {"unlock", "notify"}

DisplayInv ==
    /\ SamplerTypeOK /\ Announced
    /\ AppOK(ui) /\ chan \in Seq(Messages) /\ keymap \in Keymaps

-----------------------------------------------------------------------------
(* One surface, one user interface.                                        *)

\* A committed frame is shown, or it is the one that waits for its callback.
LEMMA CommitShowsOrWaits ==
    ASSUME NEW k, NEW s \in Surfaces, NEW frame \in Frames, s.configured
    PROVE  LET t == commit_frame(k, s, frame) IN
           t \in Surfaces /\ t.configured /\ t.size = s.size /\ ShowsOrWaits(t, frame)
<1>1. frame.size \in Sizes /\ s.busy \in [Sizes -> Nat]
  BY DEF Surfaces, Frames
<1>2. CASE Undamaged(k, s, frame)
  BY <1>2, Zenon DEF commit_frame, Undamaged, Surfaces, ShowsOrWaits
<1>3. CASE ~Undamaged(k, s, frame) /\ NoBuffer(s, frame)
  BY <1>3, Zenon DEF commit_frame, Surfaces, ShowsOrWaits
<1>4. CASE ~Undamaged(k, s, frame) /\ ~NoBuffer(s, frame)
  <2>1. [s.busy EXCEPT ![frame.size] = @ + 1] \in [Sizes -> Nat]
    BY <1>1
  <2>. QED BY <1>4, <2>1, Zenon DEF commit_frame, Surfaces, ShowsOrWaits
<1>. QED BY <1>2, <1>3, <1>4

\* What is rendered for a mapped surface is a frame.
LEMMA RenderedIsFrame ==
    ASSUME NEW a \in Apps, a.state # Nothing, NEW k \in Kinds, a.surfaces[k] \in Surfaces
    PROVE  Rendered(a, k) \in Frames
<1>1. a.state \in States /\ a.keymap \in Keymaps
  BY DEF Apps
<1>2. a.state.modules \in Snapshots /\ a.surfaces[k].size \in Sizes
  BY <1>1, Zenon DEF States, Surfaces
<1>. QED BY <1>1, <1>2 DEF Rendered, Frames

\* A mapped surface has all the fields of one.
LEMMA MappedIsSurface ==
    ASSUME NEW a \in Apps, NEW k \in Kinds
    PROVE  Mapped(a, k) <=> a.surfaces[k] \in Surfaces
<1>1. a.surfaces[k] \in Surfaces \union {Absent}
  BY DEF Apps
<1>2. Absent.mapped = FALSE
  BY DEF Absent
<1>3. \A s \in Surfaces : s.mapped = TRUE
  BY Zenon DEF Surfaces
<1>. QED BY <1>1, <1>2, <1>3 DEF Mapped

\* Replacing one surface by one that is due leaves a sound user interface.
LEMMA ReplaceSurface ==
    ASSUME NEW a \in Apps, a.state # Nothing, NEW k \in Kinds, NEW t \in Surfaces,
           \A j \in Kinds : j # k => Due(a, j),
           ShowsOrWaits(t, Rendered([a EXCEPT !.surfaces[k] = t], k))
    PROVE  AppOK([a EXCEPT !.surfaces[k] = t])
<1> DEFINE b == [a EXCEPT !.surfaces[k] = t]
<1>1. /\ b \in Apps /\ b.state = a.state /\ b.keymap = a.keymap /\ b.surfaces[k] = t
      /\ \A j \in Kinds : j # k => b.surfaces[j] = a.surfaces[j]
  BY DEF Apps
<1> HIDE DEF b
<1>2. ASSUME NEW j \in Kinds, j # k PROVE Due(b, j)
  BY <1>1, <1>2 DEF Due, Mapped, Rendered
<1>3. Due(b, k)
  BY <1>1 DEF Due, b
<1>. QED BY <1>1, <1>2, <1>3 DEF AppOK, b

\* draw_surface replaces its surface by one that shows what is rendered, or waits
\* to show it.
LEMMA DrawnSurface ==
    ASSUME NEW a \in Apps, NEW k \in Kinds, Mapped(a, k), a.state # Nothing,
           ~a.surfaces[k].configured => a.surfaces[k].frame = Nothing
    PROVE  \E t \in Surfaces :
              /\ draw_surface(a, k) = [a EXCEPT !.surfaces[k] = t]
              /\ t.size = a.surfaces[k].size
              /\ ShowsOrWaits(t, Rendered(a, k))
<1>1. a.surfaces[k] \in Surfaces
  BY MappedIsSurface
<1>2. CASE ~a.surfaces[k].configured
  <2> DEFINE t == [a.surfaces[k] EXCEPT !.pending = TRUE]
  <2>1. t \in Surfaces /\ t.size = a.surfaces[k].size /\ ShowsOrWaits(t, Rendered(a, k))
    BY <1>1, <1>2, Zenon DEF Surfaces, ShowsOrWaits
  <2>2. draw_surface(a, k) = [a EXCEPT !.surfaces[k] = t]
    BY <1>2 DEF draw_surface
  <2> HIDE DEF t
  <2>. QED BY <2>1, <2>2, Zenon
<1>3. CASE a.surfaces[k].configured
  <2> DEFINE t == commit_frame(k, a.surfaces[k], Rendered(a, k))
  <2>1. t \in Surfaces /\ t.size = a.surfaces[k].size /\ ShowsOrWaits(t, Rendered(a, k))
    BY <1>1, <1>3, RenderedIsFrame, CommitShowsOrWaits
  <2>2. draw_surface(a, k) = [a EXCEPT !.surfaces[k] = t]
    BY <1>3 DEF draw_surface
  <2> HIDE DEF t
  <2>. QED BY <2>1, <2>2, Zenon
<1>. QED BY <1>2, <1>3

\* So where the other surfaces are due, all are after a drawing.
LEMMA DrawMakesDue ==
    ASSUME NEW a \in Apps, NEW k \in Kinds, Mapped(a, k) => a.state # Nothing,
           \A j \in Kinds : j # k => Due(a, j),
           Mapped(a, k) /\ ~a.surfaces[k].configured => a.surfaces[k].frame = Nothing
    PROVE  AppOK(draw_surface(a, k))
<1>1. CASE ~Mapped(a, k)
  BY <1>1 DEF draw_surface, AppOK, Due
<1>2. CASE Mapped(a, k)
  <2>1. PICK t \in Surfaces : /\ draw_surface(a, k) = [a EXCEPT !.surfaces[k] = t]
                              /\ t.size = a.surfaces[k].size
                              /\ ShowsOrWaits(t, Rendered(a, k))
    BY <1>2, DrawnSurface
  <2>2. Rendered([a EXCEPT !.surfaces[k] = t], k) = Rendered(a, k)
    BY <2>1 DEF Rendered, Apps
  <2>. QED BY <1>2, <2>1, <2>2, ReplaceSurface
<1>. QED BY <1>1, <1>2

\* A frame callback retries the frame that waits, or draws anew.
LEMMA RetryKeepsDue ==
    ASSUME NEW a \in Apps, AppOK(a), NEW k \in Kinds, Mapped(a, k)
    PROVE  LET b == [a EXCEPT !.surfaces[k].callback = FALSE]
           IN AppOK(IF b.surfaces[k].pending THEN retry_surface(b, k) ELSE b)
<1> DEFINE s == [a.surfaces[k] EXCEPT !.callback = FALSE]
           b == [a EXCEPT !.surfaces[k] = s]
<1>1. a.surfaces[k] \in Surfaces /\ a.state # Nothing
  BY MappedIsSurface DEF AppOK, Due
<1>2. /\ s \in Surfaces /\ s.size = a.surfaces[k].size /\ s.pending = a.surfaces[k].pending
      /\ s.frame = a.surfaces[k].frame /\ s.shown = a.surfaces[k].shown
      /\ s.configured = a.surfaces[k].configured
  BY <1>1, Zenon DEF Surfaces
<1> HIDE DEF s
<1>3. /\ b \in Apps /\ b.state = a.state /\ b.keymap = a.keymap /\ b.surfaces[k] = s
      /\ \A j \in Kinds : j # k => b.surfaces[j] = a.surfaces[j]
  BY <1>2 DEF Apps
<1>4. [a EXCEPT !.surfaces[k].callback = FALSE] = b
  BY DEF s
<1> HIDE DEF b
<1>5. Rendered(b, k) = Rendered(a, k)
  BY <1>2, <1>3 DEF Rendered
<1>6. ASSUME NEW j \in Kinds, j # k PROVE Due(b, j)
  BY <1>3, <1>6 DEF AppOK, Due, Mapped, Rendered
<1>7. CASE ~s.pending
  <2>1. Due(b, k)
    BY <1>1, <1>2, <1>3, <1>5, <1>7, MappedIsSurface DEF AppOK, Due, ShowsOrWaits
  <2>. QED BY <1>3, <1>4, <1>6, <1>7, <2>1, Zenon DEF AppOK
<1>8. CASE s.pending /\ s.frame = Nothing
  <2>1. AppOK(draw_surface(b, k))
    BY <1>1, <1>3, <1>6, <1>8, DrawMakesDue
  <2>. QED BY <1>3, <1>4, <1>8, <2>1, Zenon DEF retry_surface
<1>9. CASE s.pending /\ s.frame # Nothing
  <2> DEFINE r == [s EXCEPT !.frame = Nothing]
             t == commit_frame(k, r, s.frame)
  <2>1. r \in Surfaces /\ r.size = s.size /\ r.configured = s.configured /\ s.frame \in Frames
    BY <1>2, <1>9, Zenon DEF Surfaces
  <2>2. s.configured /\ s.frame = Rendered(a, k)
    BY <1>2, <1>9 DEF AppOK, Due, ShowsOrWaits
  <2> HIDE DEF r
  <2>3. t \in Surfaces /\ t.size = s.size /\ ShowsOrWaits(t, s.frame)
    BY <2>1, <2>2, CommitShowsOrWaits, Zenon
  <2>4. retry_surface(b, k) = [b EXCEPT !.surfaces[k] = t]
    BY <1>3, <1>9 DEF retry_surface, r
  <2> HIDE DEF t
  <2>5. Rendered([b EXCEPT !.surfaces[k] = t], k) = Rendered(a, k)
    BY <1>2, <1>3, <2>3 DEF Rendered, Apps
  <2>6. AppOK([b EXCEPT !.surfaces[k] = t])
    BY <1>1, <1>3, <1>6, <2>2, <2>3, <2>5, ReplaceSurface
  <2>. QED BY <1>3, <1>4, <1>9, <2>4, <2>6, Zenon
<1>. QED BY <1>7, <1>8, <1>9

\* A surface that gets a size, by a configure or a scale, is drawn at it.
LEMMA ResizeKeepsDue ==
    ASSUME NEW a \in Apps, AppOK(a), NEW k \in Kinds, Mapped(a, k),
           NEW t \in Surfaces, t.frame = a.surfaces[k].frame,
           a.surfaces[k].configured => t.configured
    PROVE  AppOK(draw_surface([a EXCEPT !.surfaces[k] = t], k))
<1> DEFINE b == [a EXCEPT !.surfaces[k] = t]
<1>1. /\ b \in Apps /\ b.state = a.state /\ b.keymap = a.keymap /\ b.surfaces[k] = t
      /\ \A j \in Kinds : j # k => b.surfaces[j] = a.surfaces[j]
  BY DEF Apps
<1> HIDE DEF b
<1>2. ASSUME NEW j \in Kinds, j # k PROVE Due(b, j)
  BY <1>1, <1>2 DEF AppOK, Due, Mapped, Rendered
<1>3. a.state # Nothing /\ (~t.configured => t.frame = Nothing)
  BY DEF AppOK, Due, ShowsOrWaits
<1>4. AppOK(draw_surface(b, k))
  BY <1>1, <1>2, <1>3, DrawMakesDue
<1>. QED BY <1>4 DEF b

\* apply_state: surfaces that stay are still due, new ones have drawn nothing,
\* and the bar, whose contents changed, is drawn.
LEMMA ApplyStateKeepsDue ==
    ASSUME NEW a \in Apps, AppOK(a), NEW state \in States
    PROVE  AppOK(apply_state(a, state))
<1>1. CASE renders_same_as(a.state, state)
  BY <1>1 DEF apply_state
<1>2. CASE ~renders_same_as(a.state, state)
  <2> DEFINE b == [a EXCEPT !.state = state, !.surfaces = [k \in Kinds |-> Reconciled(a, state, k)]]
  <2>1. NewSurface \in Surfaces /\ NewSurface.frame = Nothing /\ ~NewSurface.configured
    <3>1. SmallestSize \in Sizes
      BY DisplayAssumption DEF SmallestSize
    <3>2. [z \in Sizes |-> 0] \in [Sizes -> Nat]
      OBVIOUS
    <3>. QED BY <3>1, <3>2 DEF NewSurface, Surfaces
  <2>2. ASSUME NEW k \in Kinds PROVE Reconciled(a, state, k) \in Surfaces \union {Absent}
    BY <2>1, MappedIsSurface DEF Reconciled
  <2>3. /\ b \in Apps /\ b.state = state /\ b.keymap = a.keymap
        /\ \A k \in Kinds : b.surfaces[k] = Reconciled(a, state, k)
    BY <2>2, Zenon DEF Apps
  <2> HIDE DEF b
  <2>4. state # Nothing
    BY DisplayAssumption DEF States, PanelSets
  <2>5. ASSUME NEW k \in Kinds, Mapped(b, k)
        PROVE  \/ b.surfaces[k] = NewSurface
               \/ Mapped(a, k) /\ b.surfaces[k] = a.surfaces[k]
    BY <2>3, <2>5 DEF Mapped, Reconciled, Absent
  <2>6. ASSUME NEW k \in Kinds, k # "Bar" PROVE Due(b, k)
    <3>1. Mapped(a, k) /\ b.surfaces[k] = a.surfaces[k] => Rendered(b, k) = Rendered(a, k)
      BY <2>3, <2>6 DEF Rendered
    <3>. QED BY <2>1, <2>4, <2>3, <2>5, <3>1 DEF AppOK, Due, ShowsOrWaits
  <2>7. "Bar" \in Kinds
    BY DEF Kinds
  <2>8. Mapped(b, "Bar") /\ ~b.surfaces["Bar"].configured => b.surfaces["Bar"].frame = Nothing
    BY <2>1, <2>5, <2>7 DEF AppOK, Due, ShowsOrWaits
  <2>9. AppOK(draw_surface(b, "Bar"))
    BY <2>3, <2>4, <2>6, <2>7, <2>8, DrawMakesDue
  <2>. QED BY <1>2, <2>9 DEF apply_state, b
<1>. QED BY <1>1, <1>2

\* The Keymap message: every panel is drawn with the new keymap, and the bar
\* shows none.
LEMMA ApplyKeymapKeepsDue ==
    ASSUME NEW a \in Apps, AppOK(a), NEW km \in Keymaps
    PROVE  AppOK(apply_keymap(a, km))
<1> DEFINE b == [a EXCEPT !.keymap = km]
           drawn == [k \in Kinds |-> IF k = "Bar" THEN b.surfaces[k] ELSE draw_surface(b, k).surfaces[k]]
           c == [b EXCEPT !.surfaces = drawn]
<1>1. b \in Apps /\ b.state = a.state /\ b.keymap = km /\ b.surfaces = a.surfaces
  BY SMTT(30) DEF Apps
<1> HIDE DEF b
<1>2. ASSUME NEW k \in Kinds
      PROVE  /\ drawn[k] \in Surfaces \union {Absent}
             /\ drawn[k].mapped => /\ a.state # Nothing
                                  /\ drawn[k].size = a.surfaces[k].size
                                  /\ ShowsOrWaits(drawn[k], Rendered(b, k))
  <2>1. CASE k = "Bar"
    <3>1. drawn[k] = a.surfaces[k] /\ Rendered(b, k) = Rendered(a, k)
      BY <1>1, <2>1 DEF Rendered
    <3>. QED BY <3>1 DEF AppOK, Apps, Due, Mapped
  <2>2. CASE k # "Bar" /\ ~Mapped(b, k)
    <3>1. drawn[k] = a.surfaces[k]
      BY <1>1, <2>2 DEF draw_surface
    <3>. QED BY <1>1, <2>2, <3>1 DEF Apps, Mapped
  <2>3. CASE k # "Bar" /\ Mapped(b, k)
    <3>1. a.state # Nothing /\ (~b.surfaces[k].configured => b.surfaces[k].frame = Nothing)
      BY <1>1, <2>3 DEF AppOK, Due, Mapped, ShowsOrWaits
    <3>2. PICK t \in Surfaces : /\ draw_surface(b, k) = [b EXCEPT !.surfaces[k] = t]
                                /\ t.size = b.surfaces[k].size
                                /\ ShowsOrWaits(t, Rendered(b, k))
      BY <1>1, <2>3, <3>1, DrawnSurface
    <3>3. draw_surface(b, k).surfaces[k] = t
      BY <1>1, <3>2 DEF Apps
    <3>4. drawn[k] = t
      BY <2>3, <3>3
    <3> HIDE DEF drawn
    <3>. QED BY <1>1, <3>1, <3>2, <3>4
  <2>. QED BY <2>1, <2>2, <2>3
<1>3. drawn \in [Kinds -> Surfaces \union {Absent}]
  BY <1>2
<1> HIDE DEF drawn
<1>4. c \in Apps /\ c.state = a.state /\ c.keymap = b.keymap /\ c.surfaces = drawn
  BY <1>1, <1>3 DEF Apps
<1> HIDE DEF c
<1>5. ASSUME NEW k \in Kinds PROVE Due(c, k)
  BY <1>1, <1>2, <1>4, Zenon DEF Due, Mapped, Rendered
<1>6. AppOK(c)
  BY <1>4, <1>5 DEF AppOK
<1>. QED BY <1>6 DEF apply_keymap, b, c, drawn

-----------------------------------------------------------------------------
(* The steps.                                                              *)

BarOK == AppOK(ui) /\ chan \in Seq(Messages)

\* Every message the user interface receives leaves it sound.
LEMMA ReceiveKeepsDue ==
    ASSUME BarOK, Receive
    PROVE  BarOK'
<1> DEFINE m == Head(chan)
<1>1. m \in Messages /\ chan' \in Seq(Messages)
  BY DEF BarOK, Receive
<1>2. ui \in Apps /\ AppOK(ui)
  BY DEF BarOK, AppOK
<1> HIDE DEF m
<1>3. CASE m.kind = "State"
  <2>1. m.value \in States /\ ui' = apply_state(ui, m.value)
    BY <1>1, <1>3 DEF Messages, Receive, m
  <2>. QED BY <1>1, <1>2, <2>1, ApplyStateKeepsDue DEF BarOK
<1>4. CASE m.kind = "Keymap"
  <2>1. m.value \in Keymaps /\ ui' = apply_keymap(ui, m.value)
    BY <1>1, <1>4 DEF Messages, Receive, m
  <2>. QED BY <1>1, <1>2, <2>1, ApplyKeymapKeepsDue DEF BarOK
<1>5. CASE m.kind \in {"Shutdown", "Failed"}
  <2>1. PICK failure \in BOOLEAN : ui' = [ui EXCEPT !.exit = TRUE, !.failure = failure]
    BY <1>5 DEF Receive, Ended, m
  <2>2. ui' \in Apps /\ ui'.state = ui.state /\ ui'.keymap = ui.keymap /\ ui'.surfaces = ui.surfaces
    BY <1>2, <2>1, Zenon DEF Apps
  <2>. QED BY <1>1, <1>2, <2>2 DEF BarOK, AppOK, Due, Mapped, Rendered
<1>6. m.kind \in {"State", "Keymap", "Shutdown", "Failed"}
  BY <1>1 DEF Messages
<1>. QED BY <1>3, <1>4, <1>5, <1>6

\* So does every event of the compositor's.
LEMMA CompositorKeepsDue ==
    ASSUME BarOK, NEW k \in Kinds, NEW size \in Sizes,
           \/ Configure(k, size) \/ Configure(k, Nothing) \/ scale_factor_changed(k, size) \/ FrameCallback(k)
           \/ SurfaceClosed(k) \/ ReleaseBuffer(k, size)
    PROVE  BarOK'
<1>1. ui \in Apps /\ AppOK(ui) /\ Mapped(ui, k) /\ chan' = chan
  BY DEF BarOK, AppOK, Configure, scale_factor_changed, FrameCallback, SurfaceClosed, ReleaseBuffer
<1> DEFINE s == ui.surfaces[k]
<1>2. s \in Surfaces /\ ui.surfaces \in [Kinds -> Surfaces \union {Absent}]
  BY <1>1, MappedIsSurface DEF Apps
<1>3. ASSUME NEW z \in Sizes \union {Nothing}, Configure(k, z) PROVE BarOK'
  <2> DEFINE t == [s EXCEPT !.configured = @ \/ z # Nothing,
                            !.size = IF z # Nothing THEN z ELSE @,
                            !.pending = TRUE]
  <2>1. CASE z = Nothing
    <3>1. t \in Surfaces /\ t.frame = s.frame /\ t.configured = s.configured
      BY <1>2, <2>1, Zenon DEF Surfaces
    <3>2. ui' = draw_surface([ui EXCEPT !.surfaces[k] = t], k)
      BY <1>3 DEF Configure
    <3> HIDE DEF t
    <3>. QED BY <1>1, <3>1, <3>2, ResizeKeepsDue DEF BarOK
  <2>2. CASE z # Nothing
    <3>1. t \in Surfaces /\ t.frame = s.frame /\ t.configured
      BY <1>2, <2>2, Zenon DEF Surfaces
    <3>2. ui' = draw_surface([ui EXCEPT !.surfaces[k] = t], k)
      BY <1>3 DEF Configure
    <3> HIDE DEF t
    <3>. QED BY <1>1, <3>1, <3>2, ResizeKeepsDue DEF BarOK
  <2>. QED BY <2>1, <2>2
<1>4. CASE scale_factor_changed(k, size)
  <2> DEFINE t == [[s EXCEPT !.size = size] EXCEPT !.pending = TRUE]
  <2>1. t \in Surfaces /\ t.frame = s.frame /\ t.configured = s.configured
    BY <1>2, Zenon DEF Surfaces
  <2>2. ui' = draw_surface([ui EXCEPT !.surfaces[k] = t], k)
    <3>1. [ui EXCEPT !.surfaces[k].size = size, !.surfaces[k].pending = TRUE]
             = [ui EXCEPT !.surfaces[k] = t]
      BY <1>1, <1>2, Zenon DEF Apps
    <3>. QED BY <1>4, <3>1 DEF scale_factor_changed
  <2> HIDE DEF t
  <2>. QED BY <1>1, <2>1, <2>2, ResizeKeepsDue DEF BarOK
<1>5. CASE FrameCallback(k)
  BY <1>1, <1>5, RetryKeepsDue, SMTT(30) DEF FrameCallback, BarOK
<1>6. CASE SurfaceClosed(k)
  <2>1. /\ ui' \in Apps /\ ui'.state = ui.state /\ ui'.keymap = ui.keymap
        /\ ui'.surfaces = [ui.surfaces EXCEPT ![k] = Absent]
    BY <1>1, <1>2, <1>6, Zenon DEF SurfaceClosed, Apps
  <2>2. ~Mapped(ui', k)
    BY <1>2, <2>1 DEF Mapped, Absent
  <2>3. ASSUME NEW j \in Kinds, j # k PROVE Due(ui', j)
    BY <1>1, <1>2, <2>1, <2>3 DEF AppOK, Due, Mapped, Rendered
  <2>. QED BY <1>1, <2>1, <2>2, <2>3 DEF BarOK, AppOK, Due
<1>7. CASE ReleaseBuffer(k, size)
  <2> DEFINE t == [s EXCEPT !.busy[size] = @ - 1]
  <2>1. [s.busy EXCEPT ![size] = @ - 1] \in [Sizes -> Nat]
    <3>1. s.busy \in [Sizes -> Nat] /\ s.busy[size] > 0
      BY <1>2, <1>7, Zenon DEF ReleaseBuffer, Surfaces
    <3>. QED BY <3>1
  <2>2. /\ t \in Surfaces /\ t.frame = s.frame /\ t.configured = s.configured /\ t.shown = s.shown
        /\ t.pending = s.pending /\ t.callback = s.callback /\ t.size = s.size
    BY <1>2, <2>1, Zenon DEF Surfaces
  <2>3. ui' = [ui EXCEPT !.surfaces[k] = t]
    BY <1>7 DEF ReleaseBuffer
  <2> HIDE DEF t
  <2>4. Rendered([ui EXCEPT !.surfaces[k] = t], k) = Rendered(ui, k)
    BY <1>1, <1>2, <2>2 DEF Rendered, Apps
  <2>5. ui.state # Nothing /\ ShowsOrWaits(t, Rendered(ui, k)) /\ \A j \in Kinds : Due(ui, j)
    BY <1>1, <2>2 DEF AppOK, Due, ShowsOrWaits
  <2>. QED BY <1>1, <2>2, <2>3, <2>4, <2>5, ReplaceSurface DEF BarOK
<1>. QED BY <1>3, <1>4, <1>5, <1>6, <1>7

SamplerOK == SamplerTypeOK /\ Announced

\* The thread, the loop and the environment keep the mailbox announced.
LEMMA SamplerKeepsAnnounced ==
    ASSUME SamplerOK,
           \/ SamplerStep \/ LoopStep \/ SupplyChanges \/ UeventSourceLost \/ Quit
           \/ Wake(TRUE) \/ SampleBattery(FALSE)
           \/ \E input \in NoRate : SampleProc(input)
           \/ \E panels \in SUBSET Panels : BeginTransaction(panels)
    PROVE  SamplerOK'
<1> USE DEF SamplerOK, SamplerTypeOK, Announced
<1>1. ASSUME NEW input \in Levels \union NoRate, SampleProc(input) PROVE SamplerOK'
  <2>1. Observe(thread, input) \in Threads
    BY Zenon DEF Observe, NoRate, Threads
  <2>2. thread' \in Threads /\ thread'.pc = "store" /\ thread.pc = "proc"
    BY <1>1, <2>1 DEF SampleProc, Threads, Places
  <2>. QED BY <1>1, <2>2 DEF SampleProc
<1>2. ASSUME NEW readable \in BOOLEAN, SampleBattery(readable) PROVE SamplerOK'
  <2>1. thread' \in Threads /\ thread.pc = "battery"
    BY <1>2, Zenon DEF SampleBattery, Scan, Threads, Places
  <2>. QED BY <1>2, <2>1 DEF SampleBattery
<1>3. ASSUME NEW interval \in BOOLEAN, Wake(interval) PROVE SamplerOK'
  <2>1. thread' \in Threads /\ thread.pc = "wait"
    BY <1>3, ZenonT(30) DEF Wake, PowerUevent, Threads, Places
  <2>. QED BY <1>3, <2>1, Zenon DEF Wake
<1>4. CASE Store
  <2>1. thread' \in Threads /\ thread'.pc = "unlock"
    BY <1>4 DEF Store, Threads, Places
  <2>2. [cpu |-> thread.cpu, battery |-> thread.battery] \in Snapshots
    BY DEF Threads, Snapshots
  <2>. QED BY <1>4, <2>1, <2>2, Zenon DEF Store
<1>5. CASE Unlock \/ Notify \/ StopsThread
  <2>1. thread' \in Threads
    BY <1>5 DEF Unlock, Notify, StopsThread, Threads, Places
  <2>2. CASE Unlock
    <3>1. thread'.pc = "notify"
      BY <2>2 DEF Unlock, Threads
    <3>. QED BY <2>1, <2>2, <3>1, Zenon DEF Unlock
  <2>3. CASE Notify
    BY <2>1, <2>3, Zenon DEF Notify
  <2>4. CASE StopsThread
    BY <2>1, <2>4 DEF StopsThread
  <2>. QED BY <1>5, <2>2, <2>3, <2>4
<1>6. CASE ServiceSampler
  <2>1. /\ mail' = [mail EXCEPT !.event = FALSE, !.slot = Unset]
        /\ UNCHANGED <<thread, supply>>
    BY <1>6 DEF ServiceSampler, try_take_latest
  <2>2. mail' \in [slot : Snapshots \union {Unset}, locked : BOOLEAN, event : BOOLEAN] /\ mail'.slot = Unset
    BY <2>1, Zenon
  <2>3. CASE mail.slot = Unset
    <3>1. UNCHANGED <<clock, session>>
      BY <1>6, <2>3 DEF ServiceSampler
    <3>. QED BY <2>1, <2>2, <3>1
  <2>4. CASE mail.slot # Unset
    <3>1. mail.slot \in Snapshots /\ InTransaction \in BOOLEAN
      BY <2>4 DEF InTransaction
    <3>2. /\ clock' = [sampler |-> mail.slot, dirty |-> InTransaction]
          /\ session' = IF InTransaction THEN session ELSE [session EXCEPT !.modules = mail.slot]
      BY <1>6, <2>4 DEF ServiceSampler, accept_sampler, update_modules
    <3>3. session' \in Sessions
      BY <3>1, <3>2 DEF Sessions
    <3>. QED BY <2>1, <2>2, <3>1, <3>2, <3>3
  <2>. QED BY <2>3, <2>4
<1>7. CASE EndTransaction
  <2> DEFINE after == [session EXCEPT !.panels = session.tx.panels, !.tx = Unset]
  <2>1. session.tx \in [panels : PanelSets]
    BY <1>7 DEF EndTransaction, InTransaction, Sessions
  <2>2. after \in Sessions
    BY <2>1, Zenon DEF Sessions
  <2>3. /\ session' = fold_if_clean(after) /\ clock' = [clock EXCEPT !.dirty = FALSE]
        /\ UNCHANGED <<thread, supply, mail>>
    BY <1>7 DEF EndTransaction
  <2> HIDE DEF after
  <2>4. session' \in Sessions
    BY <2>2, <2>3 DEF fold_if_clean, update_modules, Sessions
  <2>. QED BY <2>3, <2>4, Zenon
<1>8. CASE SupplyChanges
  BY <1>8 DEF SupplyChanges, Threads
<1>9. CASE UeventSourceLost
  <2>1. thread' \in Threads /\ thread'.pc = thread.pc
    BY <1>9, Zenon DEF UeventSourceLost, Threads
  <2>. QED BY <1>9, <2>1, Zenon DEF UeventSourceLost
<1>10. CASE Quit
  <2>1. session' \in Sessions
    BY <1>10 DEF Quit, Sessions
  <2>. QED BY <1>10, <2>1 DEF Quit
<1>11. ASSUME NEW panels \in SUBSET Panels, BeginTransaction(panels) PROVE SamplerOK'
  <2>1. [panels |-> panels] \in [panels : PanelSets]
    BY DEF PanelSets
  <2>2. session' \in Sessions
    BY <1>11, <2>1 DEF BeginTransaction, Sessions
  <2>. QED BY <1>11, <2>2 DEF BeginTransaction
<1> HIDE DEF SamplerOK
<1>. QED BY <1>1, <1>2, <1>3, <1>4, <1>5, <1>6, <1>7, <1>8, <1>9, <1>10, <1>11, Zenon
         DEF SamplerStep, LoopStep

-----------------------------------------------------------------------------
\* Before anything is connected the invariant holds.
LEMMA InitDisplay == DisplayInit => DisplayInv
<1> SUFFICES ASSUME DisplayInit PROVE DisplayInv
  OBVIOUS
<1>1. keymap \in Keymaps /\ supply \in [battery : Levels, uevent : BOOLEAN]
  BY DisplayAssumption DEF DisplayInit, SamplerInit
<1>2. thread \in Threads
  BY DEF DisplayInit, SamplerInit, ThreadStart, Threads, Places
<1>3. FreshSession \in Sessions
  BY DisplayAssumption DEF FreshSession, Sessions, NoSnapshot, Snapshots, PanelSets
<1>4. SamplerTypeOK /\ Announced
  BY <1>1, <1>2, <1>3 DEF DisplayInit, SamplerInit, SamplerTypeOK, Announced, FreshMail, FreshClock
<1>5. ui \in Apps /\ \A k \in Kinds : ui.surfaces[k] = Absent
  BY <1>1 DEF DisplayInit, BarInit, Apps
<1>6. ASSUME NEW k \in Kinds PROVE Due(ui, k)
  BY <1>5 DEF Due, Mapped, Absent
<1>7. chan \in Seq(Messages)
  BY DEF DisplayInit, BarInit
<1>. QED BY <1>1, <1>4, <1>5, <1>6, <1>7 DEF DisplayInv, AppOK

\* Every step of the composition keeps the invariant.
LEMMA StepDisplay ==
    ASSUME DisplayInv, [DisplayNext]_displayVars
    PROVE  DisplayInv'
<1> USE DEF DisplayInv, BarOK, SamplerOK
<1>1. SamplerOK /\ BarOK
  OBVIOUS
<1>2. ASSUME UNCHANGED samplerVars PROVE SamplerOK'
  BY <1>1, <1>2 DEF samplerVars, SamplerTypeOK, Announced
<1>3. ASSUME UNCHANGED barVars PROVE BarOK'
  BY <1>1, <1>3 DEF barVars
<1>4. CASE DaemonStep
  <2>1. SamplerOK'
    BY <1>1, <1>4, SamplerKeepsAnnounced, Zenon DEF DaemonStep
  <2>. QED BY <1>3, <1>4, <2>1 DEF DaemonStep
<1>5. CASE BarMoves
  <2>1. BarOK'
    <3>1. CASE Receive
      BY <1>1, <3>1, ReceiveKeepsDue
    <3>2. ASSUME NEW k \in Kinds, FirstConfigure(k) \/ FrameCallback(k) \/ BufferComesBack(k)
          PROVE  BarOK'
      <4>1. \E size \in Sizes : Configure(k, size) \/ FrameCallback(k) \/ ReleaseBuffer(k, size)
        BY <3>2, DisplayAssumption DEF FirstConfigure, BufferComesBack
      <4>. QED BY <1>1, <4>1, CompositorKeepsDue
    <3>. QED BY <1>5, <3>1, <3>2 DEF BarMoves
  <2>. QED BY <1>2, <1>5, <2>1 DEF BarMoves
<1>6. CASE WorkerReads
  <2>1. Published \in States
    BY DEF Published, States, SamplerTypeOK, Sessions
  <2>2. chan' \in Seq(Messages) /\ ui' = ui
    <3>1. [kind |-> "State", value |-> Published] \in Messages /\ [kind |-> "Shutdown"] \in Messages
      BY <2>1 DEF Messages
    <3>. QED BY <1>6, <3>1 DEF WorkerReads, Send
  <2>. QED BY <1>2, <1>6, <2>2 DEF WorkerReads
<1>7. CASE WorkerReconnects
  <2>1. chan' \in Seq(Messages) /\ ui' = ui
    <3>1. [kind |-> "Keymap", value |-> keymap] \in Messages
      BY DEF Messages
    <3>. QED BY <1>7, <3>1 DEF WorkerReconnects, Send
  <2>. QED BY <1>2, <1>7, <2>1 DEF WorkerReconnects
<1>8. CASE Change
  <2>1. CASE DaemonRestarts
    <3>1. thread' \in Threads
      BY <2>1 DEF DaemonRestarts, ThreadStart, Threads, Places
    <3>2. FreshSession \in Sessions
      BY DisplayAssumption DEF FreshSession, Sessions, NoSnapshot, Snapshots, PanelSets
    <3>3. SamplerOK'
      BY <2>1, <3>1, <3>2, Zenon DEF DaemonRestarts, SamplerTypeOK, Announced, FreshMail, FreshClock
    <3>. QED BY <1>3, <2>1, <3>3 DEF DaemonRestarts
  <2>2. ASSUME \/ \E input \in NoRate : SampleProc(input)
               \/ SampleBattery(FALSE) \/ Wake(TRUE)
               \/ UeventSourceLost \/ SupplyChanges \/ Quit
               \/ \E panels \in SUBSET Panels : BeginTransaction(panels),
               UNCHANGED <<barVars, keymap, link, sent>>
        PROVE  DisplayInv'
    <3>1. SamplerOK'
      BY <1>1, <2>2, SamplerKeepsAnnounced, Zenon
    <3>. QED BY <1>3, <2>2, <3>1
  <2>3. ASSUME NEW k \in Kinds,
               \/ SurfaceClosed(k)
               \/ \E size \in Sizes :
                    scale_factor_changed(k, size) \/ Configure(k, size) \/ ReleaseBuffer(k, size)
               \/ Configure(k, Nothing),
               UNCHANGED <<samplerVars, keymap, link, sent>>
        PROVE  DisplayInv'
    <3>1. \E size \in Sizes : \/ SurfaceClosed(k) \/ scale_factor_changed(k, size)
                              \/ Configure(k, size) \/ ReleaseBuffer(k, size)
                              \/ Configure(k, Nothing)
      BY <2>3, DisplayAssumption
    <3>2. BarOK'
      BY <1>1, <3>1, CompositorKeepsDue
    <3>. QED BY <1>2, <2>3, <3>2
  <2>4. CASE WorkerFails
    <3>1. chan' \in Seq(Messages) /\ ui' = ui
      <4>1. [kind |-> "Failed"] \in Messages
        BY DEF Messages
      <4>. QED BY <2>4, <4>1 DEF WorkerFails, Send
    <3>. QED BY <1>2, <2>4, <3>1 DEF WorkerFails
  <2>. QED BY <1>8, <2>1, <2>2, <2>3, <2>4, Zenon DEF Change
<1>9. CASE UNCHANGED displayVars
  BY <1>2, <1>3, <1>9 DEF displayVars
<1>. QED BY <1>4, <1>5, <1>6, <1>7, <1>8, <1>9 DEF DisplayNext

\* The user interface is sound and the mailbox announced in every state.
THEOREM DisplayInductive == DisplaySpec => []DisplayInv
BY InitDisplay, StepDisplay, PTL DEF DisplaySpec

\* No order of states, keymaps, sizes, buffer releases and restarts leaves an old
\* picture, or an untaken sample, with no wake-up due (commit_frame,
\* retry_surface, publish, try_take_latest).
THEOREM RedrawAlwaysDue == DisplaySpec => []RedrawIsDue
<1>1. DisplayInv => RedrawIsDue
  BY DEF DisplayInv, AppOK, Due, ShowsOrWaits, Announced, RedrawIsDue
<1>. QED BY <1>1, DisplayInductive, PTL

=============================================================================
