------------------------------ MODULE Startup -------------------------------
(***************************************************************************)
(* The start of a daemon (run_production_daemon() and run_daemon_with() of *)
(* crates/realm-session/src/runtime.rs), and the bar's connection to the   *)
(* session across starts, crashes and ends of the daemons of Endpoint:     *)
(* connect_control() and control_worker() of                               *)
(* crates/realm-bar/src/wayland.rs over ClientEndpoint of                  *)
(* crates/realm-control/src/client.rs.                                     *)
(*                                                                         *)
(* The bar arms an inotify watch, makes one attempt, and after a missing   *)
(* or refused endpoint waits for the watch or for the retry interval.      *)
(* Listening on a socket that is already bound changes no directory, so no *)
(* watch reports it.                                                       *)
(***************************************************************************)
EXTENDS Endpoint, Naturals

CONSTANT MaxFaults    \* crashes, ends, timed-out exchanges and broken subscriptions

VARIABLES
    boot,     \* daemon -> [at, degraded]: its start, and the codes it reports
    bar,      \* [pc, peer, link]: the control worker and its connection
    watch,    \* [on, fired]: the directory it watches, and a queued event
    faults

vars == <<daemonVars, boot, bar, watch, faults>>

Handshake == {"hello", "keymap", "subscribe"}

NotStarted == [at |-> "none", degraded |-> None]

Init ==
    /\ DaemonInit
    /\ boot = [d \in Daemons |-> NotStarted]
    /\ bar = [pc |-> "choose", peer |-> None, link |-> "none"]
    /\ watch = [on |-> "none", fired |-> FALSE]
    /\ faults = 0

\* The kernel's side: the watched directory's change is queued, and the bar's
\* connection is cut when the daemon's socket is closed.
Inotify ==
    watch' = [watch EXCEPT !.fired =
                 \/ @
                 \/ watch.on = "realm" /\ entry' # entry
                 \/ watch.on = "runtime" /\ realm' # realm]

Fault == faults < MaxFaults /\ faults' = faults + 1

\* The record the launcher script leaves, if any: whether it is the private file
\* of this runtime directory, the incarnation in its name and in its text, and
\* the codes it lists.
Handoff == [private: BOOLEAN, name: {"this", "other"}, pid: {"this"},
            codes: {<<"NO-XWAYLAND">>, <<"NO-XWAYLAND", "NO-XWAYLAND">>, <<"UNKNOWN">>}]
KnownCodes == {"NO-SESSION-BUS", "NO-DBUS-ACTIVATION", "NO-SYSTEMD-USER", "NO-DISPLAY-PROBE",
               "NO-XWAYLAND", "NO-GSETTINGS", "NO-CURSOR-THEME"}
read_degraded_handoff(h) ==
    IF /\ h.private /\ h.name = h.pid
       /\ \A i \in DOMAIN h.codes : h.codes[i] \in KnownCodes
       /\ \A i, j \in DOMAIN h.codes : h.codes[i] = h.codes[j] => i = j
    THEN h.codes ELSE None

\* run_production_daemon: a rejected handoff is reported as none and stops
\* nothing; a daemon whose theme cannot be prepared never gets here.
run_production_daemon(d) ==
    \E codes \in {None} \cup {read_degraded_handoff(h) : h \in Handoff} :
        boot' = [boot EXCEPT ![d] = [at |-> "started", degraded |-> codes]]

\* The endpoint's steps of the start: it listens only once the session is live.
DaemonStarts(d) ==
    /\ pc[d] = "bound" => boot[d].at = "live"
    /\ StartStep(d) /\ Inotify
    /\ IF pc[d] = "idle" THEN run_production_daemon(d)
       ELSE boot' = [boot EXCEPT ![d] = IF pc'[d] = "idle" THEN NotStarted ELSE @]
    /\ UNCHANGED <<bar, faults>>

Reaches(d, at) == boot' = [boot EXCEPT ![d].at = at] /\ UNCHANGED <<daemonVars, bar, watch, faults>>

\* The worker starts and the snapshot is read before the backend is made.
LoadStartupSnapshot(d) == pc[d] = "bound" /\ boot[d].at = "started" /\ Reaches(d, "loaded")
RecoverUntilLive(d) == pc[d] = "bound" /\ boot[d].at = "loaded" /\ Reaches(d, "live")

\* The service manager is told before the daemon recovers and listens.
notify_ready_Early(d) == boot[d].at = "loaded" /\ Reaches(d, "ready")
\* notify_ready(), the last step before run_combined_loop() serves clients.
notify_ready(d) == pc[d] = "active" /\ boot[d].at = "live" /\ Reaches(d, "ready")

BootStep(d) == LoadStartupSnapshot(d) \/ RecoverUntilLive(d) \/ notify_ready(d)

DaemonEnds(d) == EndStep(d) /\ Inotify /\ UNCHANGED <<boot, bar, faults>>

\* A connection no daemon got to serve was never answered.
Cut(d, link) ==
    /\ boot' = [boot EXCEPT ![d] = NotStarted]
    /\ bar' = IF bar.peer = d
              THEN [bar EXCEPT !.link = IF boot[d].at = "ready" THEN link ELSE "unserved"]
              ELSE bar

\* A step of the start fails, or the session ends: it sends its subscribers
\* Shutdown, or cuts them off after the frame it was sending.
DaemonQuits(d) ==
    /\ CloseSocket(d) /\ Fault /\ Inotify
    /\ \E link \in IF bar.pc = "subscribed" THEN {"bye", "cut"} ELSE {"cut"} : Cut(d, link)

DaemonCrashes(d) == Crash(d) /\ Fault /\ Inotify /\ Cut(d, "cut")

\* ControlWatch::new(): which directory exists ...
ChooseWatch ==
    /\ bar.pc = "choose"
    /\ watch' = [on |-> IF realm THEN "chosenRealm" ELSE "chosenRuntime", fired |-> FALSE]
    /\ bar' = [pc |-> "arm", peer |-> None, link |-> "none"]
    /\ UNCHANGED <<daemonVars, boot, faults>>

\* ... and add_watch() on it.
ArmWatch ==
    /\ bar.pc = "arm"
    /\ watch' = [on |-> IF watch.on = "chosenRealm" THEN "realm" ELSE "runtime", fired |-> FALSE]
    /\ bar' = [bar EXCEPT !.pc = "connect"]
    /\ UNCHANGED <<daemonVars, boot, faults>>

\* ClientEndpoint::connect() reaches the daemon that listens on the entry.
Connect ==
    /\ bar.pc = "connect"
    /\ entry # None
    /\ \E d \in Daemons :
         /\ sock[d].ino = entry /\ sock[d].listening
         /\ bar' = [pc |-> "hello", peer |-> d, link |-> "open"]
    /\ UNCHANGED <<daemonVars, boot, watch, faults>>

\* No realm directory, no entry, or nobody listening: MissingRealm and Refused
\* are the errors that are retried.
ConnectRefused ==
    /\ bar.pc = "connect"
    /\ ~Answers(entry)
    /\ bar' = [bar EXCEPT !.pc = "wait"]
    /\ UNCHANGED <<daemonVars, boot, watch, faults>>

Successor == [hello |-> "keymap", keymap |-> "subscribe", subscribe |-> "subscribed"]

\* complete_hello(), request(GetKeymap), subscribe(): the answer arrives; it may
\* have been sent before the connection was cut.
Exchange ==
    /\ bar.pc \in Handshake
    /\ bar.link = "cut" \/ (bar.link = "open" /\ boot[bar.peer].at = "ready")
    /\ bar' = [bar EXCEPT !.pc = Successor[bar.pc]]
    /\ watch' = [on |-> "none", fired |-> FALSE]
    /\ UNCHANGED <<daemonVars, boot, faults>>

\* Any other end of an exchange is Fatal: EOF or a reset ...
ExchangeCut ==
    /\ bar.pc \in Handshake /\ bar.link \in {"cut", "unserved"}
    /\ bar' = [bar EXCEPT !.pc = "failed"]
    /\ UNCHANGED <<daemonVars, boot, watch, faults>>

\* ... and EXCHANGE_TIMEOUT.
ExchangeTimesOut ==
    /\ bar.pc \in Handshake /\ Fault
    /\ bar' = [bar EXCEPT !.pc = "failed"]
    /\ UNCHANGED <<daemonVars, boot, watch>>

\* ControlWatch::wait(): a queued event, or CONTROL_RETRY_INTERVAL.
WatchFires ==
    /\ bar.pc = "wait" /\ watch.fired
    /\ bar' = [bar EXCEPT !.pc = "choose"]
    /\ UNCHANGED <<daemonVars, boot, watch, faults>>

\* A bar that waits for the directory to change, and for nothing else.
RetryInterval_WatchOnly ==
    /\ bar.pc = "wait" /\ watch.fired
    /\ bar' = [bar EXCEPT !.pc = "choose"]
    /\ UNCHANGED <<daemonVars, boot, watch, faults>>
RetryInterval ==
    /\ bar.pc = "wait"
    /\ bar' = [bar EXCEPT !.pc = "choose"]
    /\ UNCHANGED <<daemonVars, boot, watch, faults>>

\* control_worker(): Shutdown ends the bar, EOF makes it connect again.
SubscriptionEnds ==
    /\ bar.pc = "subscribed" /\ bar.link # "open"
    /\ bar' = [bar EXCEPT !.pc = IF bar.link = "bye" THEN "exited" ELSE "choose"]
    /\ UNCHANGED <<daemonVars, boot, watch, faults>>

\* Any other end of the subscription is reported as Failed: a frame that stops
\* half-way, or one that is malformed or too large.
SubscriptionBreaks ==
    /\ bar.pc = "subscribed" /\ Fault
    /\ bar' = [bar EXCEPT !.pc = "failed"]
    /\ UNCHANGED <<daemonVars, boot, watch>>

\* The service manager starts a bar that failed again (Restart=on-failure).
BarRestarts ==
    /\ bar.pc = "failed"
    /\ bar' = [bar EXCEPT !.pc = "choose"]
    /\ UNCHANGED <<daemonVars, boot, watch, faults>>

BarStep ==
    \/ ChooseWatch \/ ArmWatch \/ Connect \/ ConnectRefused \/ Exchange \/ ExchangeCut
    \/ WatchFires \/ RetryInterval \/ SubscriptionEnds \/ BarRestarts

Next ==
    \/ \E d \in Daemons : DaemonStarts(d)
    \/ \E d \in Daemons : BootStep(d)
    \/ \E d \in Daemons : DaemonEnds(d)
    \/ \E d \in Daemons : DaemonQuits(d)
    \/ \E d \in Daemons : DaemonCrashes(d)
    \/ BarStep
    \/ ExchangeTimesOut
    \/ SubscriptionBreaks

\* Started daemons and the bar's thread run on; a daemon that left is started
\* again (Restart=always).
Fairness ==
    /\ WF_vars(BarStep)
    /\ \A d \in Daemons : WF_vars(DaemonStarts(d) \/ BootStep(d) \/ DaemonEnds(d))

Spec == Init /\ [][Next]_vars /\ Fairness

\* Once daemons stop dying the bar has a live subscription and keeps it, or
\* was told that the session ended: a socket that starts to listen after the
\* bar was refused, an endpoint replaced while the bar waits, and a directory
\* made between the choice of the watch and its arming lose no session.
BarFindsSession == <>[](bar.pc = "exited" \/ (bar.pc = "subscribed" /\ bar.link = "open"))

\* Told that a daemon is ready, the service manager starts what needs the
\* session: from then until that daemon ends it has recovered, it listens, and
\* the entry in the runtime directory leads to it, whatever others try.
ReadyIsReachable ==
    \A d \in Daemons : boot[d].at = "ready" => sock[d].listening /\ entry = sock[d].ino

=============================================================================
