------------------------------ MODULE Sampler -------------------------------
(***************************************************************************)
(* The module sampler (crates/realm-session/src/modules.rs): a thread that *)
(* reads the sources of the bar's modules and hands snapshots to the event *)
(* loop through a slot for the latest one, and the loop's side of it       *)
(* (ClockRuntime of runtime.rs), which keeps what arrives in the middle of *)
(* a session transaction for its end.                                      *)
(*                                                                         *)
(* A snapshot is [cpu, battery].  cpu stands for the rated sources: a rate *)
(* needs two good observations in a row, and the last one found stays.     *)
(* memory differs in needing one only.  A reading is in Levels, or Unset.  *)
(* The clock's text takes the same way; its tick is in SessionSpec.        *)
(***************************************************************************)
EXTENDS Naturals

CONSTANTS Levels, Unset

VARIABLES thread,  \* the sampler thread
          supply,  \* the battery, and whether a uevent about it is queued
          mail,    \* SamplerMailbox: the slot, its lock, the eventfd's readiness
          clock,   \* ClockRuntime: the last snapshot, and whether it is still to be shown
          session  \* [phase, modules, panels, tx]; tx: Unset or what it will show

samplerVars == <<thread, supply, mail, clock, session>>

Snapshots == [cpu : Levels \union {Unset}, battery : Levels \union {Unset}]
NoSnapshot == [cpu |-> Unset, battery |-> Unset]

\* sampler_main samples /proc and, where uevents can be had, the battery, before it waits.
ThreadStart(uevents) ==
    [pc |-> "proc", prev |-> FALSE, cpu |-> Unset, battery |-> Unset, failed |-> FALSE,
     source |-> uevents, todo |-> uevents]

FreshMail == [slot |-> Unset, locked |-> FALSE, event |-> FALSE]
FreshClock == [sampler |-> Unset, dirty |-> FALSE]
\* RealmState::default shows the which-key strip.
FreshSession == [phase |-> "Live", modules |-> NoSnapshot, panels |-> {"WhichKey"}, tx |-> Unset]

\* Which level the battery has at first makes no difference.
SamplerInit ==
    /\ \E uevents \in BOOLEAN : thread = ThreadStart(uevents)
    /\ supply = [battery |-> CHOOSE level \in Levels : TRUE, uevent |-> FALSE]
    /\ mail = FreshMail /\ clock = FreshClock /\ session = FreshSession

-----------------------------------------------------------------------------
\* What parsing a source can give besides counters that advanced at some rate:
\* it cannot be read or parsed, or its counters did not advance.
NoRate == {"fail", "still"}

\* ProcSampler::observe.
Observe(t, input) ==
    CASE input = "fail" -> [t EXCEPT !.prev = FALSE]
      [] input = "still" -> [t EXCEPT !.prev = TRUE]
      [] OTHER -> [t EXCEPT !.prev = TRUE, !.cpu = IF t.prev THEN input ELSE @]

\* sample_proc_and_publish, up to the publication.
SampleProc(input) ==
    /\ thread.pc = "proc"
    /\ thread' = [Observe(thread, input) EXCEPT !.pc = "store"]
    /\ UNCHANGED <<supply, mail, clock, session>>

\* scan_battery and BatterySampler::observe: a failed scan keeps the reading.
Scan(t, readable) ==
    [t EXCEPT !.failed = ~readable, !.battery = IF readable THEN supply.battery ELSE @]

\* sample_battery_and_publish, up to the publication.
SampleBattery(readable) ==
    /\ thread.pc = "battery"
    /\ thread' = [Scan(thread, readable) EXCEPT !.pc = "store", !.todo = FALSE]
    /\ UNCHANGED <<supply, mail, clock, session>>

\* drain_power_uevents finds one about a power supply.
PowerUevent == thread.source /\ supply.uevent

\* The loop that wakes for the interval, for uevents (drained before the
\* battery is read), or for both.
Wake(interval) ==
    /\ thread.pc = "wait" /\ session.phase = "Live"
    /\ interval \/ PowerUevent
    /\ thread' = [thread EXCEPT !.pc = IF interval THEN "proc" ELSE "battery", !.todo = PowerUevent]
    /\ supply' = [supply EXCEPT !.uevent = FALSE]
    /\ UNCHANGED <<mail, clock, session>>

\* The uevent socket fails: the battery is not observed any more.
UeventSourceLost ==
    /\ thread.pc = "wait" /\ session.phase = "Live" /\ thread.source
    /\ thread' = [thread EXCEPT !.source = FALSE]
    /\ supply' = [supply EXCEPT !.uevent = FALSE]
    /\ UNCHANGED <<mail, clock, session>>

StopsThread ==
    /\ thread.pc = "wait" /\ session.phase # "Live"
    /\ thread' = [thread EXCEPT !.pc = "stopped"]
    /\ UNCHANGED <<supply, mail, clock, session>>

\* The battery's level changes, and the kernel says so (external).
SupplyChanges ==
    /\ \E level \in Levels \ {supply.battery} : supply' = [battery |-> level, uevent |-> thread.source]
    /\ UNCHANGED <<thread, mail, clock, session>>

\* SamplerMailbox::publish: the slot under its lock, and then the eventfd.
Store ==
    /\ thread.pc = "store"
    /\ mail' = [mail EXCEPT !.slot = [cpu |-> thread.cpu, battery |-> thread.battery], !.locked = TRUE]
    /\ thread' = [thread EXCEPT !.pc = "unlock"]
    /\ UNCHANGED <<supply, clock, session>>

Unlock ==
    /\ thread.pc = "unlock"
    /\ mail' = [mail EXCEPT !.locked = FALSE]
    /\ thread' = [thread EXCEPT !.pc = "notify"]
    /\ UNCHANGED <<supply, clock, session>>

Notify ==
    /\ thread.pc = "notify"
    /\ mail' = [mail EXCEPT !.event = TRUE]
    /\ thread' = [thread EXCEPT !.pc = IF thread.todo THEN "battery" ELSE "wait"]
    /\ UNCHANGED <<supply, clock, session>>

SamplerStep ==
    \/ \E input \in Levels : SampleProc(input)
    \/ SampleBattery(TRUE) \/ Wake(FALSE) \/ Store \/ Unlock \/ Notify \/ StopsThread

-----------------------------------------------------------------------------
\* Session::update_modules.
update_modules(s, modules) == [s EXCEPT !.modules = modules]

InTransaction == session.tx # Unset

\* The snapshot that arrives in a transaction is not remembered as one to show.
accept_sampler_Forgets(snapshot) ==
    /\ clock' = [sampler |-> snapshot, dirty |-> FALSE]
    /\ session' = IF InTransaction THEN session ELSE update_modules(session, snapshot)
accept_sampler(snapshot) ==
    /\ clock' = [sampler |-> snapshot, dirty |-> InTransaction]
    /\ session' = IF InTransaction THEN session ELSE update_modules(session, snapshot)

\* try_take_latest leaves the readiness pending while the sampler has the slot,
\* and otherwise drains it before it takes the slot.
try_take_latest ==
    /\ mail.event /\ ~mail.locked
    /\ mail' = [mail EXCEPT !.event = FALSE, !.slot = Unset]

ServiceSampler ==
    /\ session.phase = "Live"
    /\ try_take_latest
    /\ IF mail.slot = Unset THEN UNCHANGED <<clock, session>> ELSE accept_sampler(mail.slot)
    /\ UNCHANGED <<thread, supply>>

\* ClockRuntime::fold_if_clean, of the session at its clean boundary.
fold_if_clean(s) == IF clock.dirty THEN update_modules(s, clock.sampler) ELSE s

\* A key shows or hides panels, in a transaction of the session's.
BeginTransaction(panels) ==
    /\ session.phase = "Live" /\ ~InTransaction
    /\ session' = [session EXCEPT !.tx = [panels |-> panels]]
    /\ UNCHANGED <<thread, supply, mail, clock>>

EndTransaction ==
    /\ InTransaction
    /\ session' = fold_if_clean([session EXCEPT !.panels = session.tx.panels, !.tx = Unset])
    /\ clock' = [clock EXCEPT !.dirty = FALSE]
    /\ UNCHANGED <<thread, supply, mail>>

\* Quit abandons the transaction that is open, and stops the sampler without
\* waiting for it.
Quit ==
    /\ session.phase = "Live"
    /\ session' = [session EXCEPT !.phase = "QuitPending", !.tx = Unset]
    /\ UNCHANGED <<thread, supply, mail, clock>>

LoopStep == ServiceSampler \/ EndTransaction
=============================================================================
