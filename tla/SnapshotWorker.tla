--------------------------- MODULE SnapshotWorker ---------------------------
(***************************************************************************)
(* The event loop, the worker thread and the child reaper of the session   *)
(* daemon around one snapshot file (crates/realm-session/src/worker.rs and *)
(* RuntimeOwners of runtime.rs): bounded channels, the eventfd that        *)
(* announces results, the snapshot slot the worker asks for, the seal and  *)
(* its fence, and incarnations that start from the file the last one left. *)
(***************************************************************************)
EXTENDS Persistence, Sequences, FiniteSets

CONSTANTS
    Absent, Garbled,     \* no snapshot file; a file from_json rejects
    Unreadable,          \* a read that fails other than with NotFound
    Final,               \* the sequence None of the shutdown flush
    MaxWorkerJobs, MaxWorkerResults, FenceTicks,
    WriteFaults,         \* the write steps the file system may fail
    MaxUpdates, MaxFaults, MaxRestarts   \* bounds of the model

ASSUME WorkerAssumption ==
    /\ MaxWorkerJobs \in Nat \ {0} /\ MaxWorkerResults \in Nat \ {0}
    /\ FenceTicks \in Nat
    /\ WriteFaults \subseteq {"temporary", "rename", "parent"}
    /\ {Absent, Garbled, Unreadable} \cap Snap = {} /\ Final \notin Nat
    /\ None \notin [sequence : {Final}, snapshot : Snap]

VARIABLES
    authority,  \* the Session's snapshot; None before the session is live
    coord,      \* the PersistenceCoordinator
    worker,     \* fields of the Worker handle
    messages, reply, results,  \* the three channels between loop and worker
    eventfd,    \* its counter
    owned,      \* owned_children, shared by loop, worker and reaper
    thread,     \* where worker_main is
    reaper,     \* children sent to, and held by, child_reaper
    file,       \* what the snapshot path holds
    run,        \* what the event loop is doing
    budget      \* updates, faults and restarts so far, and whether a write
                \* has failed after its rename

vars == <<authority, coord, worker, messages, reply, results, eventfd, owned,
          thread, reaper, file, run, budget>>
loopVars == <<authority, coord, worker, run>>
channels == <<messages, reply, results, eventfd>>

Running == {"loading", "recovering", "live", "sealed", "exiting"}
\* Room for one message besides the jobs.
MessageCapacity_Tight == MaxWorkerJobs + 1
MessageCapacity == MaxWorkerJobs + 2
\* The handle that Worker::start returns.  The field final_write is the
\* outcome of the shutdown flush, which the loop only logs.
NewWorker == [pending |-> None, outstanding |-> 0, sealed |-> None,
              fenced |-> FALSE, notified |-> 0, final_write |-> "none"]

\* A daemon after Worker::start and the request of load_startup_snapshot.
Init ==
    /\ authority = None /\ coord = NewCoordinator(None) /\ worker = NewWorker
    /\ messages = <<"ReadSnapshot">> /\ reply = <<>> /\ results = <<>>
    /\ eventfd = 0 /\ owned = 0 /\ thread = [at |-> "recv"]
    /\ reaper = [sent |-> 0, held |-> 0] /\ run = "loading"
    /\ file \in Snap \cup {Absent, Garbled}
    /\ budget = [updates |-> 0, faults |-> 0, restarts |-> 0, late |-> FALSE]

-----------------------------------------------------------------------------
(* The worker thread.                                                      *)

Alive == run \in Running

Sending(result, then) == [at |-> "send", result |-> result, then |-> then]
\* spawn_owned: a failed spawn gives its slot back, a started child goes to
\* the reaper, and the daemon aborts when the reaper's channel is full.
SpawnOwned ==
    \/ /\ owned' = owned - 1
       /\ UNCHANGED <<reaper, run>>
    \/ /\ UNCHANGED owned
       /\ IF reaper.sent < MaxWorkerJobs
          THEN reaper' = [reaper EXCEPT !.sent = @ + 1] /\ UNCHANGED run
          ELSE run' = "aborted" /\ UNCHANGED reaper

WorkerRecv ==
    /\ Alive /\ thread.at = "recv" /\ messages # <<>>
    /\ messages' = Tail(messages)
    /\ \E message \in {Head(messages)}, bytes \in {file, Unreadable} :
           /\ bytes = Unreadable => message = "ReadSnapshot"
           /\ thread' = CASE message = "ReadSnapshot" ->
                               Sending([kind |-> "SnapshotRead", bytes |-> bytes], "recv")
                          [] message = "Process" -> Sending([kind |-> "Process"], "recv")
                          [] message = "SnapshotAvailable" ->
                               Sending([kind |-> "SnapshotRequested"], "await")
                          [] message = "Seal" -> Sending([kind |-> "Fence"], "done")
           /\ IF message = "Process" THEN SpawnOwned ELSE UNCHANGED <<owned, reaper, run>>
    /\ UNCHANGED <<authority, coord, worker, reply, results, eventfd, file, budget>>

\* send_result: the blocking send, then the eventfd write.
WorkerSend ==
    /\ Alive /\ thread.at = "send" /\ Len(results) < MaxWorkerResults
    /\ results' = Append(results, thread.result)
    /\ thread' = [at |-> "notify", then |-> thread.then]
    /\ UNCHANGED <<loopVars, messages, reply, eventfd, owned, reaper, file, budget>>
WorkerNotify ==
    /\ Alive /\ thread.at = "notify"
    /\ eventfd' = eventfd + 1
    /\ thread' = [at |-> thread.then]
    /\ UNCHANGED <<loopVars, messages, reply, results, owned, reaper, file, budget>>

\* snapshots.recv(): an empty answer is skipped.
WorkerTakeReply ==
    /\ Alive /\ thread.at = "await" /\ reply # <<>>
    /\ reply' = Tail(reply)
    /\ thread' = IF Head(reply) = None THEN [at |-> "recv"]
                 ELSE [at |-> "temporary", job |-> Head(reply)]
    /\ UNCHANGED <<loopVars, messages, results, eventfd, owned, reaper, file, budget>>

Written(job, ok) ==
    Sending([kind |-> "SnapshotWritten", sequence |-> job.sequence, ok |-> ok], "recv")

\* write_snapshot_atomically, a step at a time: fill and sync the temporary
\* file, rename it over the snapshot, sync the directory.  A step may fail.
WriteStep ==
    /\ Alive /\ thread.at \in {"temporary", "rename", "parent"}
    /\ \/ /\ thread' = CASE thread.at = "temporary" -> [thread EXCEPT !.at = "rename"]
                         [] thread.at = "rename" -> [thread EXCEPT !.at = "parent"]
                         [] thread.at = "parent" -> Written(thread.job, TRUE)
          /\ file' = IF thread.at = "rename" THEN thread.job.snapshot ELSE file
          /\ UNCHANGED budget
       \/ /\ thread.at \in WriteFaults /\ budget.faults < MaxFaults
          /\ thread' = Written(thread.job, FALSE)
          /\ budget' = [budget EXCEPT !.faults = @ + 1,
                                     !.late = @ \/ thread.at = "parent"]
          /\ UNCHANGED file
    /\ UNCHANGED <<loopVars, channels, owned, reaper>>

WorkerStep == WorkerRecv \/ WorkerSend \/ WorkerNotify \/ WorkerTakeReply \/ WriteStep

\* child_reaper: take a child from the channel, reap one that has exited.
ReaperStep ==
    /\ Alive
    /\ \/ /\ reaper.sent > 0
          /\ reaper' = [sent |-> reaper.sent - 1, held |-> reaper.held + 1]
          /\ UNCHANGED owned
       \/ /\ reaper.held > 0
          /\ reaper' = [reaper EXCEPT !.held = @ - 1]
          /\ owned' = owned - 1
    /\ UNCHANGED <<loopVars, channels, thread, file, budget>>

-----------------------------------------------------------------------------
(* The event loop.                                                         *)

\* Worker::try_result, up to the result it returns: read the eventfd only
\* when every announced result has been taken.  An announced result that is
\* not there is WorkerError::Disconnected.
\* The eventfd counter read as a flag.
Announced_Flag == IF worker.notified = 0 /\ eventfd > 0 THEN 1 ELSE worker.notified
Announced == IF worker.notified = 0 THEN eventfd ELSE worker.notified
Taken == IF results = <<>> THEN [kind |-> "Disconnected"] ELSE Head(results)
TakesResult ==
    /\ Announced > 0
    /\ results' = IF results = <<>> THEN <<>> ELSE Tail(results)
    /\ eventfd' = IF worker.notified = 0 THEN 0 ELSE eventfd

\* classify_snapshot_read
Recovered(bytes) == IF bytes \in Snap THEN bytes ELSE None

\* load_startup_snapshot, and the coordinator that starts from its value.  A
\* file that cannot be read ends the daemon.
StartupRead ==
    /\ run = "loading" /\ TakesResult
    /\ worker' = [worker EXCEPT !.notified = Announced - 1]
    /\ run' = IF Taken.kind # "SnapshotRead" THEN "failed"
              ELSE IF Taken.bytes = Unreadable THEN "refused" ELSE "recovering"
    /\ coord' = IF run' = "recovering" THEN NewCoordinator(Recovered(Taken.bytes)) ELSE coord
    /\ UNCHANGED <<authority, messages, reply, owned, thread, reaper, file, budget>>

\* recover_until_live: the first live snapshot is observed.
BecomeLive(v) ==
    /\ run = "recovering"
    /\ authority' = v /\ coord' = observe(coord, v) /\ run' = "live"
    /\ UNCHANGED <<worker, channels, owned, thread, reaper, file, budget>>

\* A try_send of several messages: the loop fails on the first that does not fit.
Fits(sent) == Len(messages) + Len(sent) <= MessageCapacity
\* The SnapshotAvailable that goes with a snapshot put in an empty slot.
Announce(slot) == IF slot = None THEN <<"SnapshotAvailable">> ELSE <<>>
\* changed_snapshot: an update carries a snapshot only when it changed.
Changed(v) == IF v = authority THEN None ELSE v

\* reserve_process_jobs: children that run hold the slots of their jobs.
Reserves(n) == owned + n <= MaxWorkerJobs

\* apply_update for an update with a new authority v, n process effects and,
\* if quit, a QuitPending effect: reserve, observe, commit, and
\* begin_terminal_worker (shutdown flush, then seal).
ApplyUpdate(v, n, quit) ==
    /\ run = "live" /\ budget.updates < MaxUpdates
    /\ v # authority \/ n > 0 \/ quit
    /\ budget' = [budget EXCEPT !.updates = @ + 1]
    /\ authority' = v
    /\ LET c == observe(coord, Changed(v))
           flush == shutdown_snapshot(c)
           jobs == [i \in 1..n |-> "Process"]
           sent == IF ~quit THEN jobs
                   ELSE IF flush = None THEN jobs \o <<"Seal">>
                   ELSE jobs \o Announce(worker.pending) \o <<"Seal">>
       IN  IF ~Reserves(n)
           THEN run' = "refused" /\ UNCHANGED <<coord, worker, messages, owned>>
           ELSE IF ~Fits(sent)
           THEN run' = "failed" /\ UNCHANGED <<coord, worker, messages, owned>>
           ELSE /\ coord' = c
                /\ owned' = owned + n
                /\ messages' = messages \o sent
                /\ worker' = [worker EXCEPT
                       !.outstanding = @ + n,
                       !.pending = IF quit /\ flush # None
                                   THEN [sequence |-> Final, snapshot |-> flush] ELSE @,
                       !.sealed = IF quit THEN FenceTicks ELSE @]
                /\ run' = IF quit THEN "sealed" ELSE run
    /\ UNCHANGED <<reply, results, eventfd, thread, reaper, file>>

\* RuntimeOwners::submit_due_snapshot with Worker::submit_snapshot.
SubmitDueSnapshot ==
    /\ run = "live" /\ IsDue(coord)
    /\ coord' = take_due(coord)
    /\ IF Fits(Announce(worker.pending))
       THEN /\ messages' = messages \o Announce(worker.pending)
            /\ worker' = [worker EXCEPT !.pending = take_due(coord).in_flight]
            /\ UNCHANGED run
       ELSE run' = "failed" /\ UNCHANGED <<messages, worker>>
    /\ UNCHANGED <<authority, reply, results, eventfd, owned, thread, reaper, file, budget>>

\* RuntimeOwners::service_worker: one result, and what the loop does with it.
ServiceWorker ==
    /\ run \in {"live", "sealed", "exiting"} /\ TakesResult
    /\ LET result == Taken
           took == [worker EXCEPT !.notified = Announced - 1]
           written == result.kind = "SnapshotWritten"
       IN  /\ worker' =
                CASE result.kind = "Process" -> [took EXCEPT !.outstanding = @ - 1]
                  [] result.kind = "Fence" -> [took EXCEPT !.fenced = TRUE]
                  [] result.kind = "SnapshotRequested" -> [took EXCEPT !.pending = None]
                  [] written /\ result.sequence = Final ->
                       [took EXCEPT !.final_write = IF result.ok THEN "ok" ELSE "failed"]
                  [] OTHER -> took
           /\ reply' = IF result.kind = "SnapshotRequested" /\ reply = <<>>
                       THEN <<worker.pending>> ELSE reply
           /\ coord' = IF written /\ result.sequence # Final /\ Expected(coord, result.sequence)
                       THEN complete(coord, result.ok) ELSE coord
           /\ run' = IF \/ result.kind \in {"SnapshotRead", "Disconnected"}
                        \/ result.kind = "SnapshotRequested" /\ reply # <<>>
                        \/ /\ written /\ result.sequence # Final
                           /\ ~Expected(coord, result.sequence)
                     THEN "failed" ELSE run
    /\ UNCHANGED <<authority, messages, owned, thread, reaper, file, budget>>

\* advance_shutdown once the control server has drained, then the exit when
\* the backend reports it complete (crates/realm-session/src/backend/river.rs).
\* A fence that waits for its acknowledgement however long it takes.
FenceStatus_NoDeadline == IF worker.fenced THEN "Acknowledged" ELSE "Pending"
FenceStatus == IF worker.fenced THEN "Acknowledged"
               ELSE IF worker.sealed = 0 THEN "TimedOut" ELSE "Pending"
AdvanceShutdown ==
    /\ run = "sealed" /\ FenceStatus # "Pending"
    /\ run' = "exiting"
    /\ UNCHANGED <<authority, coord, worker, channels, owned, thread, reaper, file, budget>>
ExitComplete ==
    /\ run = "exiting"
    /\ run' = "exited"
    /\ UNCHANGED <<authority, coord, worker, channels, owned, thread, reaper, file, budget>>

-----------------------------------------------------------------------------
(* The environment.                                                        *)

\* Time passes for the dirty deadline and for the fence deadline.
Tick ==
    /\ Alive
    /\ coord' = AgeDirty(coord)
    /\ worker' = IF worker.sealed \in {None, 0} THEN worker
                 ELSE [worker EXCEPT !.sealed = @ - 1]
    /\ UNCHANGED <<authority, channels, owned, thread, reaper, file, run, budget>>

\* The daemon dies at any point, or has ended; the next one starts from file.
Restart ==
    /\ budget.restarts < MaxRestarts
    /\ run # "loading"
    /\ authority' = None /\ coord' = NewCoordinator(None) /\ worker' = NewWorker
    /\ messages' = <<"ReadSnapshot">> /\ reply' = <<>> /\ results' = <<>>
    /\ eventfd' = 0 /\ owned' = 0 /\ thread' = [at |-> "recv"]
    /\ reaper' = [sent |-> 0, held |-> 0] /\ run' = "loading"
    /\ budget' = [budget EXCEPT !.restarts = @ + 1]
    /\ UNCHANGED file

Terminated == ~Alive /\ UNCHANGED vars

LoopStep ==
    \/ StartupRead
    \/ \E v \in Snap : BecomeLive(v)
    \/ SubmitDueSnapshot
    \/ ServiceWorker
    \/ AdvanceShutdown

Next ==
    \/ LoopStep
    \/ ExitComplete
    \/ \E v \in Snap, n \in 0..1, quit \in BOOLEAN : ApplyUpdate(v, n, quit)
    \/ WorkerStep
    \/ ReaperStep
    \/ Tick
    \/ Restart
    \/ Terminated

Spec == Init /\ [][Next]_vars

-----------------------------------------------------------------------------
\* No try_send of the loop finds its channel full, no completion is one the
\* coordinator does not expect, no announced result is missing, and the
\* reaper's channel never overflows: the errors of worker.rs that end the
\* daemon do not happen (MAX_WORKER_JOBS + 2 messages are exactly enough).
NoWorkerError == run \notin {"failed", "aborted"}

\* What the loop's slot, the channels and the thread hold of snapshot writes.
JobsUnderway ==
    {<<"slot", worker.pending>>} \cup {<<"reply", reply[i]>> : i \in DOMAIN reply}
    \cup (IF thread.at \in {"temporary", "rename", "parent"}
          THEN {<<"thread", thread.job>>} ELSE {})
Outcomes ==
    {<<i, results[i].sequence>> :
        i \in {k \in DOMAIN results : results[k].kind = "SnapshotWritten"}}
    \cup (IF thread.at = "send" /\ thread.result.kind = "SnapshotWritten"
          THEN {<<0, thread.result.sequence>>} ELSE {})

\* What three threads hand to each other is neither lost nor doubled.  A slot of
\* owned_children belongs to a queued spawn or to a child the reaper has.  The
\* eventfd and the loop's own count announce exactly the queued results, but for
\* the one send_result is about to announce.  Before the seal the request in
\* flight is in exactly one place between the loop's slot and its result, and
\* no other is: two writes never overlap.
HandoffsExact ==
    /\ owned <= MaxWorkerJobs
    /\ owned = Cardinality({i \in DOMAIN messages : messages[i] = "Process"})
               + reaper.sent + reaper.held
    /\ Len(results) = eventfd + worker.notified + (IF thread.at = "notify" THEN 1 ELSE 0)
    /\ run = "live" =>
        LET jobs == {j \in JobsUnderway : j[2] # None}
        IN  /\ Cardinality(jobs) + Cardinality(Outcomes)
                 = (IF coord.in_flight = None THEN 0 ELSE 1)
            /\ \A j \in jobs : j[2] = coord.in_flight
            /\ \A o \in Outcomes : o[2] = coord.in_flight.sequence

\* A live session with nothing waiting and nothing in flight finds its own
\* snapshot in the file (SPEC 0003: "the desired value never ceased to be
\* durable").
DurableWhenQuiet ==
    run = "live" /\ coord.dirty = None /\ coord.in_flight = None => file = authority

\* The same, and once the fence is acknowledged the file holds the session's last
\* value or the loop has seen the shutdown flush fail, as long as no write has
\* failed after its rename: then write_snapshot_atomically reports what it did.
DurableUnlessLateFault ==
    ~budget.late =>
        /\ DurableWhenQuiet
        /\ worker.fenced => file = authority \/ worker.final_write = "failed"

\* Replacing a waiting snapshot never moves its deadline: only a completion
\* does (observe and SNAPSHOT_DELAY, "fixed deadline").
DeadlineNeverSlides ==
    [][coord.dirty # None /\ coord'.dirty # None /\ coord'.in_flight = coord.in_flight
         => coord'.dirty.left <= coord.dirty.left]_vars

-----------------------------------------------------------------------------
(* Fairness.  Every iteration of run_combined_loop submits, services one   *)
(* result and advances the shutdown, and time passes.  The worker is fair  *)
(* only where a property says so: its file system calls may hang.          *)

FairSpec == Spec /\ WF_vars(LoopStep) /\ WF_vars(Tick)

\* A sealed daemon goes on to leave the compositor session even when its
\* worker hangs in a write for ever (fence_status times out).
FenceAlwaysPasses == run = "sealed" ~> run # "sealed"

\* If the worker keeps running and the session settles on a value, the
\* coordinator ends with that value on record, whatever failed and was
\* coalesced before (take_due, complete).
EventuallyPersisted ==
    WF_vars(WorkerStep) => \A v \in Snap : <>[](run = "live" /\ authority = v) => <>[](coord.persisted = v)
=============================================================================
