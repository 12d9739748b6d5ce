------------------------- MODULE PersistenceProofs --------------------------
(***************************************************************************)
(* Proofs about SnapshotWorker, for any set of snapshots, any delay, any   *)
(* channel sizes and any number of updates, faults and restarts: the       *)
(* deadline of a waiting snapshot is fixed; no channel overflows and no    *)
(* completion is unexpected; what loop, worker and reaper hand over is     *)
(* neither lost nor doubled; and what the session wants is on disk when    *)
(* the coordinator says so, unless a write failed after its rename.        *)
(* WorkerInv is the inductive invariant; each action has a lemma.          *)
(***************************************************************************)
EXTENDS SnapshotWorker, FiniteSetTheorems, FunctionTheorems, TLAPS

\* A coordinator d that comes after c has not put off what waits in c.
NotPutOff(c, d) ==
    c.dirty # None /\ d.dirty # None /\ d.in_flight = c.in_flight => d.dirty.left <= c.dirty.left

\* What any method may leave behind.
Follows(c, d) == d \in Coordinator /\ NotPutOff(c, d)

-----------------------------------------------------------------------------
\* The values a coordinator's fields have.
LEMMA CoordinatorFields ==
    ASSUME NEW c \in Coordinator
    PROVE  /\ c.persisted \in Snap \cup {None} /\ c.next_sequence \in Nat
           /\ c.dirty # None => /\ c.dirty \in DirtySnapshot /\ c.dirty.snapshot \in Snap
                                /\ c.dirty.left \in 0..SnapshotDelay
           /\ c.in_flight # None => c.in_flight \in PersistRequest /\ c.in_flight.snapshot \in Snap
BY DEF Coordinator, DirtySnapshot, PersistRequest

\* What observe and complete put to wait has a deadline.
LEMMA ArmedIsDirty ==
    ASSUME NEW v \in Snap
    PROVE  Armed(v) \in DirtySnapshot
BY PersistenceAssumption DEF Armed, DirtySnapshot

\* A coordinator that starts, or starts again, waits for nothing.
LEMMA NewFollows ==
    ASSUME NEW c, NEW p \in Snap \cup {None}
    PROVE  Follows(c, NewCoordinator(p))
<1>1. NewCoordinator(p) \in Coordinator
  BY DEF NewCoordinator, Coordinator
<1>2. NewCoordinator(p).dirty = None
  BY DEF NewCoordinator
<1>. QED BY <1>1, <1>2 DEF Follows, NotPutOff

\* observe: a newer value takes the deadline of the one it replaces.
LEMMA ObserveFollows ==
    ASSUME NEW c \in Coordinator, NEW v \in Snap \cup {None}
    PROVE  Follows(c, observe(c, v))
<1>1. CASE observe(c, v) = c
  BY <1>1, CoordinatorFields DEF Follows, NotPutOff
<1>2. CASE v # None /\ observe(c, v) = [c EXCEPT !.dirty = None]
  BY <1>2 DEF Follows, NotPutOff, Coordinator
<1>3. CASE v # None /\ c.dirty # None /\ observe(c, v) = [c EXCEPT !.dirty.snapshot = v]
  <2> DEFINE e == [c.dirty EXCEPT !.snapshot = v]
  <2>1. c.dirty \in DirtySnapshot /\ v \in Snap
    BY <1>3, CoordinatorFields
  <2>2. e \in DirtySnapshot
    BY <2>1 DEF DirtySnapshot
  <2>3. e.left = c.dirty.left /\ c.dirty.left \in Nat
    BY <2>1, PersistenceAssumption DEF DirtySnapshot
  <2>4. observe(c, v) = [c EXCEPT !.dirty = e]
    BY <1>3
  <2> HIDE DEF e
  <2>. QED BY <2>2, <2>3, <2>4 DEF Follows, NotPutOff, Coordinator
<1>4. CASE v # None /\ c.dirty = None /\ observe(c, v) = [c EXCEPT !.dirty = Armed(v)]
  BY <1>4, ArmedIsDirty DEF Follows, NotPutOff, Coordinator
<1>. QED BY <1>1, <1>2, <1>3, <1>4 DEF observe

\* take_due moves what waits into flight.
LEMMA TakeDueFollows ==
    ASSUME NEW c \in Coordinator, IsDue(c)
    PROVE  Follows(c, take_due(c))
<1>1. c.dirty.snapshot \in Snap /\ c.next_sequence \in Nat
  BY CoordinatorFields DEF IsDue
<1> DEFINE request == [sequence |-> c.next_sequence, snapshot |-> c.dirty.snapshot]
           next == c.next_sequence + 1
<1>2. request \in PersistRequest /\ next \in Nat
  BY <1>1 DEF PersistRequest
<1>3. take_due(c) = [c EXCEPT !.dirty = None, !.in_flight = request, !.next_sequence = next]
  BY DEF take_due, Coordinator
<1> HIDE DEF request, next
<1>. QED BY <1>2, <1>3, Zenon DEF Follows, NotPutOff, Coordinator

\* complete may arm a new deadline, but then nothing is in flight any more.
LEMMA CompleteFollows ==
    ASSUME NEW c \in Coordinator, c.in_flight # None, NEW ok
    PROVE  Follows(c, complete(c, ok))
<1>1. c.in_flight.snapshot \in Snap
  BY CoordinatorFields
<1>2. Armed(c.in_flight.snapshot) \in DirtySnapshot
  BY <1>1, ArmedIsDirty
<1>3. Follows(c, CompleteSucceeded(c))
  BY <1>1, Zenon DEF CompleteSucceeded, Follows, NotPutOff, Coordinator
<1>4. Follows(c, CompleteFailed(c))
  BY <1>2, Zenon DEF CompleteFailed, Follows, NotPutOff, Coordinator
<1>. QED BY <1>3, <1>4 DEF complete

\* Time only shortens the wait.
LEMMA AgeFollows ==
    ASSUME NEW c \in Coordinator
    PROVE  Follows(c, AgeDirty(c))
<1>1. CASE c.dirty = None \/ c.dirty.left = 0
  BY <1>1, CoordinatorFields DEF AgeDirty, Follows, NotPutOff
<1>2. CASE c.dirty # None /\ c.dirty.left # 0
  <2> DEFINE e == [c.dirty EXCEPT !.left = @ - 1]
  <2>1. c.dirty \in DirtySnapshot /\ c.dirty.left \in 1..SnapshotDelay
    BY <1>2, CoordinatorFields, PersistenceAssumption
  <2>2. e \in DirtySnapshot /\ e.left <= c.dirty.left
    BY <2>1, PersistenceAssumption DEF DirtySnapshot
  <2>3. AgeDirty(c) = [c EXCEPT !.dirty = e]
    BY <1>2 DEF AgeDirty
  <2> HIDE DEF e
  <2>. QED BY <2>2, <2>3 DEF Follows, NotPutOff, Coordinator
<1>. QED BY <1>1, <1>2

-----------------------------------------------------------------------------
\* Every step of loop, worker, reaper and environment takes the coordinator
\* through one of its methods, or leaves it.
LEMMA StepFollows ==
    ASSUME coord \in Coordinator, [Next]_vars
    PROVE  Follows(coord, coord')
<1>1. ASSUME coord' = coord PROVE Follows(coord, coord')
  BY <1>1, CoordinatorFields DEF Follows, NotPutOff
<1>2. CASE StartupRead
  <2>1. \/ coord' = coord \/ \E p \in Snap \cup {None} : coord' = NewCoordinator(p)
    BY <1>2 DEF StartupRead, Recovered
  <2>. QED BY <1>1, <2>1, NewFollows
<1>3. ASSUME NEW v \in Snap, BecomeLive(v) PROVE Follows(coord, coord')
  BY <1>3, ObserveFollows DEF BecomeLive
<1>4. CASE SubmitDueSnapshot
  BY <1>4, TakeDueFollows DEF SubmitDueSnapshot
<1>5. CASE ServiceWorker
  <2>1. \/ coord' = coord
        \/ coord.in_flight # None /\ coord' = complete(coord, Taken.ok)
    BY <1>5 DEF ServiceWorker, Expected
  <2>. QED BY <1>1, <2>1, CompleteFollows
<1>6. ASSUME NEW v \in Snap, NEW n \in 0..1, NEW quit \in BOOLEAN, ApplyUpdate(v, n, quit)
      PROVE  Follows(coord, coord')
  <2>1. Changed(v) \in Snap \cup {None}
    BY DEF Changed
  <2>2. coord' = coord \/ coord' = observe(coord, Changed(v))
    BY <1>6 DEF ApplyUpdate
  <2>. QED BY <1>1, <2>1, <2>2, ObserveFollows
<1>7. CASE Tick
  BY <1>7, AgeFollows DEF Tick
<1>8. CASE Restart
  BY <1>8, NewFollows DEF Restart
<1>9. CASE AdvanceShutdown \/ ExitComplete \/ WorkerStep \/ ReaperStep \/ Terminated \/ UNCHANGED vars
  <2>1. coord' = coord
    BY <1>9, Zenon DEF AdvanceShutdown, ExitComplete, WorkerStep, WorkerRecv, WorkerSend, WorkerNotify,
                WorkerTakeReply, WriteStep, ReaperStep, Terminated, loopVars, vars
  <2>. QED BY <1>1, <2>1
<1>. QED BY <1>2, <1>3, <1>4, <1>5, <1>6, <1>7, <1>8, <1>9 DEF Next, LoopStep

\* The coordinator is always one that its methods accept.
THEOREM CoordinatorAlwaysValid == Spec => [](coord \in Coordinator)
<1>1. Init => coord \in Coordinator
  BY DEF Init, NewCoordinator, Coordinator
<1>2. coord \in Coordinator /\ [Next]_vars => (coord \in Coordinator)'
  BY StepFollows DEF Follows
<1>. QED BY <1>1, <1>2, PTL DEF Spec

\* The deadline of a waiting snapshot is never put off, however busy the session
\* is: only a completed write arms another (observe, SNAPSHOT_DELAY).
THEOREM DeadlineIsFixed == Spec => DeadlineNeverSlides
<1>1. coord \in Coordinator /\ [Next]_vars =>
        [coord.dirty # None /\ coord'.dirty # None /\ coord'.in_flight = coord.in_flight
           => coord'.dirty.left <= coord.dirty.left]_vars
  BY StepFollows DEF Follows, NotPutOff
<1>. QED BY <1>1, CoordinatorAlwaysValid, PTL DEF Spec, DeadlineNeverSlides

-----------------------------------------------------------------------------
(* The inductive invariant of loop, worker and reaper.                     *)

MessageKinds == {"ReadSnapshot", "Process", "SnapshotAvailable", "Seal"}
Jobs == [sequence : Nat \cup {Final}, snapshot : Snap]
Files == Snap \cup {Absent, Garbled}
Results ==
    [kind : {"Process", "SnapshotRequested", "Fence"}]
    \cup [kind : {"SnapshotRead"}, bytes : Files \cup {Unreadable}]
    \cup [kind : {"SnapshotWritten"}, sequence : Nat \cup {Final}, ok : BOOLEAN]
Threads ==
    [at : {"recv", "await", "done"}]
    \cup [at : {"send"}, result : Results, then : {"recv", "await", "done"}]
    \cup [at : {"notify"}, then : {"recv", "await", "done"}]
    \cup [at : {"temporary", "rename", "parent"}, job : Jobs]
Workers ==
    [pending : Jobs \cup {None}, outstanding : Int, sealed : Nat \cup {None},
     fenced : BOOLEAN, notified : Nat, final_write : {"none", "ok", "failed"}]

\* How often x is in the sequence m.
Count(m, x) == Cardinality({i \in DOMAIN m : m[i] = x})

Sends(kind) == thread.at = "send" /\ thread.result.kind = kind
Passes(to) == thread.at = to \/ (thread.at = "notify" /\ thread.then = to)
Writing == thread.at \in {"temporary", "rename", "parent"}
Requested == results # <<>> /\ results[Len(results)].kind = "SnapshotRequested"
Wrote == results # <<>> /\ results[1].kind = "SnapshotWritten"

TypesOK ==
    /\ authority \in Snap \cup {None} /\ coord \in Coordinator /\ worker \in Workers
    /\ messages \in Seq(MessageKinds) /\ results \in Seq(Results)
    /\ reply \in Seq(Jobs) /\ Len(reply) <= 1
    /\ eventfd \in Nat /\ owned \in Nat /\ thread \in Threads
    /\ reaper \in [sent : Nat, held : Nat] /\ file \in Files
    /\ run \in Running \cup {"refused", "exited"}
    /\ budget \in [updates : Nat, faults : Nat, restarts : Nat, late : BOOLEAN]

\* A slot of owned_children belongs to a queued spawn or to a child the reaper has.
SlotsOK ==
    /\ owned <= MaxWorkerJobs
    /\ owned = Count(messages, "Process") + reaper.sent + reaper.held

\* The eventfd and the loop's count announce the queued results.
AnnouncedOK ==
    Len(results) = eventfd + worker.notified + (IF thread.at = "notify" THEN 1 ELSE 0)

\* The queue holds spawns, at most one SnapshotAvailable, and the Seal last.
QueueOK ==
    /\ Len(messages) = Count(messages, "ReadSnapshot") + Count(messages, "Process")
                       + Count(messages, "SnapshotAvailable") + Count(messages, "Seal")
    /\ \A k \in DOMAIN messages : messages[k] = "Seal" => k = Len(messages)

\* A snapshot in the slot has been announced to the worker once: the message
\* is queued, or the thread is about to ask for it, or has asked.
TokenOK ==
    Count(messages, "SnapshotAvailable") + (IF Sends("SnapshotRequested") THEN 1 ELSE 0)
        + (IF Requested THEN 1 ELSE 0)
      = (IF worker.pending # None THEN 1 ELSE 0)

\* The order of what goes through the result channel.  A thread that has asked
\* for a snapshot sends nothing until it has it, so that the request is the
\* last result, and the outcome of a write the first.
PipeOK ==
    /\ thread.at = "send" =>
         thread.then = (CASE thread.result.kind = "SnapshotRequested" -> "await"
                          [] thread.result.kind = "Fence" -> "done"
                          [] OTHER -> "recv")
    /\ \A k \in DOMAIN results :
         /\ results[k].kind \in {"SnapshotRequested", "Fence"} => k = Len(results)
         /\ results[k].kind = "SnapshotWritten" => k = 1
    /\ Requested => Passes("await") /\ reply = <<>>
    /\ Passes("await") => Requested \/ reply # <<>>
    /\ reply # <<>> => Passes("await")
    /\ reply # <<>> \/ Writing \/ Sends("SnapshotWritten") => results = <<>>

\* The fence is the worker's last word.
FenceOK ==
    /\ Sends("Fence") \/ Passes("done") => messages = <<>> /\ worker.pending = None
    /\ (\E k \in DOMAIN results : results[k].kind = "Fence") => Passes("done")
    /\ worker.fenced => Passes("done") /\ results = <<>>

Idle == worker.pending = None /\ reply = <<>> /\ ~Writing /\ ~Sends("SnapshotWritten") /\ ~Wrote

\* The start waits for the snapshot it has asked for.
LoadingOK ==
    run = "loading" =>
        /\ authority = None /\ coord = NewCoordinator(None) /\ worker.pending = None
        /\ \/ messages = <<"ReadSnapshot">> /\ thread.at = "recv" /\ results = <<>>
           \/ /\ messages = <<>> /\ results = <<>> /\ Sends("SnapshotRead")
              /\ thread.result.bytes \in {file, Unreadable}
           \/ /\ messages = <<>> /\ Len(results) = 1 /\ Passes("recv")
              /\ results[1].kind = "SnapshotRead" /\ results[1].bytes \in {file, Unreadable}

\* Only the start reads the snapshot.
ReadOnce ==
    run # "loading" =>
        /\ Count(messages, "ReadSnapshot") = 0 /\ ~Sends("SnapshotRead")
        /\ \A k \in DOMAIN results : results[k].kind # "SnapshotRead"

\* Only the end seals the worker.
Unsealed ==
    run \in {"loading", "recovering", "live"} =>
        /\ Count(messages, "Seal") = 0 /\ ~Sends("Fence") /\ ~Passes("done") /\ ~worker.fenced
        /\ \A k \in DOMAIN results : results[k].kind # "Fence"

\* What was read is what the file holds when the session goes live.
RecoveringOK ==
    run = "recovering" =>
        /\ Idle /\ coord.dirty = None /\ coord.in_flight = None
        /\ coord.persisted # None => coord.persisted = file

\* What the session wants on disk is what waits, else what is in flight, else
\* what is persisted.
Desired(c) == IF c.dirty # None THEN c.dirty.snapshot
              ELSE IF c.in_flight # None THEN c.in_flight.snapshot ELSE c.persisted

\* While the session is live the request in flight is in exactly one place.
LiveOK ==
    run = "live" =>
        /\ authority \in Snap /\ Desired(coord) = authority
        /\ worker.pending # None =>
             /\ worker.pending = coord.in_flight
             /\ reply = <<>> /\ ~Writing /\ ~Sends("SnapshotWritten") /\ ~Wrote
        /\ reply # <<>> => reply[1] = coord.in_flight
        /\ Writing => thread.job = coord.in_flight
        /\ Sends("SnapshotWritten") => Expected(coord, thread.result.sequence)
        /\ Wrote => Expected(coord, results[1].sequence)
        /\ Idle => coord.in_flight = None
        /\ ~budget.late =>
             IF \/ thread.at = "parent"
                \/ Sends("SnapshotWritten") /\ thread.result.ok
                \/ Wrote /\ results[1].ok
             THEN file = coord.in_flight.snapshot
             ELSE coord.persisted # None => file = coord.persisted

\* The write of an earlier request, which only runs ahead of the shutdown flush.
Earlier(sequence) == Expected(coord, sequence) /\ worker.pending # None
\* The write of the shutdown flush.
Flush(sequence) == sequence = Final /\ worker.pending = None

\* Once sealed, the slot holds the shutdown flush.
SealedOK ==
    run \in {"sealed", "exiting", "exited"} =>
        /\ authority \in Snap
        /\ worker.pending # None => worker.pending = [sequence |-> Final, snapshot |-> authority]
        /\ reply # <<>> =>
             \/ Earlier(reply[1].sequence)
             \/ Flush(reply[1].sequence) /\ reply[1].snapshot = authority
        /\ Writing =>
             \/ Earlier(thread.job.sequence)
             \/ /\ Flush(thread.job.sequence) /\ thread.job.snapshot = authority
                /\ thread.at = "parent" => file = authority
        /\ Sends("SnapshotWritten") =>
             \/ Earlier(thread.result.sequence)
             \/ Flush(thread.result.sequence) /\ (thread.result.ok => file = authority)
        /\ Wrote =>
             \/ Earlier(results[1].sequence)
             \/ Flush(results[1].sequence) /\ (results[1].ok => file = authority)
        /\ Idle /\ ~budget.late => file = authority \/ worker.final_write = "failed"

WorkerInv ==
    /\ TypesOK /\ SlotsOK /\ AnnouncedOK /\ QueueOK /\ TokenOK /\ PipeOK /\ FenceOK
    /\ LoadingOK /\ ReadOnce /\ Unsealed /\ RecoveringOK /\ LiveOK /\ SealedOK

-----------------------------------------------------------------------------
(* Queues.                                                                 *)

\* A sequence has finitely many places.
LEMMA PlacesFinite ==
    ASSUME NEW S, NEW m \in Seq(S), NEW x
    PROVE  IsFiniteSet({i \in DOMAIN m : m[i] = x}) /\ Count(m, x) \in Nat
<1>1. IsFiniteSet(1..Len(m)) /\ {i \in DOMAIN m : m[i] = x} \in SUBSET (1..Len(m))
  BY FS_Interval
<1>2. IsFiniteSet({i \in DOMAIN m : m[i] = x})
  BY <1>1, FS_Subset
<1>. QED BY <1>2, FS_CardinalityType DEF Count

\* What is sent to a queue adds to what it holds.
LEMMA CountConcat ==
    ASSUME NEW S, NEW m \in Seq(S), NEW t \in Seq(S), NEW x
    PROVE  Count(m \o t, x) = Count(m, x) + Count(t, x)
<1>. DEFINE M == {i \in DOMAIN m : m[i] = x}
            T == {i \in DOMAIN t : t[i] = x}
            Shifted == {i \in Len(m) + 1 .. Len(m) + Len(t) : t[i - Len(m)] = x}
            Common == M \cap Shifted
            f == [i \in T |-> i + Len(m)]
<1>1. {i \in DOMAIN (m \o t) : (m \o t)[i] = x} = M \cup Shifted
  OBVIOUS
<1>2. Common = {}
  OBVIOUS
<1>3. IsFiniteSet(M) /\ IsFiniteSet(T)
  BY PlacesFinite, Zenon
<1>4. IsFiniteSet(Shifted) /\ Cardinality(Shifted) = Cardinality(T)
  <2>1. f \in [T -> Shifted] /\ \A i, j \in T : f[i] = f[j] => i = j
    OBVIOUS
  <2>2. \A k \in Shifted : \E i \in T : f[i] = k
    <3>. TAKE k \in Shifted
    <3>1. k - Len(m) \in T /\ f[k - Len(m)] = k
      OBVIOUS
    <3>. QED BY <3>1
  <2>. HIDE DEF f, T, Shifted
  <2>3. ExistsBijection(T, Shifted)
    BY <2>1, <2>2 DEF ExistsBijection, Bijection, Injection, Surjection, IsInjective
  <2>. QED BY <1>3, <2>3, FS_Bijection
<1>. HIDE DEF M, T, Shifted, Common
<1>5. Cardinality(Common) = 0
  BY <1>2, FS_EmptySet
<1>6. Cardinality(M) \in Nat /\ Cardinality(T) \in Nat
  BY <1>3, FS_CardinalityType
<1>7. Cardinality(M \cup Shifted) = Cardinality(M) + Cardinality(T)
  <2>1. Cardinality(M \cup Shifted) = Cardinality(M) + Cardinality(Shifted) - Cardinality(M \cap Shifted)
    BY <1>3, <1>4, FS_Union
  <2>2. Cardinality(M \cap Shifted) = 0
    BY <1>5, Zenon DEF Common
  <2>. QED BY <1>4, <1>6, <2>1, <2>2
<1>. QED BY <1>1, <1>7, Zenon DEF Count, M, T

\* The places of an empty queue, and of one with a single message.
LEMMA CountFew ==
    ASSUME NEW x, NEW y
    PROVE  Count(<<>>, x) = 0 /\ Count(<<y>>, x) = IF x = y THEN 1 ELSE 0
<1>1. {i \in DOMAIN <<>> : <<>>[i] = x} = {}
  OBVIOUS
<1>2. {i \in DOMAIN <<y>> : <<y>>[i] = x} = IF x = y THEN {1} ELSE {}
  OBVIOUS
<1>. QED BY <1>1, <1>2, FS_EmptySet, FS_Singleton DEF Count

\* Nothing is in the empty queue.
LEMMA CountNone ==
    ASSUME NEW x
    PROVE  Count(<<>>, x) = 0
BY CountFew, Zenon

\* What is counted nowhere is at no place.
LEMMA CountedNowhere ==
    ASSUME NEW S, NEW m \in Seq(S), NEW x, Count(m, x) = 0
    PROVE  \A k \in DOMAIN m : m[k] # x
<1>1. IsFiniteSet({i \in DOMAIN m : m[i] = x})
  BY PlacesFinite
<1>2. {i \in DOMAIN m : m[i] = x} = {}
  BY <1>1, FS_EmptySet DEF Count
<1>. QED BY <1>2

\* What is taken from a queue is no longer in it.
LEMMA CountTail ==
    ASSUME NEW S, NEW m \in Seq(S), m # <<>>, NEW x
    PROVE  Count(m, x) = Count(Tail(m), x) + (IF m[1] = x THEN 1 ELSE 0)
<1>. DEFINE h == <<m[1]>>
            t == Tail(m)
            one == IF m[1] = x THEN 1 ELSE 0
<1>1. m = h \o t /\ h \in Seq(S) /\ t \in Seq(S)
  OBVIOUS
<1>2. Count(h, x) = one /\ one \in Nat
  BY CountFew
<1>. HIDE DEF h, t, one
<1>3. Count(m, x) = Count(h \o t, x)
  BY <1>1, Zenon
<1>4. Count(h \o t, x) = Count(h, x) + Count(t, x)
  BY <1>1, CountConcat
<1>5. Count(t, x) \in Nat
  BY <1>1, PlacesFinite, Zenon
<1>6. Count(m, x) = Count(t, x) + one
  BY <1>2, <1>3, <1>4, <1>5
<1>. QED BY <1>6 DEF t, one

-----------------------------------------------------------------------------
(* Shapes of results and of the thread.                                    *)

\* The fields of a result, by its kind.
LEMMA ResultShape ==
    ASSUME NEW r \in Results
    PROVE  /\ r.kind \in {"Process", "SnapshotRequested", "Fence", "SnapshotRead", "SnapshotWritten"}
           /\ r.kind = "SnapshotRead" => r.bytes \in Files \cup {Unreadable}
           /\ r.kind = "SnapshotWritten" => r.sequence \in Nat \cup {Final} /\ r.ok \in BOOLEAN
BY DEF Results

\* The fields of the thread, by its place in the worker loop.
LEMMA ThreadShape ==
    ASSUME NEW t \in Threads
    PROVE  /\ t.at \in {"recv", "await", "done", "send", "notify", "temporary", "rename", "parent"}
           /\ t.at = "send" => t.result \in Results /\ t.then \in {"recv", "await", "done"}
           /\ t.at = "notify" => t.then \in {"recv", "await", "done"}
           /\ t.at \in {"temporary", "rename", "parent"} => t.job \in Jobs
BY DEF Threads

\* A write job is not the empty slot.
LEMMA JobIsSome ==
    ASSUME NEW j \in Jobs
    PROVE  j # None /\ j.snapshot \in Snap /\ j.sequence \in Nat \cup {Final}
BY PersistenceAssumption, WorkerAssumption DEF Jobs, PersistRequest

\* The thread that is about to send.
LEMMA SendingShape ==
    ASSUME NEW r \in Results, NEW to \in {"recv", "await", "done"}
    PROVE  /\ Sending(r, to) \in Threads /\ Sending(r, to).at = "send"
           /\ Sending(r, to).result = r /\ Sending(r, to).then = to
BY DEF Sending, Threads

\* The queue after a message has been taken from it.
LEMMA QueueTail ==
    ASSUME NEW m \in Seq(MessageKinds), m # <<>>
    PROVE  /\ Tail(m) \in Seq(MessageKinds) /\ Len(Tail(m)) = Len(m) - 1 /\ Head(m) \in MessageKinds
           /\ \A k \in DOMAIN Tail(m) : k + 1 \in DOMAIN m /\ Tail(m)[k] = m[k + 1]
           /\ \A x \in MessageKinds :
                /\ Count(m, x) \in Nat /\ Count(Tail(m), x) \in Nat
                /\ Count(m, x) = Count(Tail(m), x) + (IF Head(m) = x THEN 1 ELSE 0)
<1>1. /\ Tail(m) \in Seq(MessageKinds) /\ Len(Tail(m)) = Len(m) - 1 /\ Head(m) \in MessageKinds
      /\ \A k \in DOMAIN Tail(m) : k + 1 \in DOMAIN m /\ Tail(m)[k] = m[k + 1]
      /\ Head(m) = m[1]
  OBVIOUS
<1>2. ASSUME NEW x \in MessageKinds
      PROVE  /\ Count(m, x) \in Nat /\ Count(Tail(m), x) \in Nat
             /\ Count(m, x) = Count(Tail(m), x) + (IF Head(m) = x THEN 1 ELSE 0)
  BY <1>1, PlacesFinite, CountTail, Zenon
<1>. QED BY <1>1, <1>2

\* worker_main takes a message.
LEMMA WorkerRecvOK ==
    ASSUME WorkerInv, WorkerRecv
    PROVE  WorkerInv'
<1>0. /\ TypesOK /\ SlotsOK /\ AnnouncedOK /\ QueueOK /\ TokenOK /\ PipeOK /\ FenceOK
      /\ LoadingOK /\ ReadOnce /\ Unsealed /\ RecoveringOK /\ LiveOK /\ SealedOK
  BY DEF WorkerInv
<1>. DEFINE message == Head(messages)
            m == Tail(messages)
<1>1. PICK bytes \in {file, Unreadable} :
        /\ bytes = Unreadable => message = "ReadSnapshot"
        /\ message = "ReadSnapshot" =>
             thread' = Sending([kind |-> "SnapshotRead", bytes |-> bytes], "recv")
        /\ message = "Process" => thread' = Sending([kind |-> "Process"], "recv")
        /\ message = "SnapshotAvailable" => thread' = Sending([kind |-> "SnapshotRequested"], "await")
        /\ message = "Seal" => thread' = Sending([kind |-> "Fence"], "done")
        /\ IF message = "Process" THEN SpawnOwned ELSE UNCHANGED <<owned, reaper, run>>
  BY DEF WorkerRecv
<1>2. /\ messages # <<>> /\ thread.at = "recv" /\ messages' = m /\ Alive
      /\ UNCHANGED <<authority, coord, worker, reply, results, eventfd, file, budget>>
  BY DEF WorkerRecv
<1>3. /\ m \in Seq(MessageKinds) /\ Len(m) = Len(messages) - 1 /\ message \in MessageKinds
      /\ \A k \in DOMAIN m : k + 1 \in DOMAIN messages /\ m[k] = messages[k + 1]
      /\ \A x \in MessageKinds :
           /\ Count(messages, x) \in Nat /\ Count(m, x) \in Nat
           /\ Count(messages, x) = Count(m, x) + (IF message = x THEN 1 ELSE 0)
      /\ message = messages[1] /\ 1 \in DOMAIN messages /\ messages \in Seq(MessageKinds)
  <2>1. messages \in Seq(MessageKinds)
    BY <1>0 DEF TypesOK
  <2>. QED BY <1>2, <2>1, QueueTail
<1>. HIDE DEF message, m
<1>4. /\ thread' \in Threads /\ thread'.at = "send" /\ thread'.result.kind \in
             {"SnapshotRead", "Process", "SnapshotRequested", "Fence"}
      /\ message = "ReadSnapshot" <=> thread'.result.kind = "SnapshotRead"
      /\ message = "Process" <=> thread'.result.kind = "Process"
      /\ message = "SnapshotAvailable" <=> thread'.result.kind = "SnapshotRequested"
      /\ message = "Seal" <=> thread'.result.kind = "Fence"
      /\ thread'.result.kind = "SnapshotRead" => thread'.result.bytes = bytes /\ thread'.then = "recv"
      /\ thread'.result.kind = "Process" => thread'.then = "recv"
      /\ thread'.result.kind = "SnapshotRequested" => thread'.then = "await"
      /\ thread'.result.kind = "Fence" => thread'.then = "done"
  <2>1. /\ [kind |-> "SnapshotRead", bytes |-> bytes] \in Results
        /\ [kind |-> "Process"] \in Results /\ [kind |-> "SnapshotRequested"] \in Results
        /\ [kind |-> "Fence"] \in Results
    BY <1>0 DEF Results, TypesOK
  <2>2. CASE message = "ReadSnapshot"
    <3>. DEFINE r == [kind |-> "SnapshotRead", bytes |-> bytes]
    <3>1. thread' = Sending(r, "recv") /\ r.kind = "SnapshotRead" /\ r.bytes = bytes /\ r \in Results
      BY <1>1, <2>1, <2>2
    <3>. HIDE DEF r
    <3>. QED BY <2>2, <3>1, SendingShape
  <2>3. CASE message = "Process"
    BY <1>1, <2>1, <2>3, SendingShape
  <2>4. CASE message = "SnapshotAvailable"
    BY <1>1, <2>1, <2>4, SendingShape
  <2>5. CASE message = "Seal"
    BY <1>1, <2>1, <2>5, SendingShape
  <2>. QED BY <1>3, <2>2, <2>3, <2>4, <2>5 DEF MessageKinds
<1>5. /\ owned' \in Nat /\ reaper' \in [sent : Nat, held : Nat] /\ run' = run
      /\ owned' <= MaxWorkerJobs
      /\ owned' = Count(m, "Process") + reaper'.sent + reaper'.held
  <2>1. /\ owned \in Nat /\ reaper \in [sent : Nat, held : Nat] /\ owned <= MaxWorkerJobs
        /\ owned = Count(messages, "Process") + reaper.sent + reaper.held
    BY <1>0 DEF TypesOK, SlotsOK
  <2>2. /\ Count(m, "Process") \in Nat
        /\ Count(messages, "Process") = Count(m, "Process") + (IF message = "Process" THEN 1 ELSE 0)
    BY <1>3 DEF MessageKinds
  <2>. QED BY <1>1, <2>1, <2>2, WorkerAssumption DEF SpawnOwned
<1>6. /\ Count(messages, "ReadSnapshot")
           = Count(m, "ReadSnapshot") + (IF message = "ReadSnapshot" THEN 1 ELSE 0)
      /\ Count(messages, "Process") = Count(m, "Process") + (IF message = "Process" THEN 1 ELSE 0)
      /\ Count(messages, "SnapshotAvailable")
           = Count(m, "SnapshotAvailable") + (IF message = "SnapshotAvailable" THEN 1 ELSE 0)
      /\ Count(messages, "Seal") = Count(m, "Seal") + (IF message = "Seal" THEN 1 ELSE 0)
      /\ Count(m, "ReadSnapshot") \in Nat /\ Count(m, "Process") \in Nat
      /\ Count(m, "SnapshotAvailable") \in Nat /\ Count(m, "Seal") \in Nat
  BY <1>3 DEF MessageKinds
<1>20. TypesOK'
  BY <1>0, <1>2, <1>3, <1>4, <1>5 DEF TypesOK
<1>7. SlotsOK' /\ AnnouncedOK'
  BY <1>0, <1>2, <1>4, <1>5 DEF SlotsOK, AnnouncedOK
<1>8. QueueOK' /\ TokenOK'
  <2>1. QueueOK'
    <3>1. /\ Len(m) = Count(m, "ReadSnapshot") + Count(m, "Process")
                      + Count(m, "SnapshotAvailable") + Count(m, "Seal")
      <4>1. /\ Len(m) = Len(messages) - 1
            /\ message \in {"ReadSnapshot", "Process", "SnapshotAvailable", "Seal"}
            /\ Len(messages) = Count(messages, "ReadSnapshot") + Count(messages, "Process")
                               + Count(messages, "SnapshotAvailable") + Count(messages, "Seal")
        BY <1>0, <1>3 DEF QueueOK, MessageKinds
      <4>. QED BY <1>6, <4>1, SMTT(30)
    <3>2. \A k \in DOMAIN m : m[k] = "Seal" => k = Len(m)
      BY <1>0, <1>3 DEF QueueOK
    <3>. QED BY <1>2, <3>1, <3>2 DEF QueueOK
  <2>2. TokenOK'
    BY <1>0, <1>2, <1>3, <1>4 DEF TokenOK, Sends, Requested, MessageKinds
  <2>. QED BY <2>1, <2>2
<1>9. PipeOK'
  BY <1>0, <1>2, <1>4 DEF PipeOK, Passes, Requested, Writing, Sends
<1>10. FenceOK'
  <2>1. message = "Seal" => m = <<>>
    <3>1. message = "Seal" => Len(messages) = 1
      BY <1>0, <1>3, Zenon DEF QueueOK
    <3>. QED BY <1>3, <3>1
  <2>2. message = "Seal" => worker.pending = None
    <3>1. message = "Seal" => Count(messages, "SnapshotAvailable") = 0
      <4>1. message = "Seal" => Count(m, "SnapshotAvailable") = Count(<<>>, "SnapshotAvailable")
        BY <2>1, Zenon
      <4>2. Count(<<>>, "SnapshotAvailable") = 0
        BY CountFew, Zenon
      <4>. QED BY <1>6, <4>1, <4>2
    <3>. QED BY <1>0, <1>2, <3>1 DEF TokenOK, PipeOK, Passes, Sends
  <2>3. ~Passes("done")
    BY <1>2 DEF Passes
  <2>. QED BY <1>0, <1>2, <1>4, <2>1, <2>2, <2>3 DEF FenceOK, Passes, Sends
<1>11. LoadingOK' /\ ReadOnce' /\ Unsealed' /\ RecoveringOK'
  <2>1. LoadingOK'
    <3>1. run = "loading" => messages = <<"ReadSnapshot">> /\ results = <<>> /\ message = "ReadSnapshot"
      BY <1>0, <1>2, <1>3 DEF LoadingOK, Passes, Sends
    <3>2. run = "loading" => m = <<>>
      BY <1>3, <3>1, SMTT(30)
    <3>3. run = "loading" => Sends("SnapshotRead")' /\ thread'.result.bytes \in {file, Unreadable}
      BY <1>4, <3>1 DEF Sends
    <3>4. run = "loading" => authority = None /\ coord = NewCoordinator(None) /\ worker.pending = None
      BY <1>0, Zenon DEF LoadingOK
    <3>5. run' = run /\ messages' = m /\ UNCHANGED <<authority, coord, worker, results, file>>
      BY <1>2, <1>5
    <3>. QED BY <3>1, <3>2, <3>3, <3>4, <3>5, Zenon DEF LoadingOK
  <2>2. ReadOnce'
    BY <1>0, <1>2, <1>3, <1>4, <1>5, SMTT(30) DEF ReadOnce, Sends, MessageKinds
  <2>3. Unsealed'
    BY <1>0, <1>2, <1>3, <1>4, <1>5, SMTT(30) DEF Unsealed, Sends, Passes, MessageKinds
  <2>4. RecoveringOK'
    BY <1>0, <1>2, <1>4, <1>5 DEF RecoveringOK, Idle, Writing, Sends, Wrote
  <2>. QED BY <2>1, <2>2, <2>3, <2>4
<1>12. LiveOK' /\ SealedOK'
  BY <1>0, <1>2, <1>4, <1>5 DEF LiveOK, SealedOK, Sends, Idle, Writing, Wrote, Expected, Earlier, Flush
<1>. QED BY <1>20, <1>7, <1>8, <1>9, <1>10, <1>11, <1>12, SMTT(30) DEF WorkerInv

\* The result channel after a send.
LEMMA ResultAppend ==
    ASSUME NEW s \in Seq(Results), NEW r \in Results
    PROVE  /\ Append(s, r) \in Seq(Results) /\ Len(Append(s, r)) = Len(s) + 1 /\ Append(s, r) # <<>>
           /\ Append(s, r)[Len(s) + 1] = r /\ \A k \in DOMAIN s : Append(s, r)[k] = s[k]
           /\ Append(s, r)[1] = IF s = <<>> THEN r ELSE s[1]
           /\ DOMAIN Append(s, r) = 1 .. Len(s) + 1 /\ DOMAIN s = 1 .. Len(s) /\ Len(s) \in Nat
OBVIOUS

\* The result channel after a receive.
LEMMA ResultTail ==
    ASSUME NEW s \in Seq(Results), s # <<>>
    PROVE  /\ Tail(s) \in Seq(Results) /\ Len(Tail(s)) = Len(s) - 1 /\ Head(s) = s[1]
           /\ 1 \in DOMAIN s /\ Len(s) \in DOMAIN s /\ Len(s) \in Nat \ {0} /\ s[1] \in Results
           /\ \A k \in DOMAIN Tail(s) : k + 1 \in DOMAIN s /\ Tail(s)[k] = s[k + 1]
           /\ Tail(s) = <<>> <=> Len(s) = 1
           /\ Tail(s) # <<>> => Tail(s)[Len(Tail(s))] = s[Len(s)]
BY SMTT(30)

\* send_result, up to the eventfd.
LEMMA WorkerSendOK ==
    ASSUME WorkerInv, WorkerSend
    PROVE  WorkerInv'
<1>0. /\ TypesOK /\ SlotsOK /\ AnnouncedOK /\ QueueOK /\ TokenOK /\ PipeOK /\ FenceOK
      /\ LoadingOK /\ ReadOnce /\ Unsealed /\ RecoveringOK /\ LiveOK /\ SealedOK
  BY DEF WorkerInv
<1>. DEFINE r == thread.result
            s == Append(results, r)
<1>1. /\ thread.at = "send" /\ results' = s /\ thread' = [at |-> "notify", then |-> thread.then]
      /\ UNCHANGED <<authority, coord, worker, run, messages, reply, eventfd, owned, reaper, file, budget>>
  BY DEF WorkerSend, loopVars
<1>2. /\ results \in Seq(Results) /\ r \in Results /\ thread.then \in {"recv", "await", "done"}
  BY <1>0, <1>1, ThreadShape DEF TypesOK
<1>3. /\ s \in Seq(Results) /\ Len(s) = Len(results) + 1 /\ s # <<>> /\ s[Len(s)] = r
      /\ s[Len(results) + 1] = r /\ \A k \in DOMAIN results : s[k] = results[k]
      /\ s[1] = IF results = <<>> THEN r ELSE results[1]
      /\ DOMAIN s = 1 .. Len(results) + 1 /\ DOMAIN results = 1 .. Len(results) /\ Len(results) \in Nat
  BY <1>2, ResultAppend
<1>4. /\ thread'.at = "notify" /\ thread'.then = thread.then /\ thread' \in Threads
  BY <1>1, <1>2 DEF Threads
<1>. HIDE DEF s
<1>5. /\ r.kind \in {"Process", "SnapshotRequested", "Fence", "SnapshotRead", "SnapshotWritten"}
      /\ r.kind = "SnapshotRequested" <=> thread.then = "await"
      /\ r.kind = "Fence" <=> thread.then = "done"
      /\ r.kind = "SnapshotWritten" => results = <<>>
      /\ reply = <<>> /\ ~Requested
      /\ \A k \in DOMAIN results : results[k].kind \notin {"Fence", "SnapshotRequested"}
  <2>1. r.kind \in {"Process", "SnapshotRequested", "Fence", "SnapshotRead", "SnapshotWritten"}
    BY <1>2, ResultShape
  <2>2. ~Passes("await") /\ ~Passes("done")
    BY <1>1 DEF Passes
  <2>3. /\ r.kind = "SnapshotRequested" <=> thread.then = "await"
        /\ r.kind = "Fence" <=> thread.then = "done"
        /\ r.kind = "SnapshotWritten" => results = <<>>
    BY <1>0, <1>1, <2>1 DEF PipeOK, Sends
  <2>4. reply = <<>> /\ ~Requested /\ \A k \in DOMAIN results : results[k].kind # "Fence"
    BY <1>0, <2>2 DEF PipeOK, FenceOK
  <2>5. \A k \in DOMAIN results : results[k].kind # "SnapshotRequested"
    BY <1>0, <1>3, <2>4 DEF PipeOK, Requested
  <2>. QED BY <2>1, <2>3, <2>4, <2>5
<1>6. TypesOK' /\ SlotsOK' /\ AnnouncedOK' /\ QueueOK'
  <2>1. TypesOK'
    BY <1>0, <1>1, <1>3, <1>4 DEF TypesOK
  <2>2. SlotsOK' /\ QueueOK'
    BY <1>0, <1>1 DEF SlotsOK, QueueOK
  <2>3. AnnouncedOK'
    <3>1. eventfd \in Nat /\ worker.notified \in Nat /\ Len(results) = eventfd + worker.notified
      BY <1>0, <1>1 DEF AnnouncedOK, TypesOK, Workers
    <3>. QED BY <1>1, <1>3, <1>4, <3>1 DEF AnnouncedOK
  <2>. QED BY <2>1, <2>2, <2>3
<1>7. TokenOK'
  <2>1. Requested' <=> Sends("SnapshotRequested")
    BY <1>1, <1>3 DEF Requested, Sends
  <2>2. ~Sends("SnapshotRequested")'
    BY <1>4 DEF Sends
  <2>3. Count(messages, "SnapshotAvailable") \in Nat
    BY <1>0, PlacesFinite, Zenon DEF TypesOK
  <2>. QED BY <1>0, <1>1, <1>5, <2>1, <2>2, <2>3, SMTT(30) DEF TokenOK
<1>8. PipeOK'
  <2>1. \A k \in DOMAIN s : /\ s[k].kind \in {"SnapshotRequested", "Fence"} => k = Len(s)
                            /\ s[k].kind = "SnapshotWritten" => k = 1
    <3>. TAKE k \in DOMAIN s
    <3>1. CASE k = Len(s)
      BY <1>3, <1>5, <3>1
    <3>2. CASE k \in DOMAIN results
      BY <1>0, <1>3, <1>5, <3>2 DEF PipeOK
    <3>. QED BY <1>3, <3>1, <3>2
  <2>2. Requested' <=> r.kind = "SnapshotRequested"
    BY <1>1, <1>3 DEF Requested
  <2>3. Passes("await")' <=> r.kind = "SnapshotRequested"
    BY <1>4, <1>5 DEF Passes
  <2>4. ~Writing' /\ ~Sends("SnapshotWritten")'
    BY <1>4 DEF Writing, Sends
  <2>. QED BY <1>1, <1>4, <1>5, <2>1, <2>2, <2>3, <2>4 DEF PipeOK
<1>9. FenceOK'
  <2>1. Passes("done")' <=> Sends("Fence")
    BY <1>1, <1>4, <1>5 DEF Passes, Sends
  <2>2. ~Sends("Fence")' /\ ~worker.fenced
    BY <1>0, <1>1, <1>4 DEF Sends, FenceOK, Passes
  <2>3. (\E k \in DOMAIN s : s[k].kind = "Fence") => r.kind = "Fence"
    BY <1>3, <1>5
  <2>. QED BY <1>0, <1>1, <2>1, <2>2, <2>3 DEF FenceOK, Sends
<1>10. LoadingOK' /\ ReadOnce' /\ Unsealed' /\ RecoveringOK'
  <2>1. LoadingOK'
    <3>1. run = "loading" => /\ messages = <<>> /\ results = <<>> /\ r.kind = "SnapshotRead"
                             /\ r.bytes \in {file, Unreadable}
      BY <1>0, <1>1 DEF LoadingOK, Sends, Passes
    <3>2. run = "loading" => Len(s) = 1 /\ s[1] = r /\ thread.then = "recv"
      BY <1>2, <1>3, <1>5, <3>1
    <3>. QED BY <1>0, <1>1, <1>4, <3>1, <3>2, Zenon DEF LoadingOK, Passes
  <2>2. ReadOnce'
    BY <1>0, <1>1, <1>3, <1>4, SMTT(30) DEF ReadOnce, Sends
  <2>3. Unsealed'
    BY <1>0, <1>1, <1>3, <1>4, <1>5, SMTT(30) DEF Unsealed, Sends, Passes
  <2>4. RecoveringOK'
    BY <1>0, <1>1, <1>3, <1>4, SMTT(30) DEF RecoveringOK, Idle, Writing, Sends, Wrote
  <2>. QED BY <2>1, <2>2, <2>3, <2>4
<1>11. /\ ~Writing /\ ~Writing' /\ ~Sends("SnapshotWritten")' /\ thread'.at # "parent"
       /\ Wrote' <=> Wrote \/ Sends("SnapshotWritten")
       /\ Wrote /\ ~Sends("SnapshotWritten") => s[1] = results[1]
       /\ Sends("SnapshotWritten") => s[1] = r /\ ~Wrote
  BY <1>1, <1>3, <1>4, <1>5 DEF Writing, Sends, Wrote
<1>12. Idle' <=> Idle
  BY <1>1, <1>11, Zenon DEF Idle
<1>13. LiveOK'
  BY <1>0, <1>1, <1>11, <1>12, ZenonT(30) DEF LiveOK, Expected, Sends
<1>14. SealedOK'
  BY <1>0, <1>1, <1>11, <1>12 DEF SealedOK, Expected, Earlier, Flush, Sends
<1>. QED BY <1>6, <1>7, <1>8, <1>9, <1>10, <1>13, <1>14 DEF WorkerInv

\* The eventfd write that announces a result.
LEMMA WorkerNotifyOK ==
    ASSUME WorkerInv, WorkerNotify
    PROVE  WorkerInv'
<1>0. /\ TypesOK /\ SlotsOK /\ AnnouncedOK /\ QueueOK /\ TokenOK /\ PipeOK /\ FenceOK
      /\ LoadingOK /\ ReadOnce /\ Unsealed /\ RecoveringOK /\ LiveOK /\ SealedOK
  BY DEF WorkerInv
<1>1. /\ thread.at = "notify" /\ eventfd' = eventfd + 1 /\ thread' = [at |-> thread.then]
      /\ UNCHANGED <<authority, coord, worker, run, messages, reply, results, owned, reaper, file, budget>>
  BY DEF WorkerNotify, loopVars
<1>2. thread.then \in {"recv", "await", "done"}
  BY <1>0, <1>1, ThreadShape, ZenonT(30) DEF TypesOK
<1>3. thread' \in Threads /\ thread'.at = thread.then
  BY <1>1, <1>2 DEF Threads
<1>4. /\ \A to \in {"recv", "await", "done"} : Passes(to)' <=> Passes(to)
      /\ \A kind : ~Sends(kind) /\ ~Sends(kind)'
      /\ ~Writing /\ ~Writing' /\ thread'.at \notin {"send", "notify", "parent"} /\ thread.at # "parent"
      /\ Requested' = Requested /\ Wrote' = Wrote
  BY <1>1, <1>2, <1>3, Zenon DEF Passes, Sends, Writing, Requested, Wrote
<1>5. Idle' <=> Idle
  BY <1>1, <1>4 DEF Idle
<1>6. TypesOK' /\ SlotsOK' /\ AnnouncedOK' /\ QueueOK' /\ TokenOK'
  <2>1. TypesOK'
    BY <1>0, <1>1, <1>3 DEF TypesOK
  <2>2. SlotsOK' /\ QueueOK'
    BY <1>0, <1>1 DEF SlotsOK, QueueOK
  <2>3. AnnouncedOK'
    <3>1. eventfd \in Nat /\ worker.notified \in Nat /\ Len(results) = eventfd + worker.notified + 1
      BY <1>0, <1>1 DEF AnnouncedOK, TypesOK, Workers
    <3>. QED BY <1>1, <1>4, <3>1 DEF AnnouncedOK
  <2>4. TokenOK'
    BY <1>0, <1>1, <1>4 DEF TokenOK
  <2>. QED BY <2>1, <2>2, <2>3, <2>4
<1>7. PipeOK' /\ FenceOK'
  <2>1. PipeOK'
    BY <1>0, <1>1, <1>4 DEF PipeOK
  <2>2. FenceOK'
    BY <1>0, <1>1, <1>4 DEF FenceOK
  <2>. QED BY <2>1, <2>2
<1>8. LoadingOK' /\ ReadOnce' /\ Unsealed' /\ RecoveringOK'
  <2>1. LoadingOK'
    BY <1>0, <1>1, <1>4, Zenon DEF LoadingOK
  <2>2. ReadOnce' /\ Unsealed'
    BY <1>0, <1>1, <1>4 DEF ReadOnce, Unsealed
  <2>3. RecoveringOK'
    BY <1>0, <1>1, <1>5, Zenon DEF RecoveringOK
  <2>. QED BY <2>1, <2>2, <2>3
<1>9. LiveOK'
  BY <1>0, <1>1, <1>4, <1>5, ZenonT(30) DEF LiveOK, Expected
<1>10. SealedOK'
  BY <1>0, <1>1, <1>4, <1>5 DEF SealedOK, Expected, Earlier, Flush
<1>. QED BY <1>6, <1>7, <1>8, <1>9, <1>10 DEF WorkerInv

\* The worker takes the snapshot it has asked for.
LEMMA WorkerTakeReplyOK ==
    ASSUME WorkerInv, WorkerTakeReply
    PROVE  WorkerInv'
<1>0. /\ TypesOK /\ SlotsOK /\ AnnouncedOK /\ QueueOK /\ TokenOK /\ PipeOK /\ FenceOK
      /\ LoadingOK /\ ReadOnce /\ Unsealed /\ RecoveringOK /\ LiveOK /\ SealedOK
  BY DEF WorkerInv
<1>. DEFINE job == reply[1]
<1>1. /\ thread.at = "await" /\ reply # <<>> /\ reply' = Tail(reply)
      /\ thread' = IF Head(reply) = None THEN [at |-> "recv"] ELSE [at |-> "temporary", job |-> Head(reply)]
      /\ UNCHANGED <<authority, coord, worker, run, messages, results, eventfd, owned, reaper, file, budget>>
  BY DEF WorkerTakeReply, loopVars
<1>2. job \in Jobs /\ Head(reply) = job /\ reply' = <<>>
  BY <1>0, <1>1 DEF TypesOK
<1>3. job # None
  BY <1>2, JobIsSome
<1>4. thread' = [at |-> "temporary", job |-> job]
  BY <1>1, <1>2, <1>3
<1>. HIDE DEF job
<1>5. thread' \in Threads /\ thread'.at = "temporary" /\ thread'.job = job
  BY <1>2, <1>4 DEF Threads
<1>6. /\ \A to \in {"recv", "await", "done"} : ~Passes(to)'
      /\ ~Passes("done") /\ Passes("await") /\ ~Passes("recv")
      /\ \A kind : ~Sends(kind) /\ ~Sends(kind)'
      /\ ~Writing /\ Writing' /\ results = <<>> /\ results' = <<>>
      /\ ~Requested /\ ~Requested' /\ ~Wrote /\ ~Wrote' /\ ~Idle /\ ~Idle'
      /\ run # "loading" /\ run # "recovering"
  <2>1. results = <<>>
    BY <1>0, <1>1 DEF PipeOK
  <2>2. /\ ~Requested /\ ~Requested' /\ ~Wrote /\ ~Wrote'
    BY <1>1, <2>1 DEF Requested, Wrote
  <2>3. /\ \A to \in {"recv", "await", "done"} : ~Passes(to)'
        /\ ~Passes("done") /\ Passes("await") /\ ~Passes("recv")
        /\ \A kind : ~Sends(kind) /\ ~Sends(kind)'
        /\ ~Writing /\ Writing' /\ ~Idle /\ ~Idle'
    BY <1>1, <1>5 DEF Passes, Sends, Writing, Idle
  <2>4. run # "loading" /\ run # "recovering"
    BY <1>0, <1>1, <2>1, <2>3 DEF LoadingOK, RecoveringOK
  <2>. QED BY <1>1, <2>1, <2>2, <2>3, <2>4
<1>7. TypesOK' /\ SlotsOK' /\ AnnouncedOK' /\ QueueOK' /\ TokenOK'
  <2>1. TypesOK'
    BY <1>0, <1>1, <1>2, <1>5 DEF TypesOK
  <2>2. SlotsOK' /\ QueueOK' /\ AnnouncedOK'
    BY <1>0, <1>1, <1>5, Zenon DEF SlotsOK, QueueOK, AnnouncedOK
  <2>3. TokenOK'
    BY <1>0, <1>1, <1>6 DEF TokenOK
  <2>. QED BY <2>1, <2>2, <2>3, Zenon
<1>8. PipeOK' /\ FenceOK' /\ LoadingOK' /\ ReadOnce' /\ Unsealed' /\ RecoveringOK'
  <2>1. PipeOK'
    BY <1>0, <1>2, <1>5, <1>6, Zenon DEF PipeOK
  <2>2. FenceOK'
    BY <1>0, <1>1, <1>6, Zenon DEF FenceOK
  <2>3. LoadingOK' /\ RecoveringOK'
    BY <1>1, <1>6 DEF LoadingOK, RecoveringOK
  <2>4. ReadOnce' /\ Unsealed'
    BY <1>0, <1>1, <1>6, Zenon DEF ReadOnce, Unsealed
  <2>. QED BY <2>1, <2>2, <2>3, <2>4
<1>9. LiveOK'
  BY <1>0, <1>1, <1>2, <1>5, <1>6, ZenonT(30) DEF LiveOK, Expected, job
<1>10. SealedOK'
  BY <1>0, <1>1, <1>2, <1>5, <1>6 DEF SealedOK, Expected, Earlier, Flush, job
<1>. QED BY <1>7, <1>8, <1>9, <1>10, SMTT(30) DEF WorkerInv

\* What a step of a write leaves of the state: the same job goes on, or its
\* outcome is about to be sent.
LEMMA WriteStepFacts ==
    ASSUME WorkerInv, WriteStep
    PROVE  /\ Writing /\ thread.job \in Jobs /\ thread' \in Threads
           /\ UNCHANGED <<authority, coord, worker, run, messages, reply, results, eventfd, owned, reaper>>
           /\ \/ /\ thread.at = "temporary" /\ thread'.at = "rename" /\ thread'.job = thread.job
                 /\ file' = file /\ budget' = budget
              \/ /\ thread.at = "rename" /\ thread'.at = "parent" /\ thread'.job = thread.job
                 /\ file' = thread.job.snapshot /\ budget' = budget
              \/ /\ thread.at = "parent" /\ thread'.at = "send" /\ thread'.then = "recv"
                 /\ thread'.result.kind = "SnapshotWritten" /\ thread'.result.ok
                 /\ thread'.result.sequence = thread.job.sequence
                 /\ file' = file /\ budget' = budget
              \/ /\ thread'.at = "send" /\ thread'.then = "recv"
                 /\ thread'.result.kind = "SnapshotWritten" /\ ~thread'.result.ok
                 /\ thread'.result.sequence = thread.job.sequence
                 /\ file' = file /\ (~budget'.late => ~budget.late /\ thread.at # "parent")
                 /\ budget' \in [updates : Nat, faults : Nat, restarts : Nat, late : BOOLEAN]
<1>0. TypesOK
  BY DEF WorkerInv
<1>1. /\ Writing /\ UNCHANGED <<authority, coord, worker, run, messages, reply, results, eventfd, owned, reaper>>
  BY SMTT(30) DEF WriteStep, Writing, loopVars, channels
<1>2. thread.job \in Jobs /\ thread \in Threads /\ thread.job.sequence \in Nat \cup {Final}
  BY <1>0, <1>1, ThreadShape, SMTT(30) DEF TypesOK, Writing, Jobs
<1>3. ASSUME NEW ok \in BOOLEAN
      PROVE  /\ Written(thread.job, ok) \in Threads /\ Written(thread.job, ok).at = "send"
             /\ Written(thread.job, ok).then = "recv"
             /\ Written(thread.job, ok).result.kind = "SnapshotWritten"
             /\ Written(thread.job, ok).result.ok = ok
             /\ Written(thread.job, ok).result.sequence = thread.job.sequence
  <2>. DEFINE r == [kind |-> "SnapshotWritten", sequence |-> thread.job.sequence, ok |-> ok]
  <2>1. r \in Results /\ r.kind = "SnapshotWritten" /\ r.ok = ok /\ r.sequence = thread.job.sequence
    BY <1>2 DEF Results
  <2>2. Written(thread.job, ok) = Sending(r, "recv")
    BY DEF Written
  <2>. HIDE DEF r
  <2>. QED BY <2>1, <2>2, SendingShape
<1>4. ASSUME NEW at \in {"rename", "parent"}
      PROVE  /\ [thread EXCEPT !.at = at] \in Threads /\ [thread EXCEPT !.at = at].at = at
             /\ [thread EXCEPT !.at = at].job = thread.job
  <2>1. thread \in [at : {"temporary", "rename", "parent"}, job : Jobs]
    BY <1>0, <1>1, ZenonT(30) DEF TypesOK, Threads, Writing
  <2>. QED BY <2>1 DEF Threads
<1>5. CASE /\ thread' = CASE thread.at = "temporary" -> [thread EXCEPT !.at = "rename"]
                          [] thread.at = "rename" -> [thread EXCEPT !.at = "parent"]
                          [] thread.at = "parent" -> Written(thread.job, TRUE)
           /\ file' = IF thread.at = "rename" THEN thread.job.snapshot ELSE file
           /\ UNCHANGED budget
  <2>1. CASE thread.at = "temporary"
    BY <1>1, <1>2, <1>4, <1>5, <2>1, Zenon
  <2>2. CASE thread.at = "rename"
    BY <1>1, <1>2, <1>4, <1>5, <2>2, Zenon
  <2>3. CASE thread.at = "parent"
    BY <1>1, <1>2, <1>3, <1>5, <2>3, Zenon
  <2>. QED BY <1>1, <2>1, <2>2, <2>3 DEF Writing
<1>6. CASE /\ thread' = Written(thread.job, FALSE) /\ UNCHANGED file
           /\ budget' = [budget EXCEPT !.faults = @ + 1, !.late = @ \/ thread.at = "parent"]
  <2>. DEFINE late == budget.late \/ thread.at = "parent"
              n == budget.faults + 1
  <2>1. /\ budget' \in [updates : Nat, faults : Nat, restarts : Nat, late : BOOLEAN]
        /\ ~budget'.late => ~budget.late /\ thread.at # "parent"
    <3>1. budget \in [updates : Nat, faults : Nat, restarts : Nat, late : BOOLEAN]
      BY <1>0 DEF TypesOK
    <3>2. budget' = [budget EXCEPT !.faults = n, !.late = late] /\ n \in Nat /\ late \in {TRUE, FALSE}
      <4>1. budget' = [budget EXCEPT !.faults = n, !.late = late]
        BY <1>6
      <4>2. n \in Nat
        BY <3>1
      <4>3. late \in {TRUE, FALSE}
        BY Zenon
      <4>. QED BY <4>1, <4>2, <4>3, Zenon
    <3>3. ~late => ~budget.late /\ thread.at # "parent"
      OBVIOUS
    <3>. HIDE DEF late, n
    <3>4. budget' \in [updates : Nat, faults : Nat, restarts : Nat, late : BOOLEAN]
      BY <3>1, <3>2, Zenon
    <3>5. budget'.late = late
      BY <3>1, <3>2
    <3>. QED BY <3>3, <3>4, <3>5, Zenon
  <2>. QED BY <1>1, <1>2, <1>3, <1>6, <2>1, Zenon
<1>. QED BY <1>5, <1>6, Zenon DEF WriteStep

\* write_snapshot_atomically goes on, or fails.
LEMMA WriteStepOK ==
    ASSUME WorkerInv, WriteStep
    PROVE  WorkerInv'
<1>0. /\ TypesOK /\ SlotsOK /\ AnnouncedOK /\ QueueOK /\ TokenOK /\ PipeOK /\ FenceOK
      /\ LoadingOK /\ ReadOnce /\ Unsealed /\ RecoveringOK /\ LiveOK /\ SealedOK
  BY DEF WorkerInv
<1>1. /\ Writing /\ thread.job \in Jobs /\ thread' \in Threads
      /\ UNCHANGED <<authority, coord, worker, run, messages, reply, results, eventfd, owned, reaper>>
  BY WriteStepFacts, Zenon
<1>2. \/ thread'.at \in {"rename", "parent"} /\ Writing'
      \/ /\ thread'.at = "send" /\ thread'.then = "recv" /\ thread'.result.kind = "SnapshotWritten"
         /\ ~Writing'
  BY WriteStepFacts DEF Writing
<1>3. /\ results = <<>> /\ reply = <<>> /\ ~Requested /\ ~Requested' /\ ~Wrote /\ ~Wrote'
      /\ \A to \in {"recv", "await", "done"} : ~Passes(to) /\ ~Passes(to)'
      /\ \A kind : ~Sends(kind) /\ (kind # "SnapshotWritten" => ~Sends(kind)')
      /\ Sends("SnapshotWritten")' <=> ~Writing'
      /\ thread.at \notin {"send", "notify"} /\ thread'.at # "notify"
  <2>1. /\ \A to \in {"recv", "await", "done"} : ~Passes(to) /\ ~Passes(to)'
        /\ \A kind : ~Sends(kind) /\ (kind # "SnapshotWritten" => ~Sends(kind)')
        /\ Sends("SnapshotWritten")' <=> ~Writing'
        /\ thread.at \notin {"send", "notify"} /\ thread'.at # "notify"
    BY <1>1, <1>2 DEF Passes, Sends, Writing
  <2>2. results = <<>> /\ reply = <<>>
    BY <1>0, <1>1, <2>1 DEF PipeOK
  <2>. QED BY <1>1, <2>1, <2>2, SMTT(30) DEF Requested, Wrote
<1>4. ~Idle /\ ~Idle' /\ run # "loading" /\ run # "recovering"
  <2>1. ~Idle /\ ~Idle'
    BY <1>1, <1>3, SMTT(30) DEF Idle
  <2>2. run # "loading"
    BY <1>0, <1>3, ZenonT(30) DEF LoadingOK, Passes
  <2>3. run # "recovering"
    BY <1>0, <2>1 DEF RecoveringOK
  <2>. QED BY <2>1, <2>2, <2>3
<1>5. TypesOK'
  <2>1. thread.job.snapshot \in Snap
    BY <1>1 DEF Jobs
  <2>2. file' \in Files /\ budget' \in [updates : Nat, faults : Nat, restarts : Nat, late : BOOLEAN]
    BY <1>0, <2>1, WriteStepFacts DEF TypesOK, Files
  <2>. QED BY <1>0, <1>1, <2>2, SMTT(30) DEF TypesOK
<1>6. SlotsOK' /\ QueueOK' /\ AnnouncedOK' /\ TokenOK'
  <2>1. SlotsOK' /\ QueueOK' /\ AnnouncedOK'
    BY <1>0, <1>1, <1>3 DEF SlotsOK, QueueOK, AnnouncedOK
  <2>2. TokenOK'
    BY <1>0, <1>1, <1>3 DEF TokenOK
  <2>. QED BY <2>1, <2>2, SMTT(30)
<1>7. PipeOK' /\ FenceOK' /\ LoadingOK' /\ ReadOnce' /\ Unsealed' /\ RecoveringOK'
  <2>1. PipeOK'
    BY <1>0, <1>1, <1>2, <1>3 DEF PipeOK
  <2>2. FenceOK'
    BY <1>0, <1>1, <1>3 DEF FenceOK
  <2>3. LoadingOK' /\ RecoveringOK'
    BY <1>1, <1>4 DEF LoadingOK, RecoveringOK
  <2>4. ReadOnce' /\ Unsealed'
    BY <1>0, <1>1, <1>3, Zenon DEF ReadOnce, Unsealed
  <2>. QED BY <2>1, <2>2, <2>3, <2>4
<1>8. LiveOK'
  <2>. SUFFICES ASSUME run = "live" PROVE LiveOK'
    BY <1>1, Zenon DEF LiveOK
  <2>1. /\ authority \in Snap /\ Desired(coord) = authority /\ worker.pending = None
        /\ coord.in_flight = thread.job /\ coord.in_flight # None
    BY <1>0, <1>1, JobIsSome, Zenon DEF LiveOK
  <2>2. Writing' => thread'.job = coord.in_flight
    BY <2>1, WriteStepFacts DEF Writing
  <2>3. Sends("SnapshotWritten")' => Expected(coord, thread'.result.sequence)
    BY <2>1, WriteStepFacts, Zenon DEF Sends, Expected
  <2>4. ~budget.late => IF thread.at = "parent" THEN file = coord.in_flight.snapshot
                        ELSE coord.persisted # None => file = coord.persisted
    BY <1>0, <1>3, Zenon DEF LiveOK
  <2>5. ~budget'.late => IF thread'.at = "parent" \/ (thread'.at = "send" /\ thread'.result.ok)
                         THEN file' = coord.in_flight.snapshot
                         ELSE coord.persisted # None => file' = coord.persisted
    BY <2>1, <2>4, WriteStepFacts
  <2>. QED BY <1>1, <1>3, <1>4, <2>1, <2>2, <2>3, <2>5, Zenon DEF LiveOK, Desired, Sends, Expected
<1>9. SealedOK'
  BY <1>0, <1>1, <1>3, <1>4, WriteStepFacts, Zenon DEF SealedOK, Expected, Earlier, Flush, Sends, Writing
<1>. QED BY <1>5, <1>6, <1>7, <1>8, <1>9 DEF WorkerInv

\* child_reaper takes or reaps a child.
LEMMA ReaperStepOK ==
    ASSUME WorkerInv, ReaperStep
    PROVE  WorkerInv'
<1>0. /\ TypesOK /\ SlotsOK /\ AnnouncedOK /\ QueueOK /\ TokenOK /\ PipeOK /\ FenceOK
      /\ LoadingOK /\ ReadOnce /\ Unsealed /\ RecoveringOK /\ LiveOK /\ SealedOK
  BY DEF WorkerInv
<1>1. UNCHANGED <<authority, coord, worker, run, messages, reply, results, eventfd, thread, file, budget>>
  BY DEF ReaperStep, loopVars, channels
<1>2. /\ owned' \in Nat /\ reaper' \in [sent : Nat, held : Nat] /\ owned' <= MaxWorkerJobs
      /\ owned' = Count(messages, "Process") + reaper'.sent + reaper'.held
  <2>1. Count(messages, "Process") \in Nat
    BY <1>0, PlacesFinite, Zenon DEF TypesOK
  <2>2. /\ owned \in Nat /\ reaper \in [sent : Nat, held : Nat] /\ owned <= MaxWorkerJobs
        /\ owned = Count(messages, "Process") + reaper.sent + reaper.held
    BY <1>0 DEF TypesOK, SlotsOK
  <2>3. CASE /\ reaper.sent > 0 /\ UNCHANGED owned
             /\ reaper' = [sent |-> reaper.sent - 1, held |-> reaper.held + 1]
    BY <2>1, <2>2, <2>3
  <2>4. CASE reaper.held > 0 /\ reaper' = [reaper EXCEPT !.held = @ - 1] /\ owned' = owned - 1
    BY <2>1, <2>2, <2>4, WorkerAssumption, SMTT(30)
  <2>. QED BY <2>3, <2>4 DEF ReaperStep
<1>3. TypesOK' /\ SlotsOK' /\ AnnouncedOK' /\ QueueOK'
  BY <1>0, <1>1, <1>2 DEF TypesOK, SlotsOK, AnnouncedOK, QueueOK
<1>4. TokenOK' /\ PipeOK' /\ FenceOK'
  BY <1>0, <1>1 DEF TokenOK, PipeOK, FenceOK, Sends, Requested, Passes, Writing
<1>5. LoadingOK' /\ ReadOnce' /\ Unsealed' /\ RecoveringOK'
  BY <1>0, <1>1, ZenonT(30) DEF LoadingOK, ReadOnce, Unsealed, RecoveringOK, Sends, Passes, Idle, Writing, Wrote
<1>6. LiveOK' /\ SealedOK'
  BY <1>0, <1>1, SMTT(30) DEF LiveOK, SealedOK, Sends, Idle, Writing, Wrote, Expected, Earlier, Flush
<1>. QED BY <1>3, <1>4, <1>5, <1>6 DEF WorkerInv

-----------------------------------------------------------------------------
(* What the coordinator's methods keep of the value the session wants.     *)

\* Time changes nothing of what is wanted.
LEMMA AgeDesired ==
    ASSUME NEW c \in Coordinator
    PROVE  /\ AgeDirty(c).in_flight = c.in_flight /\ AgeDirty(c).persisted = c.persisted
           /\ Desired(AgeDirty(c)) = Desired(c)
           /\ c.dirty = None => AgeDirty(c) = c
<1>1. CASE c.dirty = None \/ c.dirty.left = 0
  BY <1>1 DEF AgeDirty
<1>2. CASE c.dirty # None /\ c.dirty.left # 0
  <2> DEFINE e == [c.dirty EXCEPT !.left = @ - 1]
  <2>1. c.dirty \in DirtySnapshot /\ c.dirty.left \in 1..SnapshotDelay
    BY <1>2, CoordinatorFields, PersistenceAssumption
  <2>2. e \in DirtySnapshot /\ e.snapshot = c.dirty.snapshot
    BY <2>1, PersistenceAssumption DEF DirtySnapshot
  <2>3. e # None
    BY <2>2, PersistenceAssumption, ZenonT(30)
  <2>4. AgeDirty(c) = [c EXCEPT !.dirty = e]
    BY <1>2 DEF AgeDirty
  <2> HIDE DEF e
  <2>. QED BY <1>2, <2>2, <2>3, <2>4, SMTT(30) DEF Desired, Coordinator
<1>. QED BY <1>1, <1>2

\* observe: what was observed last is what is wanted.
LEMMA ObserveDesired ==
    ASSUME NEW c \in Coordinator, NEW v \in Snap
    PROVE  /\ observe(c, v).in_flight = c.in_flight /\ observe(c, v).persisted = c.persisted
           /\ Desired(observe(c, v)) = v
<1>1. v # None
  BY PersistenceAssumption
<1>2. CASE Holds(c.dirty, v)
  BY <1>2 DEF observe, Holds, Desired
<1>3. CASE ~Holds(c.dirty, v) /\ c.in_flight = None /\ c.persisted = v
  <2>1. observe(c, v) = [c EXCEPT !.dirty = None]
    BY <1>1, <1>3 DEF observe
  <2>. QED BY <1>3, <2>1 DEF Desired, Coordinator
<1>4. CASE ~Holds(c.dirty, v) /\ ~(c.in_flight = None /\ c.persisted = v) /\ c.dirty # None
  <2> DEFINE e == [c.dirty EXCEPT !.snapshot = v]
  <2>1. c.dirty \in DirtySnapshot
    BY <1>4, CoordinatorFields
  <2>2. e \in DirtySnapshot /\ e.snapshot = v
    BY <2>1 DEF DirtySnapshot
  <2>3. e # None
    BY <2>2, PersistenceAssumption
  <2>4. observe(c, v) = [c EXCEPT !.dirty = e]
    BY <1>1, <1>4 DEF observe
  <2> HIDE DEF e
  <2>. QED BY <2>2, <2>3, <2>4, SMTT(30) DEF Desired, Coordinator
<1>5. CASE c.dirty = None /\ ~(c.in_flight = None /\ c.persisted = v) /\ Holds(c.in_flight, v)
  BY <1>1, <1>5 DEF observe, Holds, Desired
<1>6. CASE c.dirty = None /\ ~(c.in_flight = None /\ c.persisted = v) /\ ~Holds(c.in_flight, v)
  <2>1. observe(c, v) = [c EXCEPT !.dirty = Armed(v)]
    BY <1>1, <1>6 DEF observe, Holds
  <2>2. Armed(v) # None /\ Armed(v).snapshot = v
    BY ArmedIsDirty, PersistenceAssumption DEF Armed
  <2>. QED BY <2>1, <2>2 DEF Desired, Coordinator
<1>. QED BY <1>2, <1>3, <1>4, <1>5, <1>6, SMTT(30)

\* take_due: what waited is in flight.
LEMMA TakeDueDesired ==
    ASSUME NEW c \in Coordinator, IsDue(c)
    PROVE  /\ take_due(c).in_flight \in PersistRequest /\ take_due(c).in_flight # None
           /\ take_due(c).persisted = c.persisted /\ Desired(take_due(c)) = Desired(c)
<1> DEFINE request == [sequence |-> c.next_sequence, snapshot |-> c.dirty.snapshot]
           next == c.next_sequence + 1
<1>1. request \in PersistRequest /\ request.snapshot = c.dirty.snapshot
  BY CoordinatorFields DEF PersistRequest, IsDue
<1>2. request # None
  BY <1>1, PersistenceAssumption, Zenon
<1>3. take_due(c) = [c EXCEPT !.dirty = None, !.in_flight = request, !.next_sequence = next]
  BY DEF take_due, Coordinator
<1> HIDE DEF request, next
<1>. QED BY <1>1, <1>2, <1>3, Zenon DEF Desired, IsDue, Coordinator

\* complete: what was wanted is still wanted.
LEMMA CompleteDesired ==
    ASSUME NEW c \in Coordinator, c.in_flight # None, NEW ok \in BOOLEAN
    PROVE  /\ complete(c, ok).in_flight = None /\ Desired(complete(c, ok)) = Desired(c)
           /\ complete(c, ok).persisted = IF ok THEN c.in_flight.snapshot ELSE c.persisted
<1>1. c.in_flight.snapshot \in Snap
  BY CoordinatorFields
<1>2. Armed(c.in_flight.snapshot) # None /\ Armed(c.in_flight.snapshot).snapshot = c.in_flight.snapshot
  BY <1>1, ArmedIsDirty, PersistenceAssumption DEF Armed
<1>3. CASE ok
  <2> DEFINE e == IF Holds(c.dirty, c.in_flight.snapshot) THEN None ELSE c.dirty
  <2>1. complete(c, ok) = [c EXCEPT !.in_flight = None, !.dirty = e, !.persisted = c.in_flight.snapshot]
    BY <1>3 DEF complete, CompleteSucceeded
  <2>2. IF e = None THEN Desired(c) = c.in_flight.snapshot ELSE e = c.dirty
    BY DEF Desired, Holds
  <2> HIDE DEF e
  <2>. QED BY <1>3, <2>1, <2>2, Zenon DEF Desired, Coordinator
<1>4. CASE ~ok
  <2> DEFINE failed == c.in_flight.snapshot
             e == IF c.dirty = None THEN Armed(failed)
                  ELSE IF c.persisted = c.dirty.snapshot THEN None
                  ELSE IF c.dirty.snapshot = failed THEN Armed(failed)
                  ELSE c.dirty
  <2>1. complete(c, ok) = [c EXCEPT !.in_flight = None, !.dirty = e]
    BY <1>4 DEF complete, CompleteFailed
  <2>2. IF e = None THEN Desired(c) = c.persisted ELSE e.snapshot = Desired(c)
    BY <1>2 DEF Desired
  <2> HIDE DEF e
  <2>. QED BY <1>4, <2>1, <2>2 DEF Desired, Coordinator
<1>. QED BY <1>3, <1>4

-----------------------------------------------------------------------------
(* Steps that leave the channels alone.                                    *)

\* Time passes.
LEMMA TickOK ==
    ASSUME WorkerInv, Tick
    PROVE  WorkerInv'
<1>0. /\ TypesOK /\ SlotsOK /\ AnnouncedOK /\ QueueOK /\ TokenOK /\ PipeOK /\ FenceOK
      /\ LoadingOK /\ ReadOnce /\ Unsealed /\ RecoveringOK /\ LiveOK /\ SealedOK
  BY DEF WorkerInv
<1>1. /\ coord' = AgeDirty(coord)
      /\ UNCHANGED <<authority, run, messages, reply, results, eventfd, owned, thread, reaper, file, budget>>
  BY DEF Tick, channels
<1>2. /\ worker' \in Workers /\ worker'.pending = worker.pending /\ worker'.fenced = worker.fenced
      /\ worker'.notified = worker.notified /\ worker'.final_write = worker.final_write
  <2>1. worker \in Workers
    BY <1>0 DEF TypesOK
  <2>2. CASE worker.sealed \in {None, 0}
    BY <2>1, <2>2 DEF Tick
  <2>3. CASE worker.sealed \notin {None, 0}
    <3>1. worker.sealed - 1 \in Nat /\ worker' = [worker EXCEPT !.sealed = worker.sealed - 1]
      BY <2>1, <2>3 DEF Tick, Workers
    <3>. QED BY <2>1, <3>1 DEF Workers
  <2>. QED BY <2>2, <2>3
<1>3. /\ coord' \in Coordinator /\ coord'.in_flight = coord.in_flight
      /\ coord'.persisted = coord.persisted /\ Desired(coord') = Desired(coord)
      /\ coord.dirty = None => coord' = coord
  <2>1. coord \in Coordinator
    BY <1>0 DEF TypesOK
  <2>2. AgeDirty(coord) \in Coordinator
    BY <2>1, AgeFollows, Zenon DEF Follows
  <2>. QED BY <1>1, <2>1, <2>2, AgeDesired
<1>4. TypesOK' /\ SlotsOK' /\ AnnouncedOK' /\ QueueOK'
  BY <1>0, <1>1, <1>2, <1>3 DEF TypesOK, SlotsOK, AnnouncedOK, QueueOK
<1>5. TokenOK' /\ PipeOK' /\ FenceOK'
  BY <1>0, <1>1, <1>2, ZenonT(30) DEF TokenOK, PipeOK, FenceOK, Sends, Requested, Passes, Writing
<1>6. LoadingOK' /\ ReadOnce' /\ Unsealed' /\ RecoveringOK'
  <2>1. run = "loading" => coord.dirty = None
    BY <1>0 DEF LoadingOK, NewCoordinator
  <2>2. LoadingOK'
    BY <1>0, <1>1, <1>2, <1>3, <2>1, Zenon DEF LoadingOK, Sends, Passes
  <2>3. ReadOnce' /\ Unsealed'
    BY <1>0, <1>1, <1>2, Zenon DEF ReadOnce, Unsealed, Sends, Passes
  <2>4. RecoveringOK'
    BY <1>0, <1>1, <1>2, <1>3, Zenon DEF RecoveringOK, Idle, Sends, Writing, Wrote
  <2>. QED BY <2>2, <2>3, <2>4
<1>7. LiveOK'
  BY <1>0, <1>1, <1>2, <1>3, ZenonT(30) DEF LiveOK, Sends, Idle, Writing, Wrote, Expected
<1>8. SealedOK'
  BY <1>0, <1>1, <1>2, <1>3 DEF SealedOK, Sends, Idle, Writing, Wrote, Expected, Earlier, Flush
<1>. QED BY <1>4, <1>5, <1>6, <1>7, <1>8 DEF WorkerInv

\* The loop leaves a sealed worker behind.
LEMMA LeaveOK ==
    ASSUME WorkerInv, AdvanceShutdown \/ ExitComplete
    PROVE  WorkerInv'
<1>0. /\ TypesOK /\ SlotsOK /\ AnnouncedOK /\ QueueOK /\ TokenOK /\ PipeOK /\ FenceOK
      /\ LoadingOK /\ ReadOnce /\ Unsealed /\ RecoveringOK /\ LiveOK /\ SealedOK
  BY DEF WorkerInv
<1>1. /\ run \in {"sealed", "exiting"} /\ run' \in {"exiting", "exited"}
      /\ UNCHANGED <<authority, coord, worker, messages, reply, results, eventfd, owned, thread,
                     reaper, file, budget>>
  BY DEF AdvanceShutdown, ExitComplete, channels
<1>2. TypesOK' /\ SlotsOK' /\ AnnouncedOK' /\ QueueOK'
  BY <1>0, <1>1 DEF TypesOK, SlotsOK, AnnouncedOK, QueueOK, Running
<1>3. TokenOK' /\ PipeOK' /\ FenceOK'
  BY <1>0, <1>1, Zenon DEF TokenOK, PipeOK, FenceOK, Sends, Requested, Passes, Writing
<1>4. LoadingOK' /\ ReadOnce' /\ Unsealed' /\ RecoveringOK' /\ LiveOK'
  BY <1>0, <1>1, ZenonT(30) DEF LoadingOK, ReadOnce, Unsealed, RecoveringOK, LiveOK, Sends
<1>5. SealedOK'
  BY <1>0, <1>1 DEF SealedOK, Sends, Idle, Writing, Wrote, Expected, Earlier, Flush
<1>. QED BY <1>2, <1>3, <1>4, <1>5 DEF WorkerInv

\* A daemon that has just started.
Started ==
    /\ authority = None /\ coord = NewCoordinator(None) /\ worker = NewWorker
    /\ messages = <<"ReadSnapshot">> /\ reply = <<>> /\ results = <<>>
    /\ eventfd = 0 /\ owned = 0 /\ thread = [at |-> "recv"]
    /\ reaper = [sent |-> 0, held |-> 0] /\ run = "loading" /\ file \in Files
    /\ budget \in [updates : Nat, faults : Nat, restarts : Nat, late : BOOLEAN]

\* A daemon that has just started.
LEMMA StartedOK == Started => WorkerInv
<1>. SUFFICES ASSUME Started PROVE WorkerInv
  OBVIOUS
<1>1. /\ Count(messages, "ReadSnapshot") = 1 /\ Count(messages, "Process") = 0
      /\ Count(messages, "SnapshotAvailable") = 0 /\ Count(messages, "Seal") = 0
  BY CountFew, ZenonT(30) DEF Started
<1>2. /\ thread \in Threads /\ thread.at = "recv" /\ worker \in Workers /\ worker.pending = None
      /\ worker.notified = 0 /\ ~worker.fenced /\ coord \in Coordinator
  BY SMTT(30) DEF Started, Threads, Workers, NewWorker, NewCoordinator, Coordinator
<1>3. /\ ~Requested /\ ~Wrote /\ ~Writing /\ \A kind : ~Sends(kind)
      /\ ~Passes("await") /\ ~Passes("done") /\ Passes("recv")
  BY <1>2 DEF Started, Requested, Wrote, Writing, Sends, Passes
<1>4. TypesOK
  BY <1>2 DEF Started, TypesOK, MessageKinds, Running
<1>5. SlotsOK /\ AnnouncedOK
  BY <1>1, <1>2, WorkerAssumption, SMTT(30) DEF Started, SlotsOK, AnnouncedOK
<1>6. QueueOK /\ TokenOK
  BY <1>1, <1>2, <1>3 DEF Started, QueueOK, TokenOK
<1>7. PipeOK /\ FenceOK
  BY <1>2, <1>3, SMTT(30) DEF Started, PipeOK, FenceOK
<1>8. LoadingOK /\ ReadOnce /\ Unsealed /\ RecoveringOK
  BY <1>1, <1>2, <1>3, SMTT(30) DEF Started, LoadingOK, ReadOnce, Unsealed, RecoveringOK
<1>9. LiveOK /\ SealedOK
  BY DEF Started, LiveOK, SealedOK
<1>. QED BY <1>4, <1>5, <1>6, <1>7, <1>8, <1>9 DEF WorkerInv

\* The next daemon starts from the file alone.
LEMMA RestartOK ==
    ASSUME WorkerInv, Restart
    PROVE  WorkerInv'
<1>1. Started'
  <2>1. budget \in [updates : Nat, faults : Nat, restarts : Nat, late : BOOLEAN] /\ file \in Files
    BY DEF WorkerInv, TypesOK
  <2>2. budget' \in [updates : Nat, faults : Nat, restarts : Nat, late : BOOLEAN]
    BY <2>1 DEF Restart
  <2>. QED BY <2>1, <2>2 DEF Restart, Started
<1>. QED BY <1>1, StartedOK, PTL

\* The first result is the snapshot that was read.
LEMMA StartupReadOK ==
    ASSUME WorkerInv, StartupRead
    PROVE  WorkerInv'
<1>0. /\ TypesOK /\ SlotsOK /\ AnnouncedOK /\ QueueOK /\ TokenOK /\ PipeOK /\ FenceOK
      /\ LoadingOK /\ ReadOnce /\ Unsealed /\ RecoveringOK /\ LiveOK /\ SealedOK
  BY DEF WorkerInv
<1>1. /\ run = "loading" /\ Announced > 0
      /\ UNCHANGED <<authority, messages, reply, owned, thread, reaper, file, budget>>
  BY DEF StartupRead, TakesResult
<1>2. /\ eventfd \in Nat /\ worker \in Workers /\ worker.notified \in Nat /\ Len(results) \in Nat
      /\ Len(results) = eventfd + worker.notified + (IF thread.at = "notify" THEN 1 ELSE 0)
  BY <1>0 DEF TypesOK, Workers, AnnouncedOK
<1>3. Len(results) # 0
  BY <1>1, <1>2, SMTT(30) DEF Announced
<1>4. /\ messages = <<>> /\ Len(results) = 1 /\ Passes("recv") /\ worker.pending = None
      /\ results[1].kind = "SnapshotRead" /\ results[1].bytes \in {file, Unreadable}
      /\ ~Sends("SnapshotRead")
  BY <1>0, <1>1, <1>3 DEF LoadingOK, Sends, Passes
<1>5. thread.at = "recv" /\ Announced = 1
  <2>1. worker.notified + eventfd > 0
    BY <1>1, <1>2 DEF Announced
  <2>2. 1 = eventfd + worker.notified + (IF thread.at = "notify" THEN 1 ELSE 0)
    BY <1>2, <1>4, Zenon
  <2>3. thread.at # "notify" /\ worker.notified + eventfd = 1
    BY <1>2, <2>1, <2>2
  <2>. QED BY <1>1, <1>2, <1>4, <2>3 DEF Announced, Passes
<1>6. Taken = results[1] /\ results' = <<>> /\ eventfd' = 0
  <2>1. results \in Seq(Results) /\ results # <<>> /\ Tail(results) = <<>> /\ Head(results) = results[1]
    <3>1. results \in Seq(Results) /\ Len(results) = 1
      BY <1>0, <1>4 DEF TypesOK
    <3>2. results # <<>>
      BY <3>1
    <3>. QED BY <3>1, <3>2, ResultTail, SMTT(30)
  <2>2. eventfd' = IF worker.notified = 0 THEN 0 ELSE eventfd
    BY DEF StartupRead, TakesResult
  <2>3. worker.notified # 0 => eventfd = 0
    BY <1>2, <1>4, <1>5 DEF Announced
  <2>. QED BY <2>1, <2>2, <2>3 DEF Taken, StartupRead, TakesResult
<1>7. /\ worker' \in Workers /\ worker'.pending = None /\ worker'.fenced = worker.fenced
      /\ worker'.notified = 0 /\ worker'.final_write = worker.final_write
  <2>1. worker' = [worker EXCEPT !.notified = 0]
    BY <1>5 DEF StartupRead
  <2>. QED BY <1>2, <1>4, <2>1, SMTT(30) DEF Workers
<1>8. /\ run' = IF results[1].bytes = Unreadable THEN "refused" ELSE "recovering"
      /\ coord' = IF run' = "recovering" THEN NewCoordinator(Recovered(results[1].bytes)) ELSE coord
  BY <1>4, <1>6 DEF StartupRead
<1>9. /\ coord' \in Coordinator /\ run' \in {"refused", "recovering"}
      /\ run' = "recovering" => /\ coord'.dirty = None /\ coord'.in_flight = None
                                /\ coord'.persisted # None => coord'.persisted = file
  <2>1. Recovered(results[1].bytes) \in Snap \cup {None}
    BY DEF Recovered
  <2>2. CASE results[1].bytes = Unreadable
    BY <1>0, <1>8, <2>2 DEF TypesOK
  <2>3. CASE results[1].bytes # Unreadable
    <3>1. results[1].bytes = file /\ coord' = NewCoordinator(Recovered(file)) /\ run' = "recovering"
      BY <1>4, <1>8, <2>3
    <3>. QED BY <2>1, <3>1 DEF NewCoordinator, Coordinator, Recovered
  <2>. QED BY <2>2, <2>3
<1>10. /\ ~Requested' /\ ~Wrote' /\ ~Writing' /\ \A kind : ~Sends(kind)'
       /\ ~Passes("await")' /\ ~Passes("done")' /\ ~Requested /\ ~Sends("SnapshotRequested")
       /\ reply = <<>>
  <2>1. ~Passes("await") /\ ~Passes("done") /\ \A kind : ~Sends(kind)
    BY <1>5, Zenon DEF Passes, Sends
  <2>. QED BY <1>0, <1>1, <1>5, <1>6, <2>1 DEF Requested, Wrote, Writing, Sends, Passes, PipeOK
<1>11. TypesOK'
  BY <1>0, <1>1, <1>6, <1>7, <1>9, SMTT(30) DEF TypesOK, Running
<1>12. SlotsOK' /\ AnnouncedOK' /\ QueueOK'
  BY <1>0, <1>1, <1>5, <1>6, <1>7 DEF SlotsOK, AnnouncedOK, QueueOK
<1>13. TokenOK' /\ PipeOK' /\ FenceOK'
  <2>1. TokenOK'
    BY <1>0, <1>1, <1>4, <1>7, <1>10 DEF TokenOK
  <2>2. PipeOK'
    BY <1>1, <1>5, <1>6, <1>10, SMTT(30) DEF PipeOK
  <2>3. FenceOK'
    BY <1>0, <1>1, <1>6, <1>7, <1>10 DEF FenceOK, Unsealed
  <2>. QED BY <2>1, <2>2, <2>3, Zenon
<1>14. LoadingOK' /\ ReadOnce' /\ Unsealed' /\ RecoveringOK' /\ LiveOK' /\ SealedOK'
  <2>1. ReadOnce' /\ Unsealed'
    <3>1. Count(messages, "ReadSnapshot") = 0 /\ Count(messages, "Seal") = 0
      BY <1>4, CountFew, Zenon
    <3>. QED BY <1>0, <1>1, <1>6, <1>7, <1>10, <3>1 DEF ReadOnce, Unsealed
  <2>2. RecoveringOK'
    BY <1>1, <1>7, <1>9, <1>10, SMTT(30) DEF RecoveringOK, Idle
  <2>3. LoadingOK' /\ LiveOK' /\ SealedOK'
    BY <1>9 DEF LoadingOK, LiveOK, SealedOK
  <2>. QED BY <2>1, <2>2, <2>3, Zenon
<1>. QED BY <1>11, <1>12, <1>13, <1>14 DEF WorkerInv

\* The first live snapshot is observed.
LEMMA BecomeLiveOK ==
    ASSUME WorkerInv, NEW v \in Snap, BecomeLive(v)
    PROVE  WorkerInv'
<1>0. /\ TypesOK /\ SlotsOK /\ AnnouncedOK /\ QueueOK /\ TokenOK /\ PipeOK /\ FenceOK
      /\ LoadingOK /\ ReadOnce /\ Unsealed /\ RecoveringOK /\ LiveOK /\ SealedOK
  BY DEF WorkerInv
<1>1. /\ run = "recovering" /\ run' = "live" /\ authority' = v /\ coord' = observe(coord, v)
      /\ UNCHANGED <<worker, messages, reply, results, eventfd, owned, thread, reaper, file, budget>>
  BY Zenon DEF BecomeLive, channels
<1>2. /\ coord' \in Coordinator /\ coord'.in_flight = None /\ coord'.persisted = coord.persisted
      /\ Desired(coord') = v
  BY <1>0, <1>1, ObserveFollows, ObserveDesired, ZenonT(30) DEF TypesOK, RecoveringOK, Follows
<1>3. TypesOK' /\ SlotsOK' /\ AnnouncedOK' /\ QueueOK'
  BY <1>0, <1>1, <1>2 DEF TypesOK, SlotsOK, AnnouncedOK, QueueOK, Running
<1>4. TokenOK' /\ PipeOK' /\ FenceOK'
  BY <1>0, <1>1 DEF TokenOK, PipeOK, FenceOK, Sends, Requested, Passes, Writing
<1>5. LoadingOK' /\ ReadOnce' /\ Unsealed' /\ RecoveringOK' /\ SealedOK'
  <2>1. ReadOnce' /\ Unsealed'
    BY <1>0, <1>1, Zenon DEF ReadOnce, Unsealed, Sends, Passes
  <2>2. LoadingOK' /\ RecoveringOK' /\ SealedOK'
    BY <1>1, Zenon DEF LoadingOK, RecoveringOK, SealedOK
  <2>. QED BY <2>1, <2>2, Zenon
<1>6. /\ worker'.pending = None /\ reply' = <<>> /\ ~Writing' /\ ~Sends("SnapshotWritten")' /\ ~Wrote'
  BY <1>0, <1>1, Zenon DEF RecoveringOK, Idle, Writing, Sends, Wrote
<1>7. LiveOK'
  <2>1. thread'.at # "parent" /\ (coord'.persisted # None => file' = coord'.persisted)
    BY <1>0, <1>1, <1>2, <1>6, ZenonT(30) DEF RecoveringOK, Writing
  <2>. QED BY <1>1, <1>2, <1>6, <2>1, Zenon DEF LiveOK
<1>. QED BY <1>3, <1>4, <1>5, <1>7 DEF WorkerInv

-----------------------------------------------------------------------------
(* Steps of the loop that send.                                            *)

\* The queue after messages have been sent to it.
LEMMA QueueConcat ==
    ASSUME NEW m \in Seq(MessageKinds), NEW t \in Seq(MessageKinds)
    PROVE  /\ m \o t \in Seq(MessageKinds) /\ Len(m \o t) = Len(m) + Len(t)
           /\ \A k \in DOMAIN (m \o t) : \/ k \in DOMAIN m /\ (m \o t)[k] = m[k]
                                         \/ k - Len(m) \in DOMAIN t /\ (m \o t)[k] = t[k - Len(m)]
           /\ \A x \in MessageKinds :
                /\ Count(m \o t, x) = Count(m, x) + Count(t, x)
                /\ Count(m, x) \in Nat /\ Count(t, x) \in Nat
<1>1. /\ m \o t \in Seq(MessageKinds) /\ Len(m \o t) = Len(m) + Len(t)
      /\ \A k \in DOMAIN (m \o t) : \/ k \in DOMAIN m /\ (m \o t)[k] = m[k]
                                    \/ k - Len(m) \in DOMAIN t /\ (m \o t)[k] = t[k - Len(m)]
  OBVIOUS
<1>2. ASSUME NEW x \in MessageKinds
      PROVE  /\ Count(m \o t, x) = Count(m, x) + Count(t, x)
             /\ Count(m, x) \in Nat /\ Count(t, x) \in Nat
  BY CountConcat, PlacesFinite, Zenon
<1>. QED BY <1>1, <1>2, SMTT(30)

\* The queue of a live session has room for the jobs that owned_children
\* grants, for a SnapshotAvailable that is not queued yet, and for the Seal.
LEMMA QueueHasRoom ==
    ASSUME WorkerInv, run = "live"
    PROVE  /\ messages \in Seq(MessageKinds) /\ Len(messages) \in Nat
           /\ owned \in Nat /\ Len(messages) <= owned + (IF worker.pending = None THEN 0 ELSE 1)
           /\ owned <= MaxWorkerJobs
<1>1. /\ messages \in Seq(MessageKinds) /\ Len(messages) \in Nat /\ owned \in Nat
      /\ reaper.sent \in Nat /\ reaper.held \in Nat
  BY DEF WorkerInv, TypesOK
<1>2. /\ Count(messages, "ReadSnapshot") = 0 /\ Count(messages, "Seal") = 0
  BY DEF WorkerInv, ReadOnce, Unsealed
<1>3. Count(messages, "SnapshotAvailable") \in Nat /\ Count(messages, "Process") \in Nat
  BY <1>1, PlacesFinite, Zenon
<1>4. Count(messages, "SnapshotAvailable") <= (IF worker.pending = None THEN 0 ELSE 1)
  BY <1>3 DEF WorkerInv, TokenOK
<1>5. Len(messages) = Count(messages, "Process") + Count(messages, "SnapshotAvailable")
  <2>1. Len(messages) = Count(messages, "ReadSnapshot") + Count(messages, "Process")
                        + Count(messages, "SnapshotAvailable") + Count(messages, "Seal")
    BY DEF WorkerInv, QueueOK
  <2>. QED BY <1>1, <1>2, <1>3, <2>1
<1>6. owned = Count(messages, "Process") + reaper.sent + reaper.held /\ owned <= MaxWorkerJobs
  BY DEF WorkerInv, SlotsOK
<1>7. Count(messages, "Process") <= owned
  BY <1>1, <1>3, <1>6
<1>. QED BY <1>1, <1>3, <1>4, <1>5, <1>6, <1>7, SMTT(30)

\* While nothing is in flight, nothing is on its way.
LEMMA NothingInFlight ==
    ASSUME WorkerInv, run = "live", coord.in_flight = None
    PROVE  /\ worker.pending = None /\ reply = <<>> /\ ~Writing /\ ~Sends("SnapshotWritten") /\ ~Wrote
           /\ ~budget.late /\ coord.persisted # None => file = coord.persisted
<1>0. TypesOK /\ LiveOK
  BY DEF WorkerInv
<1>1. worker.pending = None
  BY <1>0, Zenon DEF LiveOK
<1>2. reply = <<>>
  <2>1. reply # <<>> => reply[1] \in Jobs
    BY <1>0 DEF TypesOK
  <2>. QED BY <1>0, <2>1, JobIsSome DEF LiveOK
<1>3. ~Writing
  <2>1. Writing => thread.job \in Jobs
    BY <1>0, ThreadShape, Zenon DEF TypesOK, Writing
  <2>. QED BY <1>0, <2>1, JobIsSome, Zenon DEF LiveOK
<1>4. ~Sends("SnapshotWritten") /\ ~Wrote
  BY <1>0, Zenon DEF LiveOK, Expected
<1>5. ~budget.late /\ coord.persisted # None => file = coord.persisted
  BY <1>0, <1>3, <1>4 DEF LiveOK, Writing
<1>. QED BY <1>1, <1>2, <1>3, <1>4, <1>5

\* A due snapshot goes into the slot and is announced.
LEMMA SubmitDueSnapshotOK ==
    ASSUME WorkerInv, SubmitDueSnapshot
    PROVE  WorkerInv'
<1>0. /\ TypesOK /\ SlotsOK /\ AnnouncedOK /\ QueueOK /\ TokenOK /\ PipeOK /\ FenceOK
      /\ LoadingOK /\ ReadOnce /\ Unsealed /\ RecoveringOK /\ LiveOK /\ SealedOK
  BY DEF WorkerInv
<1>1. /\ run = "live" /\ IsDue(coord) /\ coord' = take_due(coord)
      /\ UNCHANGED <<authority, reply, results, eventfd, owned, thread, reaper, file, budget>>
  BY DEF SubmitDueSnapshot
<1>2. coord \in Coordinator /\ worker \in Workers /\ messages \in Seq(MessageKinds)
  BY <1>0 DEF TypesOK
<1>3. /\ coord' \in Coordinator /\ coord'.in_flight \in PersistRequest /\ coord'.in_flight # None
      /\ coord'.persisted = coord.persisted /\ Desired(coord') = Desired(coord)
  <2>1. take_due(coord) \in Coordinator
    BY <1>1, <1>2, TakeDueFollows, Zenon DEF Follows
  <2>. QED BY <1>1, <1>2, <2>1, TakeDueDesired
<1>4. /\ worker.pending = None /\ reply = <<>> /\ ~Writing /\ ~Sends("SnapshotWritten") /\ ~Wrote
      /\ ~budget.late /\ coord.persisted # None => file = coord.persisted
  BY <1>1, NothingInFlight DEF IsDue
<1>. DEFINE t == <<"SnapshotAvailable">>
            m == messages \o t
<1>5. t \in Seq(MessageKinds) /\ Len(t) = 1 /\ Announce(worker.pending) = t /\ t[1] = "SnapshotAvailable"
      /\ DOMAIN t = 1..1
  BY <1>4 DEF MessageKinds, Announce
<1>6. Count(t, "ReadSnapshot") = 0 /\ Count(t, "Process") = 0 /\ Count(t, "Seal") = 0
      /\ Count(t, "SnapshotAvailable") = 1
  BY CountFew, Zenon
<1>. HIDE DEF t
<1>7. Fits(t)
  BY <1>1, <1>4, <1>5, QueueHasRoom, WorkerAssumption DEF Fits, MessageCapacity
<1>8. messages' = m /\ run' = run /\ worker' = [worker EXCEPT !.pending = coord'.in_flight]
  BY <1>1, <1>5, <1>7 DEF SubmitDueSnapshot
<1>9. /\ worker' \in Workers /\ worker'.pending = coord'.in_flight /\ worker'.pending # None
      /\ worker'.fenced = worker.fenced /\ worker'.notified = worker.notified
  <2>1. coord'.in_flight \in Jobs
    BY <1>3, Zenon DEF PersistRequest, Jobs
  <2>. QED BY <1>2, <1>3, <1>8, <2>1 DEF Workers
<1>10. /\ m \in Seq(MessageKinds) /\ Len(m) = Len(messages) + 1
       /\ \A k \in DOMAIN m : (k \in DOMAIN messages /\ m[k] = messages[k]) \/ m[k] = "SnapshotAvailable"
       /\ Count(m, "ReadSnapshot") = Count(messages, "ReadSnapshot")
       /\ Count(m, "Process") = Count(messages, "Process")
       /\ Count(m, "Seal") = Count(messages, "Seal")
       /\ Count(m, "SnapshotAvailable") = Count(messages, "SnapshotAvailable") + 1
       /\ Count(messages, "ReadSnapshot") \in Nat /\ Count(messages, "Process") \in Nat
       /\ Count(messages, "Seal") \in Nat /\ Count(messages, "SnapshotAvailable") \in Nat
  <2>0. m = messages \o t /\ messages \in Seq(MessageKinds) /\ t \in Seq(MessageKinds)
    BY <1>2, <1>5, Zenon
  <2>. HIDE DEF m
  <2>1. /\ m \in Seq(MessageKinds) /\ Len(m) = Len(messages) + Len(t)
        /\ \A k \in DOMAIN m : \/ k \in DOMAIN messages /\ m[k] = messages[k]
                               \/ k - Len(messages) \in DOMAIN t /\ m[k] = t[k - Len(messages)]
        /\ \A x \in MessageKinds :
             /\ Count(m, x) = Count(messages, x) + Count(t, x)
             /\ Count(messages, x) \in Nat /\ Count(t, x) \in Nat
    BY <2>0, QueueConcat, Zenon
  <2>2. \A k \in DOMAIN m : (k \in DOMAIN messages /\ m[k] = messages[k]) \/ m[k] = "SnapshotAvailable"
    BY <1>5, <2>1
  <2>. QED BY <1>5, <1>6, <2>1, <2>2 DEF MessageKinds
<1>. HIDE DEF m
<1>11. TypesOK' /\ SlotsOK' /\ AnnouncedOK'
  BY <1>0, <1>1, <1>3, <1>8, <1>9, <1>10 DEF TypesOK, SlotsOK, AnnouncedOK
<1>12. QueueOK'
  <2>1. \A k \in DOMAIN messages : messages[k] # "Seal"
    BY <1>0, <1>1, <1>2, CountedNowhere, Zenon DEF Unsealed
  <2>2. \A k \in DOMAIN m : m[k] # "Seal"
    BY <1>10, <2>1, Zenon
  <2>3. Len(m) = Count(m, "ReadSnapshot") + Count(m, "Process")
                 + Count(m, "SnapshotAvailable") + Count(m, "Seal")
    BY <1>0, <1>10 DEF QueueOK
  <2>. QED BY <1>8, <2>2, <2>3, Zenon DEF QueueOK
<1>13. TokenOK'
  <2>1. Sends("SnapshotRequested")' = Sends("SnapshotRequested") /\ Requested' = Requested
    BY <1>1 DEF Sends, Requested
  <2>. QED BY <1>0, <1>4, <1>8, <1>9, <1>10, <2>1, SMTT(30) DEF TokenOK
<1>14. PipeOK' /\ FenceOK'
  <2>1. PipeOK'
    BY <1>0, <1>1, ZenonT(30) DEF PipeOK, Sends, Requested, Passes, Writing
  <2>2. FenceOK'
    BY <1>0, <1>1, <1>9 DEF FenceOK, Unsealed, Sends, Passes
  <2>. QED BY <2>1, <2>2
<1>15. LoadingOK' /\ ReadOnce' /\ Unsealed' /\ RecoveringOK' /\ SealedOK'
  <2>1. ReadOnce' /\ Unsealed'
    BY <1>0, <1>1, <1>8, <1>9, <1>10 DEF ReadOnce, Unsealed, Sends, Passes
  <2>2. LoadingOK' /\ RecoveringOK' /\ SealedOK'
    BY <1>1, <1>8, Zenon DEF LoadingOK, RecoveringOK, SealedOK
  <2>. QED BY <2>1, <2>2
<1>16. LiveOK'
  <2>1. ~Writing' /\ ~Sends("SnapshotWritten")' /\ ~Wrote' /\ reply' = <<>> /\ ~Idle' /\ thread'.at # "parent"
    BY <1>1, <1>4, <1>9, Zenon DEF Writing, Sends, Wrote, Idle
  <2>2. authority \in Snap /\ Desired(coord) = authority
    BY <1>0, <1>1, Zenon DEF LiveOK
  <2>. QED BY <1>1, <1>3, <1>4, <1>9, <2>1, <2>2, Zenon DEF LiveOK
<1>. QED BY <1>11, <1>12, <1>13, <1>14, <1>15, <1>16, SMTT(30) DEF WorkerInv

-----------------------------------------------------------------------------
(* Steps of the loop that receive.                                         *)

\* What the loop takes from the result channel, and what it leaves there.
LEMMA TakenFacts ==
    ASSUME WorkerInv, TakesResult, run \in {"live", "sealed", "exiting"}
    PROVE  /\ Taken = results[1] /\ results # <<>> /\ results \in Seq(Results)
           /\ 1 \in DOMAIN results /\ Len(results) \in Nat \ {0}
           /\ results' = Tail(results) /\ results' \in Seq(Results) /\ Len(results') = Len(results) - 1
           /\ \A k \in DOMAIN results' : k + 1 \in DOMAIN results /\ results'[k] = results[k + 1]
           /\ results' = <<>> <=> Len(results) = 1
           /\ ~Wrote' /\ (Requested' <=> Requested /\ Len(results) # 1)
           /\ results[1] \in Results
           /\ results[1].kind \in {"Process", "SnapshotRequested", "Fence", "SnapshotWritten"}
           /\ reply = <<>> /\ ~Writing /\ ~Sends("SnapshotWritten")
           /\ eventfd' \in Nat /\ Announced - 1 \in Nat
           /\ Len(results) - 1 = eventfd' + (Announced - 1) + (IF thread.at = "notify" THEN 1 ELSE 0)
<1>0. TypesOK /\ AnnouncedOK /\ PipeOK /\ ReadOnce
  BY DEF WorkerInv
<1>1. /\ eventfd \in Nat /\ worker.notified \in Nat /\ results \in Seq(Results) /\ Len(results) \in Nat
      /\ Len(results) = eventfd + worker.notified + (IF thread.at = "notify" THEN 1 ELSE 0)
  BY <1>0 DEF TypesOK, AnnouncedOK, Workers
<1>2. /\ Announced > 0 /\ Announced = (IF worker.notified = 0 THEN eventfd ELSE worker.notified)
      /\ eventfd' = IF worker.notified = 0 THEN 0 ELSE eventfd
  BY DEF TakesResult, Announced
<1>3. /\ Len(results) \in Nat \ {0} /\ eventfd' \in Nat /\ Announced - 1 \in Nat
      /\ Len(results) - 1 = eventfd' + (Announced - 1) + (IF thread.at = "notify" THEN 1 ELSE 0)
  BY <1>1, <1>2, SMTT(30)
<1>4. results # <<>>
  BY <1>1, <1>3
<1>5. /\ Taken = results[1] /\ results' = Tail(results)
  BY <1>1, <1>4, ResultTail, Zenon DEF Taken, TakesResult
<1>6. /\ results' \in Seq(Results) /\ Len(results') = Len(results) - 1
      /\ 1 \in DOMAIN results /\ Len(results) \in DOMAIN results /\ results[1] \in Results
      /\ \A k \in DOMAIN results' : k + 1 \in DOMAIN results /\ results'[k] = results[k + 1]
      /\ results' = <<>> <=> Len(results) = 1
      /\ results' # <<>> => results'[Len(results')] = results[Len(results)]
  BY <1>1, <1>4, <1>5, ResultTail, Zenon
<1>7. results' # <<>> => 1 \in DOMAIN results' /\ 1 + 1 \in DOMAIN results /\ results'[1] = results[1 + 1]
  BY <1>1, <1>3, <1>6, SMTT(30)
<1>8. ~Wrote' /\ (Requested' <=> Requested /\ Len(results) # 1)
  BY <1>0, <1>4, <1>6, <1>7 DEF Wrote, Requested, PipeOK
<1>9. results[1].kind \in {"Process", "SnapshotRequested", "Fence", "SnapshotWritten"}
  BY <1>0, <1>6, ResultShape DEF ReadOnce
<1>10. reply = <<>> /\ ~Writing /\ ~Sends("SnapshotWritten")
  BY <1>0, <1>4, ZenonT(30) DEF PipeOK
<1>. QED BY <1>1, <1>3, <1>4, <1>5, <1>6, <1>8, <1>9, <1>10, ZenonT(30)

\* What service_worker does with the result, by its kind.
LEMMA ServiceFacts ==
    ASSUME WorkerInv, ServiceWorker
    PROVE  /\ run \in {"live", "sealed", "exiting"} /\ TakesResult
           /\ UNCHANGED <<authority, messages, owned, thread, reaper, file, budget>>
           /\ worker' \in Workers /\ worker'.notified = Announced - 1
           /\ LET r == results[1] IN
              /\ worker'.pending = IF r.kind = "SnapshotRequested" THEN None ELSE worker.pending
              /\ worker'.fenced = (worker.fenced \/ r.kind = "Fence")
              /\ IF r.kind = "SnapshotWritten" /\ r.sequence = Final
                 THEN worker'.final_write = IF r.ok THEN "ok" ELSE "failed"
                 ELSE worker'.final_write = worker.final_write
              /\ reply' = IF r.kind = "SnapshotRequested" THEN <<worker.pending>> ELSE <<>>
              /\ IF r.kind = "SnapshotWritten" /\ r.sequence # Final
                 THEN IF Expected(coord, r.sequence)
                      THEN coord' = complete(coord, r.ok) /\ run' = run
                      ELSE coord' = coord /\ run' = "failed"
                 ELSE coord' = coord /\ run' = run
<1>1. /\ run \in {"live", "sealed", "exiting"} /\ TakesResult
      /\ UNCHANGED <<authority, messages, owned, thread, reaper, file, budget>>
  BY Zenon DEF ServiceWorker
<1>. DEFINE r == results[1]
            took == [worker EXCEPT !.notified = Announced - 1]
<1>2. /\ Taken = r /\ r.kind \in {"Process", "SnapshotRequested", "Fence", "SnapshotWritten"}
      /\ reply = <<>> /\ Announced - 1 \in Nat
  BY <1>1, TakenFacts
<1>3. worker \in Workers
  BY DEF WorkerInv, TypesOK
<1>4. /\ took \in Workers /\ took.notified = Announced - 1 /\ took.pending = worker.pending
      /\ took.fenced = worker.fenced /\ took.final_write = worker.final_write
  BY <1>2, <1>3 DEF Workers
<1>5. worker' = CASE r.kind = "Process" -> [took EXCEPT !.outstanding = @ - 1]
                  [] r.kind = "Fence" -> [took EXCEPT !.fenced = TRUE]
                  [] r.kind = "SnapshotRequested" -> [took EXCEPT !.pending = None]
                  [] r.kind = "SnapshotWritten" /\ r.sequence = Final ->
                       [took EXCEPT !.final_write = IF r.ok THEN "ok" ELSE "failed"]
                  [] OTHER -> took
  BY <1>2 DEF ServiceWorker
<1>6. /\ reply' = IF r.kind = "SnapshotRequested" THEN <<worker.pending>> ELSE <<>>
      /\ IF r.kind = "SnapshotWritten" /\ r.sequence # Final
         THEN IF Expected(coord, r.sequence)
              THEN coord' = complete(coord, r.ok) /\ run' = run
              ELSE coord' = coord /\ run' = "failed"
         ELSE coord' = coord /\ run' = run
  BY <1>2, Zenon DEF ServiceWorker
<1>. HIDE DEF took, r
<1>7. /\ worker' \in Workers /\ worker'.notified = Announced - 1
      /\ worker'.pending = IF r.kind = "SnapshotRequested" THEN None ELSE worker.pending
      /\ worker'.fenced = (worker.fenced \/ r.kind = "Fence")
      /\ IF r.kind = "SnapshotWritten" /\ r.sequence = Final
         THEN worker'.final_write = IF r.ok THEN "ok" ELSE "failed"
         ELSE worker'.final_write = worker.final_write
  <2>1. CASE r.kind = "Process"
    <3>1. worker' = [took EXCEPT !.outstanding = @ - 1]
      BY <1>5, <2>1
    <3>. QED BY <1>4, <2>1, <3>1 DEF Workers
  <2>2. CASE r.kind = "Fence"
    <3>1. worker' = [took EXCEPT !.fenced = TRUE]
      BY <1>5, <2>2
    <3>. QED BY <1>4, <2>2, <3>1, Zenon DEF Workers
  <2>3. CASE r.kind = "SnapshotRequested"
    <3>1. worker' = [took EXCEPT !.pending = None]
      BY <1>5, <2>3, SMTT(30)
    <3>. QED BY <1>4, <2>3, <3>1 DEF Workers
  <2>4. CASE r.kind = "SnapshotWritten" /\ r.sequence = Final
    <3>. DEFINE f == IF r.ok THEN "ok" ELSE "failed"
    <3>1. worker' = [took EXCEPT !.final_write = f] /\ f \in {"none", "ok", "failed"}
      BY <1>5, <2>4
    <3>. HIDE DEF f
    <3>2. /\ worker' \in Workers /\ worker'.notified = Announced - 1
          /\ worker'.pending = worker.pending /\ worker'.fenced = worker.fenced /\ worker'.final_write = f
      BY <1>4, <3>1 DEF Workers
    <3>3. worker.fenced = (worker.fenced \/ r.kind = "Fence")
      BY <1>3, <2>4, Zenon DEF Workers
    <3>. QED BY <2>4, <3>2, <3>3 DEF f
  <2>5. CASE r.kind = "SnapshotWritten" /\ r.sequence # Final
    <3>1. worker' = took
      BY <1>5, <2>5
    <3>3. worker.fenced = (worker.fenced \/ r.kind = "Fence")
      BY <1>3, <2>5 DEF Workers
    <3>. QED BY <1>4, <2>5, <3>1, <3>3
  <2>. QED BY <1>2, <2>1, <2>2, <2>3, <2>4, <2>5, Zenon
<1>. QED BY <1>1, <1>6, <1>7 DEF r


\* A result of the worker is taken, and what it answers is done.
LEMMA ServiceWorkerOK ==
    ASSUME WorkerInv, ServiceWorker
    PROVE  WorkerInv'
<1>0. /\ TypesOK /\ SlotsOK /\ AnnouncedOK /\ QueueOK /\ TokenOK /\ PipeOK /\ FenceOK
      /\ LoadingOK /\ ReadOnce /\ Unsealed /\ RecoveringOK /\ LiveOK /\ SealedOK
  BY DEF WorkerInv
<1>. DEFINE r == results[1]
<1>1. /\ run \in {"live", "sealed", "exiting"}
      /\ UNCHANGED <<authority, messages, owned, thread, reaper, file, budget>>
      /\ worker' \in Workers /\ worker'.notified = Announced - 1
      /\ worker'.pending = IF r.kind = "SnapshotRequested" THEN None ELSE worker.pending
      /\ worker'.fenced = (worker.fenced \/ r.kind = "Fence")
      /\ IF r.kind = "SnapshotWritten" /\ r.sequence = Final
         THEN worker'.final_write = IF r.ok THEN "ok" ELSE "failed"
         ELSE worker'.final_write = worker.final_write
      /\ reply' = IF r.kind = "SnapshotRequested" THEN <<worker.pending>> ELSE <<>>
  BY ServiceFacts, Zenon
<1>2. /\ results # <<>> /\ results \in Seq(Results)
      /\ 1 \in DOMAIN results /\ Len(results) \in Nat \ {0}
      /\ results' \in Seq(Results) /\ Len(results') = Len(results) - 1
      /\ \A k \in DOMAIN results' : k + 1 \in DOMAIN results /\ results'[k] = results[k + 1]
      /\ results' = <<>> <=> Len(results) = 1
      /\ ~Wrote' /\ (Requested' <=> Requested /\ Len(results) # 1)
      /\ r \in Results /\ r.kind \in {"Process", "SnapshotRequested", "Fence", "SnapshotWritten"}
      /\ reply = <<>> /\ ~Writing /\ ~Sends("SnapshotWritten")
      /\ eventfd' \in Nat
      /\ Len(results) - 1 = eventfd' + (Announced - 1) + (IF thread.at = "notify" THEN 1 ELSE 0)
  BY <1>1, TakenFacts, ServiceFacts, Zenon
<1>3. IF r.kind = "SnapshotWritten" /\ r.sequence # Final
      THEN IF Expected(coord, r.sequence)
           THEN coord' = complete(coord, r.ok) /\ run' = run
           ELSE coord' = coord /\ run' = "failed"
      ELSE coord' = coord /\ run' = run
  BY ServiceFacts, Zenon
<1>4. /\ r.kind = "SnapshotRequested" <=> (Requested /\ Len(results) = 1)
      /\ r.kind = "Fence" => Len(results) = 1
      /\ r.kind = "SnapshotWritten" <=> Wrote
  BY <1>0, <1>2, Zenon DEF PipeOK, Requested, Wrote
<1>5. /\ coord \in Coordinator /\ worker \in Workers /\ messages \in Seq(MessageKinds)
      /\ coord.in_flight # None => coord.in_flight.sequence # Final
      /\ r.kind = "SnapshotWritten" => r.ok \in BOOLEAN
  <2>1. coord \in Coordinator /\ worker \in Workers /\ messages \in Seq(MessageKinds)
    BY <1>0 DEF TypesOK
  <2>2. coord.in_flight # None => coord.in_flight.sequence # Final
    BY <2>1, CoordinatorFields, WorkerAssumption DEF PersistRequest
  <2>. QED BY <1>2, <2>1, <2>2, ResultShape, ZenonT(30)
<1>6. r.kind = "SnapshotRequested" =>
        Passes("await") /\ worker.pending # None /\ worker.pending \in Jobs
  <2>1. Count(messages, "SnapshotAvailable") \in Nat
    BY <1>5, PlacesFinite, ZenonT(30)
  <2>. QED BY <1>0, <1>4, <1>5, <2>1 DEF PipeOK, TokenOK, Workers
<1>. HIDE DEF r
<1>7. r.kind = "SnapshotWritten" => IF r.sequence = Final THEN run # "live" ELSE Expected(coord, r.sequence)
  <2>1. run = "live" /\ Wrote => Expected(coord, r.sequence)
    BY <1>0, SMTT(30) DEF LiveOK, r
  <2>2. run \in {"sealed", "exiting"} /\ Wrote => Earlier(r.sequence) \/ Flush(r.sequence)
    BY <1>0 DEF SealedOK, r
  <2>. QED BY <1>1, <1>4, <1>5, <2>1, <2>2, SMTT(30) DEF Earlier, Flush, Expected
<1>8. /\ run' = run /\ coord' \in Coordinator
      /\ IF r.kind = "SnapshotWritten" /\ r.sequence # Final
         THEN coord' = complete(coord, r.ok) ELSE coord' = coord
  <2>1. /\ run' = run
        /\ IF r.kind = "SnapshotWritten" /\ r.sequence # Final
           THEN coord' = complete(coord, r.ok) ELSE coord' = coord
    BY <1>3, <1>7, Zenon
  <2>2. r.kind = "SnapshotWritten" /\ r.sequence # Final => complete(coord, r.ok) \in Coordinator
    BY <1>5, <1>7, CompleteFollows, Zenon DEF Follows, Expected
  <2>. QED BY <1>5, <2>1, <2>2, Zenon
<1>9. /\ \A kind : Sends(kind)' = Sends(kind)
      /\ \A to : Passes(to)' = Passes(to)
      /\ Writing' = Writing
  BY <1>1, Zenon DEF Sends, Passes, Writing
<1>10. TypesOK' /\ SlotsOK' /\ AnnouncedOK' /\ QueueOK'
  <2>1. reply' \in Seq(Jobs) /\ Len(reply') <= 1
    BY <1>1, <1>6
  <2>2. TypesOK'
    BY <1>0, <1>1, <1>2, <1>8, <2>1, ZenonT(30) DEF TypesOK
  <2>. QED BY <1>0, <1>1, <1>2, <2>2, ZenonT(30) DEF SlotsOK, AnnouncedOK, QueueOK
<1>11. TokenOK'
  <2>1. /\ Count(messages, "SnapshotAvailable") \in Nat /\ messages' = messages
        /\ Sends("SnapshotRequested")' = Sends("SnapshotRequested")
    BY <1>1, <1>5, <1>9, PlacesFinite, Zenon
  <2>2. Requested' <=> Requested /\ r.kind # "SnapshotRequested"
    BY <1>2, <1>4, ZenonT(30)
  <2>3. worker'.pending # None <=> worker.pending # None /\ r.kind # "SnapshotRequested"
    BY <1>1
  <2>. QED BY <1>0, <1>4, <1>6, <2>1, <2>2, <2>3, SMTT(30) DEF TokenOK
<1>12. PipeOK'
  <2>1. \A k \in DOMAIN results' :
          /\ results'[k].kind \in {"SnapshotRequested", "Fence"} => k = Len(results')
          /\ results'[k].kind = "SnapshotWritten" => k = 1
    <3>1. \A k \in DOMAIN results' : k \in Nat \ {0}
      BY <1>2
    <3>. QED BY <1>0, <1>2, <3>1 DEF PipeOK
  <2>2. reply' # <<>> => r.kind = "SnapshotRequested" /\ Len(results) = 1 /\ Requested
    BY <1>1, <1>4, Zenon
  <2>3. reply' = <<>> => r.kind # "SnapshotRequested"
    BY <1>1
  <2>4. Requested' => Passes("await")' /\ reply' = <<>>
    BY <1>0, <1>2, <1>9, <2>2 DEF PipeOK
  <2>5. Passes("await")' => Requested' \/ reply' # <<>>
    BY <1>0, <1>2, <1>4, <1>9, <2>3, Zenon DEF PipeOK
  <2>6. reply' # <<>> => Passes("await")' /\ results' = <<>>
    BY <1>2, <1>6, <1>9, <2>2, Zenon
  <2>7. thread'.at = "send" =>
          thread'.then = (CASE thread'.result.kind = "SnapshotRequested" -> "await"
                            [] thread'.result.kind = "Fence" -> "done"
                            [] OTHER -> "recv")
    BY <1>0, <1>1 DEF PipeOK
  <2>. QED BY <1>2, <1>9, <2>1, <2>4, <2>5, <2>6, <2>7, ZenonT(30) DEF PipeOK
<1>13. FenceOK'
  <2>1. Sends("Fence")' \/ Passes("done")' => messages' = <<>> /\ worker'.pending = None
    BY <1>0, <1>1, <1>9, Zenon DEF FenceOK
  <2>2. (\E k \in DOMAIN results' : results'[k].kind = "Fence") => Passes("done")'
    BY <1>0, <1>2, <1>9, ZenonT(30) DEF FenceOK
  <2>3. worker'.fenced => Passes("done")' /\ results' = <<>>
    BY <1>0, <1>1, <1>2, <1>4, <1>9, Zenon DEF FenceOK, r
  <2>. QED BY <2>1, <2>2, <2>3, Zenon DEF FenceOK
<1>14. LoadingOK' /\ ReadOnce' /\ RecoveringOK' /\ Unsealed'
  <2>1. LoadingOK' /\ RecoveringOK'
    BY <1>1, <1>8 DEF LoadingOK, RecoveringOK
  <2>2. ReadOnce'
    BY <1>0, <1>1, <1>2, <1>8, <1>9, SMTT(30) DEF ReadOnce
  <2>3. run = "live" => r.kind # "Fence"
    BY <1>0, <1>2, ZenonT(30) DEF Unsealed, r
  <2>4. Unsealed'
    BY <1>0, <1>1, <1>2, <1>8, <1>9, <2>3, Zenon DEF Unsealed
  <2>. QED BY <2>1, <2>2, <2>4
<1>15. thread'.at # "parent" /\ thread.at # "parent" /\ ~Writing' /\ ~Sends("SnapshotWritten")'
  BY <1>1, <1>2, <1>9 DEF Writing
<1>16. LiveOK'
  <2>. SUFFICES ASSUME run = "live" PROVE LiveOK'
    BY <1>8, Zenon DEF LiveOK
  <2>1. /\ authority \in Snap /\ Desired(coord) = authority
        /\ worker.pending # None => worker.pending = coord.in_flight /\ ~Wrote
        /\ Idle => coord.in_flight = None
        /\ ~budget.late =>
             IF Wrote /\ r.ok THEN file = coord.in_flight.snapshot
             ELSE coord.persisted # None => file = coord.persisted
    BY <1>0, <1>2, <1>15, Zenon DEF LiveOK, r
  <2>2. CASE r.kind = "SnapshotWritten"
    <3>1. /\ coord' = complete(coord, r.ok) /\ coord.in_flight # None /\ Wrote /\ worker.pending = None
      BY <1>4, <1>7, <1>8, <2>1, <2>2, Zenon DEF Expected
    <3>2. /\ coord'.in_flight = None /\ Desired(coord') = Desired(coord)
          /\ coord'.persisted = IF r.ok THEN coord.in_flight.snapshot ELSE coord.persisted
      BY <1>5, <2>2, <3>1, CompleteDesired, Zenon
    <3>3. worker'.pending = None /\ reply' = <<>>
      BY <1>1, <2>2, <3>1, Zenon
    <3>4. ~budget'.late /\ coord'.persisted # None => file' = coord'.persisted
      BY <1>1, <2>1, <3>1, <3>2, Zenon
    <3>. QED BY <1>1, <1>2, <1>15, <2>1, <3>2, <3>3, <3>4, ZenonT(30) DEF LiveOK
  <2>3. CASE r.kind = "SnapshotRequested"
    <3>1. /\ coord' = coord /\ ~Wrote /\ worker'.pending = None /\ reply' = <<worker.pending>>
          /\ worker.pending = coord.in_flight
      BY <1>1, <1>4, <1>6, <1>8, <2>1, <2>3, Zenon
    <3>2. reply' # <<>> /\ reply'[1] = coord'.in_flight
      BY <3>1, Zenon
    <3>. QED BY <1>1, <1>2, <1>15, <2>1, <3>1, <3>2, Zenon DEF LiveOK, Idle
  <2>4. CASE r.kind \notin {"SnapshotWritten", "SnapshotRequested"}
    <3>1. coord' = coord /\ ~Wrote /\ worker'.pending = worker.pending /\ reply' = <<>>
      BY <1>1, <1>4, <1>8, <2>4, ZenonT(30)
    <3>2. Idle' => Idle
      BY <1>2, <3>1 DEF Idle
    <3>. QED BY <1>1, <1>2, <1>15, <2>1, <3>1, <3>2, Zenon DEF LiveOK
  <2>. QED BY <2>2, <2>3, <2>4, Zenon
<1>17. SealedOK'
  <2>. SUFFICES ASSUME run \in {"sealed", "exiting"} PROVE SealedOK'
    BY <1>1, <1>8, ZenonT(30) DEF SealedOK
  <2>1. /\ authority \in Snap
        /\ worker.pending # None => worker.pending = [sequence |-> Final, snapshot |-> authority]
        /\ Wrote => \/ Earlier(r.sequence)
                    \/ Flush(r.sequence) /\ (r.ok => file = authority)
        /\ Idle /\ ~budget.late => file = authority \/ worker.final_write = "failed"
    BY <1>0, ZenonT(30) DEF SealedOK, r
  <2>2. CASE r.kind = "SnapshotWritten"
    <3>1. Wrote /\ worker'.pending = worker.pending /\ reply' = <<>>
      BY <1>1, <1>4, <2>2, Zenon
    <3>2. Idle' /\ ~budget'.late => file' = authority' \/ worker'.final_write = "failed"
      <4>1. Idle' => worker.pending = None
        BY <3>1, ZenonT(30) DEF Idle
      <4>. QED BY <1>1, <2>1, <2>2, <3>1, <4>1, Zenon DEF Earlier, Flush
    <3>. QED BY <1>1, <1>2, <1>15, <2>1, <3>1, <3>2, SMTT(30) DEF SealedOK
  <2>3. CASE r.kind = "SnapshotRequested"
    <3>1. /\ worker'.pending = None /\ reply' = <<worker.pending>>
          /\ worker.pending = [sequence |-> Final, snapshot |-> authority]
      BY <1>1, <1>6, <2>1, <2>3, ZenonT(30)
    <3>2. reply' # <<>> /\ reply'[1].sequence = Final /\ reply'[1].snapshot = authority
      BY <3>1
    <3>. QED BY <1>1, <1>2, <1>15, <2>1, <3>1, <3>2, SMTT(30) DEF SealedOK, Idle, Flush
  <2>4. CASE r.kind \notin {"SnapshotWritten", "SnapshotRequested"}
    <3>1. /\ ~Wrote /\ worker'.pending = worker.pending /\ reply' = <<>>
          /\ worker'.final_write = worker.final_write
      BY <1>1, <1>4, <2>4, Zenon
    <3>2. Idle' => Idle
      BY <1>2, <3>1, Zenon DEF Idle
    <3>. QED BY <1>1, <1>2, <1>15, <2>1, <3>1, <3>2, Zenon DEF SealedOK
  <2>. QED BY <2>2, <2>3, <2>4, ZenonT(30)
<1>. QED BY <1>10, <1>11, <1>12, <1>13, <1>14, <1>16, <1>17, Zenon DEF WorkerInv


-----------------------------------------------------------------------------
(* apply_update.                                                           *)

\* What an update with n process effects sends, with or without the end.
SentBy(n, quit, flush) ==
    LET jobs == [i \in 1..n |-> "Process"]
    IN  IF ~quit THEN jobs
        ELSE IF flush = None THEN jobs \o <<"Seal">>
        ELSE jobs \o Announce(worker.pending) \o <<"Seal">>
Announces(quit, flush) == quit /\ flush # None /\ worker.pending = None

\* How many messages of each kind those are; the Seal is the last.
LEMMA SentFacts ==
    ASSUME NEW n \in 0..1, NEW quit \in BOOLEAN, NEW flush
    PROVE  /\ SentBy(n, quit, flush) \in Seq(MessageKinds)
           /\ Len(SentBy(n, quit, flush)) =
                n + (IF Announces(quit, flush) THEN 1 ELSE 0) + (IF quit THEN 1 ELSE 0)
           /\ Count(SentBy(n, quit, flush), "ReadSnapshot") = 0
           /\ Count(SentBy(n, quit, flush), "Process") = n
           /\ Count(SentBy(n, quit, flush), "SnapshotAvailable") = IF Announces(quit, flush) THEN 1 ELSE 0
           /\ Count(SentBy(n, quit, flush), "Seal") = IF quit THEN 1 ELSE 0
           /\ \A k \in DOMAIN SentBy(n, quit, flush) :
                SentBy(n, quit, flush)[k] = "Seal" => k = Len(SentBy(n, quit, flush))
<1>. DEFINE jobs == [i \in 1..n |-> "Process"]
            a == Announce(worker.pending)
            z == <<"Seal">>
<1>1. /\ jobs \in Seq(MessageKinds) /\ Len(jobs) = n
      /\ \A k \in DOMAIN jobs : jobs[k] = "Process"
      /\ Count(jobs, "ReadSnapshot") = 0 /\ Count(jobs, "Process") = n
      /\ Count(jobs, "SnapshotAvailable") = 0 /\ Count(jobs, "Seal") = 0
  <2>1. CASE n = 0
    <3>1. jobs = <<>>
      BY <2>1
    <3>. HIDE DEF jobs
    <3>. QED BY <2>1, <3>1, CountNone
  <2>2. CASE n = 1
    <3>1. jobs = <<"Process">>
      BY <2>2, SMTT(30)
    <3>. HIDE DEF jobs
    <3>. QED BY <2>2, <3>1, CountFew DEF MessageKinds
  <2>. QED BY <2>1, <2>2
<1>2. /\ a \in Seq(MessageKinds) /\ Len(a) = IF worker.pending = None THEN 1 ELSE 0
      /\ \A k \in DOMAIN a : a[k] = "SnapshotAvailable"
      /\ Count(a, "ReadSnapshot") = 0 /\ Count(a, "Process") = 0
      /\ Count(a, "SnapshotAvailable") = (IF worker.pending = None THEN 1 ELSE 0) /\ Count(a, "Seal") = 0
  <2>1. CASE worker.pending = None
    <3>1. a = <<"SnapshotAvailable">>
      BY <2>1 DEF Announce
    <3>. HIDE DEF a
    <3>. QED BY <2>1, <3>1, CountFew DEF MessageKinds
  <2>2. CASE worker.pending # None
    <3>1. a = <<>>
      BY <2>2 DEF Announce
    <3>. HIDE DEF a
    <3>. QED BY <2>2, <3>1, CountNone
  <2>. QED BY <2>1, <2>2
<1>3. /\ z \in Seq(MessageKinds) /\ Len(z) = 1 /\ DOMAIN z = {1}
      /\ Count(z, "ReadSnapshot") = 0 /\ Count(z, "Process") = 0
      /\ Count(z, "SnapshotAvailable") = 0 /\ Count(z, "Seal") = 1
  BY CountFew DEF MessageKinds
<1>4. SentBy(n, quit, flush) =
        IF ~quit THEN jobs ELSE IF flush = None THEN jobs \o z ELSE jobs \o a \o z
  BY Zenon DEF SentBy
<1>. HIDE DEF jobs, a, z
<1>5. CASE ~quit
  BY <1>1, <1>4, <1>5 DEF Announces
<1>6. CASE quit /\ flush = None
  <2>. DEFINE s == jobs \o z
  <2>1. /\ s \in Seq(MessageKinds) /\ Len(s) = Len(jobs) + Len(z)
        /\ \A k \in DOMAIN s : \/ k \in DOMAIN jobs /\ s[k] = jobs[k]
                               \/ k - Len(jobs) \in DOMAIN z /\ s[k] = z[k - Len(jobs)]
        /\ \A x \in MessageKinds : Count(s, x) = Count(jobs, x) + Count(z, x)
    BY <1>1, <1>3, QueueConcat, Zenon
  <2>2. SentBy(n, quit, flush) = s
    BY <1>4, <1>6, SMTT(30)
  <2>. HIDE DEF s
  <2>3. \A k \in DOMAIN s : s[k] = "Seal" => k = Len(s)
    BY <1>1, <1>3, <2>1, SMTT(30)
  <2>4. Len(s) = n + (IF Announces(quit, flush) THEN 1 ELSE 0) + 1
    BY <1>1, <1>3, <1>6, <2>1, SMTT(30) DEF Announces
  <2>5. /\ Count(s, "ReadSnapshot") = 0 /\ Count(s, "Process") = n /\ Count(s, "Seal") = 1
        /\ Count(s, "SnapshotAvailable") = IF Announces(quit, flush) THEN 1 ELSE 0
    BY <1>1, <1>3, <1>6, <2>1 DEF MessageKinds, Announces
  <2>. QED BY <1>6, <2>1, <2>2, <2>3, <2>4, <2>5, Zenon
<1>7. CASE quit /\ flush # None
  <2>. DEFINE h == jobs \o a
              s == h \o z
  <2>1. /\ h \in Seq(MessageKinds) /\ Len(h) = Len(jobs) + Len(a)
        /\ \A k \in DOMAIN h : \/ k \in DOMAIN jobs /\ h[k] = jobs[k]
                               \/ k - Len(jobs) \in DOMAIN a /\ h[k] = a[k - Len(jobs)]
        /\ \A x \in MessageKinds : Count(h, x) = Count(jobs, x) + Count(a, x)
    BY <1>1, <1>2, QueueConcat, Zenon
  <2>2. \A k \in DOMAIN h : h[k] # "Seal"
    BY <1>1, <1>2, <2>1, Zenon
  <2>3. SentBy(n, quit, flush) = s
    BY <1>4, <1>7, SMTT(30)
  <2>. HIDE DEF h
  <2>4. /\ s \in Seq(MessageKinds) /\ Len(s) = Len(h) + Len(z)
        /\ \A k \in DOMAIN s : \/ k \in DOMAIN h /\ s[k] = h[k]
                               \/ k - Len(h) \in DOMAIN z /\ s[k] = z[k - Len(h)]
        /\ \A x \in MessageKinds : Count(s, x) = Count(h, x) + Count(z, x)
    BY <1>3, <2>1, QueueConcat, ZenonT(30)
  <2>. HIDE DEF s
  <2>5. \A k \in DOMAIN s : s[k] = "Seal" => k = Len(s)
    BY <1>3, <2>1, <2>2, <2>4
  <2>6. Len(s) = n + (IF Announces(quit, flush) THEN 1 ELSE 0) + 1
    BY <1>1, <1>2, <1>3, <1>7, <2>1, <2>4 DEF Announces
  <2>7. /\ Count(s, "ReadSnapshot") = 0 /\ Count(s, "Process") = n /\ Count(s, "Seal") = 1
        /\ Count(s, "SnapshotAvailable") = IF Announces(quit, flush) THEN 1 ELSE 0
    BY <1>1, <1>2, <1>3, <1>7, <2>1, <2>4, SMTT(30) DEF MessageKinds, Announces
  <2>. QED BY <1>7, <2>3, <2>4, <2>5, <2>6, <2>7, Zenon
<1>. QED BY <1>5, <1>6, <1>7, ZenonT(30)


\* observe with what changed: what the update carries is what is wanted.
LEMMA ObserveChanged ==
    ASSUME WorkerInv, run = "live", NEW v \in Snap
    PROVE  LET c == observe(coord, Changed(v)) IN
           /\ c \in Coordinator /\ Desired(c) = v
           /\ c.in_flight = coord.in_flight /\ c.persisted = coord.persisted
           /\ shutdown_snapshot(c) = IF c.dirty # None \/ c.in_flight # None THEN v ELSE None
<1>. DEFINE c == observe(coord, Changed(v))
<1>1. coord \in Coordinator /\ Desired(coord) = authority
  BY DEF WorkerInv, TypesOK, LiveOK
<1>2. c \in Coordinator
  BY <1>1, ObserveFollows, Zenon DEF Changed, Follows
<1>3. /\ Desired(c) = v /\ c.in_flight = coord.in_flight /\ c.persisted = coord.persisted
  <2>1. CASE v = authority
    <3>1. c = coord
      BY <2>1 DEF Changed, observe
    <3>. QED BY <1>1, <2>1, <3>1
  <2>2. CASE v # authority
    <3>1. c = observe(coord, v)
      BY <2>2, Zenon DEF Changed
    <3>. QED BY <1>1, <3>1, ObserveDesired
  <2>. QED BY <2>1, <2>2, Zenon
<1>. HIDE DEF c
<1>4. shutdown_snapshot(c) = IF c.dirty # None \/ c.in_flight # None THEN v ELSE None
  BY <1>3 DEF Desired, shutdown_snapshot
<1>. QED BY <1>2, <1>3, <1>4, ZenonT(30) DEF c

\* What an update that gets its slots leaves of the state: its messages fit.
LEMMA UpdateFacts ==
    ASSUME WorkerInv, NEW v \in Snap, NEW n \in 0..1, NEW quit \in BOOLEAN,
           ApplyUpdate(v, n, quit), Reserves(n)
    PROVE  LET f == shutdown_snapshot(coord')
               s == SentBy(n, quit, f)
           IN
           /\ run = "live" /\ run' = (IF quit THEN "sealed" ELSE "live") /\ authority' = v
           /\ coord' \in Coordinator /\ Desired(coord') = v
           /\ coord'.in_flight = coord.in_flight /\ coord'.persisted = coord.persisted
           /\ f = IF coord'.dirty # None \/ coord.in_flight # None THEN v ELSE None
           /\ messages' = messages \o s /\ owned' = owned + n
           /\ worker' \in Workers /\ worker'.fenced = worker.fenced /\ worker'.notified = worker.notified
           /\ worker'.final_write = worker.final_write
           /\ worker'.pending = IF quit /\ f # None THEN [sequence |-> Final, snapshot |-> v]
                                ELSE worker.pending
           /\ UNCHANGED <<reply, results, eventfd, thread, reaper, file>>
           /\ budget' \in [updates : Nat, faults : Nat, restarts : Nat, late : BOOLEAN]
           /\ budget'.late = budget.late
<1>. DEFINE c == observe(coord, Changed(v))
            f == shutdown_snapshot(c)
            s == SentBy(n, quit, f)
            job == [sequence |-> Final, snapshot |-> f]
            pending == IF quit /\ f # None THEN job ELSE worker.pending
            sealed == IF quit THEN FenceTicks ELSE worker.sealed
<1>1. /\ run = "live" /\ authority' = v /\ budget' = [budget EXCEPT !.updates = @ + 1]
      /\ UNCHANGED <<reply, results, eventfd, thread, reaper, file>>
  BY DEF ApplyUpdate
<1>2. /\ c \in Coordinator /\ Desired(c) = v
      /\ c.in_flight = coord.in_flight /\ c.persisted = coord.persisted
      /\ f = IF c.dirty # None \/ c.in_flight # None THEN v ELSE None
  BY <1>1, ObserveChanged
<1>3. /\ worker \in Workers
      /\ budget \in [updates : Nat, faults : Nat, restarts : Nat, late : BOOLEAN]
  BY DEF WorkerInv, TypesOK
<1>4. IF ~Fits(s)
      THEN run' = "failed" /\ UNCHANGED <<coord, worker, messages, owned>>
      ELSE /\ coord' = c /\ owned' = owned + n /\ messages' = messages \o s
           /\ worker' = [worker EXCEPT !.outstanding = @ + n, !.pending = pending, !.sealed = sealed]
           /\ run' = IF quit THEN "sealed" ELSE run
  <2>. DEFINE jobs == [i \in 1..n |-> "Process"]
              sent == IF ~quit THEN jobs
                      ELSE IF f = None THEN jobs \o <<"Seal">>
                      ELSE jobs \o Announce(worker.pending) \o <<"Seal">>
  <2>1. s = sent
    BY DEF SentBy
  <2>2. IF ~Fits(sent)
        THEN run' = "failed" /\ UNCHANGED <<coord, worker, messages, owned>>
        ELSE /\ coord' = c /\ owned' = owned + n /\ messages' = messages \o sent
             /\ worker' = [worker EXCEPT !.outstanding = @ + n, !.pending = pending, !.sealed = sealed]
             /\ run' = IF quit THEN "sealed" ELSE run
    BY Zenon DEF ApplyUpdate
  <2>. HIDE DEF s, sent, f, c, pending, sealed
  <2>. QED BY <2>1, <2>2
<1>5. Fits(s)
  <2>1. /\ s \in Seq(MessageKinds)
        /\ Len(s) = n + (IF Announces(quit, f) THEN 1 ELSE 0) + (IF quit THEN 1 ELSE 0)
    BY SentFacts
  <2>2. Announces(quit, f) => worker.pending = None
    BY DEF Announces
  <2>3. owned + n <= MaxWorkerJobs
    BY ZenonT(30) DEF Reserves
  <2>. HIDE DEF s, f
  <2>. QED BY <1>1, <2>1, <2>2, <2>3, QueueHasRoom, WorkerAssumption, SMTT(30) DEF Fits, MessageCapacity
<1>6. /\ pending \in Jobs \cup {None} /\ sealed \in Nat \cup {None}
  BY <1>2, <1>3, WorkerAssumption DEF Jobs, Workers
<1>7. /\ coord' = c /\ owned' = owned + n /\ messages' = messages \o s
      /\ worker' = [worker EXCEPT !.outstanding = @ + n, !.pending = pending, !.sealed = sealed]
      /\ run' = IF quit THEN "sealed" ELSE "live"
  <2>. HIDE DEF s, f, c, pending, sealed
  <2>. QED BY <1>1, <1>4, <1>5, ZenonT(30)
<1>8. pending = IF quit /\ f # None THEN [sequence |-> Final, snapshot |-> v] ELSE worker.pending
  BY <1>2
<1>. HIDE DEF pending, sealed, c
<1>9. /\ worker' \in Workers /\ worker'.fenced = worker.fenced /\ worker'.notified = worker.notified
      /\ worker'.final_write = worker.final_write /\ worker'.pending = pending
  <2>. DEFINE outstanding == worker.outstanding + n
  <2>1. worker' = [worker EXCEPT !.outstanding = outstanding, !.pending = pending, !.sealed = sealed]
    BY <1>7
  <2>2. outstanding \in Int
    BY <1>3 DEF Workers
  <2>. HIDE DEF outstanding
  <2>. QED BY <1>3, <1>6, <2>1, <2>2, Zenon DEF Workers
<1>10. /\ budget' \in [updates : Nat, faults : Nat, restarts : Nat, late : BOOLEAN]
       /\ budget'.late = budget.late
  BY <1>1, <1>3
<1>. QED BY <1>1, <1>2, <1>7, <1>8, <1>9, <1>10, ZenonT(30)


\* A Seal that is the last of what is sent is the last of the queue.
LEMMA SealStaysLast ==
    ASSUME NEW m \in Seq(MessageKinds), NEW t \in Seq(MessageKinds),
           \A k \in DOMAIN m : m[k] # "Seal",
           \A k \in DOMAIN t : t[k] = "Seal" => k = Len(t)
    PROVE  \A k \in DOMAIN (m \o t) : (m \o t)[k] = "Seal" => k = Len(m \o t)
<1>. SUFFICES ASSUME NEW k \in DOMAIN (m \o t), (m \o t)[k] = "Seal" PROVE k = Len(m \o t)
  OBVIOUS
<1>1. Len(m \o t) = Len(m) + Len(t) /\ Len(m) \in Nat /\ Len(t) \in Nat /\ k \in Nat
  OBVIOUS
<1>2. k - Len(m) \in DOMAIN t /\ t[k - Len(m)] = "Seal"
  BY QueueConcat, Zenon
<1>3. k - Len(m) = Len(t)
  BY <1>2, Zenon
<1>. QED BY <1>1, <1>3, SMTT(30)

\* The queue after an update, counted.
LEMMA UpdateQueue ==
    ASSUME WorkerInv, run = "live", NEW n \in 0..1, NEW quit \in BOOLEAN, NEW flush,
           messages' = messages \o SentBy(n, quit, flush)
    PROVE  /\ messages' \in Seq(MessageKinds)
           /\ Count(messages, "Process") \in Nat /\ Count(messages, "SnapshotAvailable") \in Nat
           /\ Count(messages', "ReadSnapshot") = 0
           /\ Count(messages', "Process") = Count(messages, "Process") + n
           /\ Count(messages', "SnapshotAvailable") =
                Count(messages, "SnapshotAvailable") + (IF Announces(quit, flush) THEN 1 ELSE 0)
           /\ Count(messages', "Seal") = IF quit THEN 1 ELSE 0
           /\ QueueOK'
<1>. DEFINE s == SentBy(n, quit, flush)
            m == messages'
<1>1. /\ s \in Seq(MessageKinds)
      /\ Len(s) = n + (IF Announces(quit, flush) THEN 1 ELSE 0) + (IF quit THEN 1 ELSE 0)
      /\ Count(s, "ReadSnapshot") = 0 /\ Count(s, "Process") = n
      /\ Count(s, "SnapshotAvailable") = (IF Announces(quit, flush) THEN 1 ELSE 0)
      /\ Count(s, "Seal") = (IF quit THEN 1 ELSE 0)
      /\ \A k \in DOMAIN s : s[k] = "Seal" => k = Len(s)
  BY SentFacts
<1>2. /\ messages \in Seq(MessageKinds)
      /\ Count(messages, "ReadSnapshot") = 0 /\ Count(messages, "Seal") = 0
      /\ Len(messages) = Count(messages, "ReadSnapshot") + Count(messages, "Process")
                         + Count(messages, "SnapshotAvailable") + Count(messages, "Seal")
  BY Zenon DEF WorkerInv, TypesOK, ReadOnce, Unsealed, QueueOK
<1>. HIDE DEF s
<1>3. m = messages \o s
  BY DEF s
<1>4. \A k \in DOMAIN messages : messages[k] # "Seal"
  BY <1>2, CountedNowhere, Zenon
<1>. HIDE DEF m
<1>5. /\ m \in Seq(MessageKinds) /\ Len(m) = Len(messages) + Len(s)
      /\ \A k \in DOMAIN m : \/ k \in DOMAIN messages /\ m[k] = messages[k]
                             \/ k - Len(messages) \in DOMAIN s /\ m[k] = s[k - Len(messages)]
      /\ \A x \in MessageKinds : /\ Count(m, x) = Count(messages, x) + Count(s, x)
                                 /\ Count(messages, x) \in Nat /\ Count(s, x) \in Nat
  BY <1>1, <1>2, <1>3, QueueConcat, ZenonT(30)
<1>6. \A k \in DOMAIN m : m[k] = "Seal" => k = Len(m)
  BY <1>1, <1>2, <1>3, <1>4, SealStaysLast, ZenonT(30)
<1>7. /\ Count(m, "ReadSnapshot") = 0 /\ Count(m, "Process") = Count(messages, "Process") + n
      /\ Count(m, "SnapshotAvailable") =
           Count(messages, "SnapshotAvailable") + (IF Announces(quit, flush) THEN 1 ELSE 0)
      /\ Count(m, "Seal") = (IF quit THEN 1 ELSE 0)
      /\ Count(messages, "Process") \in Nat /\ Count(messages, "SnapshotAvailable") \in Nat
  <2>1. ASSUME NEW x \in MessageKinds
        PROVE  /\ Count(m, x) = Count(messages, x) + Count(s, x)
               /\ Count(messages, x) \in Nat /\ Count(s, x) \in Nat
    BY <1>5
  <2>2. {"ReadSnapshot", "Process", "SnapshotAvailable", "Seal"} = MessageKinds
    BY DEF MessageKinds
  <2>3. /\ Count(m, "ReadSnapshot") = Count(messages, "ReadSnapshot") + Count(s, "ReadSnapshot")
        /\ Count(m, "Process") = Count(messages, "Process") + Count(s, "Process")
        /\ Count(m, "SnapshotAvailable") = Count(messages, "SnapshotAvailable") + Count(s, "SnapshotAvailable")
        /\ Count(m, "Seal") = Count(messages, "Seal") + Count(s, "Seal")
        /\ Count(messages, "Process") \in Nat /\ Count(messages, "SnapshotAvailable") \in Nat
        /\ Count(s, "Seal") \in Nat
    BY <2>1, <2>2, ZenonT(30)
  <2>. QED BY <1>1, <1>2, <2>3, SMTT(30)
<1>8. Len(m) = Count(m, "ReadSnapshot") + Count(m, "Process")
               + Count(m, "SnapshotAvailable") + Count(m, "Seal")
  BY <1>1, <1>2, <1>5, <1>7, SMTT(30)
<1>. QED BY <1>5, <1>6, <1>7, <1>8, ZenonT(30) DEF m, QueueOK

\* An update that gets no slots ends the session.
LEMMA RefusedUpdateOK ==
    ASSUME WorkerInv, NEW v \in Snap, NEW n \in 0..1, NEW quit \in BOOLEAN,
           ApplyUpdate(v, n, quit), ~Reserves(n)
    PROVE  WorkerInv'
<1>0. /\ TypesOK /\ SlotsOK /\ AnnouncedOK /\ QueueOK /\ TokenOK /\ PipeOK /\ FenceOK /\ ReadOnce
  BY DEF WorkerInv
<1>1. /\ run = "live" /\ run' = "refused" /\ authority' = v /\ budget' = [budget EXCEPT !.updates = @ + 1]
      /\ UNCHANGED <<coord, worker, messages, owned, reply, results, eventfd, thread, reaper, file>>
  BY DEF ApplyUpdate
<1>2. /\ \A kind : Sends(kind)' = Sends(kind)
      /\ \A to : Passes(to)' = Passes(to)
      /\ Writing' = Writing /\ Requested' = Requested
  BY <1>1 DEF Sends, Passes, Writing, Requested
<1>3. budget' \in [updates : Nat, faults : Nat, restarts : Nat, late : BOOLEAN]
  BY <1>0, <1>1, SMTT(30) DEF TypesOK
<1>4. TypesOK'
  BY <1>0, <1>1, <1>3 DEF TypesOK
<1>5. SlotsOK' /\ AnnouncedOK' /\ QueueOK' /\ TokenOK'
  BY <1>0, <1>1, <1>2 DEF SlotsOK, AnnouncedOK, QueueOK, TokenOK
<1>6. PipeOK' /\ FenceOK' /\ ReadOnce'
  BY <1>0, <1>1, <1>2 DEF PipeOK, FenceOK, ReadOnce
<1>7. LoadingOK' /\ Unsealed' /\ RecoveringOK' /\ LiveOK' /\ SealedOK'
  BY <1>1, Zenon DEF LoadingOK, Unsealed, RecoveringOK, LiveOK, SealedOK
<1>. QED BY <1>4, <1>5, <1>6, <1>7, SMTT(30) DEF WorkerInv

\* An update is committed; one that quits flushes and seals.
LEMMA ApplyUpdateOK ==
    ASSUME WorkerInv, NEW v \in Snap, NEW n \in 0..1, NEW quit \in BOOLEAN,
           ApplyUpdate(v, n, quit), Reserves(n)
    PROVE  WorkerInv'
<1>0. /\ TypesOK /\ SlotsOK /\ AnnouncedOK /\ QueueOK /\ TokenOK /\ PipeOK /\ FenceOK
      /\ LoadingOK /\ ReadOnce /\ Unsealed /\ RecoveringOK /\ LiveOK /\ SealedOK
  BY Zenon DEF WorkerInv
<1>. DEFINE f == shutdown_snapshot(coord')
<1>1. /\ run = "live" /\ run' = (IF quit THEN "sealed" ELSE "live") /\ authority' = v
      /\ coord' \in Coordinator /\ Desired(coord') = v
      /\ coord'.in_flight = coord.in_flight /\ coord'.persisted = coord.persisted
      /\ f = IF coord'.dirty # None \/ coord.in_flight # None THEN v ELSE None
      /\ messages' = messages \o SentBy(n, quit, f) /\ owned' = owned + n
      /\ worker' \in Workers /\ worker'.fenced = worker.fenced /\ worker'.notified = worker.notified
      /\ worker'.final_write = worker.final_write
      /\ worker'.pending = IF quit /\ f # None THEN [sequence |-> Final, snapshot |-> v]
                           ELSE worker.pending
      /\ UNCHANGED <<reply, results, eventfd, thread, reaper, file>>
      /\ budget' \in [updates : Nat, faults : Nat, restarts : Nat, late : BOOLEAN]
      /\ budget'.late = budget.late
  BY UpdateFacts, Zenon
<1>. HIDE DEF f
<1>2. /\ messages' \in Seq(MessageKinds)
      /\ Count(messages, "Process") \in Nat /\ Count(messages, "SnapshotAvailable") \in Nat
      /\ Count(messages', "ReadSnapshot") = 0
      /\ Count(messages', "Process") = Count(messages, "Process") + n
      /\ Count(messages', "SnapshotAvailable") =
           Count(messages, "SnapshotAvailable") + (IF Announces(quit, f) THEN 1 ELSE 0)
      /\ Count(messages', "Seal") = (IF quit THEN 1 ELSE 0)
      /\ QueueOK'
  BY <1>1, UpdateQueue, Zenon
<1>3. /\ \A kind : Sends(kind)' = Sends(kind)
      /\ \A to : Passes(to)' = Passes(to)
      /\ Writing' = Writing /\ Requested' = Requested /\ Wrote' = Wrote
  BY <1>1, Zenon DEF Sends, Passes, Writing, Requested, Wrote
<1>4. /\ [sequence |-> Final, snapshot |-> v] \in Jobs /\ [sequence |-> Final, snapshot |-> v] # None
      /\ v # None
  <2>1. [sequence |-> Final, snapshot |-> v] \in Jobs
    BY Zenon DEF Jobs
  <2>. QED BY <2>1, JobIsSome, PersistenceAssumption, Zenon
<1>5. TypesOK' /\ SlotsOK' /\ AnnouncedOK'
  <2>1. TypesOK'
    <3>1. run' \in {"live", "sealed"} /\ authority' \in Snap \cup {None} /\ owned' \in Nat
      BY <1>0, <1>1, SMTT(30) DEF TypesOK
    <3>2. coord' \in Coordinator /\ worker' \in Workers /\ messages' \in Seq(MessageKinds)
      BY <1>1, <1>2, SMTT(30)
    <3>3. UNCHANGED <<reply, results, eventfd, thread, reaper, file>>
      BY <1>1, SMTT(30)
    <3>4. budget' \in [updates : Nat, faults : Nat, restarts : Nat, late : BOOLEAN]
      BY <1>1
    <3>. QED BY <1>0, <3>1, <3>2, <3>3, <3>4, ZenonT(30) DEF TypesOK, Running
  <2>2. owned + n <= MaxWorkerJobs /\ owned \in Nat /\ reaper.sent \in Nat /\ reaper.held \in Nat
    BY <1>0, Zenon DEF Reserves, TypesOK
  <2>3. /\ owned = Count(messages, "Process") + reaper.sent + reaper.held
        /\ owned' = owned + n /\ reaper' = reaper
        /\ Count(messages', "Process") = Count(messages, "Process") + n
        /\ Count(messages, "Process") \in Nat
    BY <1>0, <1>1, <1>2, Zenon DEF SlotsOK
  <2>4. SlotsOK'
    BY <2>2, <2>3 DEF SlotsOK
  <2>. QED BY <1>0, <1>1, <2>1, <2>4, Zenon DEF AnnouncedOK
<1>6. TokenOK'
  <2>1. IF Announces(quit, f) THEN worker.pending = None /\ worker'.pending # None
        ELSE worker.pending # None <=> worker'.pending # None
    BY <1>1, <1>4, SMTT(30) DEF Announces
  <2>2. CASE Announces(quit, f)
    <3>1. /\ Count(messages', "SnapshotAvailable") = Count(messages, "SnapshotAvailable") + 1
          /\ Count(messages, "SnapshotAvailable") \in Nat
          /\ worker.pending = None /\ worker'.pending # None
      BY <1>2, <2>1, <2>2, Zenon
    <3>2. Sends("SnapshotRequested")' = Sends("SnapshotRequested") /\ Requested' = Requested
      BY <1>3, ZenonT(30)
    <3>. QED BY <1>0, <3>1, <3>2 DEF TokenOK
  <2>3. CASE ~Announces(quit, f)
    BY <1>0, <1>2, <1>3, <2>1, <2>3, SMTT(30) DEF TokenOK
  <2>. QED BY <2>2, <2>3, ZenonT(30)
<1>7. PipeOK' /\ FenceOK'
  <2>1. PipeOK'
    BY <1>0, <1>1, <1>3, Zenon DEF PipeOK
  <2>2. /\ ~Sends("Fence") /\ ~Passes("done") /\ ~worker.fenced
        /\ \A k \in DOMAIN results : results[k].kind # "Fence"
    BY <1>0, <1>1, Zenon DEF Unsealed
  <2>3. FenceOK'
    BY <1>1, <1>3, <2>2, Zenon DEF FenceOK
  <2>. QED BY <2>1, <2>3
<1>8. LoadingOK' /\ ReadOnce' /\ Unsealed' /\ RecoveringOK'
  <2>1. LoadingOK' /\ RecoveringOK'
    BY <1>1, Zenon DEF LoadingOK, RecoveringOK
  <2>2. ReadOnce'
    BY <1>0, <1>1, <1>2, <1>3, ZenonT(30) DEF ReadOnce
  <2>3. Unsealed'
    BY <1>0, <1>1, <1>2, <1>3, SMTT(30) DEF Unsealed
  <2>. QED BY <2>1, <2>2, <2>3, Zenon
<1>9. LiveOK'
  <2>. SUFFICES ASSUME ~quit PROVE LiveOK'
    BY <1>1, ZenonT(30) DEF LiveOK
  <2>1. worker'.pending = worker.pending
    BY <1>1, Zenon
  <2>2. Idle' = Idle
    BY <1>1, <1>3, <2>1, Zenon DEF Idle
  <2>. QED BY <1>0, <1>1, <1>3, <2>1, <2>2, ZenonT(30) DEF LiveOK, Expected
<1>10. SealedOK'
  <2>. SUFFICES ASSUME quit PROVE SealedOK'
    BY <1>1, ZenonT(30) DEF SealedOK
  <2>1. CASE f # None
    <3>1. worker'.pending = [sequence |-> Final, snapshot |-> v] /\ worker'.pending # None
      BY <1>1, <1>4, <2>1
    <3>2. reply # <<>> => Expected(coord', reply[1].sequence)
      <4>1. reply # <<>> => reply[1] = coord.in_flight
        BY <1>0, <1>1, Zenon DEF LiveOK
      <4>2. reply \in Seq(Jobs)
        BY <1>0 DEF TypesOK
      <4>3. reply # <<>> => reply[1] \in Jobs
        BY <4>2
      <4>. QED BY <1>1, <4>1, <4>3, JobIsSome, Zenon DEF Expected
    <3>3. Writing => Expected(coord', thread.job.sequence)
      <4>1. Writing => thread.job = coord.in_flight /\ thread.job \in Jobs
        BY <1>0, <1>1, ThreadShape, Zenon DEF LiveOK, TypesOK, Writing
      <4>. QED BY <1>1, <4>1, JobIsSome, ZenonT(30) DEF Expected
    <3>4. /\ Sends("SnapshotWritten") => Expected(coord', thread.result.sequence)
          /\ Wrote => Expected(coord', results[1].sequence)
      BY <1>0, <1>1, ZenonT(30) DEF LiveOK, Expected
    <3>. QED BY <1>1, <1>3, <3>1, <3>2, <3>3, <3>4, ZenonT(30) DEF SealedOK, Earlier, Idle
  <2>2. CASE f = None
    <3>1. coord'.dirty = None /\ coord.in_flight = None /\ worker'.pending = worker.pending
      BY <1>1, <1>4, <2>2, ZenonT(30)
    <3>2. /\ worker.pending = None /\ reply = <<>> /\ ~Writing /\ ~Sends("SnapshotWritten") /\ ~Wrote
          /\ ~budget.late /\ coord.persisted # None => file = coord.persisted
      BY <1>1, <3>1, NothingInFlight, Zenon
    <3>3. coord.persisted = v
      BY <1>1, <3>1, Zenon DEF Desired
    <3>. QED BY <1>1, <1>3, <1>4, <3>1, <3>2, <3>3, ZenonT(30) DEF SealedOK
  <2>. QED BY <2>1, <2>2, ZenonT(30)
<1>. QED BY <1>2, <1>5, <1>6, <1>7, <1>8, <1>9, <1>10, ZenonT(30) DEF WorkerInv


-----------------------------------------------------------------------------
(* The invariant and what follows from it.                                 *)

\* Every step of the loop, the worker, the reaper and the environment.
LEMMA WorkerStepOK ==
    ASSUME WorkerInv, [Next]_vars
    PROVE  WorkerInv'
<1>1. CASE StartupRead
  BY <1>1, StartupReadOK
<1>2. CASE \E v \in Snap : BecomeLive(v)
  BY <1>2, BecomeLiveOK, SMTT(30)
<1>3. CASE SubmitDueSnapshot
  BY <1>3, SubmitDueSnapshotOK
<1>4. CASE ServiceWorker
  BY <1>4, ServiceWorkerOK
<1>5. CASE AdvanceShutdown \/ ExitComplete
  BY <1>5, LeaveOK
<1>6. ASSUME NEW v \in Snap, NEW n \in 0..1, NEW quit \in BOOLEAN, ApplyUpdate(v, n, quit)
      PROVE  WorkerInv'
  BY <1>6, RefusedUpdateOK, ApplyUpdateOK
<1>7. CASE WorkerStep
  BY <1>7, WorkerRecvOK, WorkerSendOK, WorkerNotifyOK, WorkerTakeReplyOK, WriteStepOK, SMTT(30) DEF WorkerStep
<1>8. CASE ReaperStep
  BY <1>8, ReaperStepOK
<1>9. CASE Tick
  BY <1>9, TickOK
<1>10. CASE Restart
  BY <1>10, RestartOK
<1>11. CASE Terminated \/ UNCHANGED vars
  <2>1. UNCHANGED <<authority, coord, worker, messages, reply, results, eventfd, owned, thread, reaper,
                    file, run, budget>>
    BY <1>11 DEF Terminated, vars, channels
  <2>. QED BY <2>1, SMTT(30) DEF WorkerInv, TypesOK, SlotsOK, AnnouncedOK, QueueOK, TokenOK, PipeOK, FenceOK,
                       LoadingOK, ReadOnce, Unsealed, RecoveringOK, LiveOK, SealedOK, Idle, Sends, Passes,
                       Writing, Requested, Wrote, Earlier, Flush
<1>. QED BY <1>1, <1>2, <1>3, <1>4, <1>5, <1>6, <1>7, <1>8, <1>9, <1>10, <1>11, SMTT(30) DEF Next, LoopStep

\* The fence is acknowledged only at the end.
FencedLate == worker.fenced => run \in {"sealed", "exiting", "exited"}
\* Before the seal no fence is acknowledged.
LEMMA FencedLateOK ==
    ASSUME WorkerInv, FencedLate, [Next]_vars
    PROVE  FencedLate'
<1>1. run \in {"loading", "recovering", "live"} => ~worker.fenced
  BY DEF WorkerInv, Unsealed
<1>2. CASE StartupRead \/ (\E v \in Snap : BecomeLive(v)) \/ SubmitDueSnapshot
  <2>1. run \in {"loading", "recovering", "live"} /\ worker \in Workers
    BY <1>2 DEF StartupRead, BecomeLive, SubmitDueSnapshot, WorkerInv, TypesOK
  <2>2. ~worker'.fenced
    BY <1>1, <1>2, <2>1, Zenon DEF StartupRead, BecomeLive, SubmitDueSnapshot, Workers
  <2>. QED BY <2>2 DEF FencedLate
<1>3. CASE ServiceWorker
  <2>1. run \in {"live", "sealed", "exiting"} /\ WorkerInv'
    BY <1>3, ServiceWorkerOK DEF ServiceWorker
  <2>2. run' \in {run, "failed"}
    BY <1>3, Zenon DEF ServiceWorker
  <2>3. run' = "live" => ~worker'.fenced
    BY <2>1, Zenon DEF WorkerInv, Unsealed
  <2>4. run' # "failed"
    BY <2>1 DEF WorkerInv, TypesOK, Running
  <2>. QED BY <2>1, <2>2, <2>3, <2>4, Zenon DEF FencedLate
<1>4. CASE AdvanceShutdown \/ ExitComplete
  BY <1>4 DEF AdvanceShutdown, ExitComplete, FencedLate
<1>5. ASSUME NEW v \in Snap, NEW n \in 0..1, NEW quit \in BOOLEAN, ApplyUpdate(v, n, quit)
      PROVE  FencedLate'
  <2>1. run = "live"
    BY <1>5, Zenon DEF ApplyUpdate
  <2>2. CASE Reserves(n)
    <3>1. worker'.fenced = worker.fenced
      BY <1>5, <2>2, UpdateFacts, Zenon
    <3>. QED BY <1>1, <2>1, <3>1, SMTT(30) DEF FencedLate
  <2>3. CASE ~Reserves(n)
    <3>1. worker' = worker
      BY <1>5, <2>3 DEF ApplyUpdate
    <3>. QED BY <1>1, <2>1, <3>1 DEF FencedLate
  <2>. QED BY <2>2, <2>3
<1>6. CASE WorkerStep \/ ReaperStep \/ Terminated \/ UNCHANGED vars
  <2>1. worker' = worker /\ run' \in {run, "aborted"}
    <3>1. CASE WorkerRecv
      BY <3>1 DEF WorkerRecv, SpawnOwned
    <3>2. CASE WorkerSend \/ WorkerNotify \/ WorkerTakeReply \/ WriteStep \/ ReaperStep
      BY <3>2, Zenon DEF WorkerSend, WorkerNotify, WorkerTakeReply, WriteStep, ReaperStep, loopVars
    <3>3. CASE Terminated \/ UNCHANGED vars
      BY <3>3 DEF Terminated, vars
    <3>. QED BY <1>6, <3>1, <3>2, <3>3, SMTT(30) DEF WorkerStep
  <2>2. run' # "aborted"
    BY WorkerStepOK, Zenon DEF WorkerInv, TypesOK, Running
  <2>. QED BY <2>1, <2>2 DEF FencedLate
<1>7. CASE Tick
  <2>1. worker \in Workers /\ run' = run
    BY <1>7 DEF WorkerInv, TypesOK, Tick
  <2>2. worker'.fenced = worker.fenced
    BY <1>7, <2>1 DEF Tick, Workers
  <2>. QED BY <2>1, <2>2 DEF FencedLate
<1>8. CASE Restart
  BY <1>8 DEF Restart, NewWorker, FencedLate
<1>. QED BY <1>2, <1>3, <1>4, <1>5, <1>6, <1>7, <1>8, ZenonT(30) DEF Next, LoopStep

\* The invariant of loop, worker and reaper holds in every state of every run of
\* the daemon, whatever the sizes of queues and channels.
THEOREM WorkerInductive == Spec => [](WorkerInv /\ FencedLate)
<1>1. Init => WorkerInv /\ FencedLate
  <2>1. Init => Started
    <3>1. Init => budget \in [updates : Nat, faults : Nat, restarts : Nat, late : BOOLEAN]
      BY SMTT(30) DEF Init
    <3>. QED BY <3>1, ZenonT(30) DEF Init, Started, Files
  <2>2. Init => FencedLate
    BY DEF Init, NewWorker, FencedLate
  <2>. QED BY <2>1, <2>2, StartedOK, Zenon
<1>2. WorkerInv /\ FencedLate /\ [Next]_vars => WorkerInv' /\ FencedLate'
  BY WorkerStepOK, FencedLateOK
<1>. QED BY <1>1, <1>2, PTL DEF Spec

\* No try_send of the loop finds its channel full, no completion is one the
\* coordinator does not expect, and no announced result is missing: with room for
\* MAX_WORKER_JOBS + 2 messages the errors of worker.rs that end the daemon do not
\* happen, whatever that number is.
THEOREM NoWorkerErrorEver == Spec => []NoWorkerError
<1>1. WorkerInv => NoWorkerError
  BY Zenon DEF WorkerInv, TypesOK, NoWorkerError, Running
<1>. QED BY <1>1, WorkerInductive, PTL


\* What is underway, as sets of at most one element each.
LEMMA UnderwaySets ==
    ASSUME TypesOK, PipeOK
    PROVE  /\ JobsUnderway = {<<"slot", worker.pending>>}
                             \cup (IF reply = <<>> THEN {} ELSE {<<"reply", reply[1]>>})
                             \cup (IF Writing THEN {<<"thread", thread.job>>} ELSE {})
           /\ Outcomes = (IF Wrote THEN {<<1, results[1].sequence>>} ELSE {})
                         \cup (IF Sends("SnapshotWritten") THEN {<<0, thread.result.sequence>>} ELSE {})
<1>1. {<<"reply", reply[i]>> : i \in DOMAIN reply} =
        IF reply = <<>> THEN {} ELSE {<<"reply", reply[1]>>}
  <2>1. reply \in Seq(Jobs) /\ Len(reply) <= 1
    BY Zenon DEF TypesOK
  <2>2. CASE reply = <<>>
    BY <2>2
  <2>3. CASE reply # <<>>
    <3>1. Len(reply) = 1 /\ DOMAIN reply = 1..Len(reply) /\ 1..1 = {1}
      <4>1. Len(reply) \in Nat /\ DOMAIN reply = 1..Len(reply) /\ Len(reply) # 0
        BY <2>1, <2>3
      <4>2. 1..1 = {1}
        OBVIOUS
      <4>. QED BY <2>1, <4>1, <4>2
    <3>2. DOMAIN reply = {1}
      BY <3>1
    <3>. QED BY <2>3, <3>2
  <2>. QED BY <2>2, <2>3
<1>2. {k \in DOMAIN results : results[k].kind = "SnapshotWritten"} = IF Wrote THEN {1} ELSE {}
  <2>1. results \in Seq(Results) /\ (results # <<>> => 1 \in DOMAIN results)
    BY DEF TypesOK
  <2>2. \A k \in DOMAIN results : results[k].kind = "SnapshotWritten" => k = 1 /\ results # <<>>
    BY <2>1 DEF PipeOK
  <2>. QED BY <2>1, <2>2, Zenon DEF Wrote
<1>3. JobsUnderway = {<<"slot", worker.pending>>} \cup {<<"reply", reply[i]>> : i \in DOMAIN reply}
                     \cup (IF Writing THEN {<<"thread", thread.job>>} ELSE {})
  BY Zenon DEF JobsUnderway, Writing
<1>4. Outcomes = {<<i, results[i].sequence>> :
                    i \in {k \in DOMAIN results : results[k].kind = "SnapshotWritten"}}
                 \cup (IF Sends("SnapshotWritten") THEN {<<0, thread.result.sequence>>} ELSE {})
  BY Zenon DEF Outcomes, Sends
<1>5. {<<i, results[i].sequence>> : i \in (IF Wrote THEN {1} ELSE {})} =
        IF Wrote THEN {<<1, results[1].sequence>>} ELSE {}
  OBVIOUS
<1>6. Outcomes = (IF Wrote THEN {<<1, results[1].sequence>>} ELSE {})
                 \cup (IF Sends("SnapshotWritten") THEN {<<0, thread.result.sequence>>} ELSE {})
  BY <1>2, <1>4, <1>5, Zenon
<1>. QED BY <1>1, <1>3, <1>6, Zenon

\* While the session is live a request is underway in one place, or none is.
LEMMA OnePlace ==
    ASSUME WorkerInv, run = "live"
    PROVE  LET jobs == {j \in JobsUnderway : j[2] # None} IN
           \/ jobs = {} /\ Outcomes = {} /\ coord.in_flight = None
           \/ /\ coord.in_flight # None /\ Outcomes = {}
              /\ \E place \in {"slot", "reply", "thread"} : jobs = {<<place, coord.in_flight>>}
           \/ /\ coord.in_flight # None /\ jobs = {}
              /\ \E k \in 0..1 : Outcomes = {<<k, coord.in_flight.sequence>>}
<1>0. TypesOK /\ PipeOK /\ LiveOK
  BY DEF WorkerInv
<1>. DEFINE jobs == {j \in JobsUnderway : j[2] # None}
<1>1. /\ JobsUnderway = {<<"slot", worker.pending>>}
                        \cup (IF reply = <<>> THEN {} ELSE {<<"reply", reply[1]>>})
                        \cup (IF Writing THEN {<<"thread", thread.job>>} ELSE {})
      /\ Outcomes = (IF Wrote THEN {<<1, results[1].sequence>>} ELSE {})
                    \cup (IF Sends("SnapshotWritten") THEN {<<0, thread.result.sequence>>} ELSE {})
  BY <1>0, UnderwaySets
<1>2. /\ reply # <<>> \/ Writing \/ Sends("SnapshotWritten") => ~Wrote
      /\ reply # <<>> => ~Writing /\ ~Sends("SnapshotWritten")
      /\ Writing => ~Sends("SnapshotWritten")
  BY <1>0, ZenonT(30) DEF PipeOK, Passes, Writing, Sends, Wrote
<1>3. /\ worker.pending # None =>
           /\ worker.pending = coord.in_flight
           /\ reply = <<>> /\ ~Writing /\ ~Sends("SnapshotWritten") /\ ~Wrote
      /\ reply # <<>> => reply[1] = coord.in_flight
      /\ Writing => thread.job = coord.in_flight
      /\ Sends("SnapshotWritten") => Expected(coord, thread.result.sequence)
      /\ Wrote => Expected(coord, results[1].sequence)
      /\ Idle => coord.in_flight = None
  BY <1>0 DEF LiveOK
<1>4. /\ reply # <<>> => reply[1] # None
      /\ Writing => thread.job # None
  <2>1. reply # <<>> => reply[1] \in Jobs
    BY <1>0 DEF TypesOK
  <2>2. Writing => thread.job \in Jobs
    BY <1>0, ThreadShape, Zenon DEF TypesOK, Writing
  <2>. QED BY <2>1, <2>2, JobIsSome, Zenon
<1>5. CASE worker.pending # None
  <2>1. JobsUnderway = {<<"slot", coord.in_flight>>} /\ Outcomes = {} /\ coord.in_flight # None
    BY <1>1, <1>3, <1>5
  <2>2. jobs = {<<"slot", coord.in_flight>>}
    BY <2>1
  <2>. QED BY <2>1, <2>2, ZenonT(30)
<1>6. CASE worker.pending = None /\ reply # <<>>
  <2>1. /\ JobsUnderway = {<<"slot", None>>, <<"reply", coord.in_flight>>}
        /\ Outcomes = {} /\ coord.in_flight # None
    BY <1>1, <1>2, <1>3, <1>4, <1>6, ZenonT(30)
  <2>2. jobs = {<<"reply", coord.in_flight>>}
    BY <2>1
  <2>. QED BY <2>1, <2>2, Zenon
<1>7. CASE worker.pending = None /\ reply = <<>> /\ Writing
  <2>1. /\ JobsUnderway = {<<"slot", None>>, <<"thread", coord.in_flight>>}
        /\ Outcomes = {} /\ coord.in_flight # None
    BY <1>1, <1>2, <1>3, <1>4, <1>7, ZenonT(30)
  <2>2. jobs = {<<"thread", coord.in_flight>>}
    BY <2>1
  <2>. QED BY <2>1, <2>2, Zenon
<1>8. CASE worker.pending = None /\ reply = <<>> /\ ~Writing
  <2>1. JobsUnderway = {<<"slot", None>>}
    BY <1>1, <1>8
  <2>2. jobs = {}
    BY <2>1
  <2>3. CASE Sends("SnapshotWritten")
    <3>1. /\ coord.in_flight # None /\ coord.in_flight.sequence = thread.result.sequence
      BY <1>3, <2>3, Zenon DEF Expected
    <3>2. Outcomes = {<<0, coord.in_flight.sequence>>}
      BY <1>1, <1>2, <2>3, <3>1, ZenonT(30)
    <3>. QED BY <2>2, <3>1, <3>2
  <2>4. CASE ~Sends("SnapshotWritten") /\ Wrote
    <3>1. /\ coord.in_flight # None /\ coord.in_flight.sequence = results[1].sequence
      BY <1>3, <2>4, Zenon DEF Expected
    <3>2. Outcomes = {<<1, coord.in_flight.sequence>>}
      BY <1>1, <2>4, <3>1, Zenon
    <3>. QED BY <2>2, <3>1, <3>2
  <2>5. CASE ~Sends("SnapshotWritten") /\ ~Wrote
    <3>1. coord.in_flight = None
      BY <1>3, <1>8, <2>5, Zenon DEF Idle
    <3>2. Outcomes = {}
      BY <1>1, <2>5, Zenon
    <3>. QED BY <2>2, <3>1, <3>2, Zenon
  <2>. QED BY <2>3, <2>4, <2>5, ZenonT(30)
<1>. QED BY <1>5, <1>6, <1>7, <1>8, Zenon

\* What loop, worker thread and reaper hand to each other is neither lost nor
\* doubled: slots, announced results, and the one snapshot request in flight.
THEOREM HandoffsAlwaysExact == Spec => []HandoffsExact
<1>1. WorkerInv => HandoffsExact
  <2>. SUFFICES ASSUME WorkerInv PROVE HandoffsExact
    OBVIOUS
  <2>1. /\ owned <= MaxWorkerJobs
        /\ owned = Cardinality({i \in DOMAIN messages : messages[i] = "Process"})
                   + reaper.sent + reaper.held
        /\ Len(results) = eventfd + worker.notified + (IF thread.at = "notify" THEN 1 ELSE 0)
    BY ZenonT(30) DEF WorkerInv, SlotsOK, AnnouncedOK, Count
  <2>. DEFINE jobs == {j \in JobsUnderway : j[2] # None}
  <2>2. ASSUME run = "live"
        PROVE  /\ Cardinality(jobs) + Cardinality(Outcomes) = (IF coord.in_flight = None THEN 0 ELSE 1)
               /\ \A j \in jobs : j[2] = coord.in_flight
               /\ \A o \in Outcomes : o[2] = coord.in_flight.sequence
    <3>1. \/ jobs = {} /\ Outcomes = {} /\ coord.in_flight = None
          \/ /\ coord.in_flight # None /\ Outcomes = {}
             /\ \E place \in {"slot", "reply", "thread"} : jobs = {<<place, coord.in_flight>>}
          \/ /\ coord.in_flight # None /\ jobs = {}
             /\ \E k \in 0..1 : Outcomes = {<<k, coord.in_flight.sequence>>}
      BY <2>2, OnePlace, Zenon
    <3>. HIDE DEF jobs
    <3>2. CASE jobs = {} /\ Outcomes = {} /\ coord.in_flight = None
      BY <3>2, FS_EmptySet
    <3>3. ASSUME NEW place \in {"slot", "reply", "thread"}, jobs = {<<place, coord.in_flight>>},
                 Outcomes = {}, coord.in_flight # None
          PROVE  /\ Cardinality(jobs) = 1 /\ Cardinality(Outcomes) = 0
                 /\ \A j \in jobs : j[2] = coord.in_flight
      <4>1. Cardinality({<<place, coord.in_flight>>}) = 1 /\ Cardinality({}) = 0
        BY FS_Singleton, FS_EmptySet, Zenon
      <4>. QED BY <3>3, <4>1
    <3>4. ASSUME NEW k \in 0..1, Outcomes = {<<k, coord.in_flight.sequence>>},
                 jobs = {}, coord.in_flight # None
          PROVE  /\ Cardinality(jobs) = 0 /\ Cardinality(Outcomes) = 1
                 /\ \A o \in Outcomes : o[2] = coord.in_flight.sequence
      <4>1. Cardinality({<<k, coord.in_flight.sequence>>}) = 1 /\ Cardinality({}) = 0
        BY FS_Singleton, FS_EmptySet, Zenon
      <4>. QED BY <3>4, <4>1
    <3>. QED BY <3>1, <3>2, <3>3, <3>4
  <2>. QED BY <2>1, <2>2, Zenon DEF HandoffsExact
<1>. QED BY <1>1, WorkerInductive, PTL

\* A live session at rest finds its own snapshot in the file, and once the fence is
\* acknowledged the file holds the session's last value or the loop has seen the
\* flush fail, as long as no write has failed after its rename.
THEOREM DurableUnlessFaultIsLate == Spec => []DurableUnlessLateFault
<1>1. WorkerInv /\ FencedLate => DurableUnlessLateFault
  <2>. SUFFICES ASSUME WorkerInv, FencedLate, ~budget.late PROVE DurableUnlessLateFault
    BY DEF DurableUnlessLateFault
  <2>0. TypesOK /\ PipeOK /\ FenceOK /\ LiveOK /\ SealedOK
    BY Zenon DEF WorkerInv
  <2>1. DurableWhenQuiet
    <3>. SUFFICES ASSUME run = "live", coord.dirty = None, coord.in_flight = None PROVE file = authority
      BY ZenonT(30) DEF DurableWhenQuiet
    <3>1. coord.persisted = authority /\ authority \in Snap
      BY <2>0, SMTT(30) DEF LiveOK, Desired
    <3>. QED BY <3>1, NothingInFlight, PersistenceAssumption, Zenon
  <2>2. ASSUME worker.fenced PROVE file = authority \/ worker.final_write = "failed"
    <3>1. /\ Passes("done") /\ results = <<>> /\ worker.pending = None
          /\ run \in {"sealed", "exiting", "exited"}
      BY <2>0, <2>2 DEF FenceOK, FencedLate
    <3>2. reply = <<>> /\ ~Writing /\ ~Sends("SnapshotWritten") /\ ~Wrote
      BY <2>0, <3>1 DEF PipeOK, Passes, Writing, Sends, Wrote
    <3>. QED BY <2>0, <3>1, <3>2, SMTT(30) DEF SealedOK, Idle
  <2>. QED BY <2>1, <2>2, Zenon DEF DurableUnlessLateFault
<1>. QED BY <1>1, WorkerInductive, PTL
=============================================================================
