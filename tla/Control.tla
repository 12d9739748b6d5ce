------------------------------- MODULE Control -------------------------------
(***************************************************************************)
(* The control socket of the running session: the server that owns the     *)
(* connections (crates/realm-control/src/server.rs), the runtime owner     *)
(* that answers their requests, publishes state and coordinates shutdown   *)
(* (crates/realm-session/src/runtime.rs), and the peers at the other end.  *)
(*                                                                         *)
(* One action is one quantum of run_combined_loop: what it services, and   *)
(* the advance_shutdown() that follows it.  Connections are identified by  *)
(* the ids the server hands out, which are never used twice.  Control      *)
(* sources are serviced in the order the loop polls them: the listener     *)
(* first, then the lowest ready connection id.                             *)
(*                                                                         *)
(* The Session is reduced to what the owner sees of it: its phase, whether *)
(* a backend transaction is active and who asked for it, and the version   *)
(* of the published state.                                                 *)
(***************************************************************************)
EXTENDS ControlMachine, FiniteSets

CONSTANTS
    MaxIds,       \* connection ids the server can hand out
    Limit,        \* CONNECTION_LIMIT
    MaxFrames,    \* bound on the frames one peer sends
    MaxVersion,   \* bound on the state versions published
    MaxFaults,    \* bound on the peers' half-closes, departures and stalls
    PeerFrames    \* id -> the frames its peer may send

ASSUME BoundsAreUsable ==
    /\ MaxIds \in Nat \ {0} /\ Limit \in Nat \ {0}
    /\ MaxFrames \in Nat /\ MaxVersion \in Nat /\ MaxFaults \in Nat
    /\ PeerFrames \in [1 .. MaxIds -> SUBSET Frames]

VARIABLES
    conn,      \* id -> its machine and response sequence fields
    server,    \* next connection id, response barrier, shutting_down
    owner,     \* RuntimeOwners, with what it sees of the Session and the worker
    peer,      \* id -> the other end: its link, unread bytes, frames left, reading
    faults,    \* how many faults the peers have had
    asked,     \* id -> the requests the owner took from it and it has no answer to
    got        \* id -> class and version of the last frame it received

vars == <<conn, server, owner, peer, faults, asked, got>>

Ids == 1 .. MaxIds
Nothing == [class |-> "none", version |-> 0]
NoReceipt == [conn |-> 0, seq |-> 0]
Live == owner.phase = "Live"

Unused == [link |-> "none", inbox |-> << >>, left |-> MaxFrames, reading |-> TRUE]
Finished == [Unused EXCEPT !.link = "closed", !.left = 0]

Init ==
    /\ conn = [i \in Ids |-> Vacant]
    /\ server = [next |-> 1, barrier |-> NoReceipt, shutting |-> FALSE]
    /\ owner = [phase |-> "Live", txn |-> "idle", pending |-> 0,
                quit |-> NoReceipt, quitter |-> 0, sealed |-> FALSE, fence |-> FALSE,
                fatal |-> FALSE, version |-> 1]
    /\ peer = [i \in Ids |-> Unused]
    /\ faults = 0
    /\ asked = [i \in Ids |-> << >>]
    /\ got = [i \in Ids |-> Nothing]

(***************************************************************************)
(* The owner's and the server's operations, as functions of d, the state   *)
(* they share: [conn, server, owner, asked].                               *)
(***************************************************************************)
Shared == [conn |-> conn, server |-> server, owner |-> owner, asked |-> asked]

Fatal(d) == [d EXCEPT !.owner.fatal = TRUE]

ResponseSettlement(d, receipt) ==
    LET c == d.conn[receipt.conn] IN
    IF ~Present(c) THEN "Closed"
    ELSE IF c.pendingSeq = receipt.seq THEN "Pending"
    ELSE IF c.drainedSeq >= receipt.seq THEN "Drained"
    ELSE "Closed"

\* ControlServer::begin_shutdown and RuntimeOwners::begin_shutdown.
BeginShutdown(d) ==
    IF d.server.shutting THEN d
    ELSE [d EXCEPT !.conn = [i \in Ids |-> BeginShutdownOf(d.conn[i])],
                   !.server.barrier = NoReceipt, !.server.shutting = TRUE,
                   !.owner.quit = NoReceipt, !.owner.phase = "ShuttingDown",
                   !.owner.txn = "idle"]

\* Shutdown that does not wait for the Quit response.
StartShutdown_AtOnce(d) == IF d.owner.quit # NoReceipt THEN BeginShutdown(d) ELSE d
\* advance_shutdown(): start once the Quit response has settled; leave once
\* every connection is gone and the worker has answered its fence.
StartShutdown(d) ==
    IF d.owner.quit # NoReceipt /\ ResponseSettlement(d, d.owner.quit) # "Pending"
    THEN BeginShutdown(d) ELSE d
LeaveWhenDone(d) ==
    IF /\ d.owner.phase = "ShuttingDown" /\ d.owner.fence
       /\ \A i \in Ids : ~Present(d.conn[i])
    THEN [d EXCEPT !.owner.phase = "Exiting"] ELSE d
AdvanceShutdown(d) == LeaveWhenDone(StartShutdown(d))

\* publish_state(); a state too large for a frame drops every subscriber.
Publish(d, fits) ==
    LET version == d.owner.version + 1
        To(c) == IF fits THEN PublishStateTo(c, version)
                 ELSE IF c.phase = "Subscriber" THEN Close(c) ELSE c
    IN IF d.server.shutting THEN Fatal(d)
       ELSE [d EXCEPT !.owner.version = version,
                      !.conn = [i \in Ids |-> To(d.conn[i])]]

\* complete_request(): a requester that has left is nobody's problem.
CompleteRequest(d, i, answers) ==
    LET completed == [CompleteRequestOf(d.conn[i], answers) EXCEPT
                          !.pendingSeq = d.conn[i].nextSeq, !.nextSeq = @ + 1]
    IN IF d.server.shutting THEN Fatal(d)
       ELSE IF ~Present(d.conn[i]) THEN d
       ELSE [d EXCEPT !.conn[i] = completed]

\* The receipt complete_request() returned for connection i, if it did.
ReceiptOf(d, i) ==
    IF i # 0 /\ Present(d.conn[i]) THEN [conn |-> i, seq |-> d.conn[i].pendingSeq]
    ELSE NoReceipt

\* begin_response_barrier() of a pending response.
BeginResponseBarrier(d, receipt) ==
    IF d.server.barrier \notin {NoReceipt, receipt} THEN Fatal(d)
    ELSE [d EXCEPT !.server.barrier = receipt, !.owner.quit = receipt,
                   !.owner.quitter = receipt.conn]

\* The end of apply_update(): when the update carries QuitPending, seal the
\* worker and wait for the requester's answer to drain.
ApplyQuit(d, requester, quits) ==
    IF ~quits \/ d.owner.fatal THEN d
    ELSE IF ReceiptOf(d, requester) = NoReceipt
    THEN BeginShutdown([d EXCEPT !.owner.sealed = TRUE])
    ELSE BeginResponseBarrier([d EXCEPT !.owner.sealed = TRUE], ReceiptOf(d, requester))

Answer(d, requester, answers) ==
    IF requester = 0 THEN d ELSE CompleteRequest(d, requester, answers)

\* Only an update that changes the state answers its requester.
ApplyUpdate_AnswersChanges(d, changed, fits, requester, answers, quits) ==
    ApplyQuit(IF changed THEN Answer(Publish(d, fits), requester, answers) ELSE d,
              requester, quits)
\* apply_update(): publish, then answer the requester (0: nobody), then quit.
\* changed: the update carries a state; fits: the state fits a frame.
ApplyUpdate(d, changed, fits, requester, answers, quits) ==
    ApplyQuit(Answer(IF changed THEN Publish(d, fits) ELSE d, requester, answers),
              requester, quits)

\* What becomes of a request: an action opens a transaction, changes nothing or
\* changes the state; the state or keymap a client asks for may be oversized.
Outcomes == {"opens", "done", "changes", "oversized"}
OutcomesOf(request) ==
    CASE request = "act" -> {"opens", "done", "changes"}
      [] request \in {"get", "sub"} -> {"done", "oversized"}
      [] OTHER -> {"done"}

\* What dispatch_request() makes of a request: a response at once, with or
\* without a visible change, a subscription, an admitted request ("Pending"),
\* a Quit, or a fatal error.  Queries are answered from the clean state; an
\* action is refused while a backend transaction is active.
DispatchRequest(d, request, outcome) ==
    CASE request \in {"get", "sub"} /\ outcome = "oversized" -> "Oversized"
      [] request = "get" /\ outcome # "oversized" -> "Immediate"
      [] request = "sub" /\ outcome # "oversized" -> "Subscribe"
      [] request = "quit" -> IF d.owner.phase = "Live" THEN "Quit" ELSE "Fatal"
      [] request = "act" ->
           IF d.owner.phase # "Live" \/ d.owner.txn # "idle" \/ outcome = "done" THEN "Immediate"
           ELSE IF outcome = "opens" THEN "Pending" ELSE "Changed"

\* complete_subscribe().
CompleteSubscribe(d, i) ==
    IF d.server.shutting THEN Fatal(d)
    ELSE [d EXCEPT !.conn[i] = CompleteSubscribeOf(@, d.owner.version)]

\* complete_request() and complete_subscribe() of what is too large for a frame:
\* the connection is removed, and the owner goes on.
CompleteOversized(d, i) ==
    IF d.server.shutting THEN Fatal(d) ELSE [d EXCEPT !.conn[i] = Close(@)]

\* handle_control_action(), for the request the machine of i has just taken.
HandleControlAction(d, i, outcome) ==
    LET request == d.conn[i].pending
        e == [d EXCEPT !.asked[i] = Append(@, request)]
        dispatch == DispatchRequest(d, request, outcome)
    IN CASE dispatch \in {"Immediate", "Changed"} ->
              ApplyUpdate(e, dispatch = "Changed", TRUE, i, request, FALSE)
         [] dispatch = "Subscribe" -> CompleteSubscribe(e, i)
         [] dispatch = "Oversized" -> CompleteOversized(e, i)
         [] dispatch = "Pending" ->
              IF e.owner.pending # 0 THEN Fatal(e)
              ELSE [e EXCEPT !.owner.txn = "control", !.owner.pending = i]
         [] dispatch = "Quit" ->
              ApplyUpdate([e EXCEPT !.owner.phase = "QuitPending", !.owner.txn = "idle"],
                          FALSE, TRUE, i, request, TRUE)
         [] dispatch = "Fatal" -> Fatal(e)

\* apply_machine_action(): hand a request the machine has just taken to the owner.
ApplyMachineAction(d, i, taken, outcome) ==
    IF taken THEN HandleControlAction(d, i, outcome) ELSE d

\* The primed state is d after the advance_shutdown() that ends the quantum,
\* links the other ends.  Closing a socket discards what it holds unread.
Becomes(d, links) ==
    \E e \in {IF d.owner.fatal THEN d ELSE AdvanceShutdown(d)} :
    /\ peer' = [i \in Ids |-> IF Closed(e.conn[i]) THEN Finished ELSE links[i]]
    /\ conn' = e.conn
    /\ server' = e.server
    /\ owner' = e.owner
    /\ asked' = e.asked

(***************************************************************************)
(* Readiness, as poll_interests() and poll(2) report it.                   *)
(***************************************************************************)
Interested(i) ==
    /\ Present(conn[i])
    /\ \/ server.barrier = NoReceipt
       \/ server.barrier = [conn |-> i, seq |-> conn[i].pendingSeq]

Hup(i) == peer[i].link = "gone"
ReadReady(i) ==
    /\ server.barrier = NoReceipt
    /\ InputEnabled(conn[i])
    /\ peer[i].inbox # << >> \/ peer[i].link \in {"half", "gone"}
WriteReady(i) == conn[i].output # NoFrame /\ peer[i].reading

Ready(i) == Interested(i) /\ (ReadReady(i) \/ Hup(i) \/ WriteReady(i))
First(i) == Ready(i) /\ \A j \in Ids : j < i => ~Ready(j)

(***************************************************************************)
(* Control quanta.                                                         *)
(***************************************************************************)
\* accept_one(): admits a peer under the limit while ids last.  A peer of
\* another user, over the limit or past the last id is dropped unanswered.
Accept ==
    /\ ~server.shutting
    /\ server.barrier = NoReceipt
    /\ server.next \in Ids
    /\ Cardinality({i \in Ids : Present(conn[i])}) < Limit
    /\ conn' = [conn EXCEPT ![server.next] = Fresh]
    /\ server' = [server EXCEPT !.next = @ + 1]
    /\ peer' = [peer EXCEPT ![server.next].link = "open"]
    /\ UNCHANGED <<owner, faults, asked, got>>

\* receive_one(): the chunk completes n frames and may end inside the next.
Receive(i) ==
    /\ First(i) /\ ReadReady(i) /\ peer[i].inbox # << >>
    /\ \E n \in 0 .. Len(peer[i].inbox), tail \in BOOLEAN, outcome \in Outcomes :
         /\ tail => n < Len(peer[i].inbox)
         /\ n > 0 \/ (tail /\ ~conn[i].partial)
         /\ \E m \in {Ingest(conn[i], SubSeq(peer[i].inbox, 1, n), tail)} :
               /\ outcome \in OutcomesOf(m.pending)
               /\ outcome = "changes" => owner.version < MaxVersion
               /\ Becomes(ApplyMachineAction([Shared EXCEPT !.conn[i] = m], i,
                                             m.pending # "none", outcome),
                          [peer EXCEPT ![i].inbox = SubSeq(@, n + 1, Len(@))])
    /\ UNCHANGED <<faults, got>>

ReceiveEof(i) ==
    /\ First(i) /\ ReadReady(i) /\ peer[i].inbox = << >>
    /\ Becomes([Shared EXCEPT !.conn[i] = ReadEof(@)], peer)
    /\ UNCHANGED <<faults, got>>

\* A reset while receiving or sending, or a hangup nothing else is due for:
\* the connection is removed.
Hangup(i) ==
    /\ First(i) /\ Hup(i)
    /\ Becomes([Shared EXCEPT !.conn[i] = Close(@)], peer)
    /\ UNCHANGED <<faults, got>>

\* What the peer has seen once the last byte of its output is out.
Delivered(g, frame) ==
    [class |-> frame.class, version |-> IF frame.version # 0 THEN frame.version ELSE g.version]
Answered(requests, frame) ==
    IF frame.class \in {"Ordinary", "InitialState"} /\ requests # << >> THEN Tail(requests) ELSE requests

\* send_one(): part of what remains, or all of it; a drained response is
\* recorded unless the machine closed or has queued more.
Send(i) ==
    /\ First(i) /\ ~ReadReady(i) /\ ~Hup(i) /\ WriteReady(i)
    /\ \E all \in BOOLEAN, outcome \in Outcomes :
       \E m \in {AdvanceOutput(conn[i], all)} :
         LET drains == ~Closed(m) /\ m.output = NoFrame /\ m.pendingSeq # 0
             sent == IF drains THEN [m EXCEPT !.drainedSeq = m.pendingSeq, !.pendingSeq = 0]
                     ELSE m
             frame == conn[i].output
             taken == conn[i].pending = "none" /\ m.pending # "none"
             d == [Shared EXCEPT !.conn[i] = sent,
                                 !.asked[i] = IF all THEN Answered(@, frame) ELSE @]
         IN /\ all \/ ~frame.started
            /\ outcome \in OutcomesOf(IF taken THEN m.pending ELSE "none")
            /\ outcome = "changes" => owner.version < MaxVersion
            /\ Becomes(ApplyMachineAction(d, i, taken, outcome), peer)
            /\ got' = IF all THEN [got EXCEPT ![i] = Delivered(@, frame)] ELSE got
    /\ UNCHANGED faults

ServiceControl == \E i \in Ids : Receive(i) \/ ReceiveEof(i) \/ Hangup(i) \/ Send(i)

\* expire() once the deadline of connection i has passed.
Expire(i) ==
    /\ HasDeadline(conn[i])
    /\ Becomes([Shared EXCEPT !.conn[i] = Close(@)], peer)
    /\ UNCHANGED <<faults, got>>

(***************************************************************************)
(* The owner's other quanta.                                               *)
(***************************************************************************)
\* A key, a repeat or a compositor event opens a backend transaction.
BackendStarts ==
    /\ Live /\ owner.txn = "idle"
    /\ owner' = [owner EXCEPT !.txn = "internal"]
    /\ UNCHANGED <<conn, server, peer, faults, asked, got>>

\* handle_session_update() of a finished transaction: it answers the request
\* that opened it, may change the state and may carry a key's Quit.
BackendFinishes ==
    /\ Live /\ owner.txn # "idle"
    /\ \E changed, fits, quits \in BOOLEAN :
         /\ changed => owner.version < MaxVersion
         /\ changed \/ fits
         /\ LET requester == IF owner.txn = "control" THEN owner.pending ELSE 0
                d == [Shared EXCEPT !.owner.txn = "idle",
                                    !.owner.pending = IF owner.txn = "control" THEN 0 ELSE @,
                                    !.owner.phase = IF quits THEN "QuitPending" ELSE @]
            IN Becomes(IF owner.txn = "control" /\ owner.pending = 0 THEN Fatal(Shared)
                       ELSE ApplyUpdate(d, changed, fits, requester, "act", quits), peer)
    /\ UNCHANGED <<faults, got>>

\* Module changes published whatever the session's phase.
ModulesChange_AnyPhase ==
    /\ owner.txn = "idle" /\ owner.version < MaxVersion
    /\ \E fits \in BOOLEAN : Becomes(ApplyUpdate(Shared, TRUE, fits, 0, "none", FALSE), peer)
    /\ UNCHANGED <<faults, got>>
\* service_clock() and service_sampler() with changed modules; while a
\* transaction is active the change waits for its end.
ModulesChange ==
    /\ Live /\ owner.txn = "idle" /\ owner.version < MaxVersion
    /\ \E fits \in BOOLEAN : Becomes(ApplyUpdate(Shared, TRUE, fits, 0, "none", FALSE), peer)
    /\ UNCHANGED <<faults, got>>

\* The worker answers the fence it was sealed with, or its deadline passes.
FenceReturns ==
    /\ owner.sealed /\ ~owner.fence
    /\ Becomes([Shared EXCEPT !.owner.fence = TRUE], peer)
    /\ UNCHANGED <<faults, got>>

(***************************************************************************)
(* The peers: clients of any make, at the other end of each connection.    *)
(***************************************************************************)
PeerSends(i, f) ==
    /\ Present(conn[i]) /\ peer[i].link = "open" /\ peer[i].left > 0
    /\ peer' = [peer EXCEPT ![i].inbox = Append(@, f), ![i].left = @ - 1]
    /\ UNCHANGED <<conn, server, owner, faults, asked, got>>

PeerHalfCloses(i) ==
    /\ faults < MaxFaults /\ faults' = faults + 1
    /\ Present(conn[i]) /\ peer[i].link = "open"
    /\ peer' = [peer EXCEPT ![i].link = "half"]
    /\ UNCHANGED <<conn, server, owner, asked, got>>

PeerLeaves(i) ==
    /\ faults < MaxFaults /\ faults' = faults + 1
    /\ Present(conn[i]) /\ peer[i].link \in {"open", "half"}
    /\ peer' = [peer EXCEPT ![i].link = "gone"]
    /\ UNCHANGED <<conn, server, owner, asked, got>>

PeerStopsReading(i) ==
    /\ faults < MaxFaults /\ faults' = faults + 1
    /\ Present(conn[i]) /\ peer[i].reading
    /\ peer' = [peer EXCEPT ![i].reading = FALSE]
    /\ UNCHANGED <<conn, server, owner, asked, got>>

Next ==
    \/ Accept
    \/ \E i \in Ids : Receive(i)
    \/ \E i \in Ids : ReceiveEof(i)
    \/ \E i \in Ids : Hangup(i)
    \/ \E i \in Ids : Send(i)
    \/ \E i \in Ids : Expire(i)
    \/ BackendStarts
    \/ BackendFinishes
    \/ ModulesChange
    \/ FenceReturns
    \/ \E i \in Ids : \E f \in PeerFrames[i] : PeerSends(i, f)
    \/ \E i \in Ids : PeerHalfCloses(i)
    \/ \E i \in Ids : PeerLeaves(i)
    \/ \E i \in Ids : PeerStopsReading(i)

\* The loop polls again after every quantum: as long as a control source is
\* ready, a deadline is running (poll(2) times out at it) or the worker has a
\* fence to answer, one of them is eventually taken.  Fairness is
\* WF_vars(Quantum) with its ENABLED written out.
Quantum ==
    \/ ServiceControl
    \/ \E i \in Ids : Expire(i)
    \/ FenceReturns

QuantumDue ==
    \/ \E i \in Ids : Ready(i) \/ HasDeadline(conn[i])
    \/ owner.sealed /\ ~owner.fence

Fairness == []<>(~QuantumDue) \/ []<><<(conn' # conn \/ owner' # owner) /\ Quantum>>_vars

Spec == Init /\ [][Next]_vars /\ Fairness

(***************************************************************************)
(* Properties.                                                             *)
(***************************************************************************)
\* The owner never trips over itself: no admitted request is replaced by
\* another (RuntimeError::Invariant), no completion lacks its requester, no
\* second barrier is armed, and nothing is published, answered or quit after
\* shutdown began - each of which would end the session with an error.
NeverFatal == ~owner.fatal

\* A peer has at most one request unanswered, and what is queued for it is
\* the answer to that request; an answer not yet queued is still owed, by the
\* transaction the request opened.  No answer is lost, doubled or sent to
\* another connection, although an action is answered quanta later.
RequestsAreAnswered ==
    \A i \in Ids : Present(conn[i]) =>
        /\ Len(asked[i]) <= 1
        /\ conn[i].output.class \in {"Ordinary", "InitialState"}
             => asked[i] = <<conn[i].output.answers>>
        /\ asked[i] # << >>
             => \/ conn[i].output.class \in {"Ordinary", "InitialState"}
                \/ asked[i] = <<"act">> /\ owner.pending = i

\* A subscriber's events: they begin with a state, every later state is
\* newer, and nothing follows Shutdown.
SubscriberStream ==
    [][\A i \in Ids : got'[i] # got[i] =>
         /\ got[i].class # "Shutdown"
         /\ got'[i].class \in {"State", "Shutdown"} => got[i].class \in {"InitialState", "State"}
         /\ got'[i].class = "State" => got'[i].version > got[i].version]_vars

\* A Quit asked for over the socket is answered before the shutdown it
\* causes: the shutdown starts with the delivery of the answer, or because
\* the quitter's connection failed or timed out.
QuitIsAnsweredFirst ==
    [][(server'.shutting /\ ~server.shutting /\ owner'.quitter # 0)
         => \/ asked'[owner'.quitter] = << >>
            \/ \E i \in Ids : i = owner'.quitter /\ (Expire(i) \/ Hangup(i))]_vars

\* A subscriber converges: again and again it has received the state that
\* is the published one, or its connection has ended - so once publication
\* pauses, conflation has lost it nothing but intermediate states.
SubscriberConverges ==
    \A i \in Ids : []<>(conn[i].phase # "Subscriber" \/ got[i].version = owner.version)

\* Once Quit is pending the compositor is told to exit, whatever the peers do.
QuitCompletes == (owner.phase = "QuitPending") ~> (owner.phase = "Exiting")

=============================================================================
