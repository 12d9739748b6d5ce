--------------------------- MODULE ControlMachine ---------------------------
(***************************************************************************)
(* The per-connection protocol machine of the control socket               *)
(* (crates/realm-control/src/protocol.rs, ConnectionMachine) as operators  *)
(* on a record.  A frame is abstracted to what the machine tells apart:    *)
(*   inbound   "hello", "oldHello" (another protocol version), the         *)
(*             requests, "other" (JSON that is no request), "bad" (invalid *)
(*             or longer than a frame may be);                             *)
(*   outbound  its class, the request it answers, the state version it     *)
(*             carries, and whether some of its bytes have been sent.      *)
(* Instants are abstracted: a machine either has a deadline or has none.   *)
(***************************************************************************)
EXTENDS Naturals, Sequences

Requests == {"get", "act", "sub", "quit"}
Frames == Requests \union {"hello", "oldHello", "other", "bad"}

NoFrame == [class |-> "none", answers |-> "none", version |-> 0, started |-> FALSE]
Cursor(class, answers, version) ==
    [class |-> class, answers |-> answers, version |-> version, started |-> FALSE]

\* ConnectionMachine::new; pendingSeq, drainedSeq and nextSeq are the
\* response sequence fields the server keeps beside the machine.
Fresh == [phase |-> "AwaitHello", partial |-> FALSE, output |-> NoFrame,
          latest |-> NoFrame, retained |-> "none", pending |-> "none",
          halfClosed |-> FALSE, shutting |-> FALSE,
          nextSeq |-> 1, pendingSeq |-> 0, drainedSeq |-> 0]

\* A slot no connection has been accepted into yet.
Vacant == [Fresh EXCEPT !.phase = "none"]

\* close(); the server removes every machine that closes.
Close(m) == [Fresh EXCEPT !.phase = "Closing"]

Closed(m) == m.phase = "Closing"
Present(m) == m.phase \notin {"none", "Closing"}

InputEnabled(m) ==
    /\ ~m.halfClosed
    /\ \/ m.phase = "AwaitHello" /\ ~m.shutting
       \/ m.phase = "Ready" /\ ~m.shutting /\ m.pending = "none" /\ m.output = NoFrame
       \/ m.phase = "Subscriber"

\* Only the peer's own frames are timed.
HasDeadline_InputOnly(m) == Present(m) /\ (m.phase = "AwaitHello" \/ m.partial)
\* next_deadline() is Some: the handshake, a partial frame, queued output, a
\* terminal reply or the shutdown of a subscriber is being timed.
HasDeadline(m) ==
    /\ Present(m)
    /\ m.phase = "AwaitHello" \/ m.partial \/ m.output # NoFrame \/ m.shutting

QueueHello(m, matches) ==
    [m EXCEPT !.output = Cursor("Hello", "hello", 0),
              !.phase = IF matches THEN "SendingHello" ELSE "CloseAfterReply"]

QueueTerminalError(m) ==
    [m EXCEPT !.partial = FALSE, !.phase = "CloseAfterReply",
              !.output = Cursor("Terminal", "error", 0)]

SetCurrent(m, frame) == [m EXCEPT !.output = frame]

\* The machine after the complete frame f.  more: the chunk goes on after f.
IngestFrame(m, f, more) ==
    LET n == [m EXCEPT !.partial = FALSE] IN
    IF f = "bad" THEN Close(m) ELSE
    CASE n.phase = "AwaitHello" ->
           IF f \in {"hello", "oldHello"} THEN QueueHello(n, f = "hello")
           ELSE QueueTerminalError(n)
      [] n.phase = "SendingHello" ->
           IF n.retained # "none" \/ more THEN Close(m)
           ELSE [n EXCEPT !.retained = IF f \in Requests THEN f ELSE "error"]
      [] n.phase = "Ready" ->
           IF f \notin Requests THEN QueueTerminalError(n)
           ELSE IF more THEN Close(m)
           ELSE [n EXCEPT !.pending = f]
      [] OTHER -> Close(m)

\* ingest() of a chunk that completes the frames s and, when tail holds, ends
\* inside a further frame.  No chunk gets past its second frame.
Ingest(m, s, tail) ==
    LET Cut(n) == IF tail /\ n.phase \in {"AwaitHello", "SendingHello", "Ready"}
                  THEN [n EXCEPT !.partial = TRUE] ELSE n
        one == IngestFrame(m, s[1], Len(s) > 1 \/ tail)
        two == IngestFrame(one, s[2], Len(s) > 2 \/ tail)
    IN IF \/ m.phase \notin {"AwaitHello", "SendingHello", "Ready"}
          \/ m.pending # "none" \/ m.halfClosed \/ m.shutting
       THEN Close(m)
       ELSE IF s = << >> THEN Cut(m)
       ELSE IF one.phase = "SendingHello" /\ Len(s) > 1 THEN two
       ELSE Cut(one)

ReadEof(m) ==
    IF m.halfClosed THEN m
    ELSE IF \/ m.partial
            \/ m.phase = "AwaitHello"
            \/ m.phase = "Ready" /\ m.pending = "none" /\ m.output = NoFrame
    THEN Close(m)
    ELSE [m EXCEPT !.halfClosed = TRUE]

\* The conflated state is dropped with the frame that delayed it.
FinishSubscriberOutput_DropsLatest(m) ==
    IF m.shutting /\ m.latest = NoFrame THEN Close(m)
    ELSE IF m.shutting THEN [m EXCEPT !.output = m.latest, !.latest = NoFrame]
    ELSE [m EXCEPT !.latest = NoFrame]
FinishSubscriberOutput(m) ==
    IF m.latest # NoFrame THEN [m EXCEPT !.output = m.latest, !.latest = NoFrame]
    ELSE IF m.shutting THEN Close(m)
    ELSE m

\* advance_output() by all the bytes that remained.
FinishOutput(m) ==
    LET n == [m EXCEPT !.output = NoFrame] IN
    CASE m.output.class = "Hello" ->
           IF m.phase = "CloseAfterReply" THEN Close(m)
           ELSE IF m.retained \in Requests
           THEN [n EXCEPT !.phase = "Ready", !.retained = "none", !.pending = m.retained]
           ELSE IF m.retained = "error"
           THEN QueueTerminalError([n EXCEPT !.retained = "none"])
           ELSE IF m.halfClosed THEN Close(m)
           ELSE [n EXCEPT !.phase = "Ready"]
      [] m.output.class = "Ordinary" -> IF m.halfClosed THEN Close(m) ELSE n
      [] m.output.class \in {"InitialState", "State"} -> FinishSubscriberOutput(n)
      [] m.output.class \in {"Shutdown", "Terminal"} -> Close(m)

\* advance_output(): all: the send took every remaining byte.
AdvanceOutput(m, all) ==
    IF m.output = NoFrame THEN m
    ELSE IF all THEN FinishOutput(m)
    ELSE [m EXCEPT !.output.started = TRUE]

CompleteRequestOf(m, answers) ==
    IF m.shutting \/ m.pending \in {"none", "sub"} THEN m
    ELSE SetCurrent([m EXCEPT !.pending = "none"], Cursor("Ordinary", answers, 0))

CompleteSubscribeOf(m, version) ==
    IF m.shutting \/ m.pending # "sub" THEN m
    ELSE SetCurrent([m EXCEPT !.pending = "none", !.phase = "Subscriber"],
                    Cursor("InitialState", "sub", version))

PublishStateTo(m, version) ==
    IF m.phase # "Subscriber" \/ m.shutting THEN m
    ELSE IF m.output # NoFrame THEN [m EXCEPT !.latest = Cursor("State", "none", version)]
    ELSE [m EXCEPT !.output = Cursor("State", "none", version)]

\* The Shutdown event takes the place of any frame not yet started.
BeginShutdownOf_ReplacesFirst(m) ==
    LET n == [m EXCEPT !.shutting = TRUE, !.latest = NoFrame]
    IN IF m.shutting \/ ~Present(m) THEN m
       ELSE IF m.phase # "Subscriber" THEN Close(m)
       ELSE IF m.output.started THEN n
       ELSE [n EXCEPT !.output = Cursor("Shutdown", "none", 0)]
\* begin_shutdown(): a first event not yet started still goes out, before the
\* Shutdown event; a state event is replaced by it; a started one is finished
\* and is the last.
BeginShutdownOf(m) ==
    LET shutdown == Cursor("Shutdown", "none", 0)
        n == [m EXCEPT !.shutting = TRUE, !.latest = NoFrame]
    IN IF m.shutting \/ ~Present(m) THEN m
       ELSE IF m.phase # "Subscriber" THEN Close(m)
       ELSE IF m.output.started THEN n
       ELSE IF m.output.class = "InitialState" THEN [n EXCEPT !.latest = shutdown]
       ELSE [n EXCEPT !.output = shutdown]

=============================================================================
