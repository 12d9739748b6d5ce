---------------------------- MODULE ControlProofs ----------------------------
(***************************************************************************)
(* Proofs about the control socket for any number of connections, peers    *)
(* that send any frames, and any bounds: the owner never trips over        *)
(* itself, a request has exactly one answer under way, a subscriber's      *)
(* events are in order and a Quit is answered before it takes effect.      *)
(*                                                                         *)
(* The inductive invariant says of every connection what its phase makes   *)
(* of its output, of the requests it has no answer to and of what its peer *)
(* has seen; and of the owner what its phase makes of the barrier, the     *)
(* pending request and the connections that are left.                      *)
(***************************************************************************)
EXTENDS Control, TLAPS

Classes == {"none", "Hello", "Terminal", "Ordinary", "InitialState", "State", "Shutdown"}
Cursors ==
    [class : Classes, answers : Requests \union {"none", "hello", "error"},
     version : Nat, started : BOOLEAN]
ConnectionPhases ==
    {"none", "AwaitHello", "SendingHello", "Ready", "Subscriber", "CloseAfterReply", "Closing"}
Machines ==
    [phase : ConnectionPhases, partial : BOOLEAN, output : Cursors, latest : Cursors,
     retained : Requests \union {"none", "error"}, pending : Requests \union {"none"},
     halfClosed : BOOLEAN, shutting : BOOLEAN,
     nextSeq : Nat \ {0}, pendingSeq : Nat, drainedSeq : Nat]
Receipts == [conn : Nat, seq : Nat]
Servers == [next : Nat \ {0}, barrier : Receipts, shutting : BOOLEAN]
Owners ==
    [phase : {"Live", "QuitPending", "ShuttingDown", "Exiting"},
     txn : {"idle", "internal", "control"}, pending : Ids \union {0}, quit : Receipts, quitter : Nat,
     sealed : BOOLEAN, fence : BOOLEAN, fatal : BOOLEAN, version : Nat]
States ==
    [conn : [Ids -> Machines], server : Servers, owner : Owners, asked : [Ids -> Seq(Requests)]]
Reception == [class : Classes, version : Nat]
Receptions == [Ids -> Reception]

-----------------------------------------------------------------------------
(* One connection: its machine c, the requests a it has no answer to, what *)
(* its peer got last (g), and the published version v.                     *)

AnswerClasses == {"Ordinary", "InitialState"}
EventClasses == {"InitialState", "State"}

\* What the phase makes of the output.
OutputOK(c) ==
    /\ c.phase = "AwaitHello" => c.output = NoFrame
    /\ c.phase = "SendingHello" => c.output.class = "Hello"
    /\ c.phase = "CloseAfterReply" => c.output.class \in {"Hello", "Terminal"}
    /\ c.phase = "Ready" => c.output = NoFrame \/ c.output.class = "Ordinary"
    /\ c.phase = "Subscriber" =>
         c.output = NoFrame \/ c.output.class \in EventClasses \union {"Shutdown"}
    /\ c.phase # "Subscriber" => c.latest = NoFrame /\ ~c.shutting
    /\ c.pending # "none" => c.phase = "Ready" /\ c.output = NoFrame

\* The events queued for a subscriber continue those its peer has received.
EventsOK(c, g, v) ==
    /\ c.phase # "Subscriber" => g.class \notin EventClasses \union {"Shutdown"}
    /\ c.phase = "Subscriber" =>
         /\ g.class # "Shutdown"
         /\ c.output.class = "InitialState" <=> g.class \notin EventClasses
         /\ g.class \in EventClasses => g.version <= v
         /\ c.output.class \in EventClasses => c.output.version \in 1 .. v
         /\ c.output.class = "State" => g.version < c.output.version
         /\ c.output.class = "Shutdown" => c.shutting
         /\ c.output.class \notin EventClasses => c.latest = NoFrame
         /\ \/ c.latest = NoFrame
            \/ c.latest.class = "Shutdown" /\ c.shutting
            \/ c.latest.class = "State" /\ c.latest.version \in c.output.version + 1 .. v

\* The request that is being answered, in the transaction it opened or in the
\* frame that is queued.
Unanswered(c) ==
    IF c.pending # "none" THEN <<c.pending>>
    ELSE IF c.output.class \in AnswerClasses THEN <<c.output.answers>>
    ELSE << >>

\* owed: the owner has admitted a request of this connection.
ConnOK(c, a, owed, g, v) ==
    Present(c) =>
        /\ OutputOK(c) /\ EventsOK(c, g, v)
        /\ a = Unanswered(c)
        /\ c.pending \in {"none", "act"}
        /\ owed <=> c.pending = "act"

\* The machine has just taken a request, which is yet to be dispatched.
Taken(c, a, owed, g) ==
    /\ c.phase = "Ready" /\ OutputOK(c) /\ c.pending \in Requests
    /\ a = << >> /\ ~owed
    /\ g.class \notin EventClasses \union {"Shutdown"}

-----------------------------------------------------------------------------
(* The owner and the server.                                               *)

LiveOK(d) ==
    d.owner.phase = "Live" =>
        /\ ~d.server.shutting /\ d.server.barrier = NoReceipt
        /\ d.owner.quit = NoReceipt /\ d.owner.quitter = 0
        /\ d.owner.pending # 0 <=> d.owner.txn = "control"

\* The barrier is the receipt of the quitter's response, which is queued
\* until it has settled.
QuitOK(d) ==
    d.owner.phase = "QuitPending" =>
        /\ ~d.server.shutting /\ d.server.barrier = d.owner.quit
        /\ d.owner.quit.conn \in Ids /\ d.owner.quit.seq # 0
        /\ d.owner.quitter = d.owner.quit.conn
        /\ d.owner.txn = "idle"
        /\ d.conn[d.owner.quitter].pendingSeq = d.owner.quit.seq
             => d.conn[d.owner.quitter].output.class = "Ordinary"

ShutdownOK(d) ==
    d.owner.phase \in {"ShuttingDown", "Exiting"} =>
        /\ d.server.shutting /\ d.server.barrier = NoReceipt /\ d.owner.quit = NoReceipt
        /\ \A i \in Ids : Present(d.conn[i]) => d.conn[i].phase = "Subscriber"

\* Ids not handed out yet.
UnusedOK(d, g) ==
    /\ d.owner.pending < d.server.next
    /\ \A i \in Ids : i >= d.server.next =>
         d.conn[i] = Vacant /\ d.asked[i] = << >> /\ g[i] = Nothing

\* What holds within a quantum.
BaseOK(d, g) ==
    d \in States /\ ~d.owner.fatal /\ d.owner.version >= 1 /\ UnusedOK(d, g)
ConnectionOK(d, g, i) ==
    ConnOK(d.conn[i], d.asked[i], d.owner.pending = i, g[i], d.owner.version)
QuantumOK(d, g) ==
    /\ BaseOK(d, g) /\ \A i \in Ids : ConnectionOK(d, g, i)
    /\ LiveOK(d) /\ QuitOK(d) /\ ShutdownOK(d)

\* Between quanta a Quit that waits has an answer under way.
QuitWaits(d) ==
    d.owner.phase = "QuitPending" => ResponseSettlement(d, d.owner.quit) = "Pending"

ControlInv == got \in Receptions /\ QuantumOK(Shared, got) /\ QuitWaits(Shared)

-----------------------------------------------------------------------------
(* What the operations of ConnectionMachine make of one connection.        *)

\* The machines and the frames the operations build are of their types.
LEMMA MachineTypes ==
    /\ NoFrame \in Cursors /\ NoFrame.class = "none"
    /\ Fresh \in Machines /\ Vacant \in Machines
    /\ ~Present(Vacant)
    /\ \A m : Close(m) \in Machines /\ ~Present(Close(m)) /\ Closed(Close(m))
                /\ Close(m).pending = "none"
<1>1. NoFrame \in Cursors /\ NoFrame.class = "none"
  BY DEF NoFrame, Cursors, Classes
<1>2. Fresh \in Machines /\ Fresh.phase = "AwaitHello" /\ Fresh.pending = "none"
  BY <1>1 DEF Fresh, Machines, ConnectionPhases
<1>3. Vacant \in Machines /\ ~Present(Vacant)
  BY <1>2 DEF Vacant, Machines, ConnectionPhases, Present
<1>4. ASSUME NEW m
      PROVE  Close(m) \in Machines /\ ~Present(Close(m)) /\ Closed(Close(m))
                /\ Close(m).pending = "none"
  BY <1>2 DEF Close, Closed, Machines, ConnectionPhases, Present
<1>. QED BY <1>1, <1>2, <1>3, <1>4

\* A complete frame leaves the machine closed, or in a phase its output fits,
\* with a request only if that is all the chunk holds.
LEMMA IngestFrameOK ==
    ASSUME NEW c \in Machines, NEW f, NEW more, OutputOK(c),
           c.phase \in {"AwaitHello", "SendingHello", "Ready"}, c.pending = "none",
           c.phase = "Ready" => c.output = NoFrame
    PROVE  LET m == IngestFrame(c, f, more) IN
           /\ m \in Machines
           /\ Present(m) => /\ OutputOK(m) /\ m.phase # "Subscriber"
                            /\ m.output.class \notin AnswerClasses
                            /\ m.pending # "none" => m.pending \in Requests /\ m.phase = "Ready"
<1>. DEFINE m == IngestFrame(c, f, more)
            n == [c EXCEPT !.partial = FALSE]
<1>1. /\ n \in Machines /\ n.phase = c.phase /\ n.output = c.output /\ n.latest = c.latest
      /\ n.shutting = c.shutting /\ n.pending = c.pending /\ n.retained = c.retained
  BY Zenon DEF Machines
<1>2. CASE m = Close(c)
  BY <1>2, MachineTypes
<1>3. CASE /\ c.phase = "AwaitHello" /\ f \in {"hello", "oldHello"}
           /\ m = QueueHello(n, f = "hello")
  <2>1. Cursor("Hello", "hello", 0) \in Cursors /\ Cursor("Hello", "hello", 0).class = "Hello"
    BY DEF Cursor, Cursors, Classes
  <2>2. /\ m \in Machines /\ m.output.class = "Hello" /\ m.phase \in {"SendingHello", "CloseAfterReply"}
        /\ m.latest = n.latest /\ m.shutting = n.shutting /\ m.pending = n.pending
    BY <1>1, <1>3, <2>1, ZenonT(30) DEF QueueHello, Machines, ConnectionPhases
  <2>. QED BY <1>1, <1>3, <2>2 DEF OutputOK, AnswerClasses
<1>4. CASE m = QueueTerminalError(n)
  <2>1. Cursor("Terminal", "error", 0) \in Cursors /\ Cursor("Terminal", "error", 0).class = "Terminal"
    BY DEF Cursor, Cursors, Classes
  <2>2. /\ m \in Machines /\ m.output.class = "Terminal" /\ m.phase = "CloseAfterReply"
        /\ m.latest = n.latest /\ m.shutting = n.shutting /\ m.pending = n.pending
    BY <1>1, <1>4, <2>1, ZenonT(30) DEF QueueTerminalError, Machines, ConnectionPhases
  <2>. QED BY <1>1, <1>4, <2>2 DEF OutputOK, AnswerClasses
<1>5. CASE /\ c.phase = "SendingHello"
           /\ m = [n EXCEPT !.retained = IF f \in Requests THEN f ELSE "error"]
  BY <1>1, <1>5, MachineTypes, ZenonT(30) DEF Machines, OutputOK, AnswerClasses, EventClasses, Present
<1>6. CASE c.phase = "Ready" /\ f \in Requests /\ m = [n EXCEPT !.pending = f]
  BY <1>1, <1>6, MachineTypes, ZenonT(30) DEF Machines, OutputOK, AnswerClasses, EventClasses, Present
<1>7. \/ m = Close(c)
      \/ c.phase = "AwaitHello" /\ f \in {"hello", "oldHello"} /\ m = QueueHello(n, f = "hello")
      \/ m = QueueTerminalError(n)
      \/ c.phase = "SendingHello" /\ m = [n EXCEPT !.retained = IF f \in Requests THEN f ELSE "error"]
      \/ c.phase = "Ready" /\ f \in Requests /\ m = [n EXCEPT !.pending = f]
  BY <1>1 DEF IngestFrame
<1>. QED BY <1>2, <1>3, <1>4, <1>5, <1>6, <1>7

\* ingest(): a connection that may be read from is still in order, or has just
\* taken a request; a subscriber that sends anything is closed.
LEMMA IngestOK ==
    ASSUME NEW c \in Machines, NEW s, NEW tail \in BOOLEAN, NEW a, NEW owed \in BOOLEAN,
           NEW g, NEW v, Present(c), InputEnabled(c), ConnOK(c, a, owed, g, v)
    PROVE  LET m == Ingest(c, s, tail) IN
           /\ m \in Machines
           /\ c.phase = "Subscriber" => ~Present(m)
           /\ m.pending = "none" => ConnOK(m, a, owed, g, v)
           /\ m.pending # "none" => Taken(m, a, owed, g)
<1>. DEFINE m == Ingest(c, s, tail)
            Cut(n) == IF tail /\ n.phase \in {"AwaitHello", "SendingHello", "Ready"}
                      THEN [n EXCEPT !.partial = TRUE] ELSE n
            one == IngestFrame(c, s[1], Len(s) > 1 \/ tail)
            two == IngestFrame(one, s[2], Len(s) > 2 \/ tail)
            Sound(n) == /\ n \in Machines
                        /\ Present(n) => /\ OutputOK(n) /\ n.phase # "Subscriber"
                                         /\ n.output.class \notin AnswerClasses
                                         /\ n.pending # "none" => n.pending \in Requests /\ n.phase = "Ready"
<1>1. m = Close(c) \/ (c.phase \in {"AwaitHello", "SendingHello", "Ready"} /\ c.pending = "none"
                        /\ (m = Cut(c) \/ m = Cut(one) \/ (one.phase = "SendingHello" /\ m = two)))
  BY DEF Ingest
<1>2. CASE m = Close(c)
  BY <1>2, MachineTypes DEF ConnOK
<1>3. CASE m # Close(c)
  <2>1. /\ c.phase \in {"AwaitHello", "Ready"} /\ c.pending = "none" /\ OutputOK(c)
        /\ c.output = NoFrame /\ a = << >> /\ ~owed
        /\ g.class \notin EventClasses \union {"Shutdown"}
    BY <1>1, <1>3, MachineTypes DEF ConnOK, OutputOK, EventsOK, Unanswered, InputEnabled, AnswerClasses
  <2>2. Sound(c)
    BY <2>1, MachineTypes DEF AnswerClasses
  <2>3. Sound(one)
    BY <2>1, IngestFrameOK
  <2>4. one.phase = "SendingHello" => Sound(two)
    <3>1. SUFFICES ASSUME one.phase = "SendingHello" PROVE Sound(two)
      OBVIOUS
    <3>2. OutputOK(one) /\ one.pending = "none"
      BY <2>3, <3>1 DEF Present
    <3>. QED BY <3>1, <3>2, <2>3, IngestFrameOK
  <2>5. ASSUME NEW n, Sound(n) PROVE Sound(Cut(n))
    BY <2>5, Zenon DEF Machines, OutputOK, Present
  <2>6. Sound(m)
    <3>. HIDE DEF Sound, Cut, one, two, m
    <3>. QED BY <1>1, <1>3, <2>2, <2>3, <2>4, <2>5
  <2>7. m.pending # "none" => Present(m)
    <3>1. ASSUME NEW n, n \in Machines, n.pending # "none" => Present(n)
          PROVE  Cut(n).pending # "none" => Present(Cut(n))
      BY <3>1 DEF Machines, Present
    <3>2. ASSUME NEW n \in Machines, n.pending = "none", NEW f, NEW more
          PROVE  LET x == IngestFrame(n, f, more) IN x.pending # "none" => Present(x)
      BY <3>2, MachineTypes DEF IngestFrame, QueueHello, QueueTerminalError, Machines, Present
    <3>3. one.phase = "SendingHello" => one.pending = "none"
      BY <2>3 DEF Present
    <3>. HIDE DEF Cut, one, two, m
    <3>4. (one.pending # "none" => Present(one)) /\ (one.phase = "SendingHello" /\ two.pending # "none" => Present(two))
      BY <2>1, <2>3, <3>2, <3>3 DEF one, two, Sound
    <3>. QED BY <1>1, <1>3, <2>1, <2>3, <3>1, <3>4 DEF Sound
  <2>. HIDE DEF m
  <2>8. m.pending = "none" => ConnOK(m, a, owed, g, v)
    BY <2>1, <2>6 DEF ConnOK, EventsOK, Unanswered, Sound
  <2>9. m.pending # "none" => Taken(m, a, owed, g)
    BY <2>1, <2>6, <2>7 DEF Taken, Sound
  <2>. QED BY <2>1, <2>6, <2>8, <2>9 DEF m, Sound
<1>. QED BY <1>2, <1>3

\* advance_output() by part of the frame changes nothing but that it started.
LEMMA StartedOK ==
    ASSUME NEW c \in Machines, Present(c), c.output # NoFrame, NEW a, NEW owed \in BOOLEAN,
           NEW g, NEW v, ConnOK(c, a, owed, g, v)
    PROVE  LET m == AdvanceOutput(c, FALSE) IN
           /\ m \in Machines /\ ConnOK(m, a, owed, g, v)
           /\ m.phase = c.phase /\ m.pending = c.pending /\ m.pendingSeq = c.pendingSeq
           /\ m.output # NoFrame /\ m.output.class = c.output.class
<1>. DEFINE m == [c EXCEPT !.output.started = TRUE]
<1>1. /\ m.output \in Cursors /\ m.output.class = c.output.class /\ m.output.answers = c.output.answers
      /\ m.output.version = c.output.version /\ m.output # NoFrame
  BY Zenon DEF Machines, Cursors, NoFrame
<1>2. /\ m \in Machines /\ m.phase = c.phase /\ m.pending = c.pending /\ m.latest = c.latest
      /\ m.shutting = c.shutting /\ m.pendingSeq = c.pendingSeq
  BY <1>1, Zenon DEF Machines
<1>3. AdvanceOutput(c, FALSE) = m
  BY DEF AdvanceOutput
<1>. HIDE DEF m
<1>4. OutputOK(m)
  BY <1>1, <1>2 DEF OutputOK, ConnOK
<1>5. EventsOK(m, g, v)
  BY <1>1, <1>2 DEF EventsOK, ConnOK
<1>6. ConnOK(m, a, owed, g, v)
  BY <1>1, <1>2, <1>4, <1>5 DEF ConnOK, Unanswered, Present
<1>. QED BY <1>1, <1>2, <1>3, <1>6, Zenon

\* advance_output() by the rest of the frame, which the peer then has: the
\* connection is closed, in order, or has taken the request it retained.
LEMMA FinishOutputOK ==
    ASSUME NEW c \in Machines, Present(c), c.output # NoFrame, NEW a, NEW owed \in BOOLEAN,
           NEW g \in Reception, NEW v \in Nat, ConnOK(c, a, owed, g, v)
    PROVE  LET m == AdvanceOutput(c, TRUE)
               b == Answered(a, c.output)
               h == Delivered(g, c.output)
           IN  /\ m \in Machines /\ c.pending = "none"
               /\ m.pending # "none" => Taken(m, b, owed, h) /\ c.phase = "SendingHello"
               /\ m.pending = "none" => ConnOK(m, b, owed, h, v)
               /\ Present(m) /\ c.phase = "Subscriber" => m.phase = "Subscriber"
               /\ c.output.class = "Ordinary" =>
                    m.pending = "none" /\ (~Present(m) \/ m.output = NoFrame) /\ b = << >>
<1>. DEFINE m == FinishOutput(c)
            n == [c EXCEPT !.output = NoFrame]
            b == Answered(a, c.output)
            h == Delivered(g, c.output)
<1>1. m = AdvanceOutput(c, TRUE)
  BY DEF AdvanceOutput
<1>2. /\ c.pending = "none" /\ ~owed /\ OutputOK(c) /\ EventsOK(c, g, v)
      /\ c.output.class \in Classes /\ c.output.version \in Nat
      /\ a = IF c.output.class \in AnswerClasses THEN <<c.output.answers>> ELSE << >>
  BY DEF ConnOK, OutputOK, Unanswered, Machines, Cursors
<1>3. b = << >>
  BY <1>2 DEF Answered, AnswerClasses
<1>4. h.class = c.output.class /\ h.version = IF c.output.version # 0 THEN c.output.version ELSE g.version
  BY DEF Delivered
<1>5. /\ n \in Machines /\ n.output = NoFrame /\ n.phase = c.phase /\ n.latest = c.latest
      /\ n.pending = "none" /\ n.shutting = c.shutting /\ n.halfClosed = c.halfClosed
      /\ n.retained = c.retained
  BY <1>2, MachineTypes DEF Machines
<1>. HIDE DEF b, h
<1>6. CASE m = Close(c)
  <2>. HIDE DEF m
  <2>. QED BY <1>1, <1>2, <1>3, <1>6, MachineTypes, Zenon DEF ConnOK, b
<1>7. CASE c.output.class = "Hello" /\ m # Close(c)
  <2>1. /\ c.phase = "SendingHello" /\ c.latest = NoFrame /\ ~c.shutting
    BY <1>2, <1>7, MachineTypes DEF OutputOK, Present, Machines, ConnectionPhases, EventClasses, FinishOutput
  <2>2. CASE c.retained \in Requests
    <3>1. m = [n EXCEPT !.phase = "Ready", !.retained = "none", !.pending = c.retained]
      BY <1>7, <2>1, <2>2 DEF FinishOutput
    <3>2. /\ m \in Machines /\ m.phase = "Ready" /\ m.pending = c.retained /\ m.output = NoFrame
          /\ m.latest = NoFrame /\ ~m.shutting /\ m.pending # "none"
      BY <1>5, <2>1, <2>2, <3>1, ZenonT(30) DEF Machines, ConnectionPhases, Requests
    <3>. HIDE DEF m
    <3>3. Taken(m, b, owed, h)
      BY <1>2, <1>3, <1>4, <1>7, <2>2, <3>2, MachineTypes DEF Taken, OutputOK, EventClasses
    <3>. QED BY <1>1, <1>2, <1>7, <2>1, <3>2, <3>3, Zenon DEF b, h
  <2>3. CASE c.retained = "error"
    <3>1. m = QueueTerminalError([n EXCEPT !.retained = "none"])
      BY <1>7, <2>1, <2>3 DEF FinishOutput, Requests
    <3>2. Cursor("Terminal", "error", 0) \in Cursors /\ Cursor("Terminal", "error", 0).class = "Terminal"
      BY DEF Cursor, Cursors, Classes
    <3>3. /\ m \in Machines /\ m.phase = "CloseAfterReply" /\ m.pending = "none"
          /\ m.output.class = "Terminal" /\ m.latest = NoFrame /\ ~m.shutting
      BY <1>5, <2>1, <3>1, <3>2, ZenonT(30) DEF QueueTerminalError, Machines, ConnectionPhases
    <3>. HIDE DEF m
    <3>4. ConnOK(m, b, owed, h, v)
      BY <1>2, <1>3, <1>4, <1>7, <3>3
         DEF ConnOK, OutputOK, EventsOK, Unanswered, AnswerClasses, EventClasses
    <3>. QED BY <1>1, <1>2, <1>7, <2>1, <3>3, <3>4, Zenon DEF b, h
  <2>4. CASE c.retained \notin Requests \union {"error"}
    <3>1. m = [n EXCEPT !.phase = "Ready"]
      BY <1>7, <2>1, <2>4 DEF FinishOutput
    <3>2. /\ m \in Machines /\ m.phase = "Ready" /\ m.pending = "none" /\ m.output = NoFrame
          /\ m.latest = NoFrame /\ ~m.shutting
      BY <1>5, <2>1, <3>1, Zenon DEF Machines, ConnectionPhases
    <3>. HIDE DEF m
    <3>3. ConnOK(m, b, owed, h, v)
      BY <1>2, <1>3, <1>4, <1>7, <3>2, MachineTypes
         DEF ConnOK, OutputOK, EventsOK, Unanswered, AnswerClasses, EventClasses
    <3>. QED BY <1>1, <1>2, <1>7, <2>1, <3>2, <3>3, Zenon DEF b, h
  <2>. QED BY <2>2, <2>3, <2>4, Zenon
<1>8. CASE c.output.class = "Ordinary" /\ m # Close(c)
  <2>1. m = n
    BY <1>8 DEF FinishOutput
  <2>2. c.phase = "Ready"
    BY <1>2, <1>8, MachineTypes DEF OutputOK, Present, Machines, ConnectionPhases, EventClasses
  <2>. HIDE DEF m, n
  <2>3. ConnOK(m, b, owed, h, v)
    BY <1>2, <1>3, <1>4, <1>5, <1>8, <2>1, <2>2, MachineTypes
       DEF ConnOK, OutputOK, EventsOK, Unanswered, AnswerClasses, EventClasses
  <2>. QED BY <1>1, <1>2, <1>3, <1>5, <2>1, <2>2, <2>3, Zenon DEF b, h
<1>9. CASE c.output.class \in EventClasses /\ m # Close(c)
  <2>1. c.phase = "Subscriber"
    BY <1>2, <1>9, MachineTypes DEF OutputOK, Present, Machines, ConnectionPhases, EventClasses
  <2>2. m = FinishSubscriberOutput(n)
    BY <1>9 DEF FinishOutput, EventClasses
  <2>3. h.class \in EventClasses /\ h.version = c.output.version /\ h.version <= v /\ h.version \in Nat
    BY <1>2, <1>4, <1>9, <2>1 DEF EventsOK
  <2>4. CASE c.latest # NoFrame
    <3>1. m = [n EXCEPT !.output = c.latest, !.latest = NoFrame]
      BY <1>5, <2>2, <2>4 DEF FinishSubscriberOutput
    <3>2. /\ m \in Machines /\ m.phase = "Subscriber" /\ m.pending = "none" /\ m.output = c.latest
          /\ m.latest = NoFrame /\ c.latest \in Cursors /\ m.shutting = c.shutting
      BY <1>5, <2>1, <3>1, MachineTypes, ZenonT(30) DEF Machines
    <3>3. \/ c.latest.class = "Shutdown" /\ c.shutting
          \/ c.latest.class = "State" /\ c.latest.version \in c.output.version + 1 .. v
      BY <1>2, <2>1, <2>4 DEF EventsOK
    <3>. HIDE DEF m
    <3>4. OutputOK(m) /\ Unanswered(m) = << >>
      BY <3>2, <3>3 DEF OutputOK, EventClasses, Unanswered, AnswerClasses
    <3>5. EventsOK(m, h, v)
      BY <1>2, <2>3, <3>2, <3>3 DEF EventsOK, EventClasses, Cursors
    <3>. QED BY <1>1, <1>2, <1>3, <1>9, <3>2, <3>4, <3>5, Zenon DEF b, h, ConnOK, EventClasses
  <2>5. CASE c.latest = NoFrame
    <3>1. m = n
      BY <1>5, <1>9, <2>2, <2>5 DEF FinishSubscriberOutput, Close
    <3>. HIDE DEF m, n
    <3>2. ConnOK(m, b, owed, h, v)
      BY <1>2, <1>3, <1>5, <2>1, <2>3, <2>5, <3>1, MachineTypes
         DEF ConnOK, OutputOK, EventsOK, Unanswered, AnswerClasses, EventClasses
    <3>. QED BY <1>1, <1>2, <1>5, <1>9, <2>1, <3>1, <3>2, Zenon DEF b, h, EventClasses
  <2>. QED BY <2>4, <2>5, Zenon
<1>10. c.output.class \in {"Hello", "Ordinary"} \union EventClasses \/ m = Close(c)
  <2>1. c.output.class # "none"
    BY <1>2, MachineTypes DEF OutputOK, Present, Machines, ConnectionPhases, EventClasses
  <2>. QED BY <1>2, <2>1 DEF Classes, EventClasses, FinishOutput
<1>. QED BY <1>6, <1>7, <1>8, <1>9, <1>10, Zenon

\* Neither the response sequence fields nor those of the input matter.
LEMMA SequenceFields ==
    ASSUME NEW c, NEW m, m.phase = c.phase, m.pending = c.pending, m.output = c.output,
           m.latest = c.latest, m.shutting = c.shutting,
           NEW a, NEW owed, NEW g, NEW v
    PROVE  /\ ConnOK(c, a, owed, g, v) => ConnOK(m, a, owed, g, v)
           /\ Taken(c, a, owed, g) => Taken(m, a, owed, g)
<1>2. OutputOK(c) => OutputOK(m)
  BY DEF OutputOK
<1>3. EventsOK(c, g, v) => EventsOK(m, g, v)
  BY DEF EventsOK
<1>4. Unanswered(m) = Unanswered(c)
  BY DEF Unanswered
<1>5. ConnOK(c, a, owed, g, v) => ConnOK(m, a, owed, g, v)
  BY <1>2, <1>3, <1>4 DEF ConnOK, Present
<1>6. Taken(c, a, owed, g) => Taken(m, a, owed, g)
  BY <1>2 DEF Taken
<1>. QED BY <1>5, <1>6

\* send_one() records a response that is out, unless the machine has closed or
\* queued more.
Drained(m) ==
    IF ~Closed(m) /\ m.output = NoFrame /\ m.pendingSeq # 0
    THEN [m EXCEPT !.drainedSeq = m.pendingSeq, !.pendingSeq = 0] ELSE m

\* Which touches the sequence fields only.
LEMMA DrainedFields ==
    ASSUME NEW m \in Machines
    PROVE  LET n == [m EXCEPT !.drainedSeq = m.pendingSeq, !.pendingSeq = 0] IN
           /\ n \in Machines /\ n.phase = m.phase /\ n.pending = m.pending /\ n.output = m.output
           /\ n.latest = m.latest /\ n.shutting = m.shutting /\ n.pendingSeq = 0
  BY Zenon DEF Machines

\* What a send makes of the connection, of the requests it has no answer to and
\* of what its peer has.
SentOK(c, a, owed, g, v, all) ==
    LET m == AdvanceOutput(c, all)
        sent == Drained(m)
        b == IF all THEN Answered(a, c.output) ELSE a
        h == IF all THEN Delivered(g, c.output) ELSE g
    IN  /\ m \in Machines /\ sent \in Machines /\ c.pending = "none" /\ sent.pending = m.pending
        /\ m.pending # "none" => Taken(sent, b, owed, h) /\ c.phase = "SendingHello"
        /\ m.pending = "none" => ConnOK(sent, b, owed, h, v)
        /\ Present(sent) /\ c.phase = "Subscriber" => sent.phase = "Subscriber"
        /\ c.output.class = "Ordinary" =>
             /\ m.pending = "none"
             /\ sent.pendingSeq = 0 \/ (sent.output.class = "Ordinary" /\ sent.pendingSeq = c.pendingSeq)
             /\ all => b = << >>

\* advance_output() and the response it drains leave all of it in order.
LEMMA SendOK ==
    ASSUME NEW c \in Machines, Present(c), c.output # NoFrame, NEW a, NEW owed \in BOOLEAN,
           NEW g \in Reception, NEW v \in Nat, ConnOK(c, a, owed, g, v), NEW all \in BOOLEAN
    PROVE  SentOK(c, a, owed, g, v, all)
<1>. DEFINE m == AdvanceOutput(c, all)
            sent == Drained(m)
            b == IF all THEN Answered(a, c.output) ELSE a
            h == IF all THEN Delivered(g, c.output) ELSE g
<1>1. c.pending = "none"
  BY DEF ConnOK, OutputOK
<1>2. /\ m \in Machines
      /\ m.pending # "none" => Taken(m, b, owed, h) /\ c.phase = "SendingHello"
      /\ m.pending = "none" => ConnOK(m, b, owed, h, v)
      /\ Present(m) /\ c.phase = "Subscriber" => m.phase = "Subscriber"
      /\ c.output.class = "Ordinary" =>
           /\ m.pending = "none" /\ (all => b = << >>)
           /\ IF all THEN ~Present(m) \/ m.output = NoFrame
              ELSE m.output.class = "Ordinary" /\ m.pendingSeq = c.pendingSeq
  <2>1. CASE all
    BY <2>1, FinishOutputOK, Zenon
  <2>2. CASE ~all
    BY <1>1, <2>2, StartedOK, Zenon
  <2>. QED BY <2>1, <2>2
<1>3. ~Present(m) => m.phase \in {"none", "Closing"}
  BY DEF Present
<1>4. m.phase # "none" /\ (Closed(m) => m.pendingSeq = 0)
  <2>1. CASE ~all
    BY <2>1, StartedOK, Zenon DEF Present, Closed
  <2>2. CASE all
    <3>1. m = FinishOutput(c)
      BY <2>2 DEF AdvanceOutput
    <3>2. Close(c).phase = "Closing" /\ Close(c).pendingSeq = 0
      BY DEF Close, Fresh
    <3>3. c.output.class \in Classes \ {"none"}
      BY MachineTypes DEF ConnOK, OutputOK, Present, Machines, Cursors, ConnectionPhases, EventClasses
    <3>. QED
      BY <3>1, <3>2, <3>3
         DEF FinishOutput, FinishSubscriberOutput, QueueTerminalError, Machines, Present, Closed,
             Classes, Close
  <2>. QED BY <2>1, <2>2
<1>5. /\ sent \in Machines /\ sent.pending = m.pending /\ sent.phase = m.phase /\ sent.output = m.output
      /\ m.pending # "none" => Taken(sent, b, owed, h)
      /\ m.pending = "none" => ConnOK(sent, b, owed, h, v)
      /\ sent.pendingSeq = IF ~Closed(m) /\ m.output = NoFrame /\ m.pendingSeq # 0
                           THEN 0 ELSE m.pendingSeq
  <2>. HIDE DEF m, b, h
  <2>1. CASE sent = m /\ ~(~Closed(m) /\ m.output = NoFrame /\ m.pendingSeq # 0)
    BY <1>2, <2>1
  <2>2. CASE /\ sent = [m EXCEPT !.drainedSeq = m.pendingSeq, !.pendingSeq = 0]
             /\ ~Closed(m) /\ m.output = NoFrame /\ m.pendingSeq # 0
    <3>1. /\ sent \in Machines /\ sent.phase = m.phase /\ sent.pending = m.pending
          /\ sent.output = m.output /\ sent.latest = m.latest /\ sent.shutting = m.shutting
          /\ sent.pendingSeq = 0
      BY <1>2, <2>2, DrainedFields, Zenon
    <3>. HIDE DEF sent
    <3>. QED BY <1>2, <2>2, <3>1, SequenceFields, ZenonT(30)
  <2>. QED BY <2>1, <2>2 DEF Drained
<1>6. Present(sent) /\ c.phase = "Subscriber" => sent.phase = "Subscriber"
  BY <1>2, <1>5 DEF Present
<1>7. c.output.class = "Ordinary" =>
        sent.pendingSeq = 0 \/ (sent.output.class = "Ordinary" /\ sent.pendingSeq = c.pendingSeq)
  <2>. HIDE DEF m, sent
  <2>. QED BY <1>2, <1>3, <1>4, <1>5, MachineTypes DEF Closed
<1>. HIDE DEF m, sent, b, h
<1>. QED BY <1>1, <1>2, <1>5, <1>6, <1>7 DEF SentOK, m, sent, b, h

\* complete_request(): the request taken or admitted has its answer queued.
LEMMA CompleteRequestOK ==
    ASSUME NEW c \in Machines, NEW a, NEW owed \in BOOLEAN, NEW g, NEW v \in Nat,
           c.phase = "Ready", OutputOK(c), c.pending \in Requests \ {"sub"},
           g.class \notin EventClasses \union {"Shutdown"}, a = <<c.pending>>
    PROVE  LET m == [CompleteRequestOf(c, c.pending) EXCEPT !.pendingSeq = c.nextSeq, !.nextSeq = @ + 1]
           IN  /\ m \in Machines /\ Present(m) /\ ConnOK(m, a, FALSE, g, v)
               /\ m.phase = "Ready" /\ m.output.class = "Ordinary"
               /\ m.pendingSeq # 0
<1>. DEFINE frame == Cursor("Ordinary", c.pending, 0)
            n == [[c EXCEPT !.pending = "none"] EXCEPT !.output = frame]
            m == [n EXCEPT !.pendingSeq = c.nextSeq, !.nextSeq = @ + 1]
<1>1. frame \in Cursors /\ frame.class = "Ordinary" /\ frame.answers = c.pending
  BY DEF Cursor, Cursors, Classes
<1>2. CompleteRequestOf(c, c.pending) = n
  BY DEF CompleteRequestOf, SetCurrent, OutputOK, Requests
<1>. HIDE DEF frame
<1>3. c.nextSeq \in Nat \ {0}
  BY DEF Machines
<1>4. /\ m \in Machines /\ m.phase = "Ready" /\ m.output = frame /\ m.pending = "none"
      /\ m.latest = c.latest /\ m.shutting = c.shutting /\ m.pendingSeq = c.nextSeq
  <2>1. /\ n \in Machines /\ n.phase = "Ready" /\ n.output = frame /\ n.pending = "none"
        /\ n.latest = c.latest /\ n.shutting = c.shutting /\ n.nextSeq = c.nextSeq
    BY <1>1, Zenon DEF Machines
  <2>2. c.nextSeq \in Nat /\ n.nextSeq + 1 \in Nat \ {0}
    BY <1>3, <2>1
  <2>. HIDE DEF n
  <2>. QED BY <2>1, <2>2, Zenon DEF Machines
<1>. HIDE DEF m, n
<1>5. Present(m) /\ OutputOK(m) /\ EventsOK(m, g, v) /\ Unanswered(m) = a
  BY <1>1, <1>4 DEF Present, OutputOK, EventsOK, Unanswered, AnswerClasses, EventClasses
<1>6. m = [CompleteRequestOf(c, c.pending) EXCEPT !.pendingSeq = c.nextSeq, !.nextSeq = @ + 1]
  BY <1>2 DEF m
<1>7. ConnOK(m, a, FALSE, g, v)
  BY <1>4, <1>5 DEF ConnOK
<1>. QED BY <1>1, <1>3, <1>4, <1>5, <1>6, <1>7, Zenon

\* complete_subscribe(): the first event is queued, and answers the request.
LEMMA CompleteSubscribeOK ==
    ASSUME NEW c \in Machines, NEW a, NEW g \in Reception, NEW v \in Nat, v >= 1,
           Taken(c, << >>, FALSE, g), c.pending = "sub", a = <<"sub">>
    PROVE  LET m == CompleteSubscribeOf(c, v) IN
           m \in Machines /\ ConnOK(m, a, FALSE, g, v)
<1>. DEFINE frame == Cursor("InitialState", "sub", v)
            m == [[c EXCEPT !.pending = "none", !.phase = "Subscriber"] EXCEPT !.output = frame]
<1>1. frame \in Cursors /\ frame.class = "InitialState" /\ frame.answers = "sub" /\ frame.version = v
  BY DEF Cursor, Cursors, Classes, Requests
<1>2. CompleteSubscribeOf(c, v) = m
  BY DEF CompleteSubscribeOf, SetCurrent, Taken, OutputOK
<1>. HIDE DEF frame
<1>3. /\ m \in Machines /\ m.phase = "Subscriber" /\ m.output = frame /\ m.pending = "none"
      /\ m.latest = NoFrame
  BY <1>1, Zenon DEF Machines, ConnectionPhases, Taken, OutputOK
<1>. HIDE DEF m
<1>4. OutputOK(m) /\ Unanswered(m) = a
  BY <1>1, <1>3 DEF OutputOK, Unanswered, AnswerClasses, EventClasses
<1>5. EventsOK(m, g, v)
  BY <1>1, <1>3 DEF EventsOK, EventClasses, Taken
<1>6. ConnOK(m, a, FALSE, g, v)
  BY <1>3, <1>4, <1>5 DEF ConnOK
<1>. QED BY <1>2, <1>3, <1>6, Zenon

\* publish_state(): a subscriber gets the newer state, after what it is being
\* sent, or is closed; nobody else notices.
PublishedTo(c, version, fits) ==
    IF fits THEN PublishStateTo(c, version)
    ELSE IF c.phase = "Subscriber" THEN Close(c) ELSE c

\* It leaves the connection in order, at the newer version.
LEMMA PublishOK ==
    ASSUME NEW c \in Machines, NEW a, NEW owed \in BOOLEAN, NEW g \in Reception, NEW v \in Nat,
           v >= 1, ConnOK(c, a, owed, g, v), NEW fits \in BOOLEAN
    PROVE  LET m == PublishedTo(c, v + 1, fits) IN
           m \in Machines /\ ConnOK(m, a, owed, g, v + 1)
<1>. DEFINE frame == Cursor("State", "none", v + 1)
<1>1. frame \in Cursors /\ frame.class = "State" /\ frame.version = v + 1
  BY DEF Cursor, Cursors, Classes
<1>2. ASSUME Present(c) PROVE EventsOK(c, g, v + 1)
  <2>1. c.output.version \in Nat /\ c.latest.version \in Nat /\ g.version \in Nat
    BY DEF Machines, Cursors, Reception
  <2>. QED BY <1>2, <2>1 DEF ConnOK, EventsOK
<1>3. CASE PublishedTo(c, v + 1, fits) = c
  BY <1>2, <1>3 DEF ConnOK
<1>4. CASE PublishedTo(c, v + 1, fits) = Close(c)
  BY <1>4, MachineTypes DEF ConnOK
<1>5. CASE /\ c.phase = "Subscriber" /\ ~c.shutting /\ c.output # NoFrame
           /\ PublishedTo(c, v + 1, fits) = [c EXCEPT !.latest = frame]
  <2>. DEFINE m == [c EXCEPT !.latest = frame]
  <2>. HIDE DEF frame
  <2>1. /\ m \in Machines /\ m.phase = "Subscriber" /\ m.output = c.output /\ m.pending = c.pending
        /\ m.latest = frame /\ m.shutting = c.shutting
    BY <1>1, <1>5 DEF Machines
  <2>. HIDE DEF m
  <2>2. OutputOK(c) /\ EventsOK(c, g, v) /\ EventsOK(c, g, v + 1)
    BY <1>2, <1>5 DEF ConnOK, Present
  <2>3. c.output.class \in EventClasses /\ c.output.version \in 1 .. v
    BY <1>5, <2>2 DEF OutputOK, EventsOK
  <2>4. OutputOK(m) /\ EventsOK(m, g, v + 1)
    BY <1>1, <1>5, <2>1, <2>2, <2>3 DEF OutputOK, EventsOK
  <2>5. Unanswered(m) = Unanswered(c)
    BY <2>1 DEF Unanswered
  <2>. QED BY <1>5, <2>1, <2>4, <2>5, Zenon DEF ConnOK, m, Present
<1>6. CASE /\ c.phase = "Subscriber" /\ ~c.shutting /\ c.output = NoFrame
           /\ PublishedTo(c, v + 1, fits) = [c EXCEPT !.output = frame]
  <2>. DEFINE m == [c EXCEPT !.output = frame]
  <2>. HIDE DEF frame
  <2>1. /\ m \in Machines /\ m.phase = "Subscriber" /\ m.output = frame /\ m.pending = c.pending
        /\ m.latest = c.latest /\ m.shutting = c.shutting
    BY <1>1, <1>6 DEF Machines
  <2>. HIDE DEF m
  <2>2. OutputOK(c) /\ EventsOK(c, g, v)
    BY <1>6 DEF ConnOK, Present
  <2>3. c.latest = NoFrame /\ g.class \in EventClasses /\ g.version <= v /\ g.version \in Nat
    BY <1>6, <2>2, MachineTypes DEF EventsOK, EventClasses, Reception
  <2>4. OutputOK(m) /\ c.pending = "none"
    BY <1>1, <1>6, <2>1, <2>2, <2>3 DEF OutputOK, EventClasses
  <2>5. EventsOK(m, g, v + 1)
    BY <1>1, <1>6, <2>1, <2>2, <2>3 DEF EventsOK, EventClasses
  <2>6. Unanswered(m) = Unanswered(c)
    BY <1>1, <1>6, <2>1, MachineTypes DEF Unanswered, AnswerClasses
  <2>. QED BY <1>6, <2>1, <2>4, <2>5, <2>6, Zenon DEF ConnOK, m, Present
<1>. QED BY <1>3, <1>4, <1>5, <1>6 DEF PublishedTo, PublishStateTo

\* begin_shutdown(): only subscribers stay, and Shutdown is their last event.
LEMMA BeginShutdownOK ==
    ASSUME NEW c \in Machines, NEW a, NEW owed \in BOOLEAN, NEW g \in Reception, NEW v \in Nat,
           ConnOK(c, a, owed, g, v)
    PROVE  LET m == BeginShutdownOf(c) IN
           /\ m \in Machines /\ ConnOK(m, a, owed, g, v)
           /\ Present(m) => m.phase = "Subscriber"
<1>. DEFINE m == BeginShutdownOf(c)
            shutdown == Cursor("Shutdown", "none", 0)
            n == [c EXCEPT !.shutting = TRUE, !.latest = NoFrame]
<1>1. CASE c.shutting \/ ~Present(c)
  BY <1>1 DEF BeginShutdownOf, ConnOK, OutputOK
<1>2. CASE ~c.shutting /\ Present(c) /\ c.phase # "Subscriber"
  BY <1>2, MachineTypes DEF BeginShutdownOf, ConnOK
<1>3. CASE ~c.shutting /\ Present(c) /\ c.phase = "Subscriber"
  <2>1. shutdown \in Cursors /\ shutdown.class = "Shutdown"
    BY DEF Cursor, Cursors, Classes
  <2>2. /\ n \in Machines /\ n.phase = "Subscriber" /\ n.output = c.output /\ n.pending = c.pending
        /\ n.latest = NoFrame /\ n.shutting
    BY <1>3, MachineTypes, Zenon DEF Machines
  <2>3. /\ OutputOK(c) /\ EventsOK(c, g, v) /\ a = Unanswered(c) /\ c.pending = "none" /\ ~owed
    BY <1>3 DEF ConnOK, OutputOK
  <2>. HIDE DEF shutdown, n, m
  <2>4. CASE c.output.started /\ m = n
    <3>2. c.output # NoFrame
      BY <2>4 DEF NoFrame
    <3>3. OutputOK(m) /\ EventsOK(m, g, v)
      BY <1>3, <2>2, <2>3, <2>4, <3>2 DEF OutputOK, EventsOK
    <3>4. Unanswered(m) = a
      BY <2>2, <2>3, <2>4 DEF Unanswered
    <3>. QED BY <2>2, <2>3, <2>4, <3>3, <3>4 DEF ConnOK, m
  <2>5. CASE c.output.class = "InitialState" /\ m = [n EXCEPT !.latest = shutdown]
    <3>1. /\ m \in Machines /\ m.phase = "Subscriber" /\ m.output = c.output /\ m.pending = c.pending
          /\ m.latest = shutdown /\ m.shutting
      BY <2>1, <2>2, <2>5 DEF Machines
    <3>2. OutputOK(m) /\ EventsOK(m, g, v)
      BY <1>3, <2>1, <2>3, <2>5, <3>1 DEF OutputOK, EventsOK, EventClasses
    <3>3. Unanswered(m) = a
      BY <2>3, <3>1 DEF Unanswered
    <3>. QED BY <2>3, <3>1, <3>2, <3>3 DEF ConnOK, m
  <2>6. CASE c.output.class # "InitialState" /\ m = [n EXCEPT !.output = shutdown]
    <3>1. /\ m \in Machines /\ m.phase = "Subscriber" /\ m.output = shutdown /\ m.pending = c.pending
          /\ m.latest = NoFrame /\ m.shutting
      BY <2>1, <2>2, <2>6 DEF Machines
    <3>2. OutputOK(m) /\ EventsOK(m, g, v)
      BY <1>3, <2>1, <2>3, <2>6, <3>1 DEF OutputOK, EventsOK, EventClasses
    <3>3. Unanswered(m) = a
      BY <1>3, <2>1, <2>3, <2>6, <3>1, MachineTypes
         DEF Unanswered, OutputOK, AnswerClasses, EventClasses
    <3>. QED BY <2>3, <3>1, <3>2, <3>3 DEF ConnOK, m
  <2>. QED BY <1>3, <2>4, <2>5, <2>6 DEF BeginShutdownOf, m, n, shutdown
<1>. QED BY <1>1, <1>2, <1>3

\* read_eof(): a connection with nothing under way is closed.
LEMMA ReadEofOK ==
    ASSUME NEW c \in Machines, NEW a, NEW owed \in BOOLEAN, NEW g, NEW v, ConnOK(c, a, owed, g, v)
    PROVE  LET m == ReadEof(c) IN
           /\ m \in Machines /\ ConnOK(m, a, owed, g, v)
           /\ Present(m) => m.phase = c.phase
<1>1. CASE ReadEof(c) = c \/ ReadEof(c) = Close(c)
  BY <1>1, MachineTypes DEF ConnOK
<1>2. CASE ReadEof(c) = [c EXCEPT !.halfClosed = TRUE]
  <2>. DEFINE m == [c EXCEPT !.halfClosed = TRUE]
  <2>1. /\ m \in Machines /\ m.phase = c.phase /\ m.pending = c.pending /\ m.output = c.output
        /\ m.latest = c.latest /\ m.shutting = c.shutting
    BY Zenon DEF Machines
  <2>. HIDE DEF m
  <2>2. ConnOK(m, a, owed, g, v)
    BY <2>1, SequenceFields
  <2>. QED BY <1>2, <2>1, <2>2 DEF m
<1>. QED BY <1>1, <1>2 DEF ReadEof

-----------------------------------------------------------------------------
(* The operations of the server and of the owner.                          *)

\* A state with one connection changed.
LEMMA SetConn ==
    ASSUME NEW d \in States, NEW i \in Ids, NEW m \in Machines
    PROVE  LET e == [d EXCEPT !.conn[i] = m] IN
           /\ e \in States /\ e.server = d.server /\ e.owner = d.owner /\ e.asked = d.asked
           /\ e.conn[i] = m /\ \A j \in Ids \ {i} : e.conn[j] = d.conn[j]
  BY Zenon DEF States

\* A state with the owner changed.
LEMMA SetOwner ==
    ASSUME NEW d \in States, NEW o \in Owners
    PROVE  LET e == [d EXCEPT !.owner = o] IN
           /\ e \in States /\ e.conn = d.conn /\ e.server = d.server /\ e.asked = d.asked
           /\ e.owner = o
  BY DEF States

\* The parts of a state.
LEMMA StateFields ==
    ASSUME NEW d \in States
    PROVE  /\ d.conn \in [Ids -> Machines] /\ d.server \in Servers /\ d.owner \in Owners
           /\ d.asked \in [Ids -> Seq(Requests)]
  BY DEF States

\* RuntimeOwners::begin_shutdown, from any phase in which it has not begun.
LEMMA ShutdownBegins ==
    ASSUME NEW d, NEW g \in Receptions, BaseOK(d, g), \A i \in Ids : ConnectionOK(d, g, i),
           ~d.server.shutting
    PROVE  LET e == BeginShutdown(d) IN
           /\ QuantumOK(e, g) /\ QuitWaits(e) /\ e.server.shutting
           /\ e.owner.phase = "ShuttingDown"
           /\ e.asked = d.asked /\ e.owner.quitter = d.owner.quitter
<1>. DEFINE e == BeginShutdown(d)
            down == [i \in Ids |-> BeginShutdownOf(d.conn[i])]
<1>1. d \in States /\ d.conn \in [Ids -> Machines] /\ d.server \in Servers /\ d.owner \in Owners
      /\ d.owner.version \in Nat /\ d.owner.pending \in Nat
  BY StateFields DEF BaseOK, Owners, Ids
<1>2. \A i \in Ids : /\ down[i] \in Machines
                     /\ ConnOK(down[i], d.asked[i], d.owner.pending = i, g[i], d.owner.version)
                     /\ Present(down[i]) => down[i].phase = "Subscriber"
  <2>. SUFFICES ASSUME NEW i \in Ids
                PROVE  /\ BeginShutdownOf(d.conn[i]) \in Machines
                       /\ ConnOK(BeginShutdownOf(d.conn[i]), d.asked[i], d.owner.pending = i, g[i], d.owner.version)
                       /\ Present(BeginShutdownOf(d.conn[i])) => BeginShutdownOf(d.conn[i]).phase = "Subscriber"
    OBVIOUS
  <2>1. d.conn[i] \in Machines /\ g[i] \in Reception
    BY <1>1 DEF Receptions
  <2>. QED BY <1>1, <2>1, BeginShutdownOK, Zenon DEF ConnectionOK
<1>3. NoReceipt \in Receipts
  BY DEF NoReceipt, Receipts
<1>4. \A i \in Ids : d.conn[i] = Vacant => down[i] = Vacant
  BY MachineTypes DEF BeginShutdownOf
<1>5. down \in [Ids -> Machines]
  BY <1>2
<1>. HIDE DEF down
<1>6. /\ e.conn = down /\ e.asked = d.asked
      /\ e.server = [d.server EXCEPT !.barrier = NoReceipt, !.shutting = TRUE]
      /\ e.owner = [d.owner EXCEPT !.quit = NoReceipt, !.phase = "ShuttingDown", !.txn = "idle"]
      /\ e = [conn |-> e.conn, server |-> e.server, owner |-> e.owner, asked |-> e.asked]
  BY <1>1, Zenon DEF BeginShutdown, States, Servers, Owners, down
<1>. HIDE DEF e
<1>7. /\ e.server \in Servers /\ e.server.next = d.server.next /\ e.server.barrier = NoReceipt
      /\ e.server.shutting
  BY <1>1, <1>3, <1>6, Zenon DEF Servers
<1>8. /\ e.owner \in Owners /\ e.owner.phase = "ShuttingDown" /\ e.owner.quit = NoReceipt
      /\ e.owner.pending = d.owner.pending /\ e.owner.version = d.owner.version
      /\ e.owner.fatal = d.owner.fatal /\ e.owner.quitter = d.owner.quitter
  BY <1>1, <1>3, <1>6, Zenon DEF Owners
<1>9. e \in States
  BY <1>1, <1>5, <1>6, <1>7, <1>8, StateFields DEF States
<1>10. BaseOK(e, g)
  BY <1>4, <1>6, <1>7, <1>8, <1>9 DEF BaseOK, UnusedOK
<1>11. \A i \in Ids : ConnectionOK(e, g, i)
  BY <1>2, <1>6, <1>8 DEF ConnectionOK
<1>12. LiveOK(e) /\ QuitOK(e) /\ ShutdownOK(e)
  BY <1>2, <1>6, <1>7, <1>8 DEF LiveOK, QuitOK, ShutdownOK
<1>13. QuitWaits(e)
  BY <1>8 DEF QuitWaits
<1>. QED BY <1>6, <1>7, <1>8, <1>10, <1>11, <1>12, <1>13 DEF QuantumOK, e

\* advance_shutdown(): the quantum ends in order.  It starts the shutdown only
\* when the response a Quit waits for has settled.
LEMMA AdvanceOK ==
    ASSUME NEW d, NEW g \in Receptions, QuantumOK(d, g)
    PROVE  LET e == AdvanceShutdown(d) IN
           /\ QuantumOK(e, g) /\ QuitWaits(e)
           /\ e.asked = d.asked /\ e.owner.quitter = d.owner.quitter
           /\ e.server.shutting /\ ~d.server.shutting =>
                d.owner.phase = "QuitPending" /\ ~QuitWaits(d)
<1>. DEFINE f == StartShutdown(d)
            e == LeaveWhenDone(f)
<1>1. /\ QuantumOK(f, g) /\ QuitWaits(f)
      /\ f.asked = d.asked /\ f.owner.quitter = d.owner.quitter
      /\ f.server.shutting /\ ~d.server.shutting => d.owner.phase = "QuitPending" /\ ~QuitWaits(d)
  <2>1. d.owner.phase \in {"Live", "QuitPending", "ShuttingDown", "Exiting"}
    BY StateFields DEF QuantumOK, BaseOK, Owners
  <2>2. CASE f = d /\ ~(d.owner.quit # NoReceipt /\ ResponseSettlement(d, d.owner.quit) # "Pending")
    <3>1. d.owner.phase = "QuitPending" => d.owner.quit # NoReceipt
      BY DEF QuantumOK, QuitOK, NoReceipt, Ids
    <3>2. QuitWaits(d)
      BY <2>2, <3>1 DEF QuitWaits
    <3>. HIDE DEF f
    <3>. QED BY <2>2, <3>2
  <2>3. CASE f = BeginShutdown(d) /\ d.owner.quit # NoReceipt /\ ResponseSettlement(d, d.owner.quit) # "Pending"
    <3>1. d.owner.phase = "QuitPending"
      BY <2>1, <2>3 DEF QuantumOK, LiveOK, ShutdownOK
    <3>2. ~d.server.shutting /\ ~QuitWaits(d)
      BY <2>3, <3>1 DEF QuantumOK, QuitOK, QuitWaits
    <3>. QED BY <2>3, <3>1, <3>2, ShutdownBegins, SMTT(30) DEF QuantumOK
  <2>. QED BY <2>2, <2>3 DEF StartShutdown
<1>. HIDE DEF f
<1>2. CASE e = f
  BY <1>1, <1>2 DEF AdvanceShutdown, f
<1>3. CASE f.owner.phase = "ShuttingDown" /\ e = [f EXCEPT !.owner.phase = "Exiting"]
  <2>1. f \in States /\ f.owner \in Owners /\ f.owner.phase = "ShuttingDown"
    BY <1>1, <1>3, StateFields DEF QuantumOK, BaseOK
  <2>2. /\ e \in States /\ e.conn = f.conn /\ e.server = f.server /\ e.asked = f.asked
        /\ e.owner = [f.owner EXCEPT !.phase = "Exiting"]
    BY <1>3, <2>1, ZenonT(30) DEF States, Owners
  <2>3. /\ e.owner.phase = "Exiting" /\ e.owner.pending = f.owner.pending
        /\ e.owner.version = f.owner.version /\ e.owner.fatal = f.owner.fatal
        /\ e.owner.quitter = f.owner.quitter /\ e.owner.quit = f.owner.quit
    BY <2>1, <2>2 DEF Owners
  <2>. HIDE DEF e
  <2>4. BaseOK(e, g)
    BY <1>1, <2>2, <2>3 DEF QuantumOK, BaseOK, UnusedOK
  <2>5. \A i \in Ids : ConnectionOK(e, g, i)
    BY <1>1, <2>2, <2>3 DEF QuantumOK, ConnectionOK
  <2>6. LiveOK(e) /\ QuitOK(e) /\ ShutdownOK(e) /\ QuitWaits(e)
    BY <1>1, <2>1, <2>2, <2>3 DEF QuantumOK, LiveOK, QuitOK, ShutdownOK, QuitWaits
  <2>. QED BY <1>1, <2>2, <2>3, <2>4, <2>5, <2>6 DEF QuantumOK, AdvanceShutdown, e, f
<1>. QED BY <1>2, <1>3 DEF LeaveWhenDone

\* publish_state() before the shutdown.
LEMMA PublishKeepsOrder ==
    ASSUME NEW d, NEW g \in Receptions, BaseOK(d, g), ~d.server.shutting, NEW fits \in BOOLEAN
    PROVE  LET e == Publish(d, fits) IN
           /\ BaseOK(e, g) /\ e.server = d.server /\ e.asked = d.asked
           /\ e.owner = [d.owner EXCEPT !.version = @ + 1]
           /\ \A i \in Ids : ConnectionOK(d, g, i) => ConnectionOK(e, g, i)
           /\ \A i \in Ids : d.conn[i].phase # "Subscriber" => e.conn[i] = d.conn[i]
<1>. DEFINE e == Publish(d, fits)
            to == [i \in Ids |-> PublishedTo(d.conn[i], d.owner.version + 1, fits)]
            owners == [d.owner EXCEPT !.version = @ + 1]
<1>1. /\ d \in States /\ d.conn \in [Ids -> Machines] /\ d.owner \in Owners
      /\ d.owner.version \in Nat /\ d.owner.version >= 1
  BY StateFields DEF BaseOK, Owners
<1>2. \A i \in Ids : d.conn[i].phase # "Subscriber" => to[i] = d.conn[i]
  BY DEF PublishedTo, PublishStateTo
<1>3. \A i \in Ids : to[i] \in Machines
  <2>1. ASSUME NEW c \in Machines, NEW v \in Nat PROVE PublishedTo(c, v, fits) \in Machines
    <3>1. Cursor("State", "none", v) \in Cursors
      BY DEF Cursor, Cursors, Classes
    <3>. QED BY <3>1, MachineTypes DEF PublishedTo, PublishStateTo, Machines
  <2>. QED BY <1>1, <2>1
<1>4. ASSUME NEW i \in Ids, ConnectionOK(d, g, i)
      PROVE  ConnOK(to[i], d.asked[i], d.owner.pending = i, g[i], d.owner.version + 1)
  <2>1. d.conn[i] \in Machines /\ g[i] \in Reception /\ (d.owner.pending = i) \in BOOLEAN
    BY <1>1 DEF Receptions
  <2>. QED BY <1>1, <1>4, <2>1, PublishOK, Zenon DEF ConnectionOK
<1>5. /\ owners \in Owners /\ owners.version = d.owner.version + 1 /\ owners.pending = d.owner.pending
      /\ owners.fatal = d.owner.fatal
  BY <1>1 DEF Owners
<1>6. e = [d EXCEPT !.owner.version = d.owner.version + 1, !.conn = to]
  BY DEF Publish, PublishedTo
<1>7. /\ e \in States /\ e.conn = to /\ e.server = d.server /\ e.owner = owners /\ e.asked = d.asked
  <2>1. to \in [Ids -> Machines]
    BY <1>3
  <2>. HIDE DEF to, e
  <2>. QED BY <1>1, <1>5, <1>6, <2>1, Zenon DEF States, Owners
<1>. HIDE DEF to, e, owners
<1>8. BaseOK(e, g)
  <2>1. \A i \in Ids : d.conn[i] = Vacant => to[i] = Vacant
    BY <1>2 DEF Vacant, Fresh
  <2>. QED BY <1>1, <1>5, <1>7, <2>1 DEF BaseOK, UnusedOK
<1>9. \A i \in Ids : ConnectionOK(d, g, i) => ConnectionOK(e, g, i)
  BY <1>4, <1>5, <1>7 DEF ConnectionOK
<1>. QED BY <1>2, <1>7, <1>8, <1>9 DEF e, owners

\* Connection i, if it is still there, waits for the answer to its request.
Awaits(d, g, i, answers) ==
    Present(d.conn[i]) =>
        /\ d.conn[i].phase = "Ready" /\ OutputOK(d.conn[i])
        /\ d.conn[i].pending = answers /\ answers \in Requests \ {"sub"}
        /\ d.asked[i] = <<answers>> /\ d.owner.pending # i
        /\ g[i].class \notin EventClasses \union {"Shutdown"}

\* complete_request() before the shutdown.
LEMMA CompleteKeepsOrder ==
    ASSUME NEW d, NEW g \in Receptions, BaseOK(d, g), ~d.server.shutting, NEW i \in Ids,
           NEW answers, Awaits(d, g, i, answers), \A j \in Ids \ {i} : ConnectionOK(d, g, j)
    PROVE  LET e == CompleteRequest(d, i, answers) IN
           /\ BaseOK(e, g) /\ e.server = d.server /\ e.asked = d.asked /\ e.owner = d.owner
           /\ \A j \in Ids : ConnectionOK(e, g, j)
           /\ Present(e.conn[i]) => e.conn[i].output.class = "Ordinary" /\ e.conn[i].pendingSeq # 0
<1>. DEFINE e == CompleteRequest(d, i, answers)
            m == [CompleteRequestOf(d.conn[i], answers) EXCEPT !.pendingSeq = d.conn[i].nextSeq,
                                                               !.nextSeq = @ + 1]
<1>1. d \in States /\ d.conn[i] \in Machines /\ d.owner.version \in Nat
  BY StateFields DEF BaseOK, Owners
<1>2. CASE ~Present(d.conn[i])
  BY <1>2 DEF CompleteRequest, ConnectionOK, ConnOK
<1>3. CASE Present(d.conn[i])
  <2>1. e = [d EXCEPT !.conn[i] = m]
    BY <1>3, SMTT(30) DEF CompleteRequest
  <2>2. /\ m \in Machines /\ Present(m) /\ ConnOK(m, d.asked[i], FALSE, g[i], d.owner.version)
        /\ m.output.class = "Ordinary" /\ m.pendingSeq # 0
    BY <1>1, <1>3, CompleteRequestOK, Zenon DEF Awaits
  <2>. HIDE DEF m, e
  <2>3. /\ e \in States /\ e.server = d.server /\ e.owner = d.owner /\ e.asked = d.asked
        /\ e.conn[i] = m /\ \A j \in Ids \ {i} : e.conn[j] = d.conn[j]
    BY <1>1, <2>1, <2>2, SetConn
  <2>4. BaseOK(e, g)
    <3>1. d.conn[i] # Vacant
      BY <1>3, MachineTypes
    <3>. QED BY <2>3, <3>1 DEF BaseOK, UnusedOK
  <2>5. (d.owner.pending = i) = FALSE
    BY <1>3 DEF Awaits
  <2>6. ConnectionOK(e, g, i)
    BY <2>2, <2>3, <2>5, Zenon DEF ConnectionOK
  <2>7. \A j \in Ids : ConnectionOK(e, g, j)
    BY <2>3, <2>6 DEF ConnectionOK
  <2>. QED BY <2>2, <2>3, <2>4, <2>7 DEF e
<1>. QED BY <1>2, <1>3

\* The owner is live, or an update that quits is being applied.
Updating(d, quits) ==
    /\ ~d.server.shutting /\ d.server.barrier = NoReceipt
    /\ d.owner.quit = NoReceipt /\ d.owner.quitter = 0
    /\ d.owner.phase = IF quits THEN "QuitPending" ELSE "Live"
    /\ quits => d.owner.txn = "idle"
    /\ ~quits => (d.owner.pending # 0 <=> d.owner.txn = "control")

\* Sealing the worker leaves the rest of the owner alone.
LEMMA SealedFields ==
    ASSUME NEW o \in Owners
    PROVE  LET n == [o EXCEPT !.sealed = TRUE] IN
           /\ n \in Owners /\ n.phase = o.phase /\ n.txn = o.txn /\ n.pending = o.pending
           /\ n.quit = o.quit /\ n.quitter = o.quitter /\ n.version = o.version /\ n.fatal = o.fatal
  BY Zenon DEF Owners

\* The end of apply_update(): a Quit waits for the answer to its requester, or
\* starts the shutdown at once when it has none.
LEMMA QuitKeepsOrder ==
    ASSUME NEW d, NEW g \in Receptions, BaseOK(d, g), \A j \in Ids : ConnectionOK(d, g, j),
           NEW requester \in Ids \union {0}, NEW quits \in BOOLEAN, Updating(d, quits),
           requester # 0 /\ Present(d.conn[requester]) =>
              d.conn[requester].output.class = "Ordinary" /\ d.conn[requester].pendingSeq # 0
    PROVE  LET e == ApplyQuit(d, requester, quits) IN
           /\ QuantumOK(e, g) /\ QuitWaits(e)
           /\ e.server.shutting => e.owner.quitter = 0
<1>. DEFINE e == ApplyQuit(d, requester, quits)
            sealed == [d EXCEPT !.owner.sealed = TRUE]
            receipt == ReceiptOf(d, requester)
<1>1. d \in States /\ ~d.owner.fatal /\ d.conn \in [Ids -> Machines] /\ d.owner \in Owners /\ d.server \in Servers
  BY StateFields DEF BaseOK
<1>2. CASE ~quits
  <2>1. e = d
    BY <1>2 DEF ApplyQuit
  <2>2. LiveOK(d) /\ QuitOK(d) /\ ShutdownOK(d) /\ QuitWaits(d)
    BY <1>2 DEF Updating, LiveOK, QuitOK, ShutdownOK, QuitWaits
  <2>. QED BY <2>1, <2>2 DEF QuantumOK, Updating
<1>3. CASE quits
  <2>1. /\ sealed \in States /\ sealed.conn = d.conn /\ sealed.server = d.server
        /\ sealed.asked = d.asked /\ sealed.owner = [d.owner EXCEPT !.sealed = TRUE]
    BY <1>1, Zenon DEF States, Owners
  <2>2. /\ sealed.owner \in Owners /\ sealed.owner.pending = d.owner.pending
        /\ sealed.owner.version = d.owner.version /\ sealed.owner.fatal = d.owner.fatal
        /\ sealed.owner.phase = d.owner.phase /\ sealed.owner.quitter = d.owner.quitter
        /\ sealed.owner.txn = d.owner.txn
    BY <1>1, <2>1, SealedFields, Zenon
  <2>. HIDE DEF sealed, receipt
  <2>3. BaseOK(sealed, g) /\ \A j \in Ids : ConnectionOK(sealed, g, j)
    BY <1>1, <2>1, <2>2 DEF BaseOK, UnusedOK, ConnectionOK
  <2>4. CASE receipt = NoReceipt
    <3>1. e = BeginShutdown(sealed)
      BY <1>1, <1>3, <2>4 DEF ApplyQuit, receipt, sealed
    <3>. HIDE DEF e
    <3>2. ~sealed.server.shutting /\ sealed.owner.quitter = 0
      BY <2>1, <2>2, SMTT(30) DEF Updating
    <3>. QED BY <2>3, <3>1, <3>2, ShutdownBegins DEF e
  <2>5. CASE receipt # NoReceipt
    <3>1. /\ requester \in Ids /\ Present(d.conn[requester])
          /\ receipt = [conn |-> requester, seq |-> d.conn[requester].pendingSeq]
      BY <2>5 DEF receipt, ReceiptOf
    <3>2. /\ receipt \in Receipts /\ receipt.conn = requester
          /\ receipt.seq = d.conn[requester].pendingSeq /\ receipt.seq # 0
          /\ requester \in Nat /\ d.conn[requester].output.class = "Ordinary"
      <4>1. d.conn[requester].pendingSeq \in Nat
        BY <1>1, <3>1 DEF Machines
      <4>2. requester \in Nat /\ requester # 0
        BY <3>1 DEF Ids
      <4>. QED BY <3>1, <4>1, <4>2, SMTT(30) DEF Receipts
    <3>3. e = [sealed EXCEPT !.server.barrier = receipt, !.owner.quit = receipt,
                             !.owner.quitter = receipt.conn]
      <4>1. sealed.server.barrier = NoReceipt
        BY <2>1 DEF Updating
      <4>. QED BY <1>1, <1>3, <2>5, <4>1 DEF ApplyQuit, BeginResponseBarrier, receipt, sealed
    <3>. HIDE DEF e
    <3>4. /\ e.conn = sealed.conn /\ e.asked = sealed.asked
          /\ e.server = [sealed.server EXCEPT !.barrier = receipt]
          /\ e.owner = [sealed.owner EXCEPT !.quit = receipt, !.quitter = requester]
          /\ e \in States
      BY <2>1, <2>2, <3>2, <3>3, Zenon DEF States, Servers, Owners
    <3>5. /\ e.server.next = d.server.next /\ e.server.barrier = receipt /\ ~e.server.shutting
      BY <1>1, <2>1, <3>4 DEF Servers, Updating
    <3>6. /\ e.owner.quit = receipt /\ e.owner.quitter = requester
          /\ e.owner.pending = d.owner.pending /\ e.owner.version = d.owner.version
          /\ e.owner.fatal = d.owner.fatal /\ e.owner.phase = d.owner.phase
          /\ e.owner.txn = d.owner.txn
      BY <2>2, <3>4 DEF Owners
    <3>7. BaseOK(e, g) /\ \A j \in Ids : ConnectionOK(e, g, j)
      BY <2>1, <3>4, <3>5, <3>6 DEF BaseOK, UnusedOK, ConnectionOK
    <3>8. e.owner.phase = "QuitPending" /\ e.owner.txn = "idle"
      BY <1>3, <3>6 DEF Updating
    <3>9. LiveOK(e) /\ ShutdownOK(e) /\ QuitOK(e)
      BY <2>1, <3>1, <3>2, <3>4, <3>5, <3>6, <3>8 DEF LiveOK, ShutdownOK, QuitOK
    <3>10. QuitWaits(e)
      BY <2>1, <3>1, <3>2, <3>4, <3>6 DEF QuitWaits, ResponseSettlement
    <3>. QED BY <3>5, <3>7, <3>9, <3>10 DEF QuantumOK, e
  <2>. QED BY <2>4, <2>5
<1>. QED BY <1>2, <1>3

\* What the owner keeps when it publishes.
LEMMA VersionFields ==
    ASSUME NEW o \in Owners
    PROVE  LET n == [o EXCEPT !.version = @ + 1] IN
           /\ n.phase = o.phase /\ n.txn = o.txn /\ n.pending = o.pending
           /\ n.quit = o.quit /\ n.quitter = o.quitter
  BY DEF Owners

\* And when it accepts a Quit.
LEMMA QuittingFields ==
    ASSUME NEW o \in Owners
    PROVE  LET n == [o EXCEPT !.phase = "QuitPending", !.txn = "idle"] IN
           /\ n \in Owners /\ n.phase = "QuitPending" /\ n.txn = "idle" /\ n.pending = o.pending
           /\ n.quit = o.quit /\ n.quitter = o.quitter /\ n.version = o.version /\ n.fatal = o.fatal
  BY Zenon DEF Owners

\* apply_update(): publish, answer the requester, quit.
LEMMA UpdateOK ==
    ASSUME NEW d, NEW g \in Receptions, BaseOK(d, g),
           NEW changed \in BOOLEAN, NEW fits \in BOOLEAN, NEW quits \in BOOLEAN,
           NEW requester \in Ids \union {0}, NEW answers, Updating(d, quits),
           \A j \in Ids \ {requester} : ConnectionOK(d, g, j),
           requester # 0 => Awaits(d, g, requester, answers)
    PROVE  LET e == ApplyUpdate(d, changed, fits, requester, answers, quits) IN
           /\ QuantumOK(e, g) /\ QuitWaits(e)
           /\ e.server.shutting => e.owner.quitter = 0
<1>. DEFINE p == IF changed THEN Publish(d, fits) ELSE d
            r == Answer(p, requester, answers)
<1>1. /\ BaseOK(p, g) /\ Updating(p, quits)
      /\ \A j \in Ids \ {requester} : ConnectionOK(p, g, j)
      /\ requester # 0 => Awaits(p, g, requester, answers)
  <2>1. CASE ~changed
    BY <2>1
  <2>2. CASE changed
    <3>1. d.owner \in Owners /\ ~d.server.shutting
      BY StateFields DEF BaseOK, Updating
    <3>2. /\ BaseOK(p, g) /\ p.server = d.server /\ p.asked = d.asked
          /\ p.owner = [d.owner EXCEPT !.version = @ + 1]
          /\ \A i \in Ids : ConnectionOK(d, g, i) => ConnectionOK(p, g, i)
          /\ \A i \in Ids : d.conn[i].phase # "Subscriber" => p.conn[i] = d.conn[i]
      BY <2>2, <3>1, PublishKeepsOrder
    <3>. HIDE DEF p
    <3>3. /\ p.owner.phase = d.owner.phase /\ p.owner.txn = d.owner.txn
          /\ p.owner.pending = d.owner.pending
          /\ p.owner.quit = d.owner.quit /\ p.owner.quitter = d.owner.quitter
      BY <3>1, <3>2, VersionFields
    <3>4. Updating(p, quits)
      BY <3>2, <3>3 DEF Updating
    <3>5. requester # 0 => Awaits(p, g, requester, answers)
      <4>. SUFFICES ASSUME requester # 0 PROVE Awaits(p, g, requester, answers)
        OBVIOUS
      <4>1. CASE d.conn[requester].phase = "Subscriber"
        BY <4>1 DEF Awaits, Present
      <4>2. CASE d.conn[requester].phase # "Subscriber"
        BY <3>2, <3>3, <4>2, SMTT(30) DEF Awaits
      <4>. QED BY <4>1, <4>2
    <3>. QED BY <3>2, <3>4, <3>5
  <2>. QED BY <2>1, <2>2
<1>. HIDE DEF p
<1>2. /\ BaseOK(r, g) /\ Updating(r, quits) /\ \A j \in Ids : ConnectionOK(r, g, j)
      /\ requester # 0 /\ Present(r.conn[requester]) =>
           r.conn[requester].output.class = "Ordinary" /\ r.conn[requester].pendingSeq # 0
  <2>1. CASE requester = 0
    <3>1. 0 \notin Ids
      BY DEF Ids
    <3>. QED BY <1>1, <2>1, <3>1, Zenon DEF Answer
  <2>2. CASE requester # 0
    <3>1. r = CompleteRequest(p, requester, answers) /\ requester \in Ids /\ ~p.server.shutting
      BY <1>1, <2>2 DEF Answer, Updating
    <3>. HIDE DEF r
    <3>2. /\ BaseOK(r, g) /\ r.server = p.server /\ r.asked = p.asked /\ r.owner = p.owner
          /\ \A j \in Ids : ConnectionOK(r, g, j)
          /\ Present(r.conn[requester]) =>
               r.conn[requester].output.class = "Ordinary" /\ r.conn[requester].pendingSeq # 0
      BY <1>1, <2>2, <3>1, CompleteKeepsOrder
    <3>3. Updating(r, quits)
      BY <1>1, <3>2 DEF Updating
    <3>. QED BY <3>2, <3>3
  <2>. QED BY <2>1, <2>2, SMTT(30)
<1>. HIDE DEF r
<1>3. ApplyUpdate(d, changed, fits, requester, answers, quits) = ApplyQuit(r, requester, quits)
  BY SMTT(30) DEF ApplyUpdate, r, p
<1>. QED BY <1>2, <1>3, QuitKeepsOrder

\* handle_control_action() of the request connection i has just taken, which
\* only happens while the owner is live.
LEMMA HandleOK ==
    ASSUME NEW d, NEW g \in Receptions, BaseOK(d, g), NEW i \in Ids, NEW outcome \in Outcomes,
           d.owner.phase = "Live", LiveOK(d), \A j \in Ids \ {i} : ConnectionOK(d, g, j),
           Taken(d.conn[i], d.asked[i], d.owner.pending = i, g[i])
    PROVE  LET e == HandleControlAction(d, i, outcome) IN
           /\ QuantumOK(e, g) /\ QuitWaits(e)
           /\ e.server.shutting => e.owner.quitter = 0
<1>. DEFINE request == d.conn[i].pending
            e == [d EXCEPT !.asked[i] = Append(@, request)]
            dispatch == DispatchRequest(d, request, outcome)
            h == HandleControlAction(d, i, outcome)
<1>1. /\ d \in States /\ d.conn \in [Ids -> Machines] /\ d.owner \in Owners /\ d.server \in Servers
      /\ d.asked \in [Ids -> Seq(Requests)]
  BY StateFields DEF BaseOK
<1>2. /\ request \in Requests /\ d.asked[i] = << >> /\ d.owner.pending # i /\ i # 0 /\ i \in Nat
      /\ d.conn[i].phase = "Ready" /\ OutputOK(d.conn[i]) /\ d.conn[i] \in Machines
      /\ g[i].class \notin EventClasses \union {"Shutdown"} /\ g[i] \in Reception
      /\ Present(d.conn[i])
  <2>1. i # 0 /\ i \in Nat
    BY DEF Ids
  <2>2. d.conn[i] \in Machines /\ g[i] \in Reception
    BY <1>1 DEF Receptions
  <2>. QED BY <2>1, <2>2 DEF Taken, Present
<1>3. /\ ~d.server.shutting /\ d.server.barrier = NoReceipt
      /\ d.owner.quit = NoReceipt /\ d.owner.quitter = 0
      /\ d.owner.pending # 0 <=> d.owner.txn = "control"
  BY DEF LiveOK
<1>. HIDE DEF request
<1>4. /\ e \in States /\ e.conn = d.conn /\ e.server = d.server /\ e.owner = d.owner
      /\ e.asked[i] = <<request>> /\ \A j \in Ids \ {i} : e.asked[j] = d.asked[j]
  <2>1. Append(d.asked[i], request) = <<request>> /\ <<request>> \in Seq(Requests)
    BY <1>2
  <2>. QED BY <1>1, <2>1, ZenonT(30) DEF States
<1>. HIDE DEF e
<1>5. i < d.server.next
  <2>1. d.conn[i] # Vacant
    BY <1>2, MachineTypes
  <2>2. d.server.next \in Nat
    BY <1>1 DEF Servers
  <2>. QED BY <1>2, <2>1, <2>2 DEF BaseOK, UnusedOK
<1>6. BaseOK(e, g) /\ \A j \in Ids \ {i} : ConnectionOK(e, g, j)
  <2>1. d.server.next \in Nat
    BY <1>1 DEF Servers
  <2>. QED BY <1>2, <1>4, <1>5, <2>1, SMTT(30) DEF BaseOK, UnusedOK, ConnectionOK
<1>7. request # "sub" => Awaits(e, g, i, request)
  BY <1>2, <1>4, SMTT(30) DEF Awaits, request
<1>8. CASE dispatch \in {"Immediate", "Changed"} /\ request # "sub"
  <2>1. Updating(e, FALSE)
    BY <1>3, <1>4 DEF Updating
  <2>2. h = ApplyUpdate(e, dispatch = "Changed", TRUE, i, request, FALSE)
    BY <1>8, Zenon DEF HandleControlAction, request, e
  <2>. DEFINE changed == dispatch = "Changed"
              u == ApplyUpdate(e, changed, TRUE, i, request, FALSE)
  <2>3. changed \in BOOLEAN /\ i \in Ids \union {0} /\ Awaits(e, g, i, request)
    BY <1>7, <1>8
  <2>. HIDE DEF changed
  <2>4. QuantumOK(u, g) /\ QuitWaits(u) /\ (u.server.shutting => u.owner.quitter = 0)
    BY <1>6, <2>1, <2>3, UpdateOK, ZenonT(60)
  <2>. QED BY <2>2, <2>4, Zenon DEF changed
<1>9. CASE (dispatch = "Subscribe" /\ request = "sub") \/ dispatch = "Oversized"
  <2>. DEFINE m == IF dispatch = "Subscribe" THEN CompleteSubscribeOf(d.conn[i], d.owner.version)
                   ELSE Close(d.conn[i])
  <2>1. h = [e EXCEPT !.conn[i] = m]
    <3>1. CASE dispatch = "Subscribe"
      BY <1>3, <1>4, <3>1 DEF HandleControlAction, CompleteSubscribe, request, e
    <3>2. CASE dispatch = "Oversized"
      BY <1>3, <1>4, <3>2 DEF HandleControlAction, CompleteOversized, request, e
    <3>. QED BY <1>9, <3>1, <3>2
  <2>2. /\ m \in Machines /\ ConnOK(m, <<request>>, FALSE, g[i], d.owner.version)
    <3>1. CASE dispatch = "Subscribe" /\ request = "sub"
      <4>1. d.owner.version \in Nat /\ d.owner.version >= 1
        BY <1>1 DEF Owners, BaseOK
      <4>2. Taken(d.conn[i], << >>, FALSE, g[i]) /\ d.conn[i].pending = "sub"
        BY <1>2, <3>1 DEF Taken, request
      <4>. QED BY <1>2, <3>1, <4>1, <4>2, CompleteSubscribeOK, Zenon
    <3>2. CASE dispatch = "Oversized"
      BY <1>2, <3>2, MachineTypes DEF ConnOK
    <3>. QED BY <1>9, <3>1, <3>2
  <2>. HIDE DEF h, m
  <2>3. /\ h \in States /\ h.server = e.server /\ h.owner = e.owner /\ h.asked = e.asked
        /\ h.conn[i] = m /\ \A j \in Ids \ {i} : h.conn[j] = e.conn[j]
    BY <1>4, <2>1, <2>2, SetConn
  <2>4. (d.owner.pending = i) = FALSE
    BY <1>2
  <2>5. ConnectionOK(h, g, i)
    BY <1>4, <1>9, <2>2, <2>3, <2>4, Zenon DEF ConnectionOK
  <2>6. \A j \in Ids : ConnectionOK(h, g, j)
    BY <1>6, <2>3, <2>5 DEF ConnectionOK
  <2>7. BaseOK(h, g)
    <3>1. d.server.next \in Nat
      BY <1>1 DEF Servers
    <3>. QED BY <1>2, <1>4, <1>5, <1>6, <2>3, <3>1 DEF BaseOK, UnusedOK
  <2>8. LiveOK(h) /\ QuitOK(h) /\ ShutdownOK(h) /\ QuitWaits(h)
    BY <1>3, <1>4, <2>3 DEF LiveOK, QuitOK, ShutdownOK, QuitWaits
  <2>. QED BY <1>3, <1>4, <2>3, <2>6, <2>7, <2>8 DEF QuantumOK, h
<1>10. CASE dispatch = "Pending" /\ request = "act" /\ d.owner.txn = "idle"
  <2>1. d.owner.pending = 0
    BY <1>3, <1>10
  <2>2. h = [e EXCEPT !.owner.txn = "control", !.owner.pending = i]
    BY <1>4, <1>10, <2>1 DEF HandleControlAction, request, e
  <2>. HIDE DEF h
  <2>3. /\ h \in States /\ h.conn = d.conn /\ h.server = d.server /\ h.asked = e.asked
        /\ h.owner = [d.owner EXCEPT !.txn = "control", !.pending = i]
    BY <1>1, <1>2, <1>4, <2>2, ZenonT(30) DEF States, Owners
  <2>4. /\ h.owner.phase = d.owner.phase /\ h.owner.txn = "control" /\ h.owner.pending = i
        /\ h.owner.version = d.owner.version /\ h.owner.fatal = d.owner.fatal
        /\ h.owner.quit = d.owner.quit /\ h.owner.quitter = d.owner.quitter
    BY <1>1, <1>2, <2>3 DEF Owners
  <2>5. ConnectionOK(h, g, i)
    <3>1. EventsOK(d.conn[i], g[i], d.owner.version) /\ d.conn[i].pending = "act"
      BY <1>2, <1>10 DEF EventsOK, request
    <3>2. h.asked[i] = Unanswered(h.conn[i])
      BY <1>4, <1>10, <2>3, <3>1 DEF Unanswered
    <3>. QED BY <1>2, <2>3, <2>4, <3>1, <3>2 DEF ConnectionOK, ConnOK
  <2>6. ASSUME NEW j \in Ids \ {i} PROVE ConnectionOK(h, g, j)
    <3>1. (d.owner.pending = j) = FALSE /\ (h.owner.pending = j) = FALSE
      BY <2>1, <2>4 DEF Ids
    <3>. QED BY <1>6, <1>4, <2>3, <2>4, <3>1 DEF ConnectionOK
  <2>7. BaseOK(h, g)
    BY <1>4, <1>5, <1>6, <2>3, <2>4 DEF BaseOK, UnusedOK
  <2>8. LiveOK(h) /\ QuitOK(h) /\ ShutdownOK(h) /\ QuitWaits(h)
    BY <1>2, <1>3, <2>3, <2>4, SMTT(30) DEF LiveOK, QuitOK, ShutdownOK, QuitWaits
  <2>. QED BY <1>3, <2>3, <2>5, <2>6, <2>7, <2>8 DEF QuantumOK, h
<1>11. CASE dispatch = "Quit" /\ request = "quit"
  <2>. DEFINE q == [e EXCEPT !.owner.phase = "QuitPending", !.owner.txn = "idle"]
  <2>1. h = ApplyUpdate(q, FALSE, TRUE, i, request, TRUE)
    BY <1>11 DEF HandleControlAction, request, e
  <2>2. /\ q \in States /\ q.conn = d.conn /\ q.server = d.server /\ q.asked = e.asked
        /\ q.owner = [d.owner EXCEPT !.phase = "QuitPending", !.txn = "idle"]
    BY <1>1, <1>4, ZenonT(30) DEF States, Owners
  <2>. HIDE DEF h, q
  <2>3. /\ q.owner.phase = "QuitPending" /\ q.owner.txn = "idle" /\ q.owner.pending = d.owner.pending
        /\ q.owner.version = d.owner.version /\ q.owner.fatal = d.owner.fatal
        /\ q.owner.quit = d.owner.quit /\ q.owner.quitter = d.owner.quitter
    <3>. DEFINE n == [d.owner EXCEPT !.phase = "QuitPending", !.txn = "idle"]
    <3>1. /\ n.phase = "QuitPending" /\ n.txn = "idle" /\ n.pending = d.owner.pending
          /\ n.version = d.owner.version /\ n.fatal = d.owner.fatal
          /\ n.quit = d.owner.quit /\ n.quitter = d.owner.quitter
      BY <1>1, QuittingFields, Zenon
    <3>2. q.owner = n
      BY <2>2
    <3>. HIDE DEF n
    <3>. QED BY <3>1, <3>2
  <2>4. BaseOK(q, g) /\ (\A j \in Ids \ {i} : ConnectionOK(q, g, j)) /\ Awaits(q, g, i, request)
    BY <1>4, <1>6, <1>7, <1>11, <2>2, <2>3 DEF BaseOK, UnusedOK, ConnectionOK, Awaits
  <2>5. Updating(q, TRUE)
    BY <1>3, <2>2, <2>3, SMTT(30) DEF Updating
  <2>. DEFINE u == ApplyUpdate(q, FALSE, TRUE, i, request, TRUE)
  <2>6. QuantumOK(u, g) /\ QuitWaits(u) /\ (u.server.shutting => u.owner.quitter = 0)
    BY <2>4, <2>5, UpdateOK, ZenonT(30)
  <2>. QED BY <2>1, <2>6, Zenon DEF h
<1>12. \/ dispatch \in {"Immediate", "Changed"} /\ request # "sub"
       \/ (dispatch = "Subscribe" /\ request = "sub") \/ dispatch = "Oversized"
       \/ dispatch = "Pending" /\ request = "act" /\ d.owner.txn = "idle"
       \/ dispatch = "Quit" /\ request = "quit"
  BY <1>2 DEF DispatchRequest, Requests
<1>. QED BY <1>8, <1>9, <1>10, <1>11, <1>12

-----------------------------------------------------------------------------
(* The quanta.                                                             *)

\* The state at the end of a quantum.
LEMMA BecomesOK ==
    ASSUME NEW d, NEW links, NEW g \in Receptions, g = got', QuantumOK(d, g), Becomes(d, links)
    PROVE  /\ ControlInv'
           /\ asked' = d.asked /\ owner'.quitter = d.owner.quitter
           /\ server'.shutting /\ ~d.server.shutting =>
                d.owner.phase = "QuitPending" /\ ~QuitWaits(d)
<1>1. ~d.owner.fatal
  BY DEF QuantumOK, BaseOK
<1>. DEFINE e == AdvanceShutdown(d)
<1>2. /\ QuantumOK(e, g) /\ QuitWaits(e)
      /\ e.asked = d.asked /\ e.owner.quitter = d.owner.quitter
      /\ e.server.shutting /\ ~d.server.shutting => d.owner.phase = "QuitPending" /\ ~QuitWaits(d)
  BY AdvanceOK
<1>3. conn' = e.conn /\ server' = e.server /\ owner' = e.owner /\ asked' = e.asked
  BY <1>1 DEF Becomes
<1>4. e \in States
  BY <1>2 DEF QuantumOK, BaseOK
<1>. HIDE DEF e
<1>5. e = [conn |-> e.conn, server |-> e.server, owner |-> e.owner, asked |-> e.asked]
  BY <1>4 DEF States
<1>6. Shared' = e
  BY <1>3, <1>5 DEF Shared
<1>7. ControlInv'
  BY <1>2, <1>6 DEF ControlInv
<1>. QED BY <1>2, <1>3, <1>7

\* What is known of the state when a quantum starts.
LEMMA AtRest ==
    ASSUME ControlInv
    PROVE  /\ Shared \in States /\ Shared.conn = conn /\ Shared.server = server
           /\ Shared.owner = owner /\ Shared.asked = asked
           /\ conn \in [Ids -> Machines] /\ server \in Servers /\ owner \in Owners
           /\ asked \in [Ids -> Seq(Requests)] /\ got \in Receptions
           /\ QuantumOK(Shared, got) /\ QuitWaits(Shared)
           /\ owner.version \in Nat /\ ~owner.fatal
<1>1. Shared \in States /\ ~owner.fatal
  BY DEF ControlInv, QuantumOK, BaseOK, Shared
<1>2. /\ Shared.conn = conn /\ Shared.server = server /\ Shared.owner = owner /\ Shared.asked = asked
  BY DEF Shared
<1>. HIDE DEF Shared
<1>3. owner \in Owners
  BY <1>1, <1>2, StateFields
<1>. QED BY <1>1, <1>2, <1>3, StateFields DEF ControlInv, Owners

\* A Quit that waits has armed the barrier.
LEMMA NoQuitWithoutReceipt ==
    ASSUME ControlInv, server.barrier = NoReceipt
    PROVE  owner.phase # "QuitPending"
<1>1. QuitOK(Shared) /\ Shared.owner = owner /\ Shared.server = server
  BY AtRest DEF QuantumOK
<1>2. server.barrier.conn \notin Ids
  BY SMTT(30) DEF NoReceipt, Ids
<1>. QED BY <1>1, <1>2 DEF QuitOK

\* What a quantum does to one connection leaves the others, and the owner, in
\* order.
LEMMA OneConnection ==
    ASSUME ControlInv, NEW i \in Ids, Present(conn[i]), NEW d \in States, NEW h \in Receptions,
           d.server = server, d.owner = owner,
           \A j \in Ids \ {i} : d.conn[j] = conn[j] /\ d.asked[j] = asked[j] /\ h[j] = got[j],
           Present(d.conn[i]) /\ conn[i].phase = "Subscriber" => d.conn[i].phase = "Subscriber"
    PROVE  /\ BaseOK(d, h) /\ LiveOK(d) /\ ShutdownOK(d)
           /\ \A j \in Ids \ {i} : ConnectionOK(d, h, j)
           /\ /\ ConnectionOK(d, h, i)
              /\ owner.phase = "QuitPending" /\ i = owner.quitter
                   /\ d.conn[i].pendingSeq = owner.quit.seq => d.conn[i].output.class = "Ordinary"
              => QuantumOK(d, h)
<1>1. BaseOK(d, h)
  <2>1. conn[i] # Vacant
    BY MachineTypes, SMTT(30)
  <2>2. \A j \in Ids : j >= server.next => j # i
    BY <2>1, AtRest, SMTT(30) DEF QuantumOK, BaseOK, UnusedOK
  <2>. QED BY <2>2, AtRest, SMTT(30) DEF QuantumOK, BaseOK, UnusedOK
<1>2. \A j \in Ids \ {i} : ConnectionOK(d, h, j)
  BY AtRest, SMTT(30) DEF QuantumOK, ConnectionOK
<1>3. LiveOK(d)
  BY AtRest, SMTT(30) DEF QuantumOK, LiveOK
<1>4. ShutdownOK(d)
  BY AtRest, ZenonT(30) DEF QuantumOK, ShutdownOK
<1>5. ASSUME owner.phase = "QuitPending" /\ i = owner.quitter
               /\ d.conn[i].pendingSeq = owner.quit.seq => d.conn[i].output.class = "Ordinary"
      PROVE  QuitOK(d)
  <2>1. CASE owner.phase # "QuitPending"
    BY <2>1, SMTT(30) DEF QuitOK
  <2>2. CASE owner.phase = "QuitPending" /\ i = owner.quitter
    BY <1>5, <2>2, AtRest, SMTT(30) DEF QuantumOK, QuitOK
  <2>3. CASE owner.phase = "QuitPending" /\ i # owner.quitter
    BY <2>3, AtRest, SMTT(30) DEF QuantumOK, QuitOK
  <2>. QED BY <2>1, <2>2, <2>3
<1>. QED BY <1>1, <1>2, <1>3, <1>4, <1>5, SMTT(30) DEF QuantumOK

\* While a Quit waits only its connection is serviced.
LEMMA OnlyTheQuitter ==
    ASSUME ControlInv, NEW i \in Ids, Interested(i), owner.phase = "QuitPending"
    PROVE  i = owner.quitter /\ conn[i].output.class = "Ordinary" /\ conn[i].pendingSeq = owner.quit.seq
             /\ server.barrier # NoReceipt /\ owner.quit.seq # 0
<1>1. /\ server.barrier = owner.quit /\ owner.quit.conn \in Ids /\ owner.quit.seq # 0
      /\ owner.quitter = owner.quit.conn
      /\ conn[owner.quitter].pendingSeq = owner.quit.seq => conn[owner.quitter].output.class = "Ordinary"
  BY AtRest DEF QuantumOK, QuitOK
<1>2. server.barrier # NoReceipt
  BY <1>1 DEF NoReceipt, Ids
<1>3. server.barrier = [conn |-> i, seq |-> conn[i].pendingSeq]
  BY <1>2, SMTT(30) DEF Interested
<1>. QED BY <1>1, <1>2, <1>3, SMTT(30)

\* What a delivery may be: the order of SubscriberStream.
InOrder(g, h) ==
    /\ g.class # "Shutdown"
    /\ h.class \in {"State", "Shutdown"} => g.class \in {"InitialState", "State"}
    /\ h.class = "State" => h.version > g.version
\* What is queued for a connection is delivered in that order.
LEMMA DeliveredInOrder ==
    ASSUME NEW c \in Machines, Present(c), c.output # NoFrame, NEW a, NEW owed, NEW g \in Reception,
           NEW v \in Nat, ConnOK(c, a, owed, g, v)
    PROVE  InOrder(g, Delivered(g, c.output)) /\ Delivered(g, c.output) \in Reception
<1>. DEFINE h == Delivered(g, c.output)
<1>1. OutputOK(c) /\ EventsOK(c, g, v) /\ c.phase \in ConnectionPhases /\ c.output.class \in Classes
      /\ c.output.version \in Nat /\ g.version \in Nat
  BY DEF ConnOK, Machines, Cursors, Reception
<1>2. h.class = c.output.class /\ h.version = IF c.output.version # 0 THEN c.output.version ELSE g.version
  BY DEF Delivered
<1>3. h \in Reception
  BY <1>1, SMTT(30) DEF Delivered, Reception
<1>. HIDE DEF h
<1>4. c.output.class \in {"State", "Shutdown"} => c.phase = "Subscriber"
  BY <1>1, MachineTypes DEF OutputOK, Present, ConnectionPhases
<1>. QED BY <1>1, <1>2, <1>3, <1>4 DEF EventsOK, EventClasses, InOrder, h

\* What every step keeps: the invariant, and the two step properties.
StreamStep == \A i \in Ids : got'[i] # got[i] => InOrder(got[i], got'[i])
QuitStep ==
    (server'.shutting /\ ~server.shutting /\ owner'.quitter # 0)
      => \/ asked'[owner'.quitter] = << >>
         \/ \E i \in Ids : i = owner'.quitter /\ (Expire(i) \/ Hangup(i))
StepOK == ControlInv' /\ StreamStep /\ QuitStep

\* accept_one(): the new connection is in order, and nobody notices.
LEMMA AcceptOK ==
    ASSUME ControlInv, Accept
    PROVE  StepOK
<1>. DEFINE n == server.next
            e == [conn |-> [conn EXCEPT ![n] = Fresh], server |-> [server EXCEPT !.next = @ + 1],
                  owner |-> owner, asked |-> asked]
<1>1. n \in Ids /\ n \in Nat /\ server.barrier = NoReceipt /\ ~server.shutting
  BY DEF Accept, Ids
<1>2. Shared' = e /\ got' = got /\ server' = e.server /\ server'.shutting = server.shutting
  BY AtRest DEF Accept, Shared, Servers
<1>3. /\ e \in States /\ e.server.next = n + 1 /\ e.server.barrier = server.barrier
      /\ e.server.shutting = server.shutting /\ e.owner = owner /\ e.asked = asked
      /\ e.conn[n] = Fresh /\ \A j \in Ids \ {n} : e.conn[j] = conn[j]
  <2>1. /\ e.server \in Servers /\ e.server.next = n + 1 /\ e.server.barrier = server.barrier
        /\ e.server.shutting = server.shutting
    BY <1>1, AtRest, SMTT(30) DEF Servers
  <2>2. e.conn \in [Ids -> Machines] /\ e.conn[n] = Fresh /\ \A j \in Ids \ {n} : e.conn[j] = conn[j]
    BY <1>1, AtRest, MachineTypes
  <2>. QED BY <2>1, <2>2, AtRest DEF States
<1>. HIDE DEF e
<1>4. asked[n] = << >> /\ got[n] = Nothing /\ owner.pending < n /\ conn[n] = Vacant
  BY <1>1, AtRest DEF QuantumOK, BaseOK, UnusedOK
<1>5. owner.pending \in Nat
  BY AtRest DEF Owners, Ids
<1>6. BaseOK(e, got)
  <2>1. /\ owner.version >= 1 /\ ~owner.fatal
        /\ \A j \in Ids : j >= n => conn[j] = Vacant /\ asked[j] = << >> /\ got[j] = Nothing
    BY AtRest DEF QuantumOK, BaseOK, UnusedOK
  <2>2. \A j \in Ids : j >= n + 1 => j >= n /\ j # n
    BY <1>1 DEF Ids
  <2>3. owner.pending < n + 1
    BY <1>1, <1>4, <1>5
  <2>. QED BY <1>3, <2>1, <2>2, <2>3 DEF BaseOK, UnusedOK
<1>7. ConnectionOK(e, got, n)
  <2>1. (owner.pending = n) = FALSE
    BY <1>1, <1>4, <1>5, SMTT(30)
  <2>2. ConnOK(Fresh, << >>, FALSE, Nothing, owner.version)
    BY MachineTypes, SMTT(30) DEF ConnOK, Fresh, OutputOK, EventsOK, Unanswered, Nothing, AnswerClasses, EventClasses
  <2>. QED BY <1>3, <1>4, <2>1, <2>2, ZenonT(30) DEF ConnectionOK
<1>8. \A j \in Ids \ {n} : ConnectionOK(e, got, j)
  BY <1>3, AtRest, SMTT(30) DEF QuantumOK, ConnectionOK
<1>9. LiveOK(e) /\ ShutdownOK(e)
  BY <1>1, <1>3, AtRest DEF QuantumOK, LiveOK, ShutdownOK
<1>10. owner.phase # "QuitPending"
  BY <1>1, NoQuitWithoutReceipt
<1>11. QuitOK(e) /\ QuitWaits(e)
  BY <1>3, <1>10, SMTT(30) DEF QuitOK, QuitWaits
<1>12. ControlInv'
  BY <1>2, <1>6, <1>7, <1>8, <1>9, <1>11, AtRest, SMTT(30) DEF ControlInv, QuantumOK
<1>. QED BY <1>1, <1>2, <1>12 DEF StepOK, StreamStep, QuitStep

\* A quantum that ends in d, from a phase in which no Quit waits, or with the
\* Quit still waiting.
LEMMA QuietQuantum ==
    ASSUME ControlInv, NEW d, NEW links, QuantumOK(d, got), Becomes(d, links), got' = got,
           \/ QuitWaits(d) /\ (d.server.shutting => server.shutting \/ d.owner.quitter = 0)
           \/ d.owner.phase # "QuitPending" /\ d.server = server
    PROVE  StepOK
<1>1. /\ ControlInv' /\ owner'.quitter = d.owner.quitter
      /\ server'.shutting /\ ~d.server.shutting => d.owner.phase = "QuitPending" /\ ~QuitWaits(d)
  BY BecomesOK, AtRest
<1>. QED BY <1>1 DEF StepOK, StreamStep, QuitStep

\* receive_one(): a chunk, and the request it may complete.
LEMMA ReceiveOK ==
    ASSUME ControlInv, NEW i \in Ids, Receive(i)
    PROVE  StepOK
<1>1. PICK n \in 0 .. Len(peer[i].inbox), tail \in BOOLEAN, outcome \in Outcomes :
        LET m == Ingest(conn[i], SubSeq(peer[i].inbox, 1, n), tail) IN
        Becomes(ApplyMachineAction([Shared EXCEPT !.conn[i] = m], i, m.pending # "none", outcome),
                [peer EXCEPT ![i].inbox = SubSeq(@, n + 1, Len(@))])
  BY ZenonT(30) DEF Receive
<1>2. /\ Present(conn[i]) /\ InputEnabled(conn[i]) /\ server.barrier = NoReceipt /\ got' = got
  BY DEF Receive, First, Ready, Interested, ReadReady
<1>. DEFINE m == Ingest(conn[i], SubSeq(peer[i].inbox, 1, n), tail)
            d == [Shared EXCEPT !.conn[i] = m]
            links == [peer EXCEPT ![i].inbox = SubSeq(@, n + 1, Len(@))]
<1>3. conn[i] \in Machines /\ (owner.pending = i) \in BOOLEAN
        /\ ConnOK(conn[i], asked[i], owner.pending = i, got[i], owner.version)
  BY AtRest DEF QuantumOK, ConnectionOK
<1>4. /\ m \in Machines /\ (conn[i].phase = "Subscriber" => ~Present(m))
      /\ m.pending = "none" => ConnOK(m, asked[i], owner.pending = i, got[i], owner.version)
      /\ m.pending # "none" => Taken(m, asked[i], owner.pending = i, got[i])
  BY <1>2, <1>3, IngestOK, ZenonT(30)
<1>. HIDE DEF m
<1>5. /\ d \in States /\ d.server = server /\ d.owner = owner /\ d.asked = asked
      /\ d.conn[i] = m /\ \A j \in Ids \ {i} : d.conn[j] = conn[j]
  BY <1>4, AtRest, SetConn
<1>. HIDE DEF d
<1>6. owner.phase # "QuitPending"
  BY <1>2, NoQuitWithoutReceipt
<1>7. /\ BaseOK(d, got) /\ LiveOK(d) /\ ShutdownOK(d)
      /\ \A j \in Ids \ {i} : ConnectionOK(d, got, j)
      /\ ConnectionOK(d, got, i) => QuantumOK(d, got)
  <2>1. got \in Receptions /\ (Present(d.conn[i]) /\ conn[i].phase = "Subscriber" => FALSE)
    BY <1>4, <1>5, AtRest
  <2>. QED BY <1>2, <1>5, <1>6, <2>1, OneConnection
<1>8. CASE m.pending = "none"
  <2>1. QuantumOK(d, got)
    BY <1>4, <1>5, <1>7, <1>8 DEF ConnectionOK
  <2>2. Becomes(d, links)
    BY <1>1, <1>8 DEF ApplyMachineAction, m, d
  <2>. QED BY <1>2, <1>5, <1>6, <2>1, <2>2, QuietQuantum, SMTT(30)
<1>9. CASE m.pending # "none"
  <2>1. Taken(m, asked[i], owner.pending = i, got[i]) /\ conn[i].phase # "Subscriber"
    BY <1>4, <1>9, SMTT(30) DEF Taken, Present
  <2>2. owner.phase = "Live"
    BY <1>2, <1>6, <2>1, AtRest, ZenonT(30) DEF QuantumOK, ShutdownOK, Owners
  <2>. DEFINE h == HandleControlAction(d, i, outcome)
  <2>3. QuantumOK(h, got) /\ QuitWaits(h) /\ (h.server.shutting => h.owner.quitter = 0)
    BY <1>5, <1>7, <2>1, <2>2, AtRest, HandleOK, Zenon
  <2>4. Becomes(h, links)
    BY <1>1, <1>9, SMTT(30) DEF ApplyMachineAction, m, d
  <2>. HIDE DEF h, links
  <2>. QED BY <1>2, <2>3, <2>4, QuietQuantum
<1>. QED BY <1>8, <1>9

\* receive_one() at the end of the peer's stream.
LEMMA ReceiveEofOK ==
    ASSUME ControlInv, NEW i \in Ids, ReceiveEof(i)
    PROVE  StepOK
<1>. DEFINE m == ReadEof(conn[i])
            d == [Shared EXCEPT !.conn[i] = m]
<1>1. Present(conn[i]) /\ server.barrier = NoReceipt /\ got' = got /\ Becomes(d, peer)
  BY AtRest, Zenon DEF ReceiveEof, First, Ready, Interested, ReadReady
<1>2. conn[i] \in Machines /\ (owner.pending = i) \in BOOLEAN
        /\ ConnOK(conn[i], asked[i], owner.pending = i, got[i], owner.version)
  BY AtRest DEF QuantumOK, ConnectionOK
<1>3. m \in Machines /\ ConnOK(m, asked[i], owner.pending = i, got[i], owner.version)
        /\ (Present(m) => m.phase = conn[i].phase)
  BY <1>2, ReadEofOK, Zenon
<1>. HIDE DEF m
<1>4. /\ d \in States /\ d.server = server /\ d.owner = owner /\ d.asked = asked
      /\ d.conn[i] = m /\ \A j \in Ids \ {i} : d.conn[j] = conn[j]
  <2>1. Shared \in States /\ m \in Machines
    BY <1>3, AtRest
  <2>2. /\ d \in States /\ d.server = Shared.server /\ d.owner = Shared.owner
        /\ d.asked = Shared.asked
        /\ d.conn[i] = m /\ \A j \in Ids \ {i} : d.conn[j] = Shared.conn[j]
    BY <2>1, SetConn
  <2>. QED BY <2>2, AtRest
<1>. HIDE DEF d
<1>5. owner.phase # "QuitPending"
  BY <1>1, NoQuitWithoutReceipt
<1>6. ConnectionOK(d, got, i)
  BY <1>3, <1>4 DEF ConnectionOK
<1>7. QuantumOK(d, got)
  BY <1>1, <1>3, <1>4, <1>5, <1>6, AtRest, OneConnection, Zenon
<1>. QED BY <1>1, <1>4, <1>5, <1>7, QuietQuantum

\* A connection that ends, by a hangup or at its deadline.
LEMMA CloseOK ==
    ASSUME ControlInv, NEW i \in Ids, Present(conn[i]), got' = got,
           Becomes([Shared EXCEPT !.conn[i] = Close(conn[i])], peer), Expire(i) \/ Hangup(i)
    PROVE  StepOK
<1>. DEFINE m == Close(conn[i])
            d == [Shared EXCEPT !.conn[i] = m]
<1>1. m \in Machines /\ ~Present(m) /\ m.pendingSeq = 0
  BY MachineTypes, ZenonT(30) DEF Close, Fresh
<1>. HIDE DEF m
<1>2. /\ d \in States /\ d.server = server /\ d.owner = owner /\ d.asked = asked
      /\ d.conn[i] = m /\ \A j \in Ids \ {i} : d.conn[j] = conn[j]
  BY <1>1, AtRest, SetConn
<1>3. Becomes(d, peer)
  BY DEF m
<1>. HIDE DEF d
<1>4. ConnectionOK(d, got, i)
  BY <1>1, <1>2 DEF ConnectionOK, ConnOK
<1>5. owner.phase = "QuitPending" => owner.quit.seq # 0
  BY AtRest DEF QuantumOK, QuitOK
<1>6. QuantumOK(d, got)
  BY <1>1, <1>2, <1>4, <1>5, AtRest, OneConnection
<1>7. CASE owner.phase = "QuitPending" /\ i = owner.quitter
  <2>1. ControlInv' /\ owner'.quitter = owner.quitter
    BY <1>2, <1>3, <1>6, BecomesOK, AtRest
  <2>. QED BY <1>7, <2>1 DEF StepOK, StreamStep, QuitStep
<1>8. CASE owner.phase = "QuitPending" /\ i # owner.quitter
  <2>1. owner.quit.conn \in Ids /\ owner.quit.conn # i
    BY <1>8, AtRest DEF QuantumOK, QuitOK
  <2>2. QuitWaits(d)
    BY <1>2, <2>1, AtRest DEF QuitWaits, ResponseSettlement
  <2>. QED BY <1>2, <1>3, <1>6, <2>2, QuietQuantum
<1>9. CASE owner.phase # "QuitPending"
  BY <1>2, <1>3, <1>6, <1>9, QuietQuantum
<1>. QED BY <1>7, <1>8, <1>9

\* send_one(): the delivery of a response is what a waiting Quit waits for.
LEMMA SendStepOK ==
    ASSUME ControlInv, NEW i \in Ids, Send(i)
    PROVE  StepOK
<1>. DEFINE c == conn[i]
            frame == c.output
<1>1. PICK all \in BOOLEAN, outcome \in Outcomes :
        LET m == AdvanceOutput(c, all)
            taken == c.pending = "none" /\ m.pending # "none"
            d == [Shared EXCEPT !.conn[i] = Drained(m),
                                !.asked[i] = IF all THEN Answered(@, frame) ELSE @]
        IN /\ Becomes(ApplyMachineAction(d, i, taken, outcome), peer)
           /\ got' = IF all THEN [got EXCEPT ![i] = Delivered(@, frame)] ELSE got
  BY ZenonT(30) DEF Send, Drained
<1>2. Interested(i) /\ Present(c) /\ c.output # NoFrame
  BY DEF Send, First, Ready, Interested, WriteReady
<1>3. /\ c \in Machines /\ (owner.pending = i) \in BOOLEAN /\ got[i] \in Reception
      /\ owner.version \in Nat
      /\ ConnOK(c, asked[i], owner.pending = i, got[i], owner.version)
  BY AtRest DEF QuantumOK, ConnectionOK, Receptions
<1>. DEFINE m == AdvanceOutput(c, all)
            sent == Drained(m)
            b == IF all THEN Answered(asked[i], frame) ELSE asked[i]
            r == IF all THEN Delivered(got[i], frame) ELSE got[i]
            d == [Shared EXCEPT !.conn[i] = sent, !.asked[i] = b]
            h == [got EXCEPT ![i] = r]
<1>4. /\ m \in Machines /\ sent \in Machines /\ c.pending = "none" /\ sent.pending = m.pending
      /\ m.pending # "none" => Taken(sent, b, owner.pending = i, r) /\ c.phase = "SendingHello"
      /\ m.pending = "none" => ConnOK(sent, b, owner.pending = i, r, owner.version)
      /\ Present(sent) /\ c.phase = "Subscriber" => sent.phase = "Subscriber"
      /\ c.output.class = "Ordinary" =>
           /\ m.pending = "none"
           /\ sent.pendingSeq = 0 \/ (sent.output.class = "Ordinary" /\ sent.pendingSeq = c.pendingSeq)
           /\ all => b = << >>
  <2>. DEFINE owed == owner.pending = i
              a == asked[i]
              g == got[i]
              v == owner.version
              aa == IF all THEN Answered(a, frame) ELSE a
              gg == IF all THEN Delivered(g, frame) ELSE g
  <2>1. /\ owed \in BOOLEAN /\ ConnOK(c, a, owed, g, v)
        /\ c \in Machines /\ Present(c) /\ c.output # NoFrame /\ g \in Reception /\ v \in Nat
    BY <1>2, <1>3
  <2>2. b = aa /\ r = gg
    BY SMTT(30)
  <2>. HIDE DEF owed, c, a, g, v, b, r, d, h
  <2>3. /\ m \in Machines /\ sent \in Machines /\ c.pending = "none" /\ sent.pending = m.pending
        /\ m.pending # "none" => Taken(sent, aa, owed, gg) /\ c.phase = "SendingHello"
        /\ m.pending = "none" => ConnOK(sent, aa, owed, gg, v)
        /\ Present(sent) /\ c.phase = "Subscriber" => sent.phase = "Subscriber"
        /\ c.output.class = "Ordinary" =>
             /\ m.pending = "none"
             /\ sent.pendingSeq = 0 \/ (sent.output.class = "Ordinary" /\ sent.pendingSeq = c.pendingSeq)
             /\ all => aa = << >>
    <3>1. SentOK(c, a, owed, g, v, all)
      BY <2>1, SendOK, ZenonT(30)
    <3>. QED BY <3>1, Zenon DEF SentOK
  <2>. HIDE DEF m, sent, aa, gg
  <2>. QED BY <2>2, <2>3, SMTT(30) DEF owed, v
<1>5. InOrder(got[i], Delivered(got[i], frame)) /\ Delivered(got[i], frame) \in Reception
  BY <1>2, <1>3, AtRest, DeliveredInOrder
<1>6. got' = h /\ h \in Receptions /\ h[i] = r /\ \A j \in Ids \ {i} : h[j] = got[j]
  BY <1>1, <1>3, <1>5, AtRest, Zenon DEF Receptions
<1>7. StreamStep
  <2>1. r # got[i] => r = Delivered(got[i], frame)
    OBVIOUS
  <2>. HIDE DEF h, r, frame
  <2>. QED BY <1>5, <1>6, <2>1 DEF StreamStep
<1>8. Becomes(ApplyMachineAction(d, i, m.pending # "none", outcome), peer)
  <2>1. Shared.asked[i] = asked[i]
    BY AtRest
  <2>. QED BY <1>1, <1>4, <2>1
<1>9. b \in Seq(Requests)
  <2>1. asked[i] \in Seq(Requests)
    BY AtRest
  <2>2. Answered(asked[i], frame) \in Seq(Requests)
    BY <2>1 DEF Answered
  <2>. QED BY <2>1, <2>2
<1>. HIDE DEF m, sent, b, r, h, frame
<1>10. /\ d \in States /\ d.server = server /\ d.owner = owner
       /\ d.conn[i] = sent /\ d.asked[i] = b
       /\ \A j \in Ids \ {i} : d.conn[j] = conn[j] /\ d.asked[j] = asked[j]
  <2>1. /\ d \in States /\ d.server = Shared.server /\ d.owner = Shared.owner
        /\ d.conn[i] = sent /\ d.asked[i] = b
        /\ \A j \in Ids \ {i} : d.conn[j] = Shared.conn[j] /\ d.asked[j] = Shared.asked[j]
    <3>1. Shared \in States /\ sent \in Machines
      BY <1>4, AtRest
    <3>. QED BY <1>9, <3>1, ZenonT(30) DEF States
  <2>. QED BY <2>1, AtRest
<1>. HIDE DEF d
<1>11. /\ BaseOK(d, h) /\ LiveOK(d) /\ ShutdownOK(d)
       /\ \A j \in Ids \ {i} : ConnectionOK(d, h, j)
       /\ /\ ConnectionOK(d, h, i)
          /\ owner.phase = "QuitPending" /\ i = owner.quitter
                /\ d.conn[i].pendingSeq = owner.quit.seq => d.conn[i].output.class = "Ordinary"
          => QuantumOK(d, h)
  <2>1. Present(d.conn[i]) /\ conn[i].phase = "Subscriber" => d.conn[i].phase = "Subscriber"
    BY <1>4, <1>10
  <2>. QED BY <1>2, <1>6, <1>10, <2>1, OneConnection, ZenonT(30)
<1>12. CASE m.pending # "none"
  <2>1. owner.phase = "Live"
    <3>1. owner.phase # "QuitPending"
      BY <1>2, <1>4, <1>12, OnlyTheQuitter
    <3>2. c.phase = "SendingHello"
      BY <1>4, <1>12, SMTT(30)
    <3>. QED BY <1>2, <3>1, <3>2, AtRest, SMTT(30) DEF QuantumOK, ShutdownOK, Owners
  <2>. DEFINE e == HandleControlAction(d, i, outcome)
  <2>2. QuantumOK(e, h) /\ QuitWaits(e) /\ (e.server.shutting => e.owner.quitter = 0)
    <3>1. Taken(d.conn[i], d.asked[i], d.owner.pending = i, h[i]) /\ d.owner.phase = "Live"
      BY <1>4, <1>6, <1>10, <1>12, <2>1, Zenon
    <3>. QED BY <1>6, <1>11, <3>1, HandleOK, ZenonT(30)
  <2>3. Becomes(e, peer)
    BY <1>8, <1>12, SMTT(30) DEF ApplyMachineAction
  <2>. HIDE DEF e
  <2>4. /\ ControlInv' /\ owner'.quitter = e.owner.quitter
        /\ server'.shutting /\ ~e.server.shutting => e.owner.phase = "QuitPending" /\ ~QuitWaits(e)
    BY <1>6, <2>2, <2>3, BecomesOK, Zenon
  <2>. QED BY <1>7, <2>2, <2>4, SMTT(30) DEF StepOK, QuitStep
<1>13. CASE m.pending = "none"
  <2>1. Becomes(d, peer)
    BY <1>8, <1>13, SMTT(30) DEF ApplyMachineAction
  <2>2. ConnectionOK(d, h, i)
    BY <1>4, <1>6, <1>10, <1>13 DEF ConnectionOK
  <2>3. owner.phase = "QuitPending" =>
          i = owner.quitter /\ c.output.class = "Ordinary" /\ c.pendingSeq = owner.quit.seq
            /\ owner.quit.seq # 0
    BY <1>2, OnlyTheQuitter, SMTT(30)
  <2>4. QuantumOK(d, h)
    BY <1>4, <1>10, <1>11, <2>2, <2>3, ZenonT(30)
  <2>5. /\ ControlInv' /\ asked' = d.asked /\ owner'.quitter = owner.quitter
        /\ server'.shutting /\ ~server.shutting => owner.phase = "QuitPending" /\ ~QuitWaits(d)
    BY <1>6, <1>10, <2>1, <2>4, BecomesOK
  <2>6. CASE ~(server'.shutting /\ ~server.shutting)
    BY <1>7, <2>5, <2>6, SMTT(30) DEF StepOK, QuitStep
  <2>7. CASE server'.shutting /\ ~server.shutting /\ all
    BY <1>4, <1>7, <1>10, <2>3, <2>5, <2>7, ZenonT(30) DEF StepOK, QuitStep
  <2>8. CASE server'.shutting /\ ~server.shutting /\ ~all
    <3>1. Present(m) /\ m.output # NoFrame /\ m.pendingSeq = c.pendingSeq
      BY <1>2, <1>3, <2>8, StartedOK, ZenonT(30) DEF m, Present
    <3>2. sent = m
      BY <3>1 DEF sent, Drained
    <3>3. owner.phase = "QuitPending" /\ owner.quit.conn = i
      BY <2>3, <2>5, <2>8, AtRest DEF QuantumOK, QuitOK
    <3>4. QuitWaits(d)
      BY <1>10, <2>3, <3>1, <3>2, <3>3 DEF QuitWaits, ResponseSettlement
    <3>. QED BY <2>5, <2>8, <3>4, SMTT(30)
  <2>. QED BY <2>6, <2>7, <2>8
<1>. QED BY <1>12, <1>13

\* A finished transaction answers the request that opened it.
LEMMA BackendFinishesOK ==
    ASSUME ControlInv, BackendFinishes
    PROVE  StepOK
<1>1. owner.phase = "Live" /\ owner.txn # "idle" /\ got' = got
  BY SMTT(30) DEF BackendFinishes, Live
<1>2. /\ ~server.shutting /\ server.barrier = NoReceipt
      /\ owner.quit = NoReceipt /\ owner.quitter = 0
      /\ owner.pending # 0 <=> owner.txn = "control"
  BY <1>1, AtRest, SMTT(30) DEF QuantumOK, LiveOK
<1>. DEFINE requester == IF owner.txn = "control" THEN owner.pending ELSE 0
            D(quits) == [Shared EXCEPT !.owner.txn = "idle",
                            !.owner.pending = IF owner.txn = "control" THEN 0 ELSE @,
                            !.owner.phase = IF quits THEN "QuitPending" ELSE @]
<1>3. PICK changed \in BOOLEAN, fits \in BOOLEAN, quits \in BOOLEAN :
        Becomes(ApplyUpdate(D(quits), changed, fits, requester, "act", quits), peer)
  <2>1. ~(owner.txn = "control" /\ owner.pending = 0)
    BY <1>2
  <2>. QED BY <2>1, ZenonT(30) DEF BackendFinishes
<1>. DEFINE d == D(quits)
<1>4. /\ d \in States /\ d.conn = conn /\ d.server = server /\ d.asked = asked
      /\ d.owner.txn = "idle" /\ d.owner.phase = IF quits THEN "QuitPending" ELSE "Live"
      /\ d.owner.pending = 0 /\ d.owner.version = owner.version /\ d.owner.fatal = owner.fatal
      /\ d.owner.quit = owner.quit /\ d.owner.quitter = owner.quitter
  <2>. DEFINE o == [owner EXCEPT !.txn = "idle",
                                 !.pending = IF owner.txn = "control" THEN 0 ELSE @,
                                 !.phase = IF quits THEN "QuitPending" ELSE @]
  <2>1. /\ o \in Owners /\ o.txn = "idle" /\ o.phase = IF quits THEN "QuitPending" ELSE "Live"
        /\ o.pending = 0 /\ o.version = owner.version /\ o.fatal = owner.fatal
        /\ o.quit = owner.quit /\ o.quitter = owner.quitter
    BY <1>1, <1>2, AtRest, Zenon DEF Owners
  <2>2. Shared \in States /\ Shared.owner = owner
    BY AtRest
  <2>3. d = [Shared EXCEPT !.owner = o]
    BY <2>2, ZenonT(30) DEF States
  <2>. HIDE DEF o, d
  <2>4. /\ d \in States /\ d.conn = Shared.conn /\ d.server = Shared.server /\ d.asked = Shared.asked
        /\ d.owner = o
    BY <2>1, <2>2, <2>3, SetOwner
  <2>. QED BY <2>1, <2>4, AtRest
<1>. HIDE DEF d
<1>5. requester \in Ids \union {0} /\ (requester # 0 => requester = owner.pending)
  BY <1>2, AtRest DEF Owners
<1>6. BaseOK(d, got)
  <2>1. 0 < server.next
    BY AtRest, SMTT(30) DEF Servers
  <2>. QED BY <1>4, <2>1, AtRest, SMTT(30) DEF QuantumOK, BaseOK, UnusedOK
<1>7. \A j \in Ids \ {requester} : ConnectionOK(d, got, j)
  <2>. SUFFICES ASSUME NEW j \in Ids \ {requester} PROVE ConnectionOK(d, got, j)
    OBVIOUS
  <2>1. (owner.pending = j) = FALSE /\ (d.owner.pending = j) = FALSE
    BY <1>2, <1>4, SMTT(30) DEF Ids
  <2>. QED BY <1>4, <2>1, AtRest DEF QuantumOK, ConnectionOK
<1>8. requester # 0 => Awaits(d, got, requester, "act")
  <2>. SUFFICES ASSUME requester # 0, Present(conn[requester]) PROVE Awaits(d, got, requester, "act")
    BY <1>4 DEF Awaits
  <2>1. requester = owner.pending /\ requester \in Ids /\ d.owner.pending # requester
    BY <1>4, <1>5, SMTT(30)
  <2>. HIDE DEF requester
  <2>2. /\ conn[requester].pending = "act" /\ OutputOK(conn[requester])
        /\ asked[requester] = Unanswered(conn[requester])
        /\ EventsOK(conn[requester], got[requester], owner.version)
    BY <2>1, AtRest, ZenonT(30) DEF QuantumOK, ConnectionOK, ConnOK
  <2>3. conn[requester].phase = "Ready" /\ asked[requester] = <<"act">>
    BY <2>2 DEF OutputOK, Unanswered
  <2>. QED BY <1>4, <2>1, <2>2, <2>3, SMTT(30) DEF Awaits, EventsOK, Requests
<1>9. Updating(d, quits)
  BY <1>2, <1>4, SMTT(30) DEF Updating
<1>. DEFINE e == ApplyUpdate(d, changed, fits, requester, "act", quits)
<1>10. QuantumOK(e, got) /\ QuitWaits(e) /\ (e.server.shutting => e.owner.quitter = 0)
  <2>1. got \in Receptions /\ requester \in Ids \union {0}
    BY <1>5, AtRest
  <2>. HIDE DEF requester
  <2>. QED BY <1>6, <1>7, <1>8, <1>9, <2>1, UpdateOK, SMTT(20)
<1>11. Becomes(e, peer)
  BY <1>3, SMTT(30) DEF d
<1>. HIDE DEF e
<1>. QED BY <1>1, <1>10, <1>11, QuietQuantum

\* service_clock() and service_sampler() with changed modules.
LEMMA ModulesChangeOK ==
    ASSUME ControlInv, ModulesChange
    PROVE  StepOK
<1>1. owner.phase = "Live" /\ got' = got
  BY DEF ModulesChange, Live
<1>2. PICK fits \in BOOLEAN : Becomes(ApplyUpdate(Shared, TRUE, fits, 0, "none", FALSE), peer)
  BY ZenonT(30) DEF ModulesChange
<1>3. Updating(Shared, FALSE)
  BY <1>1, AtRest DEF QuantumOK, LiveOK, Updating
<1>. DEFINE e == ApplyUpdate(Shared, TRUE, fits, 0, "none", FALSE)
<1>4. QuantumOK(e, got) /\ QuitWaits(e) /\ (e.server.shutting => e.owner.quitter = 0)
  <2>1. BaseOK(Shared, got) /\ \A j \in Ids \ {0} : ConnectionOK(Shared, got, j)
    BY AtRest DEF QuantumOK
  <2>. DEFINE requester == 0
              changed == TRUE
              quits == FALSE
              u == ApplyUpdate(Shared, changed, fits, requester, "none", quits)
  <2>2. /\ got \in Receptions /\ requester \in Ids \union {0} /\ changed \in BOOLEAN
        /\ quits \in BOOLEAN /\ Updating(Shared, quits)
        /\ requester # 0 => Awaits(Shared, got, requester, "none")
        /\ \A j \in Ids \ {requester} : ConnectionOK(Shared, got, j)
    BY <1>3, <2>1, AtRest, Zenon
  <2>. HIDE DEF requester, changed, quits
  <2>3. QuantumOK(u, got) /\ QuitWaits(u) /\ (u.server.shutting => u.owner.quitter = 0)
    BY <2>1, <2>2, UpdateOK, SMTT(30)
  <2>. QED BY <2>3, Zenon DEF requester, changed, quits
<1>. HIDE DEF e
<1>. QED BY <1>1, <1>2, <1>4, QuietQuantum, Zenon DEF e

\* A state of which only parts of the owner differ that the invariant does not
\* look at.
LEMMA OwnerAside ==
    ASSUME ControlInv, NEW d \in States, d.conn = conn, d.server = server, d.asked = asked,
           d.owner.phase = owner.phase, d.owner.pending = owner.pending, d.owner.quit = owner.quit,
           d.owner.quitter = owner.quitter, d.owner.version = owner.version,
           d.owner.fatal = owner.fatal,
           (d.owner.txn = "control" <=> owner.txn = "control"),
           d.owner.txn # owner.txn => owner.phase = "Live"
    PROVE  QuantumOK(d, got) /\ QuitWaits(d)
<1>1. BaseOK(d, got)
  BY AtRest, ZenonT(30) DEF QuantumOK, BaseOK, UnusedOK
<1>2. \A i \in Ids : ConnectionOK(d, got, i)
  BY AtRest, ZenonT(30) DEF QuantumOK, ConnectionOK
<1>3. LiveOK(d) /\ QuitOK(d) /\ ShutdownOK(d)
  BY AtRest, ZenonT(30) DEF QuantumOK, LiveOK, QuitOK, ShutdownOK
<1>4. QuitWaits(d)
  BY AtRest, Zenon DEF QuitWaits, ResponseSettlement
<1>. QED BY <1>1, <1>2, <1>3, <1>4, SMTT(30) DEF QuantumOK

\* The worker's answer to its fence.
LEMMA FenceReturnsOK ==
    ASSUME ControlInv, FenceReturns
    PROVE  StepOK
<1>. DEFINE o == [owner EXCEPT !.fence = TRUE]
            d == [Shared EXCEPT !.owner.fence = TRUE]
<1>1. /\ o \in Owners /\ o.phase = owner.phase /\ o.pending = owner.pending /\ o.quit = owner.quit
      /\ o.quitter = owner.quitter /\ o.version = owner.version /\ o.fatal = owner.fatal
      /\ o.txn = owner.txn
  BY AtRest, Zenon DEF Owners
<1>2. Shared \in States /\ Shared.owner = owner
  BY AtRest
<1>3. Becomes(d, peer) /\ got' = got
  BY DEF FenceReturns
<1>4. /\ d \in States /\ d.conn = conn /\ d.server = server /\ d.asked = asked /\ d.owner = o
  <2>1. d = [Shared EXCEPT !.owner = o]
    BY <1>2 DEF States
  <2>. HIDE DEF o, d
  <2>2. /\ d \in States /\ d.conn = Shared.conn /\ d.server = Shared.server /\ d.asked = Shared.asked
        /\ d.owner = o
    BY <1>1, <1>2, <2>1, SetOwner, SMTT(30)
  <2>. QED BY <2>2, AtRest
<1>. HIDE DEF o, d
<1>5. QuantumOK(d, got) /\ QuitWaits(d)
  BY <1>1, <1>4, OwnerAside
<1>. QED BY <1>3, <1>4, <1>5, QuietQuantum

\* A backend transaction nobody asked for over the socket.
LEMMA BackendStartsOK ==
    ASSUME ControlInv, BackendStarts
    PROVE  StepOK
<1>1. /\ owner.phase = "Live" /\ owner.txn = "idle"
      /\ owner' = [owner EXCEPT !.txn = "internal"]
      /\ UNCHANGED <<conn, server, asked, got>>
  BY DEF BackendStarts, Live
<1>. DEFINE o == [owner EXCEPT !.txn = "internal"]
            d == [conn |-> conn, server |-> server, owner |-> o, asked |-> asked]
<1>2. /\ o \in Owners /\ o.phase = owner.phase /\ o.pending = owner.pending /\ o.quit = owner.quit
      /\ o.quitter = owner.quitter /\ o.version = owner.version /\ o.fatal = owner.fatal
      /\ o.txn = "internal"
  BY AtRest, Zenon DEF Owners
<1>3. Shared' = d
  BY <1>1 DEF Shared
<1>4. /\ d.conn = conn /\ d.server = server /\ d.asked = asked /\ d.owner = o
      /\ d = [conn |-> d.conn, server |-> d.server, owner |-> d.owner, asked |-> d.asked]
  OBVIOUS
<1>. HIDE DEF o, d
<1>5. d \in States
  BY <1>2, <1>4, AtRest DEF States
<1>6. QuantumOK(d, got) /\ QuitWaits(d)
  BY <1>1, <1>2, <1>4, <1>5, OwnerAside
<1>7. ControlInv'
  BY <1>1, <1>3, <1>6, AtRest DEF ControlInv
<1>. QED BY <1>1, <1>7 DEF StepOK, StreamStep, QuitStep

\* What the peers do changes nothing the server holds.
LEMMA AsideOK ==
    ASSUME ControlInv, UNCHANGED <<conn, server, owner, asked, got>>
    PROVE  StepOK
<1>1. ControlInv'
  BY DEF ControlInv, Shared
<1>. QED BY <1>1 DEF StepOK, StreamStep, QuitStep

\* Every step.
LEMMA NextOK ==
    ASSUME ControlInv, [Next]_vars
    PROVE  StepOK
<1>1. CASE Accept
  BY <1>1, AcceptOK
<1>2. CASE \E i \in Ids : Receive(i)
  BY <1>2, ReceiveOK
<1>3. CASE \E i \in Ids : ReceiveEof(i)
  BY <1>3, ReceiveEofOK
<1>4. CASE \E i \in Ids : Hangup(i)
  <2>1. PICK i \in Ids : Hangup(i)
    BY <1>4
  <2>2. Present(conn[i]) /\ got' = got /\ Becomes([Shared EXCEPT !.conn[i] = Close(conn[i])], peer)
    BY <2>1, AtRest, Zenon DEF Hangup, First, Ready, Interested
  <2>. QED BY <2>1, <2>2, CloseOK
<1>5. CASE \E i \in Ids : Send(i)
  BY <1>5, SendStepOK
<1>6. CASE \E i \in Ids : Expire(i)
  <2>1. PICK i \in Ids : Expire(i)
    BY <1>6
  <2>2. Present(conn[i]) /\ got' = got /\ Becomes([Shared EXCEPT !.conn[i] = Close(conn[i])], peer)
    BY <2>1, AtRest, Zenon DEF Expire, HasDeadline
  <2>. QED BY <2>1, <2>2, CloseOK
<1>7. CASE BackendStarts
  BY <1>7, BackendStartsOK
<1>8. CASE BackendFinishes
  BY <1>8, BackendFinishesOK
<1>9. CASE ModulesChange
  BY <1>9, ModulesChangeOK
<1>10. CASE FenceReturns
  BY <1>10, FenceReturnsOK
<1>11. CASE \/ \E i \in Ids : \E f \in PeerFrames[i] : PeerSends(i, f)
            \/ \E i \in Ids : PeerHalfCloses(i) \/ PeerLeaves(i) \/ PeerStopsReading(i)
            \/ UNCHANGED vars
  BY <1>11, AsideOK, Zenon DEF PeerSends, PeerHalfCloses, PeerLeaves, PeerStopsReading, vars
<1>. QED BY <1>1, <1>2, <1>3, <1>4, <1>5, <1>6, <1>7, <1>8, <1>9, <1>10, <1>11 DEF Next

-----------------------------------------------------------------------------
(* The theorems.                                                           *)

\* The session starts in order.
LEMMA InitOK ==
    ASSUME Init
    PROVE  ControlInv
<1>. DEFINE o == [phase |-> "Live", txn |-> "idle", pending |-> 0,
                  quit |-> NoReceipt, quitter |-> 0, sealed |-> FALSE, fence |-> FALSE,
                  fatal |-> FALSE, version |-> 1]
            v == [next |-> 1, barrier |-> NoReceipt, shutting |-> FALSE]
<1>1. NoReceipt \in Receipts
  BY DEF NoReceipt, Receipts
<1>2. o \in Owners /\ v \in Servers
  BY <1>1 DEF Owners, Servers
<1>3. got \in Receptions
  BY DEF Init, Receptions, Reception, Nothing, Classes
<1>4. /\ Shared.conn = [i \in Ids |-> Vacant] /\ Shared.server = v /\ Shared.owner = o
      /\ Shared.asked = [i \in Ids |-> << >>]
      /\ Shared = [conn |-> Shared.conn, server |-> Shared.server, owner |-> Shared.owner,
                   asked |-> Shared.asked]
  BY DEF Init, Shared
<1>5. Shared \in States
  <2>1. Shared.conn \in [Ids -> Machines] /\ Shared.asked \in [Ids -> Seq(Requests)]
    BY <1>4, MachineTypes
  <2>. HIDE DEF o, v
  <2>. QED BY <1>2, <1>4, <2>1, Zenon DEF States
<1>6. UnusedOK(Shared, got)
  BY <1>4 DEF UnusedOK, Init
<1>7. \A i \in Ids : ConnectionOK(Shared, got, i)
  BY <1>4, MachineTypes DEF ConnectionOK, ConnOK
<1>8. LiveOK(Shared) /\ QuitOK(Shared) /\ ShutdownOK(Shared) /\ QuitWaits(Shared)
  BY <1>4 DEF LiveOK, QuitOK, ShutdownOK, QuitWaits
<1>. QED BY <1>3, <1>4, <1>5, <1>6, <1>7, <1>8 DEF ControlInv, QuantumOK, BaseOK

\* The invariant is inductive: it holds when the session starts, and every
\* quantum of run_combined_loop and everything the peers do keep it.
THEOREM ControlInductive == Spec => []ControlInv
<1>1. Init => ControlInv
  BY InitOK
<1>2. ControlInv /\ [Next]_vars => ControlInv'
  BY NextOK DEF StepOK
<1>. QED BY <1>1, <1>2, PTL DEF Spec

\* The owner never ends the session over its own bookkeeping, whatever the
\* number of connections and whatever the peers send: no error path of
\* runtime.rs for a replaced request, a completion without a requester, a
\* second barrier or a publication after shutdown is ever taken.
THEOREM ControlNeverFatal == Spec => []NeverFatal
<1>1. ControlInv => NeverFatal
  BY AtRest, SMTT(30) DEF NeverFatal
<1>. QED BY <1>1, ControlInductive, PTL

\* Every request taken from a connection has exactly one answer, queued or
\* still owed by the transaction the request opened.
THEOREM EveryRequestIsAnswered == Spec => []RequestsAreAnswered
<1>1. ControlInv => RequestsAreAnswered
  <2>. SUFFICES ASSUME ControlInv, NEW i \in Ids, Present(conn[i])
                PROVE  /\ Len(asked[i]) <= 1
                       /\ conn[i].output.class \in {"Ordinary", "InitialState"}
                            => asked[i] = <<conn[i].output.answers>>
                       /\ asked[i] # << >>
                            => \/ conn[i].output.class \in {"Ordinary", "InitialState"}
                               \/ asked[i] = <<"act">> /\ owner.pending = i
    BY SMTT(30) DEF RequestsAreAnswered
  <2>1. /\ OutputOK(conn[i]) /\ asked[i] = Unanswered(conn[i])
        /\ conn[i].pending \in {"none", "act"} /\ (owner.pending = i <=> conn[i].pending = "act")
    BY AtRest DEF QuantumOK, ConnectionOK, ConnOK
  <2>. QED BY <2>1, MachineTypes, SMTT(30) DEF Unanswered, OutputOK, AnswerClasses
<1>. QED BY <1>1, ControlInductive, PTL

\* A subscriber's events begin with a state, every later state is newer and
\* nothing follows Shutdown, for any number of publications and any timing of
\* the sends.
THEOREM SubscriberStreamInOrder == Spec => SubscriberStream
<1>1. ControlInv /\ [Next]_vars =>
        [\A i \in Ids : got'[i] # got[i] =>
           /\ got[i].class # "Shutdown"
           /\ got'[i].class \in {"State", "Shutdown"} => got[i].class \in {"InitialState", "State"}
           /\ got'[i].class = "State" => got'[i].version > got[i].version]_vars
  BY NextOK DEF StepOK, StreamStep, InOrder
<1>. QED BY <1>1, ControlInductive, PTL DEF Spec, SubscriberStream

\* A shutdown asked for over the socket starts only when its answer has been
\* delivered, or with the failure of the connection that asked.
THEOREM QuitAlwaysAnsweredFirst == Spec => QuitIsAnsweredFirst
<1>1. ControlInv /\ [Next]_vars =>
        [(server'.shutting /\ ~server.shutting /\ owner'.quitter # 0)
           => \/ asked'[owner'.quitter] = << >>
              \/ \E i \in Ids : i = owner'.quitter /\ (Expire(i) \/ Hangup(i))]_vars
  BY NextOK DEF StepOK, QuitStep
<1>. QED BY <1>1, ControlInductive, PTL DEF Spec, QuitIsAnsweredFirst
=============================================================================
