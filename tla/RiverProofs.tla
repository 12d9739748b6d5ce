---------------------------- MODULE RiverProofs -----------------------------
(***************************************************************************)
(* Proofs about River, for any windows, sizes, room in the socket, devices *)
(* and upsets: River receives every manage_finish and render_finish in     *)
(* sequence.                                                               *)
(*                                                                         *)
(* A sequence is one token.  River sends it as manage_start or             *)
(* render_start; it is then on the wire, decoded, an open turn, a finish   *)
(* the transport buffers, or a finish in the socket, and in no two of      *)
(* these; and River is in that sequence until it is back.                  *)
(***************************************************************************)
EXTENDS River, FiniteSetTheorems, WellFoundedInduction, TLAPS

\* A sequence, of whatever elements.
IsSeq(s) == s \in Seq({s[i] : i \in DOMAIN s})

\* No element, at most one element, every element is of one of these kinds.
Free(s, kinds) == \A i \in DOMAIN s : s[i].kind \notin kinds
Once(s, kinds) == \A i, j \in DOMAIN s : s[i].kind \in kinds /\ s[j].kind \in kinds => i = j
Only(s, kinds) == \A i \in DOMAIN s : s[i].kind \in kinds

Starts == {"manage_start", "render_start"}
Finishes == {"manage_finish", "render_finish"}
Turns == {"PolicyTurn"}
Plain == {"get_registry", "sync", "bind_companions", "bind_window_manager", "set_tap",
          "manage_dirty", "get_output", "exit_session", "other"}

\* The fields the argument is about, and what River's objects are.
Shape ==
    /\ {"open_turn", "public", "held"} \subseteq DOMAIN b
    /\ {"at", "error", "news", "devices", "outputs", "seats", "dims"} \subseteq DOMAIN comp
    /\ comp.devices \subseteq {0, New} /\ IsFiniteSet(comp.devices)
    /\ IsFiniteSet(comp.outputs) /\ IsFiniteSet(comp.seats)
    /\ DOMAIN comp.dims \subseteq Window
    /\ IsSeq(wire) /\ IsSeq(decoded) /\ IsSeq(out) /\ IsSeq(req) /\ IsSeq(b.public) /\ IsSeq(comp.news)
    /\ IsSeq(b.held) /\ Only(b.held, InputKinds)
    /\ Len(req) <= SocketRoom
    /\ Only(out, Plain \cup Finishes) /\ Only(req, Plain \cup Finishes)
    /\ Free(comp.news, Starts)

\* There is one token, and it is in one place.
OneToken ==
    /\ Once(wire, Starts) /\ Once(decoded, Starts) /\ Once(out, Finishes) /\ Once(req, Finishes)
    /\ Once(b.public, Turns)
    /\ b.open_turn \/ Free(b.public, Turns)
    /\ \/ Free(wire, Starts)
       \/ Free(decoded, Starts) /\ ~b.open_turn /\ Free(out, Finishes) /\ Free(req, Finishes)
    /\ Free(decoded, Starts) \/ (~b.open_turn /\ Free(out, Finishes) /\ Free(req, Finishes))
    /\ b.open_turn => Free(out, Finishes) /\ Free(req, Finishes)
    /\ Free(out, Finishes) \/ Free(req, Finishes)

\* It is of the sequence that River is in.
RightToken ==
    /\ comp.at # "manage" =>
         /\ Free(wire, {"manage_start"}) /\ Free(decoded, {"manage_start"}) /\ ~b.open_turn
         /\ Free(out, {"manage_finish"}) /\ Free(req, {"manage_finish"})
    /\ comp.at # "render" =>
         /\ Free(wire, {"render_start"}) /\ Free(decoded, {"render_start"})
         /\ Free(out, {"render_finish"}) /\ Free(req, {"render_finish"})

SequenceInv == Shape /\ OneToken /\ RightToken /\ ~comp.error

-----------------------------------------------------------------------------
(* Sequences.                                                              *)

\* A sequence over any set is one of its own elements.
LEMMA SeqIsSeq ==
    ASSUME NEW S, NEW s \in Seq(S)
    PROVE  IsSeq(s)
BY DEF IsSeq

\* A function on the first n numbers is one.
LEMMA FunctionIsSeq ==
    ASSUME NEW n \in Nat, NEW f, f = [i \in 1..n |-> f[i]]
    PROVE  IsSeq(f) /\ DOMAIN f = 1..n /\ Len(f) = n
<1>1. f \in [1..n -> {f[i] : i \in 1..n}]
  OBVIOUS
<1>2. f \in Seq({f[i] : i \in 1..n})
  BY <1>1
<1>. QED BY <1>2, SeqIsSeq

\* The empty sequence, and one that has a single element.
LEMMA ShortSeqs ==
    /\ IsSeq(<<>>) /\ \A kinds : Free(<<>>, kinds) /\ Only(<<>>, kinds) /\ Once(<<>>, kinds)
    /\ \A x : /\ IsSeq(<<x>>)
              /\ \A kinds : /\ x.kind \notin kinds => Free(<<x>>, kinds)
                            /\ x.kind \in kinds => Only(<<x>>, kinds)
                            /\ Once(<<x>>, kinds)
<1>1. IsSeq(<<>>)
  BY DEF IsSeq
<1>2. ASSUME NEW x PROVE IsSeq(<<x>>)
  BY DEF IsSeq
<1>. QED BY <1>1, <1>2 DEF Free, Only, Once

\* What the tail of a sequence keeps.
LEMMA TailOf ==
    ASSUME NEW s, IsSeq(s), s # <<>>
    PROVE  /\ IsSeq(Tail(s)) /\ Len(Tail(s)) = Len(s) - 1 /\ Len(s) \in Nat \ {0}
           /\ \A kinds : /\ Free(s, kinds) => Free(Tail(s), kinds) /\ Head(s).kind \notin kinds
                         /\ Only(s, kinds) => Only(Tail(s), kinds) /\ Head(s).kind \in kinds
                         /\ Once(s, kinds) => Once(Tail(s), kinds)
                         /\ Once(s, kinds) /\ Head(s).kind \in kinds => Free(Tail(s), kinds)
<1> DEFINE S == {s[i] : i \in DOMAIN s}
<1>1. s \in Seq(S)
  BY DEF IsSeq
<1> HIDE DEF S
<1>2. /\ Tail(s) \in Seq(S) /\ Len(Tail(s)) = Len(s) - 1 /\ Len(s) \in Nat \ {0}
      /\ Head(s) = s[1] /\ DOMAIN s = 1..Len(s) /\ DOMAIN Tail(s) = 1..(Len(s) - 1)
      /\ \A i \in 1..(Len(s) - 1) : Tail(s)[i] = s[i + 1]
  BY <1>1
<1>3. IsSeq(Tail(s))
  BY <1>2, SeqIsSeq, Zenon
<1>4. ASSUME NEW kinds
      PROVE  /\ Free(s, kinds) => Free(Tail(s), kinds) /\ Head(s).kind \notin kinds
             /\ Only(s, kinds) => Only(Tail(s), kinds) /\ Head(s).kind \in kinds
             /\ Once(s, kinds) => Once(Tail(s), kinds)
             /\ Once(s, kinds) /\ Head(s).kind \in kinds => Free(Tail(s), kinds)
  BY <1>2 DEF Free, Only, Once
<1>. QED BY <1>2, <1>3, <1>4

\* What two sequences one after the other keep.
LEMMA Joined ==
    ASSUME NEW s, IsSeq(s), NEW t, IsSeq(t)
    PROVE  /\ IsSeq(s \o t) /\ Len(s \o t) = Len(s) + Len(t)
           /\ \A kinds : /\ Free(s, kinds) /\ Free(t, kinds) => Free(s \o t, kinds)
                         /\ Only(s, kinds) /\ Only(t, kinds) => Only(s \o t, kinds)
                         /\ Once(s, kinds) /\ Free(t, kinds) => Once(s \o t, kinds)
                         /\ Free(s, kinds) /\ Once(t, kinds) => Once(s \o t, kinds)
<1> DEFINE S == {s[i] : i \in DOMAIN s} \cup {t[i] : i \in DOMAIN t}
<1>1. s \in Seq(S) /\ t \in Seq(S)
  <2>1. s \in Seq({s[i] : i \in DOMAIN s}) /\ t \in Seq({t[i] : i \in DOMAIN t})
    BY DEF IsSeq
  <2>. QED BY <2>1
<1> HIDE DEF S
<1>2. /\ s \o t \in Seq(S) /\ Len(s \o t) = Len(s) + Len(t) /\ Len(s) \in Nat /\ Len(t) \in Nat
      /\ DOMAIN s = 1..Len(s) /\ DOMAIN t = 1..Len(t) /\ DOMAIN (s \o t) = 1..(Len(s) + Len(t))
      /\ \A i \in 1..(Len(s) + Len(t)) : (s \o t)[i] = IF i <= Len(s) THEN s[i] ELSE t[i - Len(s)]
  BY <1>1
<1>3. IsSeq(s \o t)
  BY <1>2, SeqIsSeq, Zenon
<1>4. ASSUME NEW kinds
      PROVE  /\ Free(s, kinds) /\ Free(t, kinds) => Free(s \o t, kinds)
             /\ Only(s, kinds) /\ Only(t, kinds) => Only(s \o t, kinds)
             /\ Once(s, kinds) /\ Free(t, kinds) => Once(s \o t, kinds)
             /\ Free(s, kinds) /\ Once(t, kinds) => Once(s \o t, kinds)
  <2>1. /\ \A i \in DOMAIN (s \o t) : \/ i \in DOMAIN s /\ (s \o t)[i] = s[i]
                                      \/ i - Len(s) \in DOMAIN t /\ (s \o t)[i] = t[i - Len(s)]
    BY <1>2
  <2>2. DOMAIN (s \o t) \subseteq Nat
    BY <1>2
  <2>. QED BY <1>2, <2>1, <2>2 DEF Free, Only, Once
<1>. QED BY <1>2, <1>3, <1>4

\* Joining is associative.
LEMMA JoinedTwice ==
    ASSUME NEW s, IsSeq(s), NEW t, IsSeq(t), NEW u, IsSeq(u)
    PROVE  s \o t \o u = s \o (t \o u)
<1> DEFINE S == {s[i] : i \in DOMAIN s} \cup {t[i] : i \in DOMAIN t} \cup {u[i] : i \in DOMAIN u}
<1>1. s \in Seq(S) /\ t \in Seq(S) /\ u \in Seq(S)
  <2>1. /\ s \in Seq({s[i] : i \in DOMAIN s}) /\ t \in Seq({t[i] : i \in DOMAIN t})
        /\ u \in Seq({u[i] : i \in DOMAIN u})
    BY DEF IsSeq
  <2>. QED BY <2>1
<1> HIDE DEF S
<1>. QED BY <1>1

\* What a sequence with a further element keeps.
LEMMA Appended ==
    ASSUME NEW s, IsSeq(s), NEW x
    PROVE  /\ IsSeq(Append(s, x)) /\ Len(Append(s, x)) = Len(s) + 1 /\ Append(s, x) = s \o <<x>>
           /\ \A kinds : /\ Free(s, kinds) /\ x.kind \notin kinds => Free(Append(s, x), kinds)
                         /\ Only(s, kinds) /\ x.kind \in kinds => Only(Append(s, x), kinds)
                         /\ Once(s, kinds) /\ x.kind \notin kinds => Once(Append(s, x), kinds)
                         /\ Free(s, kinds) => Once(Append(s, x), kinds)
<1> DEFINE S == {s[i] : i \in DOMAIN s} \cup {x}
<1>1. s \in Seq(S) /\ x \in S
  <2>1. s \in Seq({s[i] : i \in DOMAIN s})
    BY DEF IsSeq
  <2>. QED BY <2>1
<1> HIDE DEF S
<1>2. Append(s, x) = s \o <<x>> /\ Len(<<x>>) = 1
  BY <1>1
<1>. QED BY <1>2, Joined, ShortSeqs

\* What the two parts of a sequence keep.
LEMMA Split ==
    ASSUME NEW s, IsSeq(s), NEW n \in 0..Len(s)
    PROVE  LET u == SubSeq(s, 1, n)
               v == SubSeq(s, n + 1, Len(s))
           IN  /\ IsSeq(u) /\ IsSeq(v) /\ Len(u) = n /\ Len(v) = Len(s) - n
               /\ \A kinds : /\ Free(s, kinds) => Free(u, kinds) /\ Free(v, kinds)
                             /\ Only(s, kinds) => Only(u, kinds) /\ Only(v, kinds)
                             /\ Once(s, kinds) => /\ Once(u, kinds) /\ Once(v, kinds)
                                                  /\ Free(u, kinds) \/ Free(v, kinds)
<1> DEFINE S == {s[i] : i \in DOMAIN s}
           u == SubSeq(s, 1, n)
           v == SubSeq(s, n + 1, Len(s))
<1>1. s \in Seq(S)
  BY DEF IsSeq
<1> HIDE DEF S
<1>2. /\ Len(s) \in Nat /\ DOMAIN s = 1..Len(s)
      /\ u \in Seq(S) /\ Len(u) = n /\ DOMAIN u = 1..n /\ \A i \in 1..n : u[i] = s[i]
  BY <1>1
<1>3. /\ v \in Seq(S) /\ Len(v) = Len(s) - n /\ DOMAIN v = 1..(Len(s) - n)
      /\ \A i \in 1..(Len(s) - n) : v[i] = s[i + n]
  BY <1>1
<1>4. IsSeq(u) /\ IsSeq(v)
  BY <1>2, <1>3, SeqIsSeq, Zenon
<1> HIDE DEF u, v
<1>5. ASSUME NEW kinds
      PROVE  /\ Free(s, kinds) => Free(u, kinds) /\ Free(v, kinds)
             /\ Only(s, kinds) => Only(u, kinds) /\ Only(v, kinds)
             /\ Once(s, kinds) => /\ Once(u, kinds) /\ Once(v, kinds)
                                  /\ Free(u, kinds) \/ Free(v, kinds)
  <2>1. /\ \A i \in DOMAIN u : i \in DOMAIN s /\ u[i] = s[i] /\ i <= n
        /\ \A i \in DOMAIN v : i + n \in DOMAIN s /\ v[i] = s[i + n] /\ i \in Nat \ {0}
    BY <1>2, <1>3
  <2>. QED BY <2>1 DEF Free, Only, Once
<1>. QED BY <1>2, <1>3, <1>4, <1>5, Zenon DEF u, v

-----------------------------------------------------------------------------
(* Input events applied one after the other.                               *)

\* Applying events does not leave a set that each of them keeps.
LEMMA InputFold ==
    ASSUME NEW U, NEW s \in U, NEW held, IsSeq(held),
           \A u \in U, i \in DOMAIN held : apply_input_event(u, held[i]) \in U
    PROVE  apply_input_events(s, held) \in U
<1> DEFINE n == Len(held)
           Next1(f, i) == IF i = 0 THEN s ELSE apply_input_event(f[i - 1], held[i])
           Upto(k) == {g \in [0..k -> U] : \A i \in 0..k : g[i] = Next1(g, i)}
           T == {k \in 0..n : Upto(k) = {}}
<1>1. n \in Nat /\ DOMAIN held = 1..n
  BY DEF IsSeq
<1> HIDE DEF n
<1>2. T = {}
  <2> SUFFICES ASSUME T # {} PROVE FALSE
    OBVIOUS
  <2>1. T \subseteq Nat
    BY <1>1
  <2>2. PICK m \in T : \A k \in T : ~(<<k, m>> \in OpToRel(<, Nat))
    BY <2>1, NatLessThanWellFounded, WFMin, Zenon
  <2>3. \A k \in T : ~(k < m)
    BY <2>1, <2>2, Zenon DEF OpToRel
  <2>4. m # 0
    <3>1. [i \in 0..0 |-> s] \in Upto(0)
      OBVIOUS
    <3>. QED BY <3>1, Zenon
  <2>5. m \in Nat /\ m - 1 \in 0..n /\ m \in 1..n
    BY <1>1, <2>4
  <2>6. PICK g \in [0..(m - 1) -> U] : \A i \in 0..(m - 1) : g[i] = Next1(g, i)
    BY <2>3, <2>5
  <2> DEFINE h == [i \in 0..m |-> IF i < m THEN g[i] ELSE apply_input_event(g[m - 1], held[m])]
  <2>7. apply_input_event(g[m - 1], held[m]) \in U
    BY <1>1, <2>5, <2>6
  <2>8. h \in [0..m -> U]
    BY <2>5, <2>6, <2>7
  <2>9. ASSUME NEW i \in 0..m PROVE h[i] = Next1(h, i)
    <3>1. CASE i < m
      BY <2>5, <2>6, <3>1
    <3>2. CASE i = m
      BY <2>4, <2>5, <3>2
    <3>. QED BY <2>5, <3>1, <3>2
  <2>10. h \in Upto(m)
    BY <2>8, <2>9
  <2>. QED BY <2>10, Zenon
<1>3. PICK g \in [0..n -> U] : \A i \in 0..n : g[i] = Next1(g, i)
  BY <1>1, <1>2
<1>4. g = [i \in 0..n |-> Next1(g, i)]
  BY <1>3
<1>5. ASSUME NEW f, f = [i \in 0..n |-> Next1(f, i)] PROVE f[n] \in U
  <2> DEFINE B == {i \in 0..n : f[i] \notin U}
  <2> SUFFICES ASSUME B # {} PROVE FALSE
    BY <1>1
  <2>1. B \subseteq Nat
    BY <1>1
  <2>2. PICK m \in B : \A k \in B : ~(<<k, m>> \in OpToRel(<, Nat))
    BY <2>1, NatLessThanWellFounded, WFMin, Zenon
  <2>3. \A k \in B : ~(k < m)
    BY <2>1, <2>2, Zenon DEF OpToRel
  <2>4. f[m] = Next1(f, m)
    BY <1>5, Zenon
  <2>5. m # 0
    BY <2>4
  <2>6. m - 1 \in 0..n /\ m \in 1..n
    BY <1>1, <2>5
  <2>7. f[m - 1] \in U
    BY <2>3, <2>6
  <2>. QED BY <1>1, <2>4, <2>5, <2>6, <2>7
<1>6. apply_input_events(s, held) = (CHOOSE f : f = [i \in 0..n |-> Next1(f, i)])[n]
  BY DEF apply_input_events, n
<1> HIDE DEF Next1
<1>7. (CHOOSE f : f = [i \in 0..n |-> Next1(f, i)]) = [i \in 0..n |-> Next1(CHOOSE f : f = [j \in 0..n |-> Next1(f, j)], i)]
  BY <1>4, Zenon
<1>. QED BY <1>5, <1>6, <1>7, Zenon

\* What input events ask of devices is no finish.
LEMMA PolicySent ==
    ASSUME NEW held, IsSeq(held), Only(held, InputKinds)
    PROVE  IsSeq(InputEvents(held).sent) /\ Only(InputEvents(held).sent, Plain)
<1> DEFINE D == b.devices \cup b.results \cup {held[i].w : i \in DOMAIN held}
           Policy == [kind : {"other", "set_tap"}, of : SUBSET D, focus : {"keep"}, binds : {FALSE}]
           U == [devices : SUBSET D, results : SUBSET D, sent : Seq(Policy),
                 error : {"none", "capacity", "rejected"}]
           s == [devices |-> b.devices, results |-> b.results, sent |-> <<>>, error |-> "none"]
<1>1. s \in U
  OBVIOUS
<1>2. ASSUME NEW u \in U, NEW i \in DOMAIN held PROVE apply_input_event(u, held[i]) \in U
  <2> DEFINE m == held[i]
  <2>1. m.kind \in InputKinds /\ m.w \in D
    BY DEF Only
  <2> HIDE DEF m, D
  <2>2. Request("other", {}) \in Policy /\ Request("set_tap", {m.w}) \in Policy
    BY <2>1 DEF Request
  <2> HIDE DEF Policy
  <2>3. m.kind \in DeviceKinds => DevicePolicy(m) \in Seq(Policy)
    <3> DEFINE other == Request("other", {})
               tap == Request("set_tap", {m.w})
    <3>1. m.kind \in DeviceKinds => DevicePolicy(m) \in {<<other>>, <<tap>>, <<>>}
      BY DEF DevicePolicy, DeviceKinds
    <3>2. other \in Policy /\ tap \in Policy
      BY <2>2
    <3> HIDE DEF other, tap
    <3>3. <<other>> \in Seq(Policy) /\ <<tap>> \in Seq(Policy) /\ <<>> \in Seq(Policy)
      BY <3>2
    <3>. QED BY <3>1, <3>3, Zenon
  <2>4. m.kind \in DeviceKinds => InputDeviceDone(u, m) \in U
    <3> SUFFICES ASSUME m.kind \in DeviceKinds PROVE InputDeviceDone(u, m) \in U
      OBVIOUS
    <3>1. u.sent \o DevicePolicy(m) \in Seq(Policy)
      BY <2>3
    <3>. QED BY <2>1, <3>1, Zenon DEF InputDeviceDone
  <2>5. InputDeviceRemoved(u, m) \in U
    <3> DEFINE other == Request("other", {})
    <3>1. other \in Policy
      BY <2>2
    <3> HIDE DEF other
    <3>2. Append(u.sent, other) \in Seq(Policy)
      BY <3>1
    <3>. QED BY <2>1, <3>2, Zenon DEF InputDeviceRemoved, other
  <2>6. LibinputResult(u, m) \in U
    BY <2>1 DEF LibinputResult
  <2>. QED BY <2>1, <2>4, <2>5, <2>6 DEF apply_input_event, InputKinds, DeviceKinds, m
<1>3. InputEvents(held) \in U
  <2> HIDE DEF U
  <2>. QED BY <1>1, <1>2, InputFold DEF InputEvents
<1>4. InputEvents(held).sent \in Seq(Policy)
  BY <1>3
<1>5. IsSeq(InputEvents(held).sent)
  <2> HIDE DEF Policy
  <2>. QED BY <1>4, SeqIsSeq
<1>6. \A i \in DOMAIN InputEvents(held).sent : InputEvents(held).sent[i] \in Policy
  <2> HIDE DEF Policy
  <2>. QED BY <1>4
<1>. QED BY <1>5, <1>6 DEF Only, Plain

-----------------------------------------------------------------------------
(* Steps that move no token.                                               *)

\* Kinds of requests and messages apart.
LEMMA KindsApart ==
    /\ \A s : Only(s, Plain) => /\ Only(s, Plain \cup Finishes) /\ Free(s, Finishes)
                                /\ Free(s, {"manage_finish"}) /\ Free(s, {"render_finish"})
    /\ \A s : Free(s, Starts) <=> Free(s, {"manage_start"}) /\ Free(s, {"render_start"})
    /\ \A s : Free(s, Finishes) <=> Free(s, {"manage_finish"}) /\ Free(s, {"render_finish"})
BY DEF Only, Free, Plain, Starts, Finishes

\* River tells of something that starts no sequence.
LEMMA NewsStep ==
    ASSUME SequenceInv, UNCHANGED <<b, decoded, out, req>>,
           DOMAIN comp' = DOMAIN comp, comp'.at = comp.at, comp'.error = comp.error,
           comp'.devices \subseteq {0, New}, IsFiniteSet(comp'.devices), IsFiniteSet(comp'.outputs), IsFiniteSet(comp'.seats),
           DOMAIN comp'.dims \subseteq Window, IsSeq(comp'.news), Free(comp'.news, Starts),
           NEW said, IsSeq(said), Free(said, Starts), wire' \in {wire, wire \o said}
    PROVE  SequenceInv'
<1> USE DEF SequenceInv
<1>1. /\ IsSeq(wire \o said) /\ Once(wire \o said, Starts)
      /\ Free(wire, Starts) => Free(wire \o said, Starts)
      /\ Free(wire, {"manage_start"}) => Free(wire \o said, {"manage_start"})
      /\ Free(wire, {"render_start"}) => Free(wire \o said, {"render_start"})
  BY Joined, KindsApart DEF Shape, OneToken
<1>2. /\ IsSeq(wire') /\ Once(wire', Starts)
      /\ Free(wire, Starts) => Free(wire', Starts)
      /\ Free(wire, {"manage_start"}) => Free(wire', {"manage_start"})
      /\ Free(wire, {"render_start"}) => Free(wire', {"render_start"})
  BY <1>1, Zenon DEF Shape, OneToken
<1>3. Shape'
  BY <1>2 DEF Shape
<1>4. OneToken'
  BY <1>2 DEF OneToken
<1>5. RightToken'
  BY <1>2 DEF RightToken
<1>. QED BY <1>3, <1>4, <1>5

\* The backend sends requests that finish nothing.
LEMMA PlainStep ==
    ASSUME SequenceInv, UNCHANGED <<wire, req, comp>>,
           {"open_turn", "public", "held"} \subseteq DOMAIN b',
           b'.open_turn <=> b.open_turn, IsSeq(b'.public), Once(b'.public, Turns),
           b.open_turn \/ Free(b'.public, Turns), IsSeq(b'.held), Only(b'.held, InputKinds),
           decoded' = decoded \/ (decoded # <<>> /\ decoded' = Tail(decoded)),
           NEW sent, IsSeq(sent), Only(sent, Plain), out' \in {out, out \o sent}
    PROVE  SequenceInv'
<1> USE DEF SequenceInv
<1>1. /\ IsSeq(out \o sent) /\ Only(out \o sent, Plain \cup Finishes) /\ Once(out \o sent, Finishes)
      /\ Free(out, Finishes) => Free(out \o sent, Finishes)
      /\ Free(out, {"manage_finish"}) => Free(out \o sent, {"manage_finish"})
      /\ Free(out, {"render_finish"}) => Free(out \o sent, {"render_finish"})
  BY Joined, KindsApart, Zenon DEF Shape, OneToken
<1>2. /\ IsSeq(out') /\ Only(out', Plain \cup Finishes) /\ Once(out', Finishes)
      /\ Free(out, Finishes) => Free(out', Finishes)
      /\ Free(out, {"manage_finish"}) => Free(out', {"manage_finish"})
      /\ Free(out, {"render_finish"}) => Free(out', {"render_finish"})
  BY <1>1, Zenon DEF Shape, OneToken
<1>3. /\ IsSeq(decoded') /\ Once(decoded', Starts)
      /\ Free(decoded, Starts) => Free(decoded', Starts)
      /\ Free(decoded, {"manage_start"}) => Free(decoded', {"manage_start"})
      /\ Free(decoded, {"render_start"}) => Free(decoded', {"render_start"})
  <2>1. CASE decoded' = decoded
    BY <2>1 DEF Shape, OneToken
  <2>2. CASE decoded # <<>> /\ decoded' = Tail(decoded)
    BY <2>2, TailOf DEF Shape, OneToken
  <2>. QED BY <2>1, <2>2
<1>4. Shape'
  BY <1>2, <1>3 DEF Shape
<1>5. OneToken'
  BY <1>2, <1>3 DEF OneToken
<1>6. RightToken'
  BY <1>2, <1>3 DEF RightToken
<1>. QED BY <1>4, <1>5, <1>6

\* A step of the startup consumes a message, and then has sent what it asks for.
LEMMA FenceStep ==
    ASSUME SequenceInv, UNCHANGED <<decoded, req, comp>>,
           {"open_turn", "public", "held"} \subseteq DOMAIN b',
           b'.open_turn = b.open_turn, b'.public = b.public, IsSeq(b'.held), Only(b'.held, InputKinds),
           wire # <<>>, wire' = Tail(wire),
           out' = out \/ (IsSeq(out') /\ Only(out', Plain))
    PROVE  SequenceInv'
<1> USE DEF SequenceInv
<1>1. /\ IsSeq(wire') /\ Once(wire', Starts)
      /\ Free(wire, Starts) => Free(wire', Starts)
      /\ Free(wire, {"manage_start"}) => Free(wire', {"manage_start"})
      /\ Free(wire, {"render_start"}) => Free(wire', {"render_start"})
  BY TailOf DEF Shape, OneToken
<1>2. /\ IsSeq(out') /\ Only(out', Plain \cup Finishes) /\ Once(out', Finishes)
      /\ Free(out, Finishes) => Free(out', Finishes)
      /\ Free(out, {"manage_finish"}) => Free(out', {"manage_finish"})
      /\ Free(out, {"render_finish"}) => Free(out', {"render_finish"})
  <2>1. CASE out' = out
    BY <2>1 DEF Shape, OneToken
  <2>2. CASE IsSeq(out') /\ Only(out', Plain)
    <3>1. Free(out', Finishes) => Once(out', Finishes)
      BY DEF Free, Once
    <3>. QED BY <2>2, <3>1, KindsApart, Zenon
  <2>. QED BY <2>1, <2>2
<1>3. Shape'
  BY <1>1, <1>2 DEF Shape
<1>4. OneToken'
  BY <1>1, <1>2 DEF OneToken
<1>5. RightToken'
  BY <1>1, <1>2 DEF RightToken
<1>. QED BY <1>3, <1>4, <1>5

-----------------------------------------------------------------------------
(* What River does.                                                        *)

\* Interfaces are finitely many, and the order of a finite set is a sequence.
LEMMA InterfacesFinite == IsFiniteSet(Interfaces)
<1>1. Interfaces = {"window_manager", "xkb_bindings", "layer_shell", "input_manager", "libinput_config"}
  BY DEF Interfaces, Required
<1>2. IsFiniteSet({"window_manager"})
  BY FS_Singleton
<1>3. IsFiniteSet({"window_manager"} \cup {"xkb_bindings"})
  BY <1>2, FS_AddElement
<1>4. IsFiniteSet({"window_manager"} \cup {"xkb_bindings"} \cup {"layer_shell"})
  BY <1>3, FS_AddElement
<1>5. IsFiniteSet({"window_manager"} \cup {"xkb_bindings"} \cup {"layer_shell"} \cup {"input_manager"})
  BY <1>4, FS_AddElement
<1>6. IsFiniteSet({"window_manager"} \cup {"xkb_bindings"} \cup {"layer_shell"} \cup {"input_manager"}
                  \cup {"libinput_config"})
  BY <1>5, FS_AddElement
<1>7. Interfaces = {"window_manager"} \cup {"xkb_bindings"} \cup {"layer_shell"} \cup {"input_manager"}
                   \cup {"libinput_config"}
  BY <1>1
<1>. QED BY <1>6, <1>7

\* The elements of a finite set in some order.
LEMMA OrderOfSet ==
    ASSUME NEW S, IsFiniteSet(S)
    PROVE  /\ Cardinality(S) \in Nat /\ DOMAIN InSomeOrder(S) = 1..Cardinality(S)
           /\ \A i \in 1..Cardinality(S) : InSomeOrder(S)[i] \in S
<1>1. Cardinality(S) \in Nat
  BY FS_CardinalityType
<1>2. Bijection(1..Cardinality(S), S) # {}
  BY FS_CardinalityType, Zenon DEF ExistsBijection
<1>3. \E f \in [1..Cardinality(S) -> S] : IsInjective(f)
  BY <1>2, Zenon DEF Bijection, Injection
<1>4. InSomeOrder(S) \in [1..Cardinality(S) -> S]
  BY <1>3, Zenon DEF InSomeOrder
<1>. QED BY <1>1, <1>4

\* Messages of one kind, about whatever objects.
LEMMA SameKind ==
    ASSUME NEW n \in Nat, NEW f, f = [i \in 1..n |-> f[i]], NEW kinds,
           \A i \in 1..n : f[i].kind \notin kinds
    PROVE  IsSeq(f) /\ Free(f, kinds)
BY FunctionIsSeq DEF Free

\* Devices, outputs, seats, layer surfaces and keys.
LEMMA PlugSteps ==
    ASSUME SequenceInv,
           \/ PlugDevice \/ UnplugDevice \/ PlugOutput \/ UnplugOutput \/ PlugSeat \/ UnplugSeat
           \/ TakeFocus \/ GiveFocus \/ PressKey
    PROVE  SequenceInv'
<1> DEFINE Told(ms) == IsSeq(ms) /\ Free(ms, Starts)
<1> USE DEF SequenceInv
<1>0. Shape
  OBVIOUS
<1>1. ASSUME NEW ms, Told(ms) PROVE Told(News(ms)) /\ Told(comp.news \o ms)
  BY <1>0, <1>1, Joined, ShortSeqs DEF News, Shape
<1>2. ASSUME NEW kind, kind \notin Starts, NEW w, NEW x
      PROVE  Told(<<Message(kind, w, x)>>) /\ Told(Append(comp.news, Message(kind, w, x)))
  <2>1. Message(kind, w, x).kind \notin Starts
    BY <1>2 DEF Message
  <2>. QED BY <1>0, <2>1, ShortSeqs, Appended DEF Shape
<1>3. \A k \in {"output", "geometry", "output_removed", "seat", "seat_removed", "exclusive", "key", "note",
                "device_removed", "global", "global_removed"} \cup DeviceKinds : k \notin Starts
  BY DEF Starts, DeviceKinds
<1> HIDE DEF Told
<1>4. CASE PlugDevice
  <2>1. PICK kind \in DeviceKinds : wire' = AtOnce("input_manager", <<Message(kind, New, None)>>)
    BY <1>4 DEF PlugDevice
  <2>2. Told(<<Message(kind, New, None)>>)
    BY <1>2, <1>3, Zenon
  <2>3. IsFiniteSet(comp.devices \cup {New})
    BY <1>0, FS_AddElement DEF Shape
  <2>4. comp' = [comp EXCEPT !.devices = @ \cup {New}] /\ UNCHANGED <<b, decoded, out, req>>
    BY <1>4 DEF PlugDevice, backend
  <2>5. wire' \in {wire, wire \o <<Message(kind, New, None)>>}
    BY <2>1 DEF AtOnce
  <2>. QED BY <1>0, <2>2, <2>3, <2>4, <2>5, NewsStep, Zenon DEF Shape, Told
<1>5. CASE UnplugDevice
  <2>1. PICK d \in comp.devices : /\ comp' = [comp EXCEPT !.devices = @ \ {d}]
                                  /\ wire' = AtOnce("input_manager", <<Message("device_removed", d, None)>>)
    BY <1>5, Zenon DEF UnplugDevice
  <2>2. Told(<<Message("device_removed", d, None)>>)
    BY <1>2, <1>3
  <2>3. IsFiniteSet(comp.devices \ {d})
    BY <1>0, FS_RemoveElement DEF Shape
  <2>4. UNCHANGED <<b, decoded, out, req>>
    BY <1>5 DEF UnplugDevice, backend
  <2>5. wire' \in {wire, wire \o <<Message("device_removed", d, None)>>}
    BY <2>1 DEF AtOnce
  <2>. QED BY <1>0, <2>1, <2>2, <2>3, <2>4, <2>5, NewsStep, Zenon DEF Shape, Told
<1>6. CASE PlugOutput
  <2> DEFINE ms == <<Message("output", New, None), Message("geometry", New, None)>>
             said == <<Message("global", "wl_output", 1)>>
  <2>1. Told(ms) /\ Told(said)
    <3>1. ms = <<Message("output", New, None)>> \o <<Message("geometry", New, None)>>
      OBVIOUS
    <3>2. Told(<<Message("output", New, None)>>) /\ Told(<<Message("geometry", New, None)>>) /\ Told(said)
      BY <1>2, <1>3
    <3>. QED BY <3>1, <3>2, Joined, Zenon DEF Told
  <2>2. Told(News(ms))
    BY <1>1, <2>1
  <2>3. IsFiniteSet(comp.outputs \cup {New})
    BY <1>0, FS_AddElement DEF Shape
  <2>4. /\ comp' = [comp EXCEPT !.outputs = @ \cup {New}, !.news = News(ms)]
        /\ UNCHANGED <<b, decoded, out, req>>
    BY <1>6 DEF PlugOutput, backend
  <2>5. wire' \in {wire, wire \o said}
    BY <1>6 DEF PlugOutput, RegistryEvent, AtOnce
  <2> HIDE DEF ms, said
  <2>. QED BY <1>0, <2>1, <2>2, <2>3, <2>4, <2>5, NewsStep, SMTT(30) DEF Shape, Told
<1>7. CASE UnplugOutput
  <2> DEFINE said == <<Message("global_removed", "wl_output", 1)>>
  <2>1. PICK o \in comp.outputs :
          comp' = [comp EXCEPT !.outputs = @ \ {o}, !.news = News(<<Message("output_removed", o, None)>>)]
    BY <1>7, Zenon DEF UnplugOutput
  <2>2. Told(News(<<Message("output_removed", o, None)>>)) /\ Told(said)
    BY <1>1, <1>2, <1>3
  <2>3. IsFiniteSet(comp.outputs \ {o})
    BY <1>0, FS_RemoveElement DEF Shape
  <2>4. UNCHANGED <<b, decoded, out, req>>
    BY <1>7, Zenon DEF UnplugOutput, backend
  <2>5. wire' \in {wire, wire \o said}
    BY <1>7, Zenon DEF UnplugOutput, RegistryEvent, AtOnce
  <2> HIDE DEF said
  <2>. QED BY <1>0, <2>1, <2>2, <2>3, <2>4, <2>5, NewsStep DEF Shape, Told
<1>8. CASE PlugSeat
  <2>1. Told(News(<<Message("seat", New, None)>>))
    BY <1>1, <1>2, <1>3
  <2>2. IsFiniteSet(comp.seats \cup {New})
    BY <1>0, FS_AddElement DEF Shape
  <2>3. /\ comp' = [comp EXCEPT !.seats = @ \cup {New}, !.news = News(<<Message("seat", New, None)>>)]
        /\ UNCHANGED <<b, decoded, out, req, wire>>
    BY <1>8 DEF PlugSeat, backend
  <2>. QED BY <1>0, <2>1, <2>2, <2>3, ShortSeqs, NewsStep DEF Shape, Told
<1>9. CASE UnplugSeat
  <2>1. PICK s \in comp.seats :
          LET removed == <<Message("seat_removed", s, None)>>
          IN  \/ comp' = [comp EXCEPT !.seats = @ \ {s}, !.news = News(removed)]
              \/ comp' = [comp EXCEPT !.seats = (@ \ {s}) \cup {Newer},
                                      !.news = News(removed \o <<Message("seat", Newer, None)>>)]
    BY <1>9, Zenon DEF UnplugSeat
  <2> DEFINE removed == <<Message("seat_removed", s, None)>>
             both == removed \o <<Message("seat", Newer, None)>>
  <2>2. Told(removed) /\ Told(<<Message("seat", Newer, None)>>)
    BY <1>2, <1>3
  <2>3. Told(both)
    BY <2>2, Joined, Zenon DEF Told
  <2>4. IsFiniteSet(comp.seats \ {s}) /\ IsFiniteSet((comp.seats \ {s}) \cup {Newer})
    BY <1>0, FS_RemoveElement, FS_AddElement DEF Shape
  <2>5. UNCHANGED <<b, decoded, out, req, wire>>
    BY <1>9, Zenon DEF UnplugSeat, backend
  <2>6. PICK seats, news : IsFiniteSet(seats) /\ Told(news) /\ comp' = [comp EXCEPT !.seats = seats, !.news = news]
    <3>1. Told(News(removed)) /\ Told(News(both))
      BY <1>1, <2>2, <2>3
    <3> HIDE DEF Told
    <3>. QED BY <2>1, <2>4, <3>1, Zenon
  <2> HIDE DEF removed, both
  <2>. QED BY <1>0, <2>5, <2>6, ShortSeqs, NewsStep DEF Shape, Told
<1>10. CASE TakeFocus \/ GiveFocus \/ PressKey
  <2>1. /\ Told(<<Message("exclusive", None, TRUE)>>)
        /\ Told(<<Signal("key")>>) /\ Told(<<Signal("note")>>)
        /\ Told(Append(comp.news, Message("exclusive", None, FALSE)))
    BY <1>2, <1>3, Zenon DEF Signal
  <2>2. /\ comp' \in {[comp EXCEPT !.news = <<Message("exclusive", None, TRUE)>>],
                      [comp EXCEPT !.news = Append(comp.news, Message("exclusive", None, FALSE))],
                      [comp EXCEPT !.news = <<Signal("key")>>],
                      [comp EXCEPT !.news = <<Signal("note")>>]}
        /\ UNCHANGED <<b, decoded, out, req, wire>>
    BY <1>10, Zenon DEF TakeFocus, GiveFocus, PressKey, backend
  <2>3. PICK news : Told(news) /\ comp' = [comp EXCEPT !.news = news]
    BY <2>1, <2>2, Zenon
  <2>. QED BY <1>0, <2>2, <2>3, ShortSeqs, NewsStep DEF Shape, Told
<1>. QED BY <1>4, <1>5, <1>6, <1>7, <1>8, <1>9, <1>10

\* Windows.
LEMMA HappensStep ==
    ASSUME SequenceInv, Happens
    PROVE  SequenceInv'
<1> USE DEF SequenceInv
<1>0. Shape /\ UNCHANGED <<b, decoded, out, req, wire>>
  BY Zenon DEF Happens, backend
<1>1. \A kind, w : kind \notin Starts =>
        IsSeq(<<Message(kind, w, None)>>) /\ Free(<<Message(kind, w, None)>>, Starts)
  BY ShortSeqs DEF Message
<1>2. CASE \E w \in Window \ budget.opened :
             comp' = [comp EXCEPT !.news = <<Message("window", w, None)>>, !.dims = With(@, w, None)]
  <2>1. PICK w \in Window :
          comp' = [comp EXCEPT !.news = <<Message("window", w, None)>>, !.dims = With(@, w, None)]
    BY <1>2, Zenon
  <2>2. DOMAIN With(comp.dims, w, None) \subseteq Window
    BY <1>0 DEF With, Shape
  <2>3. IsSeq(<<Message("window", w, None)>>) /\ Free(<<Message("window", w, None)>>, Starts)
    BY <1>1 DEF Starts
  <2>. QED BY <1>0, <2>1, <2>2, <2>3, ShortSeqs, NewsStep DEF Shape
<1>3. CASE \E w \in DOMAIN comp.dims :
             comp' = [comp EXCEPT !.news = <<Message("closed", w, None)>>, !.dims = Without(@, w),
                                  !.asked = @ \ {w}, !.focus = IF @ = w THEN None ELSE @]
  <2>1. PICK w \in DOMAIN comp.dims :
          comp' = [comp EXCEPT !.news = <<Message("closed", w, None)>>, !.dims = Without(@, w),
                               !.asked = @ \ {w}, !.focus = IF @ = w THEN None ELSE @]
    BY <1>3, Zenon
  <2>2. DOMAIN Without(comp.dims, w) \subseteq Window
    BY <1>0 DEF Without, Shape
  <2>3. IsSeq(<<Message("closed", w, None)>>) /\ Free(<<Message("closed", w, None)>>, Starts)
    BY <1>1 DEF Starts
  <2>. QED BY <1>0, <2>1, <2>2, <2>3, ShortSeqs, NewsStep DEF Shape
<1>. QED BY <1>2, <1>3, Zenon DEF Happens

\* River starts a sequence when it is in none, or after the layout.
LEMMA StartStep ==
    ASSUME SequenceInv, UNCHANGED <<b, decoded, out, req>>,
           comp.at \in {"idle", "layout"}, DOMAIN comp' = DOMAIN comp, comp'.error = comp.error,
           comp'.devices = comp.devices, comp'.outputs = comp.outputs, comp'.seats = comp.seats,
           DOMAIN comp'.dims \subseteq Window, IsSeq(comp'.news), Free(comp'.news, Starts),
           NEW said, IsSeq(said), Free(said, Starts), NEW start \in Starts,
           wire' = wire \o (said \o <<Signal(start)>>),
           comp'.at = IF start = "manage_start" THEN "manage" ELSE "render"
    PROVE  SequenceInv'
<1> USE DEF SequenceInv
<1>0. /\ Free(wire, Starts) /\ Free(decoded, Starts) /\ ~b.open_turn
      /\ Free(out, Finishes) /\ Free(req, Finishes)
  BY KindsApart DEF RightToken
<1>1. /\ IsSeq(<<Signal(start)>>) /\ Once(<<Signal(start)>>, Starts)
      /\ \A k : k # start => Free(<<Signal(start)>>, {k})
  BY ShortSeqs DEF Signal, Message
<1>2. /\ IsSeq(wire') /\ Once(wire', Starts) /\ \A k \in Starts : k # start => Free(wire', {k})
  <2>1. \A k \in Starts : Free(said, {k}) /\ Free(wire, {k})
    BY <1>0 DEF Free
  <2>2. /\ IsSeq(said \o <<Signal(start)>>) /\ Once(said \o <<Signal(start)>>, Starts)
        /\ \A k \in Starts : k # start => Free(said \o <<Signal(start)>>, {k})
    BY <1>1, <2>1, Joined, Zenon
  <2>. QED BY <1>0, <2>1, <2>2, Joined, Zenon DEF Shape
<1>3. Shape'
  BY <1>2 DEF Shape
<1>4. OneToken'
  BY <1>0, <1>2 DEF OneToken
<1>5. RightToken'
  <2>1. /\ Free(decoded, {"manage_start"}) /\ Free(out, {"manage_finish"}) /\ Free(req, {"manage_finish"})
        /\ Free(decoded, {"render_start"}) /\ Free(out, {"render_finish"}) /\ Free(req, {"render_finish"})
    BY <1>0, KindsApart
  <2>2. /\ start # "manage_start" => Free(wire', {"manage_start"})
        /\ start # "render_start" => Free(wire', {"render_start"})
        /\ start \in {"manage_start", "render_start"}
    BY <1>2 DEF Starts
  <2>. QED BY <1>0, <2>1, <2>2 DEF RightToken
<1>. QED BY <1>3, <1>4, <1>5

\* River tells what happened, and asks for the windows to be managed.
LEMMA ManageSequenceStep ==
    ASSUME SequenceInv, ManageSequence
    PROVE  SequenceInv'
<1> USE DEF SequenceInv
<1>1. Append(comp.news, Signal("manage_start")) = comp.news \o <<Signal("manage_start")>>
  BY Appended DEF Shape
<1>2. wire' = wire \o (comp.news \o <<Signal("manage_start")>>)
  BY <1>1, Zenon DEF ManageSequence
<1>3. /\ DOMAIN comp' = DOMAIN comp /\ comp'.error = comp.error /\ comp'.devices = comp.devices
      /\ comp'.outputs = comp.outputs /\ comp'.seats = comp.seats /\ comp'.dims = comp.dims
      /\ comp'.news = <<>> /\ comp'.at = "manage" /\ comp.at = "idle"
      /\ UNCHANGED <<b, decoded, out, req>>
  BY DEF ManageSequence, backend, Shape
<1>. QED BY <1>2, <1>3, StartStep, ShortSeqs, Zenon DEF Shape, Starts

\* River tells the sizes windows took, and asks for them to be rendered.
LEMMA RenderSequenceStep ==
    ASSUME SequenceInv, RenderSequence
    PROVE  SequenceInv'
<1> USE DEF SequenceInv
<1>0. PICK took \in SUBSET DOMAIN comp.dims : \E size \in [took -> 1..MaxSize] :
        /\ wire' = wire \o [i \in DOMAIN InSomeOrder(took) |->
                              Message("dims", InSomeOrder(took)[i], size[InSomeOrder(took)[i]])]
                        \o <<Signal("render_start")>>
        /\ comp' = [comp EXCEPT !.at = "render", !.asked = @ \ took,
                          !.dims = [w \in DOMAIN @ |-> IF w \in took THEN size[w] ELSE @[w]]]
  BY Zenon DEF RenderSequence
<1>1. PICK size \in [took -> 1..MaxSize] :
        /\ wire' = wire \o [i \in DOMAIN InSomeOrder(took) |->
                              Message("dims", InSomeOrder(took)[i], size[InSomeOrder(took)[i]])]
                        \o <<Signal("render_start")>>
        /\ comp' = [comp EXCEPT !.at = "render", !.asked = @ \ took,
                          !.dims = [w \in DOMAIN @ |-> IF w \in took THEN size[w] ELSE @[w]]]
  BY <1>0, Zenon
<1> DEFINE said == [i \in DOMAIN InSomeOrder(took) |->
                      Message("dims", InSomeOrder(took)[i], size[InSomeOrder(took)[i]])]
<1>2. IsSeq(said) /\ Free(said, Starts)
  <2>1. IsFiniteSet(took)
    <3>1. took \subseteq Window
      BY DEF Shape
    <3>. QED BY <3>1, RiverAssumption, FS_Subset
  <2>2. Cardinality(took) \in Nat /\ DOMAIN InSomeOrder(took) = 1..Cardinality(took)
    BY <2>1, OrderOfSet
  <2>3. \A i \in 1..Cardinality(took) : said[i].kind = "dims"
    BY <2>2 DEF Message
  <2>4. said = [i \in 1..Cardinality(took) |-> said[i]]
    BY <2>2
  <2>5. "dims" \notin Starts
    BY DEF Starts
  <2> HIDE DEF said
  <2>. QED BY <2>2, <2>3, <2>4, <2>5, SameKind, Zenon
<1>3. wire' = wire \o said \o <<Signal("render_start")>>
  BY <1>1
<1> HIDE DEF said
<1>4. wire' = wire \o (said \o <<Signal("render_start")>>)
  <2> DEFINE last == <<Signal("render_start")>>
  <2>1. IsSeq(wire) /\ IsSeq(said) /\ IsSeq(last)
    BY <1>2, ShortSeqs DEF Shape
  <2>2. wire' = wire \o said \o last
    BY <1>3
  <2> HIDE DEF last
  <2>3. wire \o said \o last = wire \o (said \o last)
    BY <2>1, JoinedTwice
  <2>. QED BY <2>2, <2>3 DEF last
<1>5. /\ DOMAIN comp' = DOMAIN comp /\ comp'.error = comp.error /\ comp'.devices = comp.devices
      /\ comp'.outputs = comp.outputs /\ comp'.seats = comp.seats /\ comp'.news = comp.news
      /\ DOMAIN comp'.dims = DOMAIN comp.dims /\ comp'.at = "render"
  BY <1>1 DEF Shape
<1>6. comp.at \in {"idle", "layout"} /\ UNCHANGED <<b, decoded, out, req>>
  BY DEF RenderSequence, backend
<1>. QED BY <1>2, <1>4, <1>5, <1>6, StartStep, Zenon DEF Shape, Starts

\* River reads a request that finishes nothing, and tells something.
LEMMA ReadStep ==
    ASSUME SequenceInv, UNCHANGED <<b, decoded, out>>, req # <<>>, req' = Tail(req),
           DOMAIN comp' = DOMAIN comp, comp'.at = comp.at, comp'.error = comp.error,
           comp'.devices \subseteq {0, New}, IsFiniteSet(comp'.devices), IsFiniteSet(comp'.outputs), IsFiniteSet(comp'.seats),
           DOMAIN comp'.dims \subseteq Window, IsSeq(comp'.news), Free(comp'.news, Starts),
           NEW said, IsSeq(said), Free(said, Starts), wire' \in {wire, wire \o said}
    PROVE  SequenceInv'
<1> USE DEF SequenceInv
<1>1. /\ IsSeq(wire \o said) /\ Once(wire \o said, Starts)
      /\ Free(wire, Starts) => Free(wire \o said, Starts)
      /\ Free(wire, {"manage_start"}) => Free(wire \o said, {"manage_start"})
      /\ Free(wire, {"render_start"}) => Free(wire \o said, {"render_start"})
  BY Joined, KindsApart DEF Shape, OneToken
<1>2. /\ IsSeq(wire') /\ Once(wire', Starts)
      /\ Free(wire, Starts) => Free(wire', Starts)
      /\ Free(wire, {"manage_start"}) => Free(wire', {"manage_start"})
      /\ Free(wire, {"render_start"}) => Free(wire', {"render_start"})
  BY <1>1, ZenonT(30) DEF Shape, OneToken
<1>3. /\ IsSeq(req') /\ Once(req', Finishes) /\ Only(req', Plain \cup Finishes)
      /\ Len(req') <= SocketRoom
      /\ Free(req, Finishes) => Free(req', Finishes)
      /\ Free(req, {"manage_finish"}) => Free(req', {"manage_finish"})
      /\ Free(req, {"render_finish"}) => Free(req', {"render_finish"})
  BY TailOf, RiverAssumption DEF Shape, OneToken
<1>4. Shape'
  BY <1>2, <1>3 DEF Shape
<1>5. OneToken'
  BY <1>2, <1>3 DEF OneToken
<1>6. RightToken'
  BY <1>2, <1>3 DEF RightToken
<1>. QED BY <1>4, <1>5, <1>6, SMTT(30)

\* Each number of a device is the rank of one of them.
LEMMA Ranked ==
    ASSUME NEW S \in SUBSET {0, New}, NEW i \in 1..Cardinality(S)
    PROVE  \E o \in S : Cardinality({p \in S : p <= o}) = i
<1>1. \A x : IsFiniteSet({x}) /\ Cardinality({x}) = 1
  BY FS_Singleton, Zenon
<1>2. Cardinality({}) = 0
  BY FS_EmptySet
<1>3. Cardinality({0, 1}) = 2
  <2>1. IsFiniteSet({0}) /\ Cardinality({0}) = 1
    BY <1>1, Zenon
  <2>2. 1 \notin {0} /\ {0} \cup {1} = {0, 1}
    OBVIOUS
  <2>3. Cardinality({0} \cup {1}) = Cardinality({0}) + 1
    BY <2>1, <2>2, FS_AddElement, Zenon
  <2>. QED BY <2>1, <2>2, <2>3
<1>4. S = {} \/ S = {0} \/ S = {1} \/ S = {0, 1}
  BY Zenon DEF New
<1>5. CASE S = {}
  BY <1>2, <1>5
<1>6. CASE S = {0} \/ S = {1}
  <2>1. PICK x \in {0, 1} : S = {x}
    BY <1>6
  <2>2. {p \in S : p <= x} = {x}
    BY <2>1
  <2>3. Cardinality(S) = 1
    BY <1>1, <2>1
  <2>. QED BY <1>1, <2>1, <2>2, <2>3
<1>7. CASE S = {0, 1}
  <2>1. {p \in S : p <= 0} = {0} /\ {p \in S : p <= 1} = {0, 1}
    BY <1>7
  <2>2. i = 1 \/ i = 2
    BY <1>3, <1>7
  <2>. QED BY <1>1, <1>3, <1>7, <2>1, <2>2
<1>. QED BY <1>4, <1>5, <1>6, <1>7

\* Messages about objects in their order.
LEMMA InOrderOf ==
    ASSUME NEW objects, IsFiniteSet(objects), NEW kind, kind \notin Starts
    PROVE  LET f == [i \in DOMAIN InOrder(objects) |-> Message(kind, InOrder(objects)[i], None)]
           IN  IsSeq(f) /\ Free(f, Starts)
<1> DEFINE f == [i \in DOMAIN InOrder(objects) |-> Message(kind, InOrder(objects)[i], None)]
<1>1. Cardinality(objects) \in Nat /\ DOMAIN InOrder(objects) = 1..Cardinality(objects)
  BY FS_CardinalityType DEF InOrder
<1>2. f = [i \in 1..Cardinality(objects) |-> f[i]]
  BY <1>1
<1>3. \A i \in 1..Cardinality(objects) : f[i].kind = kind
  BY <1>1 DEF Message
<1> HIDE DEF f
<1>4. IsSeq(f) /\ Free(f, Starts)
  BY <1>1, <1>2, <1>3, SameKind, SMTT(30)
<1>. QED BY <1>4 DEF f

\* A request of the startup arrives.
LEMMA ConnectsStep ==
    ASSUME SequenceInv, CompositorConnects
    PROVE  SequenceInv'
<1> USE DEF SequenceInv
<1>0. Shape /\ UNCHANGED <<b, decoded, out>> /\ req # <<>> /\ req' = Tail(req)
  BY Zenon DEF CompositorConnects, backend
<1>1. ASSUME NEW kind, kind \notin Starts, NEW w, NEW x
      PROVE  IsSeq(<<Message(kind, w, x)>>) /\ Free(<<Message(kind, w, x)>>, Starts)
  BY <1>1, ShortSeqs DEF Message
<1>2. ASSUME NEW versions, wire' = wire \o Advertised(versions), comp' = [comp EXCEPT !.bound = {"registry"}]
      PROVE  SequenceInv'
  <2> DEFINE n == Cardinality(Interfaces)
             order == InSomeOrder(Interfaces)
             f == [i \in DOMAIN order |-> Message("global", order[i], versions[order[i]])]
             last == <<Message("global", "wl_output", 1)>>
  <2>1. n \in Nat /\ DOMAIN order = 1..n
    BY InterfacesFinite, OrderOfSet
  <2>2. f = [i \in 1..n |-> f[i]] /\ \A i \in 1..n : f[i].kind = "global"
    BY <2>1 DEF Message
  <2>3. Advertised(versions) = f \o last
    BY DEF Advertised
  <2>4. IsSeq(last) /\ Free(last, Starts) /\ "global" \notin Starts
    BY <1>1 DEF Starts
  <2> HIDE DEF f, last, n
  <2>5. IsSeq(f) /\ Free(f, Starts)
    BY <2>1, <2>2, <2>4, SameKind
  <2>6. IsSeq(f \o last) /\ Free(f \o last, Starts)
    BY <2>4, <2>5, Joined
  <2>. QED BY <1>0, <1>2, <2>3, <2>6, ReadStep, Zenon DEF Shape
<1>3. ASSUME wire' = Append(wire, Signal("sync_done")) \/ wire' = Append(wire, Signal("unavailable")),
             comp' = comp
      PROVE  SequenceInv'
  <2>1. PICK kind \in {"sync_done", "unavailable"} : wire' = Append(wire, Signal(kind))
    BY <1>3
  <2>2. wire' = wire \o <<Message(kind, None, None)>>
    BY <1>0, <2>1, Appended DEF Signal, Shape
  <2>3. IsSeq(<<Message(kind, None, None)>>) /\ Free(<<Message(kind, None, None)>>, Starts)
    BY <1>1 DEF Starts
  <2>. QED BY <1>0, <1>3, <2>2, <2>3, ReadStep, ZenonT(30) DEF Shape
<1>4. ASSUME NEW kind \in [comp.devices -> DeviceKinds],
             LET order == InOrder(comp.devices)
             IN  wire' = wire \o [i \in DOMAIN order |-> Message(kind[order[i]], order[i], None)],
             comp' = [comp EXCEPT !.bound = @ \cup {"input_manager"}]
      PROVE  SequenceInv'
  <2> DEFINE n == Cardinality(comp.devices)
             order == InOrder(comp.devices)
             f == [i \in DOMAIN order |-> Message(kind[order[i]], order[i], None)]
  <2>1. n \in Nat /\ \A i \in 1..n : Nth(comp.devices, i) \in comp.devices
    BY <1>0, Ranked, FS_CardinalityType, Zenon DEF Shape, Nth
  <2>2. wire' = wire \o f
    BY <1>4
  <2>3. DOMAIN order = 1..n /\ \A i \in 1..n : order[i] \in comp.devices
    BY <2>1 DEF InOrder
  <2> HIDE DEF n, order
  <2>4. \A i \in 1..n : f[i].kind \notin Starts
    BY <2>3 DEF Message, DeviceKinds, Starts
  <2>5. f = [i \in 1..n |-> f[i]]
    BY <2>3
  <2> HIDE DEF f
  <2>6. IsSeq(f) /\ Free(f, Starts)
    BY <2>1, <2>4, <2>5, SameKind
  <2>. QED BY <1>0, <1>4, <2>2, <2>6, ReadStep, Zenon DEF Shape
<1>5. ASSUME NEW ws \in SUBSET Window, wire' = wire,
             comp' = [comp EXCEPT !.bound = @ \cup {"window_manager"}, !.news = Replayed(ws),
                                  !.dims = [w \in ws |-> None]]
      PROVE  SequenceInv'
  <2> DEFINE windows == InSomeOrder(ws)
             f == [i \in DOMAIN windows |-> Message("window", windows[i], None)]
             outputs == InOrder(comp.outputs)
             seats == InOrder(comp.seats)
             o == [i \in DOMAIN outputs |-> Message("output", outputs[i], None)]
             g == [i \in DOMAIN outputs |-> Message("geometry", outputs[i], None)]
             s == [i \in DOMAIN seats |-> Message("seat", seats[i], None)]
  <2>1. Replayed(ws) = o \o g \o s \o f
    BY DEF Replayed
  <2>2. /\ IsSeq(o) /\ Free(o, Starts) /\ IsSeq(g) /\ Free(g, Starts)
        /\ IsSeq(s) /\ Free(s, Starts)
    <3>1. "output" \notin Starts /\ "geometry" \notin Starts /\ "seat" \notin Starts
      BY DEF Starts
    <3>. QED BY <1>0, <3>1, InOrderOf DEF Shape
  <2>3. IsSeq(f) /\ Free(f, Starts)
    <3>1. IsFiniteSet(ws)
      BY RiverAssumption, FS_Subset
    <3>2. Cardinality(ws) \in Nat /\ DOMAIN windows = 1..Cardinality(ws)
      BY <3>1, OrderOfSet
    <3>3. f = [i \in 1..Cardinality(ws) |-> f[i]] /\ \A i \in 1..Cardinality(ws) : f[i].kind \notin Starts
      BY <3>2 DEF Message, Starts
    <3> HIDE DEF f
    <3>. QED BY <3>2, <3>3, SameKind
  <2> HIDE DEF o, g, s, f
  <2>4. IsSeq(o \o g) /\ Free(o \o g, Starts)
    BY <2>2, Joined
  <2>5. IsSeq(o \o g \o s) /\ Free(o \o g \o s, Starts)
    BY <2>2, <2>4, Joined
  <2>6. IsSeq(Replayed(ws)) /\ Free(Replayed(ws), Starts)
    BY <2>1, <2>3, <2>5, Joined
  <2>. QED BY <1>0, <1>5, <2>6, ShortSeqs, ReadStep, ZenonT(30) DEF Shape
<1>. QED BY <1>2, <1>3, <1>4, <1>5, ZenonT(30) DEF CompositorConnects

\* River answers a set_tap.
LEMMA TapsStep ==
    ASSUME SequenceInv, CompositorTaps
    PROVE  SequenceInv'
<1> USE DEF SequenceInv
<1>0. Shape /\ UNCHANGED <<b, decoded, out, comp>> /\ req # <<>> /\ req' = Tail(req)
  BY DEF CompositorTaps, backend
<1>1. CASE UNCHANGED wire
  BY <1>0, <1>1, ShortSeqs, ReadStep, Zenon DEF Shape
<1>2. ASSUME NEW d, NEW ok, wire' = Append(wire, Message("tap_result", d, ok))
      PROVE  SequenceInv'
  <2> DEFINE said == <<Message("tap_result", d, ok)>>
  <2>1. IsSeq(said) /\ Free(said, Starts)
    BY ShortSeqs, SMTT(30) DEF Message, Starts
  <2>2. wire' = wire \o said
    BY <1>0, <1>2, Appended DEF Shape
  <2> HIDE DEF said
  <2>. QED BY <1>0, <2>1, <2>2, ReadStep, ZenonT(30) DEF Shape
<1>. QED BY <1>1, <1>2 DEF CompositorTaps

\* River reads the finish it waits for, and the sequence is over.
LEMMA FinishStep ==
    ASSUME SequenceInv, UNCHANGED <<b, decoded, out, wire>>, req # <<>>, req' = Tail(req),
           DOMAIN comp' = DOMAIN comp, comp'.error = comp.error,
           comp'.devices = comp.devices, comp'.outputs = comp.outputs, comp'.seats = comp.seats,
           comp'.dims = comp.dims, comp'.news = comp.news,
           Head(req).kind \in Finishes, comp'.at \notin {"manage", "render"}
    PROVE  SequenceInv'
<1> USE DEF SequenceInv
<1>1. IsSeq(req') /\ Free(req', Finishes) /\ Once(req', Finishes) /\ Only(req', Plain \cup Finishes)
      /\ Len(req') <= SocketRoom
  BY TailOf, RiverAssumption DEF Shape, OneToken
<1>2. ~Free(req, Finishes)
  BY TailOf DEF Shape
<1>3. Free(wire, Starts) /\ Free(decoded, Starts) /\ ~b.open_turn /\ Free(out, Finishes)
  BY <1>2 DEF OneToken
<1>4. Shape'
  BY <1>1, SMTT(30) DEF Shape
<1>5. OneToken'
  BY <1>1, <1>3 DEF OneToken
<1>6. RightToken'
  <2>1. /\ Free(decoded, {"manage_start"}) /\ Free(out, {"manage_finish"}) /\ Free(req', {"manage_finish"})
        /\ Free(decoded, {"render_start"}) /\ Free(out, {"render_finish"}) /\ Free(req', {"render_finish"})
        /\ Free(wire, {"manage_start"}) /\ Free(wire, {"render_start"})
    BY <1>1, <1>3, KindsApart
  <2>. QED BY <1>3, <2>1 DEF RightToken
<1>. QED BY <1>4, <1>5, <1>6, SMTT(30)

\* River reads a request of a running session.
LEMMA ReadsStep ==
    ASSUME SequenceInv, CompositorReads
    PROVE  SequenceInv'
<1> USE DEF SequenceInv
<1> DEFINE r == Head(req)
<1>0. /\ Shape /\ UNCHANGED <<b, decoded, out, wire>> /\ req # <<>> /\ req' = Tail(req)
      /\ comp' = AfterRequest(r)
  BY SMTT(30) DEF CompositorReads, backend
<1>1. /\ r.kind \in (Plain \cup Finishes) \ {"get_registry", "sync", "bind_companions", "bind_window_manager", "set_tap"}
      /\ r.kind = "manage_finish" => ~Free(req, {"manage_finish"})
      /\ r.kind = "render_finish" => ~Free(req, {"render_finish"})
  BY <1>0, TailOf DEF Shape, CompositorReads
<1>2. /\ r.kind = "manage_finish" => comp.at = "manage"
      /\ r.kind = "render_finish" => comp.at = "render"
  BY <1>1 DEF RightToken
<1>3. r.kind \in {"manage_finish", "render_finish", "manage_dirty", "get_output", "exit_session", "other"}
  BY <1>1 DEF Plain, Finishes
<1>4. CASE r.kind = "manage_finish"
  <2>1. PICK focus, keys, asked :
          comp' = [comp EXCEPT !.at = "layout", !.focus = focus, !.keys = keys, !.asked = asked]
    BY <1>0, <1>2, <1>4, Zenon DEF AfterRequest
  <2>. QED BY <1>0, <1>4, <2>1, FinishStep, Zenon DEF Shape, Finishes
<1>5. CASE r.kind = "render_finish"
  <2>1. comp' = [comp EXCEPT !.at = "idle"]
    BY <1>0, <1>2, <1>5, Zenon DEF AfterRequest
  <2>. QED BY <1>0, <1>5, <2>1, FinishStep DEF Shape, Finishes
<1>6. CASE r.kind \in {"manage_dirty", "exit_session", "other"}
  <2>1. \/ comp' = [comp EXCEPT !.dirty = TRUE]
        \/ comp' = [comp EXCEPT !.gone = TRUE]
        \/ comp' = comp
    BY <1>0, <1>6, Zenon DEF AfterRequest
  <2>. QED BY <1>0, <2>1, ShortSeqs, ReadStep, Zenon DEF Shape
<1>7. CASE r.kind = "get_output"
  <2> DEFINE n == Cardinality(r.of \cap comp.outputs)
             said == [i \in 1..n |-> Message("area", CHOOSE o \in r.of : TRUE, None)]
  <2>1. n \in Nat
    <3>1. IsFiniteSet(r.of \cap comp.outputs)
      BY <1>0, FS_Subset DEF Shape
    <3>. QED BY <3>1, FS_CardinalityType
  <2>2. comp' = [comp EXCEPT !.news = News(said)]
    BY <1>0, <1>7, Zenon DEF AfterRequest
  <2>3. said = [i \in 1..n |-> said[i]] /\ \A i \in 1..n : said[i].kind \notin Starts
    BY DEF Message, Starts
  <2> HIDE DEF said, n
  <2>4. IsSeq(said) /\ Free(said, Starts)
    BY <2>1, <2>3, SameKind, SMTT(30)
  <2>5. IsSeq(News(said)) /\ Free(News(said), Starts)
    BY <1>0, <2>4, Joined, ShortSeqs DEF News, Shape
  <2>. QED BY <1>0, <2>2, <2>5, ShortSeqs, ReadStep, Zenon DEF Shape
<1>. QED BY <1>3, <1>4, <1>5, <1>6, <1>7

-----------------------------------------------------------------------------
(* What the backend dispatches.                                            *)

\* The handlers of messages that start no sequence: they leave the turn and the
\* public events alone and send requests that finish nothing.
LEMMA PlainHandler ==
    ASSUME SequenceInv, UNCHANGED <<wire, req, comp>>, decoded # <<>>, decoded' = Tail(decoded),
           \/ b' = b \/ \E c : /\ {"open_turn", "public", "held"} \subseteq DOMAIN c
                               /\ c.open_turn = b.open_turn /\ c.public = b.public /\ c.held = b.held
                               /\ b' \in {c, [c EXCEPT !.flush_pending = b'.flush_pending]},
           out' = out \/ \E sent : IsSeq(sent) /\ Only(sent, Plain) /\ out' = out \o sent
    PROVE  SequenceInv'
<1>1. /\ {"open_turn", "public", "held"} \subseteq DOMAIN b'
      /\ b'.open_turn = b.open_turn /\ b'.public = b.public /\ b'.held = b.held
  BY DEF SequenceInv, Shape
<1>2. PICK sent : IsSeq(sent) /\ Only(sent, Plain) /\ out' \in {out, out \o sent}
  BY ShortSeqs
<1>. QED BY <1>1, <1>2, PlainStep, Zenon DEF SequenceInv, Shape, OneToken

\* One plain request.
LEMMA OneRequest == \A k \in Plain : \A x : IsSeq(<<Request(k, x)>>) /\ Only(<<Request(k, x)>>, Plain)
BY ShortSeqs DEF Request

\* A backend c after Sends, SendsAll or Keeps.
LEMMA AfterSends ==
    ASSUME NEW c, DOMAIN c = DOMAIN b, c.open_turn = b.open_turn, c.public = b.public, c.held = b.held,
           Shape, \/ Keeps(c) \/ Sends(c) \/ \E k \in Plain : \E x : SendsAll(c, <<Request(k, x)>>)
    PROVE  /\ \E d : /\ {"open_turn", "public", "held"} \subseteq DOMAIN d
                     /\ d.open_turn = b.open_turn /\ d.public = b.public /\ d.held = b.held
                     /\ b' \in {d, [d EXCEPT !.flush_pending = b'.flush_pending]}
           /\ out' = out \/ \E sent : IsSeq(sent) /\ Only(sent, Plain) /\ out' = out \o sent
<1>1. /\ {"open_turn", "public", "held"} \subseteq DOMAIN c
  BY DEF Shape
<1>2. CASE Keeps(c)
  BY <1>1, <1>2 DEF Keeps
<1>3. ASSUME NEW k \in Plain, NEW x, SendsAll(c, <<Request(k, x)>>)
      PROVE  /\ out' = out \o <<Request(k, x)>>
             /\ b' = [c EXCEPT !.flush_pending = c.flush_pending \/ <<Request(k, x)>> # <<>>]
  BY <1>3 DEF SendsAll
<1>4. ASSUME NEW v, b' = [c EXCEPT !.flush_pending = v]
      PROVE  b' \in {c, [c EXCEPT !.flush_pending = b'.flush_pending]}
  BY <1>4
<1>5. Sends(c) => \E k \in Plain : \E x : SendsAll(c, <<Request(k, x)>>)
  BY DEF Sends, Plain
<1>. QED BY <1>1, <1>2, <1>3, <1>4, <1>5, OneRequest, ZenonT(30)

\* Windows, outputs, seats and devices come and go.
LEMMA ObjectEvents ==
    ASSUME SequenceInv, UNCHANGED <<wire, req, comp>>, decoded # <<>>, decoded' = Tail(decoded),
           NEW m,
           \/ \E c : Fails(c)
           \/ WindowCreated(m.w) \/ WindowClosed(m.w) \/ WindowDimensions(m.w, m.size)
           \/ OutputCreated(m.w) \/ OutputGeometry(m.w) \/ OutputRemoved(m.w) \/ Workarea(m.w)
           \/ SeatCreated(m.w) \/ SeatRemoved(m.w) \/ ExclusiveFocus(m.size) \/ PolicyFact(m.kind)
    PROVE  SequenceInv'
<1>0. Shape /\ {"open_turn", "public", "held"} \subseteq DOMAIN b
  BY DEF SequenceInv, Shape
<1>1. ASSUME NEW c, DOMAIN c = DOMAIN b, c.open_turn = b.open_turn, c.public = b.public, c.held = b.held,
             \/ Keeps(c) \/ Sends(c) \/ \E k \in Plain : \E x : SendsAll(c, <<Request(k, x)>>)
      PROVE  SequenceInv'
  BY <1>0, <1>1, AfterSends, PlainHandler
<1>2. ASSUME NEW c, Fails(c) PROVE SequenceInv'
  BY <1>2, PlainHandler, ZenonT(30) DEF Fails
<1>3. CASE WindowCreated(m.w)
  BY <1>0, <1>1, <1>3 DEF WindowCreated
<1>4. CASE WindowClosed(m.w)
  <2> DEFINE c == [b EXCEPT !.policy = IF wins[m.w].pending_open THEN @ ELSE @ \cup {"closed"},
                           !.focused = IF @ = m.w THEN None ELSE @]
  <2>1. DOMAIN c = DOMAIN b /\ c.open_turn = b.open_turn /\ c.public = b.public /\ c.held = b.held
    BY <1>0
  <2>2. Sends(c)
    BY <1>4 DEF WindowClosed
  <2> HIDE DEF c
  <2>. QED BY <1>1, <2>1, <2>2
<1>5. CASE WindowDimensions(m.w, m.size)
  <2>1. PICK c : /\ DOMAIN c = DOMAIN b /\ c.open_turn = b.open_turn /\ c.public = b.public
                 /\ c.held = b.held /\ Keeps(c)
    BY <1>0, <1>5 DEF WindowDimensions, Keeps
  <2>. QED BY <1>1, <2>1
<1>6. CASE OutputCreated(m.w)
  <2>1. "get_output" \in Plain
    BY DEF Plain
  <2>. QED BY <1>0, <1>1, <1>6, <2>1 DEF OutputCreated
<1>7. CASE OutputGeometry(m.w) \/ Workarea(m.w) \/ ExclusiveFocus(m.size) \/ PolicyFact(m.kind)
  <2>1. PICK c : /\ DOMAIN c = DOMAIN b /\ c.open_turn = b.open_turn /\ c.public = b.public
                 /\ c.held = b.held /\ Keeps(c)
    BY <1>0, <1>7, Zenon DEF OutputGeometry, Workarea, ExclusiveFocus, PolicyFact
  <2>. QED BY <1>1, <2>1
<1>8. CASE OutputRemoved(m.w)
  <2> DEFINE c == [b EXCEPT !.outputs = Without(@, m.w), !.lost = @ \/ b.selected = m.w,
                           !.selected = IF @ = m.w THEN None ELSE @]
  <2>1. DOMAIN c = DOMAIN b /\ c.open_turn = b.open_turn /\ c.public = b.public /\ c.held = b.held
    BY <1>0
  <2>2. Sends(c)
    BY <1>8 DEF OutputRemoved
  <2> HIDE DEF c
  <2>. QED BY <1>1, <2>1, <2>2
<1>9. CASE SeatCreated(m.w)
  <2> DEFINE c == [b EXCEPT !.seats = @ \cup {m.w}, !.seat = m.w]
             d == [b EXCEPT !.seats = @ \cup {m.w}]
  <2>1. /\ DOMAIN c = DOMAIN b /\ c.open_turn = b.open_turn /\ c.public = b.public /\ c.held = b.held
        /\ DOMAIN d = DOMAIN b /\ d.open_turn = b.open_turn /\ d.public = b.public /\ d.held = b.held
    BY <1>0
  <2>2. Sends(c) \/ Keeps(d)
    BY <1>9 DEF SeatCreated
  <2> HIDE DEF c, d
  <2>. QED BY <1>1, <2>1, <2>2
<1>10. CASE SeatRemoved(m.w)
  <2> DEFINE c == [b EXCEPT !.seats = @ \ {m.w}, !.seat = IF @ = m.w THEN None ELSE @,
                           !.terminal = @ \/ b.seat = m.w]
  <2>1. DOMAIN c = DOMAIN b /\ c.open_turn = b.open_turn /\ c.public = b.public /\ c.held = b.held
    BY <1>0
  <2>2. Sends(c)
    BY <1>10 DEF SeatRemoved
  <2> HIDE DEF c
  <2>. QED BY <1>1, <2>1, <2>2
<1>. QED BY <1>2, <1>3, <1>4, <1>5, <1>6, <1>7, <1>8, <1>9, <1>10, SMTT(30)

\* An input event.
LEMMA InputEventStep ==
    ASSUME SequenceInv, UNCHANGED <<wire, req, comp>>, decoded # <<>>, decoded' = Tail(decoded),
           NEW m, m.kind \in InputKinds, InputEvent(m)
    PROVE  SequenceInv'
<1> DEFINE s == InputEvents(<<m>>)
<1>1. IsSeq(s.sent) /\ Only(s.sent, Plain)
  <2>1. IsSeq(<<m>>) /\ Only(<<m>>, InputKinds)
    BY ShortSeqs
  <2>. QED BY <2>1, PolicySent
<1>2. \/ \E why : Fails(why)
      \/ SendsAll([b EXCEPT !.devices = s.devices, !.results = s.results], s.sent)
  BY DEF InputEvent
<1> HIDE DEF s
<1>3. CASE \E why : Fails(why)
  BY <1>3, PlainHandler DEF Fails
<1>4. CASE SendsAll([b EXCEPT !.devices = s.devices, !.results = s.results], s.sent)
  <2>1. /\ {"open_turn", "public", "held"} \subseteq DOMAIN b'
        /\ b'.open_turn = b.open_turn /\ b'.public = b.public /\ b'.held = b.held
        /\ out' = out \o s.sent
    BY <1>4 DEF SendsAll, SequenceInv, Shape
  <2>. QED BY <1>1, <2>1, PlainStep, ZenonT(30) DEF SequenceInv, Shape, OneToken
<1>. QED BY <1>2, <1>3, <1>4

\* A manage sequence starts: the turn is open.
LEMMA ManageStartStep ==
    ASSUME SequenceInv, UNCHANGED <<wire, req, comp>>, decoded # <<>>, decoded' = Tail(decoded),
           Head(decoded).kind = "manage_start", b.public = <<>>, ~b.open_turn,
           ManageStart, ~SeatOutOfOrder
    PROVE  SequenceInv'
<1> USE DEF SequenceInv
<1>1. /\ IsSeq(decoded') /\ Free(decoded', Starts) /\ Once(decoded', Starts)
      /\ ~Free(decoded, Starts) /\ ~Free(decoded, {"manage_start"})
  BY TailOf, Zenon DEF Shape, OneToken, Starts
<1>2. Free(wire, Starts) /\ Free(out, Finishes) /\ Free(req, Finishes) /\ comp.at = "manage"
  BY <1>1, Zenon DEF OneToken, RightToken
<1>3. /\ {"open_turn", "public", "held"} \subseteq DOMAIN b' /\ b'.open_turn /\ b'.held = b.held
      /\ out' = out
      /\ \E e, f : /\ e.kind = "PolicyTurn" /\ f.kind = "OperationCompleted"
                   /\ b'.public \in {Append(b.public, e), Append(Append(b.public, f), e)}
  <2> DEFINE asked == [b EXCEPT !.turn_requested = FALSE]
             settled == IF b.pending # None /\ b.pending.stage = "AwaitCorrectionManage"
                        THEN CompleteForCorrection(asked) ELSE asked
  <2>1. /\ {"open_turn", "public", "held"} \subseteq DOMAIN asked
        /\ asked.public = b.public /\ asked.held = b.held
    BY DEF Shape
  <2>2. b' = finish_policy_turn(settled, wins) /\ out' = out
    BY DEF ManageStart
  <2> HIDE DEF asked
  <2>3. /\ {"open_turn", "public", "held"} \subseteq DOMAIN settled /\ settled.held = b.held
        /\ \E f : f.kind = "OperationCompleted" /\ settled.public \in {b.public, Append(b.public, f)}
    <3> DEFINE f == Event("OperationCompleted", asked.pending.ticket, {"ok"})
               c == CompleteForCorrection(asked)
    <3>1. f.kind = "OperationCompleted"
      BY DEF Event
    <3>2. {"open_turn", "public", "held"} \subseteq DOMAIN c /\ c.held = b.held /\ c.public = Append(b.public, f)
      <4> HIDE DEF f
      <4>1. \E d, l : c = [asked EXCEPT !.pending = None, !.deferred = d, !.last_projection = l,
                               !.public = Append(asked.public, f), !.drain_ticket = asked.pending.ticket]
        BY Zenon DEF CompleteForCorrection, f
      <4>. QED BY <2>1, <4>1
    <3>3. settled \in {asked, c}
      OBVIOUS
    <3> HIDE DEF f, c, settled
    <3>. QED BY <2>1, <3>1, <3>2, <3>3
  <2> HIDE DEF settled
  <2>4. /\ {"open_turn", "public", "held"} \subseteq DOMAIN b' /\ b'.open_turn /\ b'.held = settled.held
        /\ \E e : e.kind = "PolicyTurn" /\ b'.public = Append(settled.public, e)
    <3>1. PICK selected, terminal, facts :
            b' = [settled EXCEPT !.open_turn = TRUE, !.policy = {}, !.drain_ticket = None, !.replay = FALSE,
                    !.selected = selected, !.lost = FALSE, !.terminal = terminal,
                    !.public = Append(settled.public, Event("PolicyTurn", settled.drain_ticket, facts))]
      BY <2>2, Zenon DEF finish_policy_turn
    <3> DEFINE e == Event("PolicyTurn", settled.drain_ticket, facts)
    <3>2. e.kind = "PolicyTurn"
      BY DEF Event
    <3> HIDE DEF e
    <3>3. /\ {"open_turn", "public", "held"} \subseteq DOMAIN b' /\ b'.open_turn /\ b'.held = settled.held
          /\ b'.public = Append(settled.public, e)
      BY <2>3, <3>1 DEF e
    <3>. QED BY <3>2, <3>3
  <2>. QED BY <2>2, <2>3, <2>4, ZenonT(30)
<1>4. IsSeq(b'.public) /\ Once(b'.public, Turns)
  <2>1. PICK e, f : /\ e.kind = "PolicyTurn" /\ f.kind = "OperationCompleted"
                    /\ b'.public \in {Append(b.public, e), Append(Append(b.public, f), e)}
    BY <1>3, ZenonT(30)
  <2>2. IsSeq(b.public) /\ Free(b.public, Turns)
    BY ShortSeqs DEF Shape
  <2>3. f.kind \notin Turns
    BY <2>1 DEF Turns
  <2>4. IsSeq(Append(b.public, f)) /\ Free(Append(b.public, f), Turns)
    BY <2>2, <2>3, Appended, ZenonT(30)
  <2>. QED BY <2>1, <2>2, <2>4, Appended, Zenon
<1>5. Shape'
  BY <1>1, <1>3, <1>4, SMTT(30) DEF Shape
<1>6. OneToken'
  BY <1>1, <1>2, <1>3, <1>4, SMTT(30) DEF OneToken
<1>7. RightToken'
  <2>1. Free(decoded', {"render_start"})
    BY <1>1, KindsApart
  <2>. QED BY <1>2, <1>3, <2>1 DEF RightToken
<1>. QED BY <1>5, <1>6, <1>7

\* The backend answers a sequence: its finish request follows what it had sent.
LEMMA AnswerStep ==
    ASSUME SequenceInv, UNCHANGED <<wire, req, comp>>,
           Free(wire, Starts), Free(out, Finishes), Free(req, Finishes),
           IsSeq(decoded'), Free(decoded', Starts),
           {"open_turn", "public", "held"} \subseteq DOMAIN b', ~b'.open_turn, b'.held = b.held,
           IsSeq(b'.public), Free(b'.public, Turns),
           NEW finish \in Finishes, comp.at = IF finish = "manage_finish" THEN "manage" ELSE "render",
           NEW sent, IsSeq(sent), Only(sent, Plain \cup {finish}), Once(sent, Finishes), out' = out \o sent
    PROVE  SequenceInv'
<1> USE DEF SequenceInv
<1>1. /\ Only(sent, Plain \cup Finishes)
      /\ \A k \in Finishes : k # finish => Free(sent, {k})
  BY ZenonT(30) DEF Only, Free, Plain, Finishes
<1>2. IsSeq(out') /\ Only(out', Plain \cup Finishes) /\ Once(out', Finishes)
  BY <1>1, Joined DEF Shape
<1>3. \A k \in Finishes : k # finish => Free(out', {k})
  BY <1>1, Joined, KindsApart, ZenonT(30) DEF Shape, Finishes
<1>4. Once(decoded', Starts) /\ Once(b'.public, Turns)
  BY DEF Free, Once
<1>5. Shape'
  BY <1>2, SMTT(30) DEF Shape
<1>6. OneToken'
  BY <1>2, <1>4, SMTT(30) DEF OneToken
<1>7. RightToken'
  <2>1. /\ Free(wire', {"manage_start"}) /\ Free(wire', {"render_start"})
        /\ Free(decoded', {"manage_start"}) /\ Free(decoded', {"render_start"})
        /\ Free(req', {"manage_finish"}) /\ Free(req', {"render_finish"})
    BY KindsApart
  <2>2. CASE finish = "manage_finish"
    BY <1>3, <2>1, <2>2, SMTT(30) DEF RightToken, Finishes
  <2>3. CASE finish = "render_finish"
    BY <1>3, <2>1, <2>3, SMTT(30) DEF RightToken, Finishes
  <2>. QED BY <2>2, <2>3, SMTT(30) DEF Finishes
<1>. QED BY <1>5, <1>6, <1>7

\* Where the token is when a start event is next, and when a turn is open.
LEMMA TokenIsHere ==
    ASSUME SequenceInv
    PROVE  /\ decoded # <<>> /\ Head(decoded).kind \in Starts =>
                /\ IsSeq(Tail(decoded)) /\ Free(Tail(decoded), Starts) /\ Once(Tail(decoded), Starts)
                /\ Free(wire, Starts) /\ Free(out, Finishes) /\ Free(req, Finishes) /\ ~b.open_turn
                /\ comp.at = IF Head(decoded).kind = "manage_start" THEN "manage" ELSE "render"
           /\ b.open_turn =>
                /\ Free(decoded, Starts) /\ Free(wire, Starts) /\ Free(out, Finishes) /\ Free(req, Finishes)
                /\ comp.at = "manage"
<1> USE DEF SequenceInv
<1>1. ASSUME decoded # <<>>, Head(decoded).kind \in Starts
      PROVE  /\ IsSeq(Tail(decoded)) /\ Free(Tail(decoded), Starts) /\ Once(Tail(decoded), Starts)
             /\ ~Free(decoded, Starts) /\ ~Free(decoded, {Head(decoded).kind})
  BY <1>1, TailOf DEF Shape, OneToken
<1>2. ASSUME decoded # <<>>, Head(decoded).kind \in Starts
      PROVE  /\ Free(wire, Starts) /\ Free(out, Finishes) /\ Free(req, Finishes) /\ ~b.open_turn
             /\ comp.at = IF Head(decoded).kind = "manage_start" THEN "manage" ELSE "render"
  BY <1>1, <1>2, Zenon DEF OneToken, RightToken, Starts
<1>3. ASSUME b.open_turn
      PROVE  /\ Free(decoded, Starts) /\ Free(wire, Starts) /\ Free(out, Finishes) /\ Free(req, Finishes)
             /\ comp.at = "manage"
  BY <1>3 DEF OneToken, RightToken
<1>. QED BY <1>1, <1>2, <1>3, SMTT(30)

\* A render sequence is answered at once, or ends the backend.
LEMMA RenderStartStep ==
    ASSUME SequenceInv, UNCHANGED <<wire, req, comp>>, decoded # <<>>, decoded' = Tail(decoded),
           Head(decoded).kind = "render_start", b.public = <<>>, RenderStart
    PROVE  SequenceInv'
<1>1. CASE Fails("protocol")
  BY <1>1, PlainHandler DEF Fails
<1>2. CASE ~Fails("protocol")
  <2>1. PICK first, last :
           /\ first \in {<<>>, <<Request("other", {})>>} /\ last \in {<<>>, <<Request("manage_dirty", {})>>}
           /\ out' = out \o first \o <<Request("render_finish", {})>> \o last
           /\ {"open_turn", "public", "held"} \subseteq DOMAIN b'
           /\ b'.open_turn = b.open_turn /\ b'.public = b.public /\ b'.held = b.held
    BY <1>2, ZenonT(30) DEF RenderStart, SequenceInv, Shape
  <2>2. /\ IsSeq(first) /\ Free(first, Finishes) /\ Only(first, Plain)
        /\ IsSeq(last) /\ Free(last, Finishes) /\ Only(last, Plain)
    BY <2>1, ShortSeqs, OneRequest, KindsApart DEF Plain
  <2> DEFINE fin == <<Request("render_finish", {})>>
             mid == first \o fin
             sent == mid \o last
  <2>3. /\ IsSeq(fin) /\ Once(fin, Finishes)
        /\ Only(fin, Plain \cup {"render_finish"})
    BY ShortSeqs DEF Request
  <2>4. out' = out \o first \o fin \o last
    BY <2>1
  <2> HIDE DEF fin
  <2>5. Only(first, Plain \cup {"render_finish"}) /\ Only(last, Plain \cup {"render_finish"})
    BY <2>2 DEF Only
  <2>6. IsSeq(mid) /\ Only(mid, Plain \cup {"render_finish"}) /\ Once(mid, Finishes)
    BY <2>2, <2>3, <2>5, Joined, SMTT(30)
  <2> HIDE DEF mid
  <2>7. IsSeq(sent) /\ Only(sent, Plain \cup {"render_finish"}) /\ Once(sent, Finishes)
    BY <2>2, <2>5, <2>6, Joined
  <2>8. out' = out \o sent
    <3>1. IsSeq(out)
      BY DEF SequenceInv, Shape
    <3>2. IsSeq(first) /\ IsSeq(fin) /\ IsSeq(mid) /\ IsSeq(last)
      BY <2>2, <2>3, <2>6
    <3>3. out \o first \o fin = out \o (first \o fin)
      BY <3>1, <3>2, JoinedTwice
    <3>4. out \o mid \o last = out \o (mid \o last)
      BY <3>1, <3>2, JoinedTwice, SMTT(30)
    <3>. QED BY <2>4, <3>3, <3>4, Zenon DEF mid, sent
  <2> HIDE DEF sent
  <2>9. /\ IsSeq(decoded') /\ Free(decoded', Starts) /\ Free(wire, Starts) /\ Free(out, Finishes)
        /\ Free(req, Finishes) /\ ~b.open_turn /\ comp.at = "render"
    BY TokenIsHere DEF Starts
  <2>10. IsSeq(b'.public) /\ Free(b'.public, Turns)
    BY <2>1, ShortSeqs
  <2>11. "render_finish" \in Finishes
    BY DEF Finishes
  <2>. QED BY <2>1, <2>7, <2>8, <2>9, <2>10, <2>11, AnswerStep, Zenon
<1>. QED BY <1>1, <1>2

\* One message is dispatched.
LEMMA DispatchStep ==
    ASSUME SequenceInv, ServiceDispatch
    PROVE  SequenceInv'
<1> DEFINE m == Head(decoded)
<1>1. /\ UNCHANGED <<wire, req, comp>> /\ decoded # <<>> /\ decoded' = Tail(decoded)
      /\ b.public = <<>> /\ ~b.open_turn /\ apply_runtime_event(m)
  BY DEF ServiceDispatch, Ingress
<1> HIDE DEF m
<1>2. CASE m.kind = "manage_start" /\ ManageStart /\ ~SeatOutOfOrder
  BY <1>1, <1>2, ManageStartStep DEF m
<1>3. CASE m.kind = "render_start" /\ RenderStart
  BY <1>1, <1>3, RenderStartStep DEF m
<1>4. CASE m.kind \in InputKinds /\ InputEvent(m)
  BY <1>1, <1>4, InputEventStep, SMTT(30)
<1>5. CASE \/ \E c : Fails(c)
           \/ WindowCreated(m.w) \/ WindowClosed(m.w) \/ WindowDimensions(m.w, m.size)
           \/ OutputCreated(m.w) \/ OutputGeometry(m.w) \/ OutputRemoved(m.w) \/ Workarea(m.w)
           \/ SeatCreated(m.w) \/ SeatRemoved(m.w) \/ ExclusiveFocus(m.size) \/ PolicyFact(m.kind)
  BY <1>1, <1>5, ObjectEvents
<1>6. CASE ManagerEvent(m)
  <2>1. CASE m.kind = "manage_start" /\ ManageStart /\ SeatOutOfOrder
    BY <1>5, <2>1, Zenon DEF ManageStart
  <2>. QED BY <1>2, <1>3, <1>5, <1>6, <2>1, SMTT(30) DEF ManagerEvent
<1>7. CASE WindowEvent(m) \/ OutputEvent(m) \/ SeatEvent(m)
  BY <1>5, <1>7 DEF WindowEvent, OutputEvent, SeatEvent, About
<1>8. CASE m.kind \in RegistryKinds /\ Fails("registry")
  BY <1>5, <1>8, SMTT(30)
<1>. QED BY <1>1, <1>4, <1>6, <1>7, <1>8 DEF apply_runtime_event
\* The transport moves requests to the socket.
LEMMA MoveStep ==
    ASSUME SequenceInv, UNCHANGED <<wire, decoded, comp>>,
           {"open_turn", "public", "held"} \subseteq DOMAIN b',
           b'.open_turn = b.open_turn, b'.held = b.held, IsSeq(b'.public),
           Free(b.public, Turns) => Free(b'.public, Turns),
           Once(b.public, Turns) => Once(b'.public, Turns),
           NEW u, NEW v, IsSeq(u), IsSeq(v), Len(req) + Len(u) <= SocketRoom,
           \A kinds : /\ Free(out, kinds) => Free(u, kinds) /\ Free(v, kinds)
                      /\ Only(out, kinds) => Only(u, kinds) /\ Only(v, kinds)
                      /\ Once(out, kinds) => /\ Once(u, kinds) /\ Once(v, kinds)
                                             /\ Free(u, kinds) \/ Free(v, kinds),
           req' = req \o u, out' = v
    PROVE  SequenceInv'
<1> USE DEF SequenceInv
<1>1. /\ IsSeq(req') /\ Only(req', Plain \cup Finishes) /\ Len(req') <= SocketRoom
      /\ \A kinds : Free(req, kinds) /\ Free(out, kinds) => Free(req', kinds) /\ Free(out', kinds)
  BY Joined DEF Shape
<1>2. /\ IsSeq(out') /\ Only(out', Plain \cup Finishes) /\ Once(out', Finishes)
      /\ Once(req', Finishes) /\ (Free(out', Finishes) \/ Free(req', Finishes))
  <2>1. CASE Free(out, Finishes)
    BY <2>1, Joined, ZenonT(30) DEF Shape, OneToken
  <2>2. CASE Free(req, Finishes)
    BY <2>2, Joined, ZenonT(30) DEF Shape, OneToken
  <2>. QED BY <2>1, <2>2, ZenonT(30) DEF Shape, OneToken
<1>3. Shape'
  BY <1>1, <1>2, ZenonT(30) DEF Shape
<1>4. OneToken'
  BY <1>1, <1>2 DEF OneToken
<1>5. RightToken'
  BY <1>1, <1>2, Zenon DEF RightToken
<1>. QED BY <1>3, <1>4, <1>5, SMTT(30)

\* A quantum that flushes, and the startup's blocking flush.
LEMMA FlushSteps ==
    ASSUME SequenceInv, ServiceFlush \/ PumpFlush
    PROVE  SequenceInv'
<1> USE DEF SequenceInv
<1>1. CASE PumpFlush
  <2>1. /\ UNCHANGED <<b, wire, decoded, comp>> /\ out # <<>> /\ Len(req) < SocketRoom
        /\ req' = Append(req, Head(out)) /\ out' = Tail(out)
    BY <1>1 DEF PumpFlush, Writable
  <2>2. IsSeq(req) /\ IsSeq(out) /\ IsSeq(b.public)
    BY DEF Shape
  <2> DEFINE u == <<Head(out)>>
  <2>3. IsSeq(u) /\ Len(u) = 1
    BY ShortSeqs
  <2>4. \A kinds : /\ Free(out, kinds) => Free(u, kinds) /\ Free(out', kinds)
                   /\ Only(out, kinds) => Only(u, kinds) /\ Only(out', kinds)
                   /\ Once(out, kinds) => /\ Once(u, kinds) /\ Once(out', kinds)
                                          /\ Free(u, kinds) \/ Free(out', kinds)
    BY <2>1, <2>2, TailOf, ShortSeqs, SMTT(30)
  <2>5. req' = req \o u /\ IsSeq(out')
    BY <2>1, <2>2, Appended, TailOf
  <2> HIDE DEF u
  <2>6. Len(req) + Len(u) <= SocketRoom
    <3>1. Len(req) \in Nat
      BY <2>2 DEF IsSeq
    <3>. QED BY <2>1, <2>3, <3>1, RiverAssumption
  <2>. QED BY <2>1, <2>2, <2>3, <2>4, <2>5, <2>6, MoveStep, ZenonT(30) DEF Shape
<1>2. CASE ServiceFlush
  <2>1. IsSeq(req) /\ IsSeq(out) /\ IsSeq(b.public) /\ Len(req) <= SocketRoom
        /\ {"open_turn", "public", "held"} \subseteq DOMAIN b
    BY DEF Shape
  <2>2. Len(req) \in Nat /\ Len(out) \in Nat /\ SocketRoom \in Nat
    BY <2>1, RiverAssumption DEF IsSeq
  <2>3. PICK n \in 0..Len(out) : /\ Len(req) + n <= SocketRoom
                                 /\ req' = req \o SubSeq(out, 1, n)
                                 /\ out' = SubSeq(out, n + 1, Len(out))
    <3>1. CASE Len(out) <= SocketRoom - Len(req)
      <4>1. Len(out) \in 0..Len(out) /\ Len(req) + Len(out) <= SocketRoom
        BY <2>2, <3>1
      <4>. QED BY <1>2, <3>1, <4>1, Zenon DEF ServiceFlush
    <3>2. CASE ~(Len(out) <= SocketRoom - Len(req))
      <4>1. SocketRoom - Len(req) \in 0..Len(out) /\ Len(req) + (SocketRoom - Len(req)) <= SocketRoom
        BY <2>1, <2>2, <3>2
      <4>. QED BY <1>2, <3>2, <4>1, Zenon DEF ServiceFlush
    <3>. QED BY <3>1, <3>2, Zenon
  <2>4. UNCHANGED <<wire, decoded, comp>>
    BY <1>2 DEF ServiceFlush
  <2>5. /\ {"open_turn", "public", "held"} \subseteq DOMAIN b'
        /\ b'.open_turn = b.open_turn /\ b'.held = b.held
        /\ b'.public = b.public \/ \E x, y : b'.public = Append(b.public, Event("OperationCompleted", x, y))
    <3>1. PICK c : /\ {"open_turn", "public", "held"} \subseteq DOMAIN c
                   /\ c.open_turn = b.open_turn /\ c.held = b.held /\ c.public = b.public
                   /\ b' = c \/ b' = Completed(c)
      BY <1>2, <2>1, ZenonT(30) DEF ServiceFlush
    <3>2. CASE b' = c
      BY <3>1, <3>2
    <3>3. CASE b' # c
      <4>0. b' = Completed(c) /\ ~(c.pending = None \/ c.pending.stage # "FlushingRender")
        BY <3>1, <3>3 DEF Completed
      <4>1. PICK x, y, l, t : b' = [c EXCEPT !.pending = None, !.last_projection = l,
                  !.public = Append(c.public, Event("OperationCompleted", x, y)), !.drain_ticket = t]
        BY <4>0, Zenon DEF Completed
      <4> DEFINE e == Event("OperationCompleted", x, y)
      <4> HIDE DEF e
      <4>2. /\ {"open_turn", "public", "held"} \subseteq DOMAIN b'
            /\ b'.open_turn = c.open_turn /\ b'.held = c.held /\ b'.public = Append(c.public, e)
        BY <3>1, <4>1 DEF e
      <4>3. \E z, w : e = Event("OperationCompleted", z, w)
        BY DEF e
      <4>. QED BY <3>1, <4>2, <4>3
    <3>. QED BY <3>2, <3>3
  <2>6. /\ IsSeq(b'.public)
        /\ Free(b.public, Turns) => Free(b'.public, Turns)
        /\ Once(b.public, Turns) => Once(b'.public, Turns)
    <3>1. \A x, y : Event("OperationCompleted", x, y).kind \notin Turns
      BY DEF Event, Turns
    <3>. QED BY <2>1, <2>5, <3>1, Appended, ZenonT(30)
  <2> DEFINE u == SubSeq(out, 1, n)
             v == SubSeq(out, n + 1, Len(out))
  <2>7. /\ IsSeq(u) /\ IsSeq(v) /\ Len(u) = n
        /\ \A kinds : /\ Free(out, kinds) => Free(u, kinds) /\ Free(v, kinds)
                      /\ Only(out, kinds) => Only(u, kinds) /\ Only(v, kinds)
                      /\ Once(out, kinds) => /\ Once(u, kinds) /\ Once(v, kinds)
                                             /\ Free(u, kinds) \/ Free(v, kinds)
    BY <2>1, <2>3, Split
  <2>8. req' = req \o u /\ out' = v
    BY <2>3
  <2> HIDE DEF u, v
  <2>9. Len(req) + Len(u) <= SocketRoom
    BY <2>3, <2>7
  <2>. QED BY <2>4, <2>5, <2>6, <2>7, <2>8, <2>9, MoveStep, ZenonT(30)
<1>. QED BY <1>1, <1>2

\* A quantum that reads what has arrived, or prepares to, or notes the end of it.
LEMMA ReadQuanta ==
    ASSUME SequenceInv, ServiceRead \/ ServicePrepareRead \/ ServiceDrained
    PROVE  SequenceInv'
<1> USE DEF SequenceInv
<1>1. CASE ServiceRead
  <2>1. /\ UNCHANGED <<out, req, comp>> /\ b' = [b EXCEPT !.read_guard = FALSE]
        /\ \E n \in 1..Len(wire) : /\ decoded' = SubSeq(wire, 1, n)
                                   /\ wire' = SubSeq(wire, n + 1, Len(wire))
    BY <1>1, Zenon DEF ServiceRead
  <2>2. IsSeq(wire) /\ Len(wire) \in Nat
    BY DEF Shape, IsSeq
  <2>3. PICK n \in 1..Len(wire) : /\ decoded' = SubSeq(wire, 1, n)
                                  /\ wire' = SubSeq(wire, n + 1, Len(wire))
    BY <2>1, Zenon
  <2>. n \in 0..Len(wire)
    BY <2>2
  <2>4. /\ IsSeq(decoded') /\ IsSeq(wire')
        /\ \A kinds : /\ Free(wire, kinds) => Free(decoded', kinds) /\ Free(wire', kinds)
                      /\ Once(wire, kinds) => /\ Once(decoded', kinds) /\ Once(wire', kinds)
                                              /\ Free(decoded', kinds) \/ Free(wire', kinds)
    BY <2>2, <2>3, Split
  <2>5. /\ {"open_turn", "public", "held"} \subseteq DOMAIN b'
        /\ b'.open_turn = b.open_turn /\ b'.held = b.held /\ b'.public = b.public
    BY <2>1 DEF Shape
  <2>6. Shape'
    BY <2>1, <2>4, <2>5 DEF Shape
  <2>7. OneToken'
    BY <2>1, <2>4, <2>5 DEF OneToken
  <2>8. RightToken'
    BY <2>1, <2>4, <2>5 DEF RightToken
  <2>. QED BY <2>1, <2>6, <2>7, <2>8
<1>2. CASE ServicePrepareRead
  <2>1. /\ UNCHANGED <<wire, req, comp, decoded, out>> /\ b' = [b EXCEPT !.read_guard = TRUE]
    BY <1>2 DEF ServicePrepareRead
  <2>2. /\ {"open_turn", "public", "held"} \subseteq DOMAIN b'
        /\ b'.open_turn = b.open_turn /\ b'.held = b.held /\ b'.public = b.public
    BY <2>1 DEF Shape
  <2>. QED BY <2>1, <2>2, PlainStep, ShortSeqs DEF Shape, OneToken
<1>3. CASE ServiceDrained
  <2>1. /\ UNCHANGED <<wire, req, comp, decoded, out>> /\ b.public = <<>> /\ ~b.open_turn
        /\ b' = [b EXCEPT !.drain_ticket = None,
                      !.public = Append(@, Event("RetainedObservationsDrained", b.drain_ticket, {}))]
    BY <1>3 DEF ServiceDrained, Ingress
  <2>2. PICK e : /\ {"open_turn", "public", "held"} \subseteq DOMAIN b'
                 /\ b'.open_turn = b.open_turn /\ b'.held = b.held
                 /\ b'.public = Append(b.public, e) /\ e.kind = "RetainedObservationsDrained"
    BY <2>1 DEF Shape, Event
  <2>3. e.kind \notin Turns /\ IsSeq(b.public)
    BY <2>2 DEF Turns, Shape
  <2>4. IsSeq(b'.public) /\ Once(b'.public, Turns) /\ Free(b'.public, Turns)
    BY <2>1, <2>2, <2>3, Appended, ShortSeqs
  <2>. QED BY <2>1, <2>2, <2>4, PlainStep, ShortSeqs DEF Shape
<1>. QED BY <1>1, <1>2, <1>3

\* The session takes a public event: an open turn is answered, once.
LEMMA EventSteps ==
    ASSUME SequenceInv,
           handle_policy_turn \/ handle_operation_completed \/ handle_observations_drained
    PROVE  SequenceInv'
<1> USE DEF SequenceInv
<1>1. /\ UNCHANGED <<wire, req, comp, decoded>> /\ b.public # <<>>
      /\ \/ UNCHANGED <<b, out>>
         \/ b' = [b EXCEPT !.public = Tail(@)] /\ UNCHANGED out
         \/ /\ Head(b.public).kind = "PolicyTurn"
            /\ \E ticket, p, focus, binds : respond_policy_turn(ticket, p, focus, binds)
  BY ZenonT(30) DEF handle_policy_turn, handle_operation_completed, handle_observations_drained, TakesEvent, Fails
<1>2. /\ IsSeq(b.public) /\ {"open_turn", "public", "held"} \subseteq DOMAIN b
      /\ IsSeq(b.held) /\ Only(b.held, InputKinds)
      /\ Once(b.public, Turns) /\ (b.open_turn \/ Free(b.public, Turns))
  BY DEF Shape, OneToken
<1>3. /\ IsSeq(Tail(b.public)) /\ Once(Tail(b.public), Turns)
      /\ b.open_turn \/ Free(Tail(b.public), Turns)
      /\ Head(b.public).kind \in Turns => b.open_turn /\ Free(Tail(b.public), Turns)
  BY <1>1, <1>2, TailOf
<1>4. CASE UNCHANGED <<b, out>>
  BY <1>1, <1>2, <1>4, PlainStep, ShortSeqs
<1>5. CASE b' = [b EXCEPT !.public = Tail(@)] /\ UNCHANGED out
  <2>1. /\ {"open_turn", "public", "held"} \subseteq DOMAIN b'
        /\ b'.open_turn = b.open_turn /\ b'.public = Tail(b.public) /\ b'.held = b.held
    BY <1>2, <1>5
  <2>. QED BY <1>1, <1>2, <1>3, <1>5, <2>1, PlainStep, ShortSeqs
<1>6. ASSUME Head(b.public).kind = "PolicyTurn",
             NEW ticket, NEW p, NEW focus, NEW binds, respond_policy_turn(ticket, p, focus, binds)
      PROVE  SequenceInv'
  <2>1. PICK r : r.kind = "manage_finish" /\ out' = Append(out, r)
    <3>1. PICK asks, ask, on :
            out' = Append(out, [Request("manage_finish", asks) EXCEPT !.focus = ask, !.binds = on])
      BY <1>6, Zenon DEF respond_policy_turn
    <3>2. [Request("manage_finish", asks) EXCEPT !.focus = ask, !.binds = on].kind = "manage_finish"
      BY DEF Request
    <3>. QED BY <3>1, <3>2, Zenon
  <2>2. /\ {"open_turn", "public", "held"} \subseteq DOMAIN b'
        /\ ~b'.open_turn /\ b'.public = Tail(b.public) /\ b'.held = b.held
    BY <1>2, <1>6 DEF respond_policy_turn
  <2>3. b.open_turn /\ Free(Tail(b.public), Turns)
    BY <1>3, <1>6 DEF Turns
  <2>4. /\ Free(decoded, Starts) /\ Free(wire, Starts) /\ Free(out, Finishes) /\ Free(req, Finishes)
        /\ comp.at = "manage"
    BY <2>3, TokenIsHere, SMTT(30)
  <2>5. /\ IsSeq(<<r>>) /\ Only(<<r>>, Plain \cup {"manage_finish"}) /\ Once(<<r>>, Finishes)
        /\ out' = out \o <<r>> /\ IsSeq(decoded)
    BY <2>1, ShortSeqs, Appended DEF Shape
  <2>6. "manage_finish" \in Finishes
    BY DEF Finishes
  <2>. QED BY <1>1, <1>3, <2>2, <2>3, <2>4, <2>5, <2>6, AnswerStep, Zenon
<1>. QED BY <1>1, <1>4, <1>5, <1>6

\* A request for a turn, a Quit, and the exit, which finishes an open turn.
LEMMA SessionSteps ==
    ASSUME SequenceInv, request_policy_turn \/ begin_direct_quit \/ ServiceExit \/ begin_exit_session
    PROVE  SequenceInv'
<1> USE DEF SequenceInv
<1>1. /\ IsSeq(b.public) /\ IsSeq(out) /\ {"open_turn", "public", "held"} \subseteq DOMAIN b
      /\ IsSeq(b.held) /\ Only(b.held, InputKinds)
      /\ Once(b.public, Turns) /\ (b.open_turn \/ Free(b.public, Turns))
  BY SMTT(30) DEF Shape, OneToken
<1>2. CASE begin_direct_quit \/ ServiceExit
  <2>1. UNCHANGED <<wire, req, comp, decoded, b, out>>
    BY <1>2 DEF begin_direct_quit, ServiceExit, backend
  <2>. QED BY <1>1, <2>1, PlainStep, ShortSeqs
<1>3. CASE request_policy_turn
  <2> DEFINE dirty == Request("manage_dirty", {})
  <2>1. /\ UNCHANGED <<wire, req, comp, decoded>> /\ out' \in {out, Append(out, dirty)}
        /\ {"open_turn", "public", "held"} \subseteq DOMAIN b'
        /\ b'.open_turn = b.open_turn /\ b'.public = b.public /\ b'.held = b.held
    BY <1>1, <1>3 DEF request_policy_turn
  <2>2. IsSeq(<<dirty>>) /\ Only(<<dirty>>, Plain)
    BY OneRequest, SMTT(30) DEF Plain
  <2> HIDE DEF dirty
  <2>3. out' \in {out, out \o <<dirty>>}
    BY <1>1, <2>1, Appended
  <2>. QED BY <1>1, <2>1, <2>2, <2>3, PlainStep, Zenon
<1>4. CASE begin_exit_session
  <2> DEFINE fin == <<Request("manage_finish", {})>>
             exit == <<Request("exit_session", {})>>
  <2>1. /\ UNCHANGED <<wire, req, comp, decoded>>
        /\ out' = out \o (IF b.open_turn THEN fin ELSE <<>>) \o exit
        /\ {"open_turn", "public", "held"} \subseteq DOMAIN b'
        /\ ~b'.open_turn /\ b'.public = <<>> /\ b'.held = b.held
    BY <1>1, <1>4 DEF begin_exit_session
  <2>2. IsSeq(b'.public) /\ Free(b'.public, Turns) /\ Once(b'.public, Turns)
    BY <2>1, ShortSeqs
  <2>3. IsSeq(exit) /\ Only(exit, Plain) /\ Free(exit, Finishes)
    BY OneRequest, KindsApart DEF Plain
  <2>4. IsSeq(fin) /\ Once(fin, Finishes) /\ Only(fin, Plain \cup {"manage_finish"})
    BY ShortSeqs DEF Request
  <2> HIDE DEF fin, exit
  <2>5. CASE b.open_turn
    <3>1. /\ Free(decoded, Starts) /\ Free(wire, Starts) /\ Free(out, Finishes) /\ Free(req, Finishes)
          /\ comp.at = "manage"
      BY <2>5, TokenIsHere, SMTT(30)
    <3>2. out' = out \o (fin \o exit)
      BY <1>1, <2>1, <2>3, <2>4, <2>5, JoinedTwice, SMTT(30)
    <3>3. Only(exit, Plain \cup {"manage_finish"})
      BY <2>3 DEF Only
    <3>4. /\ IsSeq(fin \o exit) /\ Once(fin \o exit, Finishes)
          /\ Only(fin \o exit, Plain \cup {"manage_finish"})
      BY <2>3, <2>4, <3>3, Joined, SMTT(30)
    <3>5. "manage_finish" \in Finishes /\ IsSeq(decoded')
      BY <2>1 DEF Finishes, Shape
    <3>6. Free(decoded', Starts)
      BY <2>1, <3>1, SMTT(30)
    <3>. QED BY <2>1, <2>2, <3>1, <3>2, <3>4, <3>5, <3>6, AnswerStep, ZenonT(30)
  <2>6. CASE ~b.open_turn
    <3>1. out \o <<>> = out
      BY <1>1 DEF IsSeq
    <3>2. out' = out \o exit
      BY <2>1, <2>6, <3>1
    <3>. QED BY <1>1, <2>1, <2>2, <2>3, <2>6, <3>2, PlainStep
  <2>. QED BY <2>5, <2>6
<1>. QED BY <1>2, <1>3, <1>4, SMTT(30)

\* The startup.
LEMMA StartupSteps ==
    ASSUME SequenceInv,
           Discovery \/ Holds("devices") \/ Holds("results") \/ DeviceFence \/ ResultFence \/ Connected
    PROVE  SequenceInv'
<1> USE DEF SequenceInv
<1>1. /\ IsSeq(b.public) /\ IsSeq(out) /\ {"open_turn", "public", "held"} \subseteq DOMAIN b
      /\ IsSeq(b.held) /\ Only(b.held, InputKinds)
      /\ Once(b.public, Turns) /\ (b.open_turn \/ Free(b.public, Turns))
  BY SMTT(30) DEF Shape, OneToken
<1>2. CASE Connected
  <2>1. /\ UNCHANGED <<wire, req, comp, decoded, out>>
        /\ {"open_turn", "public", "held"} \subseteq DOMAIN b'
        /\ b'.open_turn = b.open_turn /\ b'.public = b.public /\ b'.held = b.held
    BY <1>1, <1>2 DEF Connected
  <2>. QED BY <1>1, <2>1, PlainStep, ShortSeqs
<1>3. IsSeq(<<>>) /\ Only(<<>>, Plain) /\ Only(<<>>, InputKinds)
  BY ShortSeqs, SMTT(30)
<1>4. CASE Discovery
  <2> DEFINE bind == <<Request("bind_companions", {}), Request("sync", {})>>
  <2>1. /\ UNCHANGED <<decoded, req, comp>> /\ wire # <<>> /\ wire' = Tail(wire)
        /\ out' \in {out, <<>>, bind}
        /\ {"open_turn", "public", "held"} \subseteq DOMAIN b'
        /\ b'.open_turn = b.open_turn /\ b'.public = b.public /\ b'.held = b.held
    BY <1>1, <1>4 DEF Discovery, Consumes, Next_fence, Fails
  <2>2. IsSeq(bind) /\ Only(bind, Plain)
    <3>1. bind = Append(<<Request("bind_companions", {})>>, Request("sync", {}))
      OBVIOUS
    <3>2. Request("sync", {}).kind \in Plain /\ "bind_companions" \in Plain
      BY DEF Request, Plain
    <3>. QED BY <3>1, <3>2, OneRequest, Appended, ZenonT(30)
  <2> HIDE DEF bind
  <2>. QED BY <1>1, <1>3, <2>1, <2>2, FenceStep
<1>5. CASE Holds("devices") \/ Holds("results")
  <2>1. /\ UNCHANGED <<decoded, req, comp>> /\ wire # <<>> /\ wire' = Tail(wire) /\ out' = <<>>
        /\ {"open_turn", "public", "held"} \subseteq DOMAIN b'
        /\ b'.open_turn = b.open_turn /\ b'.public = b.public
        /\ \/ b'.held = b.held
           \/ Head(wire).kind \in InputKinds /\ b'.held = Append(b.held, Head(wire))
    BY <1>1, <1>5 DEF Holds, Consumes, Next_fence
  <2>2. IsSeq(b'.held) /\ Only(b'.held, InputKinds)
    BY <1>1, <2>1, Appended, ZenonT(30)
  <2>. QED BY <1>3, <2>1, <2>2, FenceStep
<1>6. CASE DeviceFence \/ ResultFence
  <2> DEFINE s == InputEvents(b.held)
  <2>1. PICK r \in {"sync", "bind_window_manager"} :
          /\ UNCHANGED <<decoded, req, comp>> /\ wire # <<>> /\ wire' = Tail(wire)
          /\ out' \in {out, Append(s.sent, Request(r, {}))}
          /\ {"open_turn", "public", "held"} \subseteq DOMAIN b'
          /\ b'.open_turn = b.open_turn /\ b'.public = b.public
          /\ b'.held \in {b.held, <<>>}
    BY <1>1, <1>6, ZenonT(30) DEF DeviceFence, ResultFence, Consumes, Next_fence, Fails
  <2>2. IsSeq(s.sent) /\ Only(s.sent, Plain)
    BY <1>1, PolicySent
  <2> HIDE DEF s
  <2>3. Request(r, {}).kind \in Plain
    BY <2>1 DEF Request, Plain
  <2>4. IsSeq(Append(s.sent, Request(r, {}))) /\ Only(Append(s.sent, Request(r, {})), Plain)
    BY <2>2, <2>3, Appended, Zenon
  <2>5. out' = out \/ (IsSeq(out') /\ Only(out', Plain))
    BY <2>1, <2>4, ZenonT(30)
  <2>6. IsSeq(b'.held) /\ Only(b'.held, InputKinds)
    BY <1>1, <1>3, <2>1
  <2>. QED BY <2>1, <2>5, <2>6, FenceStep
<1>. QED BY <1>2, <1>4, <1>5, <1>6, SMTT(30)

-----------------------------------------------------------------------------
(* The theorems.                                                           *)

\* The connection starts with no sequence open.
LEMMA SequenceInit == Init => SequenceInv
<1> SUFFICES ASSUME Init PROVE SequenceInv
  OBVIOUS
<1> DEFINE first == <<Request("get_registry", {}), Request("sync", {})>>
<1>1. /\ wire = <<>> /\ decoded = <<>> /\ req = <<>> /\ out = first
      /\ b.open_turn = FALSE /\ b.public = <<>> /\ b.held = <<>>
      /\ {"open_turn", "public", "held"} \subseteq DOMAIN b
  BY ZenonT(30) DEF Init
<1>2. /\ {"at", "error", "news", "devices", "outputs", "seats", "dims"} \subseteq DOMAIN comp
      /\ comp.devices = {0} /\ comp.outputs = {0} /\ comp.seats = {0} /\ comp.news = <<>>
      /\ comp.dims = <<>> /\ comp.error = FALSE
  BY Zenon DEF Init
<1>3. IsSeq(first) /\ Only(first, Plain)
  <2>1. first = Append(<<Request("get_registry", {})>>, Request("sync", {}))
    OBVIOUS
  <2>2. Request("sync", {}).kind \in Plain /\ "get_registry" \in Plain
    BY DEF Request, Plain
  <2>. QED BY <2>1, <2>2, OneRequest, Appended, Zenon
<1> HIDE DEF first
<1>4. IsFiniteSet({0}) /\ Len(<<>>) = 0 /\ DOMAIN <<>> = {}
  BY FS_Singleton
<1>5. Free(out, Finishes) /\ Only(out, Plain \cup Finishes) /\ IsSeq(out)
  BY <1>1, <1>3, KindsApart, ZenonT(30)
<1>6. Once(out, Finishes)
  BY <1>5, SMTT(30) DEF Once, Free
<1>7. Shape
  BY <1>1, <1>2, <1>4, <1>5, ShortSeqs, RiverAssumption, SMTT(30) DEF Shape, New
<1>8. OneToken
  BY <1>1, <1>5, <1>6, ShortSeqs, SMTT(30) DEF OneToken
<1>9. RightToken
  BY <1>1, <1>5, KindsApart, ShortSeqs DEF RightToken
<1>. QED BY <1>2, <1>7, <1>8, <1>9 DEF SequenceInv

\* Every step keeps the one token in one place, of the sequence River is in.
LEMMA SequenceNext == SequenceInv /\ [Next]_vars => SequenceInv'
<1> SUFFICES ASSUME SequenceInv, [Next]_vars PROVE SequenceInv'
  OBVIOUS
<1>1. CASE UNCHANGED vars
  BY <1>1, ZenonT(30) DEF vars, backend, SequenceInv, Shape, OneToken, RightToken
<1>2. CASE Service
  BY <1>2, FlushSteps, DispatchStep, ReadQuanta, EventSteps, SessionSteps, StartupSteps DEF Service
<1>3. CASE request_policy_turn \/ begin_direct_quit \/ begin_exit_session
  BY <1>3, SessionSteps
<1>4. CASE \/ PlugDevice \/ UnplugDevice \/ PlugOutput \/ UnplugOutput \/ PlugSeat \/ UnplugSeat
           \/ TakeFocus \/ GiveFocus \/ PressKey
  BY <1>4, PlugSteps
<1>5. CASE Happens \/ ManageSequence \/ RenderSequence
  BY <1>5, HappensStep, ManageSequenceStep, RenderSequenceStep
<1>6. CASE CompositorReads \/ CompositorConnects \/ CompositorTaps
  BY <1>6, ReadsStep, ConnectsStep, TapsStep
<1>. QED BY <1>1, <1>2, <1>3, <1>4, <1>5, <1>6 DEF Next

\* Between the backend and River there is at most one start event, open turn or
\* finish request, and it belongs to the sequence that River is in.
THEOREM SequenceInductive == Spec => []SequenceInv
BY SequenceInit, SequenceNext, PTL DEF Spec

\* manage_finish answers a manage_start and render_finish a render_start: River
\* never receives one out of sequence, whatever was blocked, corrected or quit.
THEOREM FinishesInOrder == Spec => []SequenceOrder
<1>1. SequenceInv => SequenceOrder
  BY DEF SequenceInv, SequenceOrder
<1>. QED BY <1>1, SequenceInductive, PTL
=============================================================================
