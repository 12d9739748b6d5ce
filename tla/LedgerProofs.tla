---------------------------- MODULE LedgerProofs ----------------------------
(***************************************************************************)
(* Proofs about the ledger, for any windows, any number of orbits, any     *)
(* layouts and any undo depth.                                             *)
(***************************************************************************)
EXTENDS LedgerSpec, SequenceTheorems, TLAPS

-----------------------------------------------------------------------------
(* Lists.                                                                  *)

\* What RemoveAt leaves, index by index.
LEMMA RemoveAtIndexed ==
    ASSUME NEW S, NEW s \in Seq(S), NEW i \in 1..Len(s)
    PROVE  /\ RemoveAt(s, i) \in Seq(S)
           /\ Len(RemoveAt(s, i)) = Len(s) - 1
           /\ \A j \in 1..(Len(s) - 1) :
                RemoveAt(s, i)[j] = IF j < i THEN s[j] ELSE s[j + 1]
<1> DEFINE a == SubSeq(s, 1, i - 1)
           b == SubSeq(s, i + 1, Len(s))
<1>1. /\ Len(s) \in Nat /\ i \in Int /\ i - 1 \in Int /\ i + 1 \in Int
      /\ \A j \in 1..Len(s) : s[j] \in S
  BY LenProperties
<1>2. /\ a \in Seq(S) /\ Len(a) = i - 1
      /\ \A j \in 1..(i - 1) : a[j] = s[j]
  BY <1>1, SubSeqProperties, SMT
<1>3. /\ b \in Seq(S) /\ Len(b) = Len(s) - i
      /\ \A j \in 1..(Len(s) - i) : b[j] = s[j + i]
  BY <1>1, SubSeqProperties, SMT
<1> HIDE DEF a, b
<1>4. /\ a \o b \in Seq(S) /\ Len(a \o b) = Len(a) + Len(b)
      /\ \A j \in 1..(Len(a) + Len(b)) :
           (a \o b)[j] = IF j <= Len(a) THEN a[j] ELSE b[j - Len(a)]
  BY <1>2, <1>3, ConcatProperties, Zenon
<1> DEFINE d == a \o b
<1>5. /\ d \in Seq(S) /\ Len(d) = Len(a) + Len(b)
      /\ \A j \in 1..(Len(a) + Len(b)) : d[j] = IF j <= Len(a) THEN a[j] ELSE b[j - Len(a)]
  BY <1>4
<1> HIDE DEF d
<1>6. Len(d) = Len(s) - 1
  BY <1>1, <1>2, <1>3, <1>5, SMT
<1>7. ASSUME NEW j \in 1..(Len(s) - 1)
      PROVE  d[j] = IF j < i THEN s[j] ELSE s[j + 1]
  <2>1. CASE j < i
    <3>1. j \in 1..(i - 1) /\ j <= Len(a) /\ j \in 1..(Len(a) + Len(b))
      BY <2>1, <1>1, <1>2, <1>3, SMT
    <3>2. d[j] = a[j] /\ a[j] = s[j]
      BY <3>1, <1>2, <1>5, Zenon
    <3> QED BY <2>1, <3>2, Zenon
  <2>2. CASE ~(j < i)
    <3>1. j - Len(a) \in 1..(Len(s) - i) /\ ~(j <= Len(a)) /\ j \in 1..(Len(a) + Len(b))
      BY <2>2, <1>1, <1>2, <1>3, SMT
    <3>2. d[j] = b[j - Len(a)]
      BY <3>1, <1>5, Zenon
    <3>3. b[j - Len(a)] = s[(j - Len(a)) + i]
      BY <3>1, <1>3, Zenon
    <3>4. (j - Len(a)) + i = j + 1
      BY <1>1, <1>2, SMT
    <3> QED BY <2>2, <3>2, <3>3, <3>4, Zenon
  <2> QED BY <2>1, <2>2
<1> QED BY <1>5, <1>6, <1>7, Zenon DEF RemoveAt, a, b, d

\* What InsertAt leaves, index by index.
LEMMA InsertAtIndexed ==
    ASSUME NEW S, NEW s \in Seq(S), NEW i \in 1..(Len(s) + 1), NEW e \in S
    PROVE  /\ InsertAt(s, i, e) \in Seq(S)
           /\ Len(InsertAt(s, i, e)) = Len(s) + 1
           /\ \A j \in 1..(Len(s) + 1) :
                InsertAt(s, i, e)[j] = IF j < i THEN s[j] ELSE IF j = i THEN e ELSE s[j - 1]
<1> DEFINE a == SubSeq(s, 1, i - 1)
           b == SubSeq(s, i, Len(s))
           m == <<e>>
<1>1. /\ Len(s) \in Nat /\ i \in Int /\ i - 1 \in Int
      /\ \A j \in 1..Len(s) : s[j] \in S
  BY LenProperties
<1>2. /\ a \in Seq(S) /\ Len(a) = i - 1
      /\ \A j \in 1..(i - 1) : a[j] = s[j]
  BY <1>1, SubSeqProperties, SMT
<1>3. /\ b \in Seq(S) /\ Len(b) = Len(s) - i + 1
      /\ \A j \in 1..(Len(s) - i + 1) : b[j] = s[j + i - 1]
  BY <1>1, SubSeqProperties, SMT
<1>4. m \in Seq(S) /\ Len(m) = 1 /\ m[1] = e
  OBVIOUS
<1> HIDE DEF a, b, m
<1> DEFINE c == a \o m
<1>5. /\ c \in Seq(S) /\ Len(c) = Len(a) + Len(m)
      /\ \A j \in 1..(Len(a) + Len(m)) :
           c[j] = IF j <= Len(a) THEN a[j] ELSE m[j - Len(a)]
  BY <1>2, <1>4, ConcatProperties, Zenon
<1> HIDE DEF c
<1>e. b \in Seq(S) /\ c \in Seq(S)
  BY <1>3, <1>5, Zenon
<1>6. /\ c \o b \in Seq(S) /\ Len(c \o b) = Len(c) + Len(b)
      /\ \A j \in 1..(Len(c) + Len(b)) :
           (c \o b)[j] = IF j <= Len(c) THEN c[j] ELSE b[j - Len(c)]
  BY <1>e, ConcatProperties, Zenon
<1>7. /\ Len(c) = i /\ \A j \in 1..i : c[j] = IF j < i THEN s[j] ELSE e
  BY <1>1, <1>2, <1>4, <1>5, SMT
<1>8. Len(c \o b) = Len(s) + 1
  BY <1>1, <1>3, <1>6, <1>7, SMT
<1>9. \A j \in 1..(Len(s) + 1) :
        (c \o b)[j] = IF j < i THEN s[j] ELSE IF j = i THEN e ELSE s[j - 1]
  BY <1>1, <1>3, <1>6, <1>7, SMT
<1> QED BY <1>6, <1>8, <1>9, Zenon DEF InsertAt, a, b, m, c

-----------------------------------------------------------------------------
(* One orbit.                                                              *)

OrbitOK(o) == o \in OrbitState /\ OrbitWellFormed(o)

\* The windows of an orbit, with the bounds of the list that holds them.
LEMMA OrbitList ==
    ASSUME NEW o, OrbitOK(o)
    PROVE  /\ o.windows \in Seq(Win) /\ Len(o.windows) \in Nat
           /\ DOMAIN o.windows = 1..Len(o.windows)
           /\ \A i \in 1..Len(o.windows) : o.windows[i] \in Win
           /\ o.focus \in 0..Len(o.windows)
           /\ (o.focus = 0) <=> (Len(o.windows) = 0)
           /\ \A w : w \in WindowSet(o) <=> \E i \in 1..Len(o.windows) : o.windows[i] = w
<1>1. o.windows \in Seq(Win) /\ o.focus \in Nat
  BY DEF OrbitOK, OrbitState
<1>2. /\ Len(o.windows) \in Nat
      /\ DOMAIN o.windows = 1..Len(o.windows)
      /\ \A i \in 1..Len(o.windows) : o.windows[i] \in Win
  BY <1>1, LenProperties
<1>3. \A w : w \in WindowSet(o) <=> \E i \in 1..Len(o.windows) : o.windows[i] = w
  BY <1>2 DEF WindowSet, Range
<1>4. o.windows = <<>> <=> Len(o.windows) = 0
  BY <1>1, EmptySeq
<1>5. IF o.windows = <<>> THEN o.focus = 0 ELSE o.focus \in 1..Len(o.windows)
  BY <1>2 DEF OrbitOK, OrbitWellFormed
<1> QED BY <1>1, <1>2, <1>3, <1>4, <1>5, SMT

\* Position finds a window that is in the list.
LEMMA PositionFound ==
    ASSUME NEW o, OrbitOK(o), NEW win \in WindowSet(o)
    PROVE  /\ Position(o.windows, win) \in 1..Len(o.windows)
           /\ o.windows[Position(o.windows, win)] = win
<1>1. \E i \in DOMAIN o.windows : o.windows[i] = win
  BY OrbitList, Zenon
<1> QED BY <1>1, OrbitList, Zenon DEF Position

\* An orbit whose list has no duplicates and whose other fields are within it.
LEMMA OrbitFromFields ==
    ASSUME NEW r \in OrbitState,
           \A i, j \in 1..Len(r.windows) : r.windows[i] = r.windows[j] => i = j,
           r.focus \in 0..Len(r.windows), (r.focus = 0) <=> (Len(r.windows) = 0),
           r.stowed \subseteq WindowSet(r), r.fullscreen \in WindowSet(r) \cup {NoWin}
    PROVE  OrbitOK(r)
<1>1. r.windows \in Seq(Win)
  BY DEF OrbitState
<1>2. Len(r.windows) \in Nat /\ DOMAIN r.windows = 1..Len(r.windows)
  BY <1>1, LenProperties
<1>3. r.windows = <<>> <=> Len(r.windows) = 0
  BY <1>1, EmptySeq
<1>4. IF r.windows = <<>> THEN r.focus = 0 ELSE r.focus \in 1..Len(r.windows)
  BY <1>2, <1>3, SMT
<1> QED BY <1>2, <1>4 DEF OrbitOK, OrbitWellFormed

\* InsertAfterFocus adds exactly one window and keeps the orbit well formed.
LEMMA InsertKeepsOrbit ==
    ASSUME NEW o, OrbitOK(o), NEW win \in Win, win \notin WindowSet(o)
    PROVE  /\ OrbitOK(InsertAfterFocus(o, win))
           /\ WindowSet(InsertAfterFocus(o, win)) = WindowSet(o) \cup {win}
<1> DEFINE n == Len(o.windows)
           at == Min2(o.focus, Len(o.windows)) + 1
           s == InsertAt(o.windows, at, win)
           r == InsertAfterFocus(o, win)
<1>1. /\ o.windows \in Seq(Win) /\ n \in Nat
      /\ o.focus \in 0..n /\ DOMAIN o.windows = 1..n
      /\ \A w : w \in WindowSet(o) <=> \E i \in 1..n : o.windows[i] = w
  BY OrbitList
<1>2. at \in 1..(n + 1)
  BY <1>1 DEF Min2
<1>3. /\ s \in Seq(Win) /\ Len(s) = n + 1
      /\ \A j \in 1..(n + 1) :
            s[j] = IF j < at THEN o.windows[j] ELSE IF j = at THEN win ELSE o.windows[j - 1]
  <2>1. at \in 1..(Len(o.windows) + 1)
    BY <1>2
  <2> HIDE DEF at
  <2> DEFINE ws == o.windows
  <2>2. ws \in Seq(Win) /\ at \in 1..(Len(ws) + 1)
    BY <1>1, <2>1
  <2> HIDE DEF ws
  <2>3. /\ InsertAt(ws, at, win) \in Seq(Win)
        /\ Len(InsertAt(ws, at, win)) = Len(ws) + 1
        /\ \A j \in 1..(Len(ws) + 1) :
             InsertAt(ws, at, win)[j] =
                IF j < at THEN ws[j] ELSE IF j = at THEN win ELSE ws[j - 1]
    BY <2>2, InsertAtIndexed
  <2> QED BY <2>3 DEF ws
<1>4. /\ r \in OrbitState
      /\ r.windows = s /\ r.focus = at /\ r.stowed = o.stowed /\ r.fullscreen = o.fullscreen
  <2>1. r = [o EXCEPT !.windows = s, !.focus = at]
    BY Zenon DEF InsertAfterFocus
  <2>2. at \in Nat /\ s \in Seq(Win) /\ o \in OrbitState
    BY <1>1, <1>2, <1>3 DEF OrbitOK
  <2> HIDE DEF r, s, at
  <2> QED BY <2>1, <2>2, Zenon DEF OrbitState
<1>5. \A i, j \in 1..n : o.windows[i] = o.windows[j] => i = j
  BY <1>1 DEF OrbitOK, OrbitWellFormed
<1>6. \A i \in 1..n : o.windows[i] # win
  BY <1>1, Zenon
<1> HIDE DEF n, at, s, r
<1>7. \A i, j \in 1..Len(s) : s[i] = s[j] => i = j
  <2> SUFFICES ASSUME NEW i \in 1..(n + 1), NEW j \in 1..(n + 1), i < j
               PROVE  s[i] # s[j]
    BY <1>1, <1>3, SMT
  <2>1. CASE j < at
    BY <2>1, <1>1, <1>2, <1>3, <1>5, SMT
  <2>2. CASE j = at
    BY <2>2, <1>1, <1>2, <1>3, <1>6, SMT
  <2>3. CASE j > at /\ i = at
    <3>1. j - 1 \in 1..n BY <2>3, <1>1, <1>2, SMT
    <3>2. s[i] = win /\ s[j] = o.windows[j - 1] BY <2>3, <1>1, <1>2, <1>3, SMT
    <3> QED BY <3>1, <3>2, <1>6, Zenon
  <2>4. CASE j > at /\ i < at
    <3>1. j - 1 \in 1..n /\ i \in 1..n /\ i # j - 1 BY <2>4, <1>1, <1>2, SMT
    <3>2. s[i] = o.windows[i] /\ s[j] = o.windows[j - 1] BY <2>4, <1>1, <1>2, <1>3, SMT
    <3> QED BY <3>1, <3>2, <1>5, Zenon
  <2>5. CASE j > at /\ i > at
    <3>1. j - 1 \in 1..n /\ i - 1 \in 1..n /\ i - 1 # j - 1 BY <2>5, <1>1, <1>2, SMT
    <3>2. s[i] = o.windows[i - 1] /\ s[j] = o.windows[j - 1] BY <2>5, <1>1, <1>2, <1>3, SMT
    <3> QED BY <3>1, <3>2, <1>5, Zenon
  <2> QED BY <2>1, <2>2, <2>3, <2>4, <2>5, <1>1, <1>2, SMT
<1>8. WindowSet(r) = WindowSet(o) \cup {win}
  <2> DEFINE W == {s[i] : i \in 1..Len(s)}
  <2>0. WindowSet(r) = W
    BY <1>3, <1>4, LenProperties DEF WindowSet, Range
  <2>1. ASSUME NEW w \in W PROVE w \in WindowSet(o) \cup {win}
    <3>1. PICK i \in 1..(n + 1) : w = s[i]
      BY <2>1, <1>3
    <3>2. CASE i = at BY <3>1, <3>2, <1>1, <1>2, <1>3, SMT
    <3>3. CASE i < at
      <4>1. i \in 1..n BY <3>3, <1>1, <1>2, SMT
      <4> QED BY <4>1, <3>1, <3>3, <1>1, <1>3, SMT
    <3>4. CASE i > at
      <4>1. i - 1 \in 1..n /\ ~(i < at) /\ i # at BY <3>4, <1>1, <1>2, SMT
      <4>2. w = o.windows[i - 1] BY <4>1, <3>1, <1>3, Zenon
      <4> QED BY <4>1, <4>2, <1>1, Zenon
    <3> QED BY <3>2, <3>3, <3>4, <1>1, <1>2, SMT
  <2>2. win \in W
    <3>1. at \in 1..Len(s) /\ s[at] = win BY <1>1, <1>2, <1>3, SMT
    <3> QED BY <3>1
  <2>3. ASSUME NEW w \in WindowSet(o) PROVE w \in W
    <3>1. PICK i \in 1..n : o.windows[i] = w BY <1>1, Zenon
    <3>2. CASE i < at
      <4>1. i \in 1..Len(s) /\ s[i] = w BY <3>1, <3>2, <1>1, <1>2, <1>3, SMT
      <4> QED BY <4>1
    <3>3. CASE ~(i < at)
      <4>1. i + 1 \in 1..(n + 1) /\ ~(i + 1 < at) /\ i + 1 # at /\ (i + 1) - 1 = i
        BY <3>3, <1>1, <1>2, SMT
      <4>2. s[i + 1] = o.windows[(i + 1) - 1] BY <4>1, <1>3, Zenon
      <4>3. i + 1 \in 1..Len(s) /\ s[i + 1] = w BY <4>1, <4>2, <3>1, <1>3
      <4> QED BY <4>3
    <3> QED BY <3>2, <3>3
  <2> QED BY <2>0, <2>1, <2>2, <2>3
<1>9. r.stowed \subseteq WindowSet(r) /\ r.fullscreen \in WindowSet(r) \cup {NoWin}
  BY <1>4, <1>8 DEF OrbitOK, OrbitWellFormed
<1>10. at \in 0..Len(s) /\ ((at = 0) <=> (Len(s) = 0))
  BY <1>1, <1>2, <1>3, SMT
<1>11. OrbitOK(r)
  BY <1>4, <1>7, <1>9, <1>10, OrbitFromFields
<1> QED BY <1>8, <1>11 DEF r

\* Taking a window out of an orbit and reseating the focus anywhere removes
\* exactly that window and keeps the orbit well formed.
LEMMA RemoveKeepsOrbit ==
    ASSUME NEW o, OrbitOK(o), NEW win \in WindowSet(o), NEW hint \in Nat
    PROVE  /\ OrbitOK(reseat_focus(RemoveWindow(o, win), hint))
           /\ WindowSet(reseat_focus(RemoveWindow(o, win), hint)) = WindowSet(o) \ {win}
<1> DEFINE n == Len(o.windows)
           at == Position(o.windows, win)
           s == RemoveAt(o.windows, at)
           r == reseat_focus(RemoveWindow(o, win), hint)
           f == IF s = <<>> THEN 0 ELSE Min2(hint, Len(s) - 1) + 1
           full == IF o.fullscreen = win THEN NoWin ELSE o.fullscreen
<1>1. /\ o.windows \in Seq(Win) /\ n \in Nat
      /\ DOMAIN o.windows = 1..n
      /\ \A w : w \in WindowSet(o) <=> \E i \in 1..n : o.windows[i] = w
  BY OrbitList
<1>2. at \in 1..n /\ o.windows[at] = win
  BY PositionFound
<1>3. /\ s \in Seq(Win) /\ Len(s) = n - 1
      /\ \A j \in 1..(n - 1) : s[j] = IF j < at THEN o.windows[j] ELSE o.windows[j + 1]
  BY <1>1, <1>2, RemoveAtIndexed, Zenon
<1>4. /\ r \in OrbitState
      /\ r.windows = s /\ r.focus = f /\ r.stowed = o.stowed \ {win} /\ r.fullscreen = full
  <2> DEFINE q == RemoveWindow(o, win)
  <2>1. /\ q \in OrbitState
        /\ q.windows = s /\ q.stowed = o.stowed \ {win} /\ q.fullscreen = full
    BY <1>3, Zenon DEF OrbitOK, OrbitState, RemoveWindow
  <2> HIDE DEF q, s, full
  <2>2. f \in Nat
    BY <1>1, <1>2, <1>3, EmptySeq DEF Min2
  <2>3. r = [q EXCEPT !.focus = f]
    BY <2>1 DEF reseat_focus, q
  <2> HIDE DEF r, f
  <2> QED BY <2>1, <2>2, <2>3 DEF OrbitState
<1>5. \A i, j \in 1..n : o.windows[i] = o.windows[j] => i = j
  BY <1>1 DEF OrbitOK, OrbitWellFormed
<1>6. f \in 0..Len(s) /\ ((f = 0) <=> (Len(s) = 0))
  <2>1. s = <<>> <=> Len(s) = 0 BY <1>3, EmptySeq, Zenon
  <2> HIDE DEF s
  <2> QED BY <2>1, <1>1, <1>2, <1>3 DEF Min2
<1> HIDE DEF n, at, s, r, f
<1>7. \A i, j \in 1..Len(s) : s[i] = s[j] => i = j
  BY <1>1, <1>2, <1>3, <1>5, SMT
<1>8. WindowSet(r) = WindowSet(o) \ {win}
  <2> DEFINE W == {s[i] : i \in 1..Len(s)}
  <2>0. WindowSet(r) = W
    BY <1>3, <1>4, LenProperties DEF WindowSet, Range
  <2>1. ASSUME NEW w \in W PROVE w \in WindowSet(o) \ {win}
    <3>1. PICK i \in 1..(n - 1) : w = s[i]
      BY <2>1, <1>3
    <3>2. CASE i < at
      <4>1. i \in 1..n /\ i # at /\ w = o.windows[i] BY <3>1, <3>2, <1>1, <1>2, <1>3, SMT
      <4> QED BY <4>1, <1>1, <1>2, <1>5, Zenon
    <3>3. CASE ~(i < at)
      <4>1. i + 1 \in 1..n /\ i + 1 # at BY <3>3, <1>1, <1>2, SMT
      <4>2. w = o.windows[i + 1] BY <3>1, <3>3, <1>3, Zenon
      <4> QED BY <4>1, <4>2, <1>1, <1>2, <1>5, Zenon
    <3> QED BY <3>2, <3>3
  <2>2. ASSUME NEW w \in WindowSet(o) \ {win} PROVE w \in W
    <3>1. PICK i \in 1..n : o.windows[i] = w BY <1>1, Zenon
    <3>2. i # at BY <3>1, <1>2, Zenon
    <3>3. CASE i < at
      <4>1. i \in 1..Len(s) /\ s[i] = w BY <3>1, <3>3, <1>1, <1>2, <1>3, SMT
      <4> QED BY <4>1
    <3>4. CASE ~(i < at)
      <4>1. i - 1 \in 1..(n - 1) /\ ~(i - 1 < at) /\ (i - 1) + 1 = i
        BY <3>2, <3>4, <1>1, <1>2, SMT
      <4>2. s[i - 1] = o.windows[(i - 1) + 1] BY <4>1, <1>3, Zenon
      <4>3. i - 1 \in 1..Len(s) /\ s[i - 1] = w BY <4>1, <4>2, <3>1, <1>3
      <4> QED BY <4>3
    <3> QED BY <3>3, <3>4
  <2> QED BY <2>0, <2>1, <2>2
<1>9. r.stowed \subseteq WindowSet(r) /\ r.fullscreen \in WindowSet(r) \cup {NoWin}
  BY <1>4, <1>8 DEF OrbitOK, OrbitWellFormed
<1>10. OrbitOK(r)
  BY <1>4, <1>6, <1>7, <1>9, OrbitFromFields
<1> QED BY <1>8, <1>10 DEF r

\* Moving the focus inside the list, and the edits of the other fields that
\* stay within it, keep the orbit well formed and its windows.
LEMMA FocusKeepsOrbit ==
    ASSUME NEW o, OrbitOK(o), NEW f \in 1..Len(o.windows)
    PROVE  /\ OrbitOK([o EXCEPT !.focus = f])
           /\ WindowSet([o EXCEPT !.focus = f]) = WindowSet(o)
<1> DEFINE r == [o EXCEPT !.focus = f]
<1>1. Len(o.windows) \in Nat /\ DOMAIN o.windows = 1..Len(o.windows)
  BY OrbitList
<1>2. /\ r \in OrbitState /\ r.focus = f
      /\ r.windows = o.windows /\ r.stowed = o.stowed /\ r.fullscreen = o.fullscreen
  BY <1>1 DEF OrbitOK, OrbitState
<1> HIDE DEF r
<1>3. WindowSet(r) = WindowSet(o)
  BY <1>2 DEF WindowSet
<1>4. OrbitOK(r)
  <2>1. \A i, j \in 1..Len(r.windows) : r.windows[i] = r.windows[j] => i = j
    BY <1>1, <1>2 DEF OrbitOK, OrbitWellFormed
  <2>2. r.focus \in 0..Len(r.windows) /\ (r.focus = 0 <=> Len(r.windows) = 0)
    BY <1>1, <1>2
  <2>3. r.stowed \subseteq WindowSet(r) /\ r.fullscreen \in WindowSet(r) \cup {NoWin}
    BY <1>2, <1>3 DEF OrbitOK, OrbitWellFormed
  <2> QED BY <1>2, <2>1, <2>2, <2>3, OrbitFromFields
<1> QED BY <1>3, <1>4 DEF r

\* Stowing windows of the orbit (toggle_stow) keeps it well formed.
LEMMA StowKeepsOrbit ==
    ASSUME NEW o, OrbitOK(o), NEW st \in SUBSET WindowSet(o)
    PROVE  /\ OrbitOK([o EXCEPT !.stowed = st])
           /\ WindowSet([o EXCEPT !.stowed = st]) = WindowSet(o)
<1> DEFINE r == [o EXCEPT !.stowed = st]
<1>1. WindowSet(o) \subseteq Win
  BY OrbitList
<1>2. /\ r \in OrbitState /\ r.stowed = st
      /\ r.windows = o.windows /\ r.focus = o.focus /\ r.fullscreen = o.fullscreen
  BY <1>1 DEF OrbitOK, OrbitState
<1> HIDE DEF r
<1>3. WindowSet(r) = WindowSet(o)
  BY <1>2 DEF WindowSet
<1>4. OrbitOK(r)
  BY <1>2, <1>3 DEF OrbitOK, OrbitWellFormed
<1> QED BY <1>3, <1>4 DEF r

\* A fullscreen window of the orbit, or none (toggle_fullscreen), keeps it well formed.
LEMMA FullscreenKeepsOrbit ==
    ASSUME NEW o, OrbitOK(o), NEW full \in WindowSet(o) \cup {NoWin}
    PROVE  /\ OrbitOK([o EXCEPT !.fullscreen = full])
           /\ WindowSet([o EXCEPT !.fullscreen = full]) = WindowSet(o)
<1> DEFINE r == [o EXCEPT !.fullscreen = full]
<1>1. WindowSet(o) \subseteq Win
  BY OrbitList
<1>2. /\ r \in OrbitState /\ r.fullscreen = full
      /\ r.windows = o.windows /\ r.focus = o.focus /\ r.stowed = o.stowed
  BY <1>1 DEF OrbitOK, OrbitState
<1> HIDE DEF r
<1>3. WindowSet(r) = WindowSet(o)
  BY <1>2 DEF WindowSet
<1>4. OrbitOK(r)
  BY <1>2, <1>3 DEF OrbitOK, OrbitWellFormed
<1> QED BY <1>3, <1>4 DEF r

\* Another layout (set_layout) keeps the orbit well formed.
LEMMA LayoutKeepsOrbit ==
    ASSUME NEW o, OrbitOK(o), NEW lay \in Layouts
    PROVE  /\ OrbitOK([o EXCEPT !.layout = lay])
           /\ WindowSet([o EXCEPT !.layout = lay]) = WindowSet(o)
<1> DEFINE r == [o EXCEPT !.layout = lay]
<1>1. /\ r \in OrbitState /\ r.fullscreen = o.fullscreen
      /\ r.windows = o.windows /\ r.focus = o.focus /\ r.stowed = o.stowed
  BY DEF OrbitOK, OrbitState
<1> HIDE DEF r
<1>2. WindowSet(r) = WindowSet(o)
  BY <1>1 DEF WindowSet
<1>3. OrbitOK(r)
  BY <1>1, <1>2 DEF OrbitOK, OrbitWellFormed
<1> QED BY <1>2, <1>3 DEF r

\* The wrapped neighbour of an index is an index.
LEMMA NeighbourInRange ==
    ASSUME NEW n \in Nat, n >= 2, NEW cur \in 1..n, NEW dir
    PROVE  Neighbour(cur, dir, n) \in 1..n
<1>1. cur % n \in 0..(n - 1) /\ (cur + n - 2) % n \in 0..(n - 1)
  OBVIOUS
<1> QED BY <1>1 DEF Neighbour

\* Exchanging two windows of the list permutes it.
LEMMA SwapKeepsOrbit ==
    ASSUME NEW o, OrbitOK(o), NEW c \in 1..Len(o.windows), NEW t \in 1..Len(o.windows)
    PROVE  LET r == [o EXCEPT !.windows = [o.windows EXCEPT ![c] = o.windows[t],
                                                            ![t] = o.windows[c]],
                              !.focus = t]
           IN  OrbitOK(r) /\ WindowSet(r) = WindowSet(o)
<1> DEFINE ws == o.windows
           n == Len(ws)
           s == [ws EXCEPT ![c] = ws[t], ![t] = ws[c]]
           r == [o EXCEPT !.windows = s, !.focus = t]
<1>1. /\ ws \in Seq(Win) /\ n \in Nat /\ DOMAIN ws = 1..n
      /\ \A i \in 1..n : ws[i] \in Win
      /\ \A i, j \in 1..n : ws[i] = ws[j] => i = j
      /\ \A w : w \in WindowSet(o) <=> \E i \in 1..n : ws[i] = w
  BY OrbitList DEF OrbitOK, OrbitWellFormed
<1>2. c \in 1..n /\ t \in 1..n
  OBVIOUS
<1> HIDE DEF ws, n
<1>3. /\ s \in Seq(Win) /\ Len(s) = n
  <2>1. [ws EXCEPT ![c] = ws[t]] \in Seq(Win) /\ Len([ws EXCEPT ![c] = ws[t]]) = n
    BY <1>1, <1>2, ExceptSeq DEF n
  <2> QED BY <1>1, <1>2, <2>1, ExceptSeq
<1>4. \A i \in 1..n : s[i] = IF i = t THEN ws[c] ELSE IF i = c THEN ws[t] ELSE ws[i]
  BY <1>1, <1>2
<1> HIDE DEF s
<1>5. /\ r \in OrbitState /\ r.windows = s /\ r.focus = t
      /\ r.stowed = o.stowed /\ r.fullscreen = o.fullscreen
  <2>1. t \in Nat /\ s \in Seq(Win) /\ o \in OrbitState
    BY <1>1, <1>2, <1>3 DEF OrbitOK
  <2> QED BY <2>1, Zenon DEF OrbitState
<1> HIDE DEF r
<1>6. \A i, j \in 1..n : s[i] = s[j] => i = j
  BY <1>1, <1>2, <1>4
<1>7. WindowSet(r) = WindowSet(o)
  <2>1. DOMAIN s = 1..n
    BY <1>3, LenProperties
  <2>2. WindowSet(r) = {s[i] : i \in 1..n}
    BY <2>1, <1>5 DEF WindowSet, Range
  <2>3. ASSUME NEW w \in WindowSet(o) PROVE \E i \in 1..n : s[i] = w
    <3>1. PICK k \in 1..n : ws[k] = w BY <1>1, Zenon
    <3>2. CASE k = c BY <3>1, <3>2, <1>2, <1>4, Zenon
    <3>3. CASE k = t
      <4>1. s[c] = ws[t] BY <1>2, <1>4, Zenon
      <4> QED BY <4>1, <3>1, <3>3, <1>2
    <3>4. CASE k # c /\ k # t BY <3>1, <3>4, <1>4, Zenon
    <3> QED BY <3>2, <3>3, <3>4
  <2>4. ASSUME NEW i \in 1..n PROVE s[i] \in WindowSet(o)
    BY <1>1, <1>2, <1>4, Zenon
  <2> QED BY <2>2, <2>3, <2>4, Zenon
<1>8. OrbitOK(r)
  <2>1. t \in 0..Len(r.windows) /\ (t = 0 <=> Len(r.windows) = 0)
    BY <1>1, <1>2, <1>3, <1>5
  <2>2. r.stowed \subseteq WindowSet(r) /\ r.fullscreen \in WindowSet(r) \cup {NoWin}
    BY <1>5, <1>7 DEF OrbitOK, OrbitWellFormed
  <2>3. \A i, j \in 1..Len(r.windows) : r.windows[i] = r.windows[j] => i = j
    BY <1>3, <1>5, <1>6
  <2> QED BY <1>5, <2>1, <2>2, <2>3, OrbitFromFields
<1> QED BY <1>7, <1>8 DEF r, s, ws

-----------------------------------------------------------------------------
(* The whole ledger.  Stacked(S, L) says that S may be a snapshot on one   *)
(* of L's stacks; LedgerOK is the inductive invariant: the three safety    *)
(* invariants together with the type.                                      *)

Stacked(S, L) == WellFormed(S) /\ AllWindows(S) = AllWindows(L)

StackOK(stack, L) ==
    /\ stack \in Seq(Snapshot)
    /\ \A i \in 1..Len(stack) : Stacked(stack[i], L)

LedgerOK(L) ==
    /\ L \in Ledger
    /\ WellFormed(L)
    /\ StackOK(L.history, L) /\ StackOK(L.redo, L)
    /\ Len(L.history) + Len(L.redo) <= HistoryDepth

\* LedgerOK of the variable is what the runs check, with the type.
LEMMA LedgerOKIsTheInvariants ==
    LedgerOK(ledger) <=>
        TypeOK /\ LedgerConsistent /\ SnapshotsAgreeOnWindows /\ HistoryBounded
<1>1. TypeOK => /\ ledger.history \in Seq(Snapshot) /\ ledger.redo \in Seq(Snapshot)
  BY DEF TypeOK, Ledger
<1>2. TypeOK => /\ DOMAIN ledger.history = 1..Len(ledger.history)
                /\ DOMAIN ledger.redo = 1..Len(ledger.redo)
  BY <1>1, LenProperties
<1>3. LedgerOK(ledger) => TypeOK
  BY DEF LedgerOK, TypeOK
<1> QED BY <1>1, <1>2, <1>3, Zenon
        DEF LedgerOK, TypeOK, LedgerConsistent, SnapshotsAgreeOnWindows,
            HistoryBounded, StackOK, Stacked

\* Every orbit of a good ledger is a good orbit.
LEMMA OrbitsOK ==
    ASSUME NEW L, LedgerOK(L)
    PROVE  /\ L.active \in OrbitId
           /\ L.orbits \in [OrbitId -> OrbitState]
           /\ \A o \in OrbitId : OrbitOK(L.orbits[o])
BY DEF LedgerOK, Ledger, WellFormed, OrbitOK

\* SnapshotOf has the type, the orbits and the windows of its ledger.
LEMMA SnapshotOfOK ==
    ASSUME NEW L, LedgerOK(L)
    PROVE  SnapshotOf(L) \in Snapshot /\ Stacked(SnapshotOf(L), L)
<1>1. SnapshotOf(L) \in Snapshot
  BY OrbitsOK DEF SnapshotOf, Snapshot
<1>2. SnapshotOf(L).orbits = L.orbits
  BY DEF SnapshotOf
<1> QED BY <1>1, <1>2, Zenon DEF Stacked, WellFormed, AllWindows, LedgerOK

\* A ledger whose orbits are good and hold the windows of L's, orbit by
\* orbit, is well formed over the same windows.
LEMMA SameWindowsOK ==
    ASSUME NEW L, LedgerOK(L), NEW M,
           \A o \in OrbitId : OrbitOK(M.orbits[o]) /\ WindowSet(M.orbits[o]) = WindowSet(L.orbits[o])
    PROVE  WellFormed(M) /\ AllWindows(M) = AllWindows(L)
<1>1. WellFormed(M)
  BY Zenon DEF WellFormed, OrbitOK, LedgerOK
<1>2. AllWindows(M) = AllWindows(L)
  BY DEF AllWindows
<1> QED BY <1>1, <1>2

\* Pushing a good snapshot and taking one off keep a stack good.
LEMMA PushStack ==
    ASSUME NEW L, NEW stack, StackOK(stack, L), NEW S \in Snapshot, Stacked(S, L)
    PROVE  /\ StackOK(Append(stack, S), L)
           /\ Len(Append(stack, S)) = Len(stack) + 1
           /\ Last(Append(stack, S)) = S
           /\ Append(stack, S) # <<>>
<1>1. stack \in Seq(Snapshot) /\ Len(stack) \in Nat
  BY LenProperties DEF StackOK
<1>2. /\ Append(stack, S) \in Seq(Snapshot)
      /\ Append(stack, S) # <<>>
      /\ Len(Append(stack, S)) = Len(stack) + 1
      /\ \A i \in 1..Len(stack) : Append(stack, S)[i] = stack[i]
      /\ Append(stack, S)[Len(stack) + 1] = S
  BY <1>1, AppendProperties
<1> DEFINE pushed == Append(stack, S)
<1> HIDE DEF pushed
<1>3. ASSUME NEW i \in 1..(Len(stack) + 1) PROVE Stacked(pushed[i], L)
  <2>1. CASE i = Len(stack) + 1 BY <2>1, <1>2 DEF pushed
  <2>2. CASE i # Len(stack) + 1
    <3>1. i \in 1..Len(stack) BY <2>2, <1>1
    <3> QED BY <3>1, <1>2 DEF pushed, StackOK
  <2> QED BY <2>1, <2>2
<1> QED BY <1>2, <1>3 DEF StackOK, Last, pushed

\* The empty stack is good for any set of windows.
LEMMA EmptyStack ==
    ASSUME NEW L
    PROVE  StackOK(<<>>, L) /\ Len(<<>>) = 0
BY EmptySeq DEF StackOK

\* Taking the newest snapshot off a good stack leaves a good one.
LEMMA FrontStack ==
    ASSUME NEW L, NEW stack, StackOK(stack, L), stack # <<>>
    PROVE  /\ StackOK(Front(stack), L) /\ Len(Front(stack)) = Len(stack) - 1
           /\ Last(stack) \in Snapshot /\ Stacked(Last(stack), L)
<1>1. /\ stack \in Seq(Snapshot) /\ Len(stack) \in Nat \ {0}
      /\ \A i \in 1..Len(stack) : stack[i] \in Snapshot
  BY LenProperties, EmptySeq DEF StackOK
<1>2. /\ Front(stack) \in Seq(Snapshot)
      /\ Len(Front(stack)) = Len(stack) - 1
      /\ \A i \in 1..(Len(stack) - 1) : Front(stack)[i] = stack[i]
  <2>1. \A i \in 1..(Len(stack) - 1) : stack[i] \in Snapshot BY <1>1
  <2>2. 1 \in Int /\ Len(stack) - 1 \in Int BY <1>1
  <2> DEFINE n == Len(stack) - 1
             f == SubSeq(stack, 1, n)
  <2>3. /\ f \in Seq(Snapshot)
        /\ Len(f) = IF 1 <= n THEN n - 1 + 1 ELSE 0
        /\ \A i \in 1..(n - 1 + 1) : f[i] = stack[1 + i - 1]
    <3>1. 1 \in Int /\ n \in Int /\ \A i \in 1..n : stack[i] \in Snapshot
      BY <2>1, <2>2
    <3> HIDE DEF n
    <3> QED BY <3>1, SubSeqProperties
  <2>4. n \in Nat BY <1>1
  <2> HIDE DEF f, n
  <2>5. Len(f) = n /\ \A i \in 1..n : f[i] = stack[i]
    BY <2>3, <2>4
  <2> QED BY <2>3, <2>5 DEF Front, f, n
<1> QED BY <1>1, <1>2 DEF StackOK, Last

\* Dropping the oldest snapshot, as checkpoint does at HISTORY_DEPTH, leaves a good one.
LEMMA TailStack ==
    ASSUME NEW L, NEW stack, StackOK(stack, L), stack # <<>>
    PROVE  /\ StackOK(Tail(stack), L) /\ Len(Tail(stack)) = Len(stack) - 1
           /\ Len(stack) > 1 => Last(Tail(stack)) = Last(stack) /\ Tail(stack) # <<>>
<1>1. stack \in Seq(Snapshot) /\ Len(stack) \in Nat \ {0}
  BY EmptySeq DEF StackOK
<1>2. /\ Tail(stack) \in Seq(Snapshot)
      /\ Len(Tail(stack)) = Len(stack) - 1
      /\ \A i \in 1..Len(Tail(stack)) : Tail(stack)[i] = stack[i + 1]
  BY <1>1, HeadTailProperties
<1> DEFINE t == Tail(stack)
<1> HIDE DEF t
<1>3. \A i \in 1..(Len(stack) - 1) : t[i] = stack[i + 1] /\ Len(t) = Len(stack) - 1
  BY <1>2 DEF t
<1>4. \A i \in 1..(Len(stack) - 1) : Stacked(t[i], L)
  BY <1>1, <1>3 DEF StackOK
<1>5. ASSUME Len(stack) > 1 PROVE t[Len(t)] = stack[Len(stack)] /\ t # <<>>
  <2>1. Len(t) = Len(stack) - 1 BY <1>2 DEF t
  <2>2. Len(t) \in 1..(Len(stack) - 1) /\ Len(t) + 1 = Len(stack) BY <1>1, <1>5, <2>1
  <2>3. t[Len(t)] = stack[Len(t) + 1] BY <2>2, <1>3, Zenon
  <2>4. t # <<>> BY <2>2
  <2> QED BY <2>2, <2>3, <2>4
<1> QED BY <1>2, <1>4, <1>5 DEF StackOK, Last, t

\* A checkpoint leaves the orbits alone, keeps the stack good and within its
\* bound, and has the ledger's own snapshot on top.
LEMMA CheckpointOK ==
    ASSUME NEW L, LedgerOK(L)
    PROVE  /\ checkpoint(L) \in Ledger
           /\ checkpoint(L).orbits = L.orbits /\ checkpoint(L).active = L.active
           /\ StackOK(checkpoint(L).history, L)
           /\ Len(checkpoint(L).history) <= HistoryDepth
           /\ checkpoint(L).history # <<>>
           /\ Last(checkpoint(L).history) = SnapshotOf(L)
           /\ checkpoint(L).redo = <<>>
<1> DEFINE pushed == Append(L.history, SnapshotOf(L))
           h == IF Len(pushed) > HistoryDepth THEN Tail(pushed) ELSE pushed
<1>1. /\ StackOK(pushed, L) /\ Len(pushed) = Len(L.history) + 1
      /\ Last(pushed) = SnapshotOf(L) /\ pushed # <<>>
  BY PushStack, SnapshotOfOK, ZenonT(30) DEF LedgerOK
<1>2. /\ Len(L.history) \in Nat /\ Len(L.history) <= HistoryDepth /\ HistoryDepth \in Nat \ {0}
  <2>1. Len(L.history) \in Nat /\ Len(L.redo) \in Nat
    BY LenProperties DEF LedgerOK, StackOK
  <2>2. Len(L.history) + Len(L.redo) <= HistoryDepth
    BY Zenon DEF LedgerOK
  <2>3. HistoryDepth \in Nat \ {0}
    BY LedgerAssumption
  <2>4. \A a, b, c \in Nat : a + b <= c => a <= c
    OBVIOUS
  <2> QED BY <2>1, <2>2, <2>3, <2>4, Zenon
<1>3. checkpoint(L) = [L EXCEPT !.history = h, !.redo = <<>>]
  BY Zenon DEF checkpoint
<1> HIDE DEF pushed
<1>4. StackOK(h, L) /\ Len(h) <= HistoryDepth /\ Last(h) = SnapshotOf(L) /\ h # <<>>
  <2>1. CASE Len(pushed) > HistoryDepth
    <3>1. Len(pushed) > 1 /\ Len(pushed) - 1 <= HistoryDepth /\ h = Tail(pushed)
      BY <2>1, <1>1, <1>2
    <3>2. /\ StackOK(Tail(pushed), L) /\ Len(Tail(pushed)) = Len(pushed) - 1
          /\ Last(Tail(pushed)) = Last(pushed) /\ Tail(pushed) # <<>>
      BY <3>1, <1>1, TailStack, Zenon
    <3> QED BY <3>1, <3>2, <1>1
  <2>2. CASE ~(Len(pushed) > HistoryDepth)
    BY <2>2, <1>1, <1>2
  <2> QED BY <2>1, <2>2
<1> HIDE DEF h
<1>5. h \in Seq(Snapshot) /\ <<>> \in Seq(Snapshot) /\ L \in Ledger
  BY <1>4, EmptySeq DEF StackOK, LedgerOK
<1> QED BY <1>3, <1>4, <1>5, Zenon DEF Ledger

\* Whatever a desired mutation does to the orbits after its checkpoint, if the
\* result is well formed over the same windows then the ledger stays good and
\* undo gives back the snapshot from before.
LEMMA DesiredEditOK ==
    ASSUME NEW L, LedgerOK(L), NEW M \in Ledger,
           M.history = checkpoint(L).history, M.redo = checkpoint(L).redo,
           WellFormed(M), AllWindows(M) = AllWindows(L)
    PROVE  /\ LedgerOK(M) /\ AllWindows(M) = AllWindows(L)
           /\ SnapshotOf(undo(M)) = SnapshotOf(L)
<1>1. /\ StackOK(M.history, M) /\ Len(M.history) <= HistoryDepth
      /\ Last(M.history) = SnapshotOf(L) /\ M.history # <<>> /\ M.redo = <<>>
  BY CheckpointOK DEF StackOK, Stacked
<1>2. StackOK(M.redo, M) /\ Len(M.redo) = 0
  BY <1>1, EmptySeq DEF StackOK
<1>3. Len(M.history) \in Nat
  BY <1>1, LenProperties DEF StackOK
<1>4. LedgerOK(M)
  BY <1>1, <1>2, <1>3, LedgerAssumption DEF LedgerOK
<1>5. undo(M).orbits = SnapshotOf(L).orbits /\ undo(M).active = SnapshotOf(L).active
  BY <1>1 DEF undo
<1> QED BY <1>4, <1>5 DEF SnapshotOf

\* Replacing the active orbit after a checkpoint is such an edit.
LEMMA WithActiveOK ==
    ASSUME NEW L, LedgerOK(L), NEW q, OrbitOK(q),
           WindowSet(q) = WindowSet(active_orbit(L))
    PROVE  LET M == WithActive(checkpoint(L), q)
           IN  /\ LedgerOK(M) /\ AllWindows(M) = AllWindows(L)
               /\ SnapshotOf(undo(M)) = SnapshotOf(L)
<1> DEFINE C == checkpoint(L)
           M == WithActive(C, q)
           p == L.active
           f == [L.orbits EXCEPT ![p] = q]
<1>1. C \in Ledger /\ C.orbits = L.orbits /\ C.active = L.active /\ p \in OrbitId
  BY CheckpointOK, OrbitsOK
<1>2. f \in [OrbitId -> OrbitState]
  BY OrbitsOK DEF OrbitOK
<1> HIDE DEF C
<1>3. M.orbits = f
  BY <1>1 DEF WithActive, Ledger
<1>4. /\ M \in Ledger /\ M.history = C.history /\ M.redo = C.redo
  <2>1. M = [C EXCEPT !.orbits = f]
    BY <1>1 DEF WithActive, Ledger
  <2> HIDE DEF f, M
  <2> QED BY <2>1, <1>1, <1>2 DEF Ledger
<1> HIDE DEF M
<1>5. WellFormed(M) /\ AllWindows(M) = AllWindows(L)
  <2>1. \A o \in OrbitId : M.orbits[o] = IF o = p THEN q ELSE L.orbits[o]
    BY <1>3, OrbitsOK
  <2>2. \A o \in OrbitId : /\ OrbitOK(M.orbits[o])
                           /\ WindowSet(M.orbits[o]) = WindowSet(L.orbits[o])
    BY <2>1, OrbitsOK DEF active_orbit
  <2> QED BY <2>2, SameWindowsOK, Zenon
<1>6. /\ LedgerOK(M) /\ AllWindows(M) = AllWindows(L)
      /\ SnapshotOf(undo(M)) = SnapshotOf(L)
  BY <1>4, <1>5, DesiredEditOK DEF C
<1> QED BY <1>6 DEF M, C

-----------------------------------------------------------------------------
(* The methods, one lemma each.                                            *)

EditOK(L, M) ==
    /\ LedgerOK(M) /\ AllWindows(M) = AllWindows(L)
    /\ M # L => SnapshotOf(undo(M)) = SnapshotOf(L)

\* A focused window is in the active orbit, at its focus.
LEMMA FocusedOK ==
    ASSUME NEW o, OrbitOK(o), focused(o) # NoWin
    PROVE  focused(o) \in WindowSet(o) /\ o.focus \in 1..Len(o.windows)
<1>1. DOMAIN o.windows = 1..Len(o.windows)
  BY OrbitList
<1> QED BY <1>1 DEF focused, WindowSet, Range

\* orbit_of finds the orbit of a window that exists.
LEMMA OrbitOfOK ==
    ASSUME NEW L, NEW win \in AllWindows(L)
    PROVE  orbit_of(L, win) \in OrbitId /\ win \in WindowSet(L.orbits[orbit_of(L, win)])
<1>1. \E o \in OrbitId : win \in WindowSet(L.orbits[o])
  BY DEF AllWindows
<1> QED BY <1>1, Zenon DEF orbit_of

\* focus_window is a desired edit: good ledger, same windows, exact undo.
LEMMA FocusWindowOK ==
    ASSUME NEW L, LedgerOK(L), NEW win \in Win
    PROVE  EditOK(L, focus_window(L, win))
<1>1. CASE win \notin AllWindows(L)
  BY <1>1 DEF focus_window, EditOK
<1>2. CASE win \in AllWindows(L)
  <2> DEFINE p == orbit_of(L, win)
             o == L.orbits[p]
             f == Position(o.windows, win)
             q == [o EXCEPT !.focus = f]
             C == checkpoint(L)
             M == focus_window(L, win)
  <2>1. p \in OrbitId /\ win \in WindowSet(o)
    BY <1>2, OrbitOfOK
  <2>2. OrbitOK(o)
    BY <2>1, OrbitsOK
  <2>3. OrbitOK(q) /\ WindowSet(q) = WindowSet(o)
    BY <2>1, <2>2, PositionFound, FocusKeepsOrbit
  <2>4. C \in Ledger /\ C.orbits = L.orbits
    BY CheckpointOK
  <2>5. M = [C EXCEPT !.active = p, !.orbits[p].focus = f]
    BY <1>2, Zenon DEF focus_window
  <2>6. L.orbits \in [OrbitId -> OrbitState]
    BY OrbitsOK
  <2> HIDE DEF C, M, p, f
  <2>7. M.orbits = [L.orbits EXCEPT ![p] = q]
    BY <2>1, <2>4, <2>5, SMTT(30) DEF Ledger
  <2>8. M.orbits \in [OrbitId -> OrbitState] /\ WellFormed(M) /\ AllWindows(M) = AllWindows(L)
    <3>1. /\ M.orbits \in [OrbitId -> OrbitState]
          /\ \A r \in OrbitId : M.orbits[r] = IF r = p THEN q ELSE L.orbits[r]
      <4> HIDE DEF q
      <4> QED BY <2>1, <2>3, <2>6, <2>7 DEF OrbitOK
    <3>2. \A r \in OrbitId : /\ OrbitOK(M.orbits[r])
                             /\ WindowSet(M.orbits[r]) = WindowSet(L.orbits[r])
      <4> HIDE DEF q
      <4> QED BY <2>3, <3>1, OrbitsOK
    <3> QED BY <3>1, <3>2, SameWindowsOK, Zenon
  <2>9. M \in Ledger /\ M.history = C.history /\ M.redo = C.redo
    <3>1. M = [C EXCEPT !.active = p, !.orbits = M.orbits]
      BY <2>1, <2>4, <2>5 DEF Ledger
    <3> QED BY <3>1, <2>1, <2>4, <2>8, Zenon DEF Ledger
  <2> QED BY <2>8, <2>9, DesiredEditOK DEF EditOK, M, C
<1> QED BY <1>1, <1>2

\* focus_step is a desired edit.
LEMMA FocusStepOK ==
    ASSUME NEW L, LedgerOK(L), NEW dir \in Dir
    PROVE  EditOK(L, focus_step(L, dir))
<1> DEFINE o == active_orbit(L)
           n == Len(o.windows)
           cur == IF o.focus = 0 THEN 1 ELSE o.focus
           f == Neighbour(cur, dir, n)
           q == [o EXCEPT !.focus = f]
<1>1. OrbitOK(o)
  BY OrbitsOK DEF active_orbit
<1>2. CASE n < 2
  BY <1>2 DEF focus_step, EditOK
<1>3. CASE ~(n < 2)
  <2>1. n \in Nat /\ o.focus \in 0..n
    BY <1>1, OrbitList
  <2>2. n >= 2 /\ cur \in 1..n
    BY <1>3, <2>1
  <2>3. f \in 1..n
    <3> HIDE DEF cur, n
    <3> QED BY <2>1, <2>2, NeighbourInRange
  <2>4. OrbitOK(q) /\ WindowSet(q) = WindowSet(o)
    <3> HIDE DEF f, o
    <3> QED BY <1>1, <2>3, FocusKeepsOrbit
  <2>5. focus_step(L, dir) = WithActive(checkpoint(L), q)
    BY <1>3, Zenon DEF focus_step
  <2> HIDE DEF q
  <2> QED BY <2>4, <2>5, WithActiveOK DEF EditOK
<1> QED BY <1>2, <1>3

\* swap is a desired edit: good ledger, same windows, exact undo.
LEMMA SwapOK ==
    ASSUME NEW L, LedgerOK(L), NEW dir \in Dir
    PROVE  EditOK(L, swap(L, dir))
<1> DEFINE o == active_orbit(L)
           n == Len(o.windows)
           t == Neighbour(o.focus, dir, n)
           q == [o EXCEPT !.windows = [o.windows EXCEPT ![o.focus] = o.windows[t],
                                                        ![t] = o.windows[o.focus]],
                          !.focus = t]
<1>1. OrbitOK(o)
  BY OrbitsOK DEF active_orbit
<1>2. CASE o.focus = 0 \/ n < 2
  BY <1>2 DEF swap, EditOK
<1>3. CASE ~(o.focus = 0 \/ n < 2)
  <2>1. n \in Nat /\ o.focus \in 0..n
    BY <1>1, OrbitList
  <2>2. n >= 2 /\ o.focus \in 1..n
    BY <1>3, <2>1
  <2>3. t \in 1..n
    <3> HIDE DEF n
    <3> QED BY <2>1, <2>2, NeighbourInRange
  <2>4. OrbitOK(q) /\ WindowSet(q) = WindowSet(o)
    <3> HIDE DEF t, o
    <3> QED BY <1>1, <2>2, <2>3, SwapKeepsOrbit, Zenon
  <2>5. swap(L, dir) = WithActive(checkpoint(L), q)
    BY <1>3, Zenon DEF swap
  <2> HIDE DEF q
  <2> QED BY <2>4, <2>5, WithActiveOK DEF EditOK
<1> QED BY <1>2, <1>3

\* toggle_stow and toggle_fullscreen are desired edits.
LEMMA ToggleOK ==
    ASSUME NEW L, LedgerOK(L)
    PROVE  EditOK(L, toggle_stow(L)) /\ EditOK(L, toggle_fullscreen(L))
<1> DEFINE o == active_orbit(L)
           win == LedgerFocus(L)
           st == IF win \in o.stowed THEN o.stowed \ {win} ELSE o.stowed \cup {win}
           full == IF o.fullscreen = win THEN NoWin ELSE win
           q == [o EXCEPT !.stowed = st]
           r == [o EXCEPT !.fullscreen = full]
<1>1. OrbitOK(o)
  BY OrbitsOK DEF active_orbit
<1>2. CASE win = NoWin
  BY <1>2 DEF toggle_stow, toggle_fullscreen, EditOK
<1>3. CASE win # NoWin
  <2>1. win \in WindowSet(o)
    BY <1>1, <1>3, FocusedOK DEF LedgerFocus
  <2>2. st \in SUBSET WindowSet(o) /\ full \in WindowSet(o) \cup {NoWin}
    BY <1>1, <2>1 DEF OrbitOK, OrbitWellFormed
  <2>3. toggle_stow(L) = WithActive(checkpoint(L), q)
    BY <1>3, Zenon DEF toggle_stow
  <2>4. toggle_fullscreen(L) = WithActive(checkpoint(L), r)
    BY <1>3, Zenon DEF toggle_fullscreen
  <2>5. /\ OrbitOK(q) /\ WindowSet(q) = WindowSet(o)
        /\ OrbitOK(r) /\ WindowSet(r) = WindowSet(o)
    <3> HIDE DEF st, full, o
    <3> QED BY <1>1, <2>2, StowKeepsOrbit, FullscreenKeepsOrbit
  <2> HIDE DEF q, r
  <2> QED BY <2>3, <2>4, <2>5, WithActiveOK DEF EditOK
<1> QED BY <1>2, <1>3

\* set_layout is a desired edit.
LEMMA SetLayoutOK ==
    ASSUME NEW L, LedgerOK(L), NEW lay \in Layouts
    PROVE  EditOK(L, set_layout(L, lay))
<1> DEFINE o == active_orbit(L)
           q == [o EXCEPT !.layout = lay]
<1>1. OrbitOK(o)
  BY OrbitsOK DEF active_orbit
<1>2. CASE o.layout = lay
  BY <1>2 DEF set_layout, EditOK
<1>3. CASE o.layout # lay
  <2>1. set_layout(L, lay) = WithActive(checkpoint(L), q)
    BY <1>3, Zenon DEF set_layout
  <2>2. OrbitOK(q) /\ WindowSet(q) = WindowSet(o)
    BY <1>1, LayoutKeepsOrbit
  <2> HIDE DEF q
  <2> QED BY <2>1, <2>2, WithActiveOK DEF EditOK
<1> QED BY <1>2, <1>3

\* switch_orbit is a desired edit.
LEMMA SwitchOrbitOK ==
    ASSUME NEW L, LedgerOK(L), NEW target \in OrbitId
    PROVE  EditOK(L, switch_orbit(L, target))
<1>1. CASE target = L.active
  BY <1>1 DEF switch_orbit, EditOK
<1>2. CASE target # L.active
  <2> DEFINE M == [checkpoint(L) EXCEPT !.active = target]
  <2>1. /\ M \in Ledger /\ M.orbits = L.orbits
        /\ M.history = checkpoint(L).history /\ M.redo = checkpoint(L).redo
    BY CheckpointOK DEF Ledger
  <2>2. M = switch_orbit(L, target)
    BY <1>2 DEF switch_orbit
  <2> HIDE DEF M
  <2>3. WellFormed(M) /\ AllWindows(M) = AllWindows(L)
    BY <2>1, Zenon DEF WellFormed, AllWindows, LedgerOK
  <2> QED BY <2>1, <2>2, <2>3, DesiredEditOK DEF EditOK
<1> QED BY <1>1, <1>2

\* Moving the focused window out of one orbit and into another.
LEMMA MoveToOrbitOK ==
    ASSUME NEW L, LedgerOK(L), NEW target \in OrbitId
    PROVE  EditOK(L, move_to_orbit(L, target))
<1> DEFINE win == LedgerFocus(L)
           src == L.active
           o == active_orbit(L)
           at == Position(o.windows, win) - 1
           taken == reseat_focus(RemoveWindow(o, win), SatSub(at, 1))
           given == InsertAfterFocus(L.orbits[target], win)
           f == [L.orbits EXCEPT ![src] = taken, ![target] = given]
           C == checkpoint(L)
           M == move_to_orbit(L, target)
<1>1. CASE win = NoWin \/ target = src
  BY <1>1 DEF move_to_orbit, EditOK
<1>2. CASE ~(win = NoWin \/ target = src)
  <2>1. /\ src \in OrbitId /\ L.orbits \in [OrbitId -> OrbitState]
        /\ \A p \in OrbitId : OrbitOK(L.orbits[p])
        /\ o = L.orbits[src]
    BY OrbitsOK DEF active_orbit
  <2>2. win \in WindowSet(o)
    BY <1>2, <2>1, FocusedOK DEF LedgerFocus
  <2>3. /\ win \in Win
        /\ \A p \in OrbitId : p # src => win \notin WindowSet(L.orbits[p])
    <3>1. win \in Win
      BY <2>1, <2>2, OrbitList
    <3> QED BY <3>1, <2>1, <2>2, Zenon DEF LedgerOK, WellFormed
  <2>4. SatSub(at, 1) \in Nat
    BY <2>1, <2>2, PositionFound DEF SatSub
  <2>5. OrbitOK(taken) /\ WindowSet(taken) = WindowSet(o) \ {win}
    <3> DEFINE hint == SatSub(at, 1)
    <3> HIDE DEF hint
    <3>1. hint \in Nat BY <2>4 DEF hint
    <3>2. OrbitOK(o) BY <2>1
    <3> HIDE DEF o, win
    <3>3. /\ OrbitOK(reseat_focus(RemoveWindow(o, win), hint))
          /\ WindowSet(reseat_focus(RemoveWindow(o, win), hint)) = WindowSet(o) \ {win}
      BY <3>1, <3>2, <2>2, RemoveKeepsOrbit
    <3> QED BY <3>3 DEF hint
  <2>6. OrbitOK(given) /\ WindowSet(given) = WindowSet(L.orbits[target]) \cup {win}
    BY <1>2, <2>1, <2>3, InsertKeepsOrbit
  <2>7. C \in Ledger /\ C.orbits = L.orbits /\ C.active = L.active
    BY CheckpointOK
  <2>8. M = [C EXCEPT !.orbits[L.active] = taken, !.orbits[target] = InsertAfterFocus(@, win)]
    BY <1>2, Zenon DEF move_to_orbit
  <2>9. M = [C EXCEPT !.orbits = f]
    <3> HIDE DEF M, C, taken, win
    <3> QED BY <1>2, <2>1, <2>7, <2>8, Zenon DEF Ledger
  <2>10. /\ f \in [OrbitId -> OrbitState]
         /\ \A p \in OrbitId : f[p] = IF p = target THEN given ELSE IF p = src THEN taken
                                      ELSE L.orbits[p]
    <3> HIDE DEF taken, given
    <3> QED BY <2>1, <2>5, <2>6 DEF OrbitOK
  <2> HIDE DEF f, M, C, taken, given, o, win
  <2>11. /\ M \in Ledger /\ M.orbits = f /\ M.history = C.history /\ M.redo = C.redo
    BY <2>7, <2>9, <2>10 DEF Ledger
  <2>12. \A p \in OrbitId : /\ OrbitOK(M.orbits[p])
                            /\ WindowSet(M.orbits[p]) =
                                 IF p = target THEN WindowSet(L.orbits[p]) \cup {win}
                                 ELSE WindowSet(L.orbits[p]) \ {win}
    <3> SUFFICES ASSUME NEW p \in OrbitId
                 PROVE  /\ OrbitOK(f[p])
                        /\ WindowSet(f[p]) = IF p = target THEN WindowSet(L.orbits[p]) \cup {win}
                                             ELSE WindowSet(L.orbits[p]) \ {win}
      BY <2>11
    <3>1. CASE p = target BY <3>1, <2>6, <2>10
    <3>2. CASE p = src BY <1>2, <3>2, <2>1, <2>5, <2>10 DEF win
    <3>3. CASE p # target /\ p # src
      <4>1. f[p] = L.orbits[p] /\ OrbitOK(L.orbits[p]) BY <3>3, <2>1, <2>10
      <4>2. WindowSet(L.orbits[p]) \ {win} = WindowSet(L.orbits[p]) BY <3>3, <2>3
      <4> QED BY <3>3, <4>1, <4>2
    <3> QED BY <3>1, <3>2, <3>3
  <2>13. WellFormed(M)
    BY <2>12, Zenon DEF WellFormed, OrbitOK, LedgerOK
  <2>14. AllWindows(M) = AllWindows(L)
    <3>1. ASSUME NEW w, NEW p \in OrbitId, w \in WindowSet(M.orbits[p])
          PROVE  \E r \in OrbitId : w \in WindowSet(L.orbits[r])
      BY <3>1, <2>1, <2>2, <2>12, Zenon
    <3>2. ASSUME NEW w, NEW p \in OrbitId, w \in WindowSet(L.orbits[p])
          PROVE  \E r \in OrbitId : w \in WindowSet(M.orbits[r])
      BY <3>2, <2>12, Zenon
    <3> QED BY <3>1, <3>2 DEF AllWindows
  <2> QED BY <2>11, <2>13, <2>14, DesiredEditOK DEF EditOK, M, C
<1> QED BY <1>1, <1>2

\* The observed lifecycle: the window set changes by exactly that window and
\* both stacks are emptied.
LEMMA LifecycleEditOK ==
    ASSUME NEW L, LedgerOK(L), NEW p \in OrbitId, NEW q, OrbitOK(q),
           \A r \in OrbitId : r # p => WindowSet(L.orbits[r]) \cap WindowSet(q) = {},
           NEW M, M = [discard_undo_history(L) EXCEPT !.orbits[p] = q]
    PROVE  LedgerOK(M)
<1> DEFINE f == [L.orbits EXCEPT ![p] = q]
           D == discard_undo_history(L)
<1>1. /\ L.orbits \in [OrbitId -> OrbitState]
      /\ \A o \in OrbitId : OrbitOK(L.orbits[o])
  BY OrbitsOK
<1>2. <<>> \in Seq(Snapshot) /\ Len(<<>>) = 0
  BY EmptySeq
<1>3. D \in Ledger /\ D.orbits = L.orbits /\ D.history = <<>> /\ D.redo = <<>>
  BY <1>2, Zenon DEF discard_undo_history, LedgerOK, Ledger
<1> HIDE DEF D
<1>4. /\ f \in [OrbitId -> OrbitState]
      /\ \A o \in OrbitId : f[o] = IF o = p THEN q ELSE L.orbits[o]
  BY <1>1 DEF OrbitOK
<1>5. M = [D EXCEPT !.orbits = f]
  BY <1>3 DEF D, Ledger
<1> HIDE DEF f
<1>6. M \in Ledger /\ M.orbits = f /\ M.history = <<>> /\ M.redo = <<>>
  BY <1>3, <1>4, <1>5, Zenon DEF Ledger
<1>7. WellFormed(M)
  <2>1. \A o \in OrbitId : OrbitWellFormed(M.orbits[o])
    BY <1>1, <1>4, <1>6 DEF OrbitOK
  <2>2. ASSUME NEW a \in OrbitId, NEW b \in OrbitId, a # b
        PROVE  WindowSet(M.orbits[a]) \cap WindowSet(M.orbits[b]) = {}
    BY <2>2, <1>4, <1>6 DEF LedgerOK, WellFormed
  <2> QED BY <2>1, <2>2 DEF WellFormed
<1>8. StackOK(M.history, M) /\ StackOK(M.redo, M)
  BY <1>6, EmptyStack, Zenon
<1>9. Len(M.history) + Len(M.redo) <= HistoryDepth
  <2>1. Len(M.history) = 0 /\ Len(M.redo) = 0
    BY <1>6, EmptyStack, Zenon
  <2>2. HistoryDepth \in Nat
    BY LedgerAssumption
  <2>3. \A n \in Nat : 0 + 0 <= n
    OBVIOUS
  <2> QED BY <2>1, <2>2, <2>3, Zenon
<1> QED BY <1>6, <1>7, <1>8, <1>9, Zenon DEF LedgerOK

\* summon adds its window, if it is new, and discards the history.
LEMMA SummonOK ==
    ASSUME NEW L, LedgerOK(L), NEW win \in Win, NEW orbit \in OrbitId
    PROVE  LedgerOK(summon(L, win, orbit))
<1>1. CASE win \in AllWindows(L)
  BY <1>1 DEF summon
<1>2. CASE win \notin AllWindows(L)
  <2> DEFINE o == L.orbits[orbit]
             q == InsertAfterFocus(o, win)
  <2>1. \A r \in OrbitId : win \notin WindowSet(L.orbits[r])
    BY <1>2 DEF AllWindows
  <2>2. OrbitOK(o)
    BY OrbitsOK
  <2>3. OrbitOK(q) /\ WindowSet(q) = WindowSet(o) \cup {win}
    <3>1. win \notin WindowSet(o) BY <2>1
    <3> HIDE DEF o
    <3> QED BY <2>2, <3>1, InsertKeepsOrbit
  <2>4. \A r \in OrbitId : r # orbit => WindowSet(L.orbits[r]) \cap WindowSet(q) = {}
    <3> HIDE DEF q
    <3> QED BY <2>1, <2>3 DEF LedgerOK, WellFormed
  <2>5. discard_undo_history(L).orbits = L.orbits
    BY DEF discard_undo_history, LedgerOK, Ledger
  <2>6. summon(L, win, orbit) = [discard_undo_history(L) EXCEPT !.orbits[orbit] = q]
    BY <1>2, <2>5, Zenon DEF summon
  <2> HIDE DEF q
  <2> QED BY <2>3, <2>4, <2>6, LifecycleEditOK
<1> QED BY <1>1, <1>2

\* banish removes its window, if it is there, and discards the history.
LEMMA BanishOK ==
    ASSUME NEW L, LedgerOK(L), NEW win \in Win
    PROVE  LedgerOK(banish(L, win))
<1>1. CASE win \notin AllWindows(L)
  BY <1>1 DEF banish
<1>2. CASE win \in AllWindows(L)
  <2> DEFINE p == orbit_of(L, win)
             o == L.orbits[p]
             at == Position(o.windows, win) - 1
             gone == RemoveWindow(o, win)
             past == IF at >= Max2(Len(gone.windows), 1) THEN 1 ELSE 0
             hint == SatSub(at, past)
             q == reseat_focus(gone, hint)
  <2>1. p \in OrbitId /\ win \in WindowSet(o)
    BY <1>2, OrbitOfOK
  <2>2. OrbitOK(o)
    BY <2>1, OrbitsOK
  <2>3. hint \in Nat
    <3>1. at \in Nat
      BY <2>1, <2>2, PositionFound
    <3>2. past \in {0, 1}
      OBVIOUS
    <3> HIDE DEF at, past
    <3> QED BY <3>1, <3>2 DEF SatSub
  <2>4. OrbitOK(q) /\ WindowSet(q) = WindowSet(o) \ {win}
    <3> HIDE DEF hint, o
    <3> QED BY <2>1, <2>2, <2>3, RemoveKeepsOrbit
  <2>5. \A r \in OrbitId : r # p => WindowSet(L.orbits[r]) \cap WindowSet(q) = {}
    <3> HIDE DEF q
    <3> QED BY <2>1, <2>4, SMTT(30) DEF LedgerOK, WellFormed
  <2>6. banish(L, win) = [discard_undo_history(L) EXCEPT !.orbits[p] = q]
    BY <1>2, Zenon DEF banish
  <2> HIDE DEF q, p
  <2> QED BY <2>1, <2>4, <2>5, <2>6, LifecycleEditOK
<1> QED BY <1>1, <1>2

\* Undo and redo move one snapshot from stack to stack; since all of them hold
\* the same windows, the stacks stay good for the ledger they leave behind.
LEMMA UndoOK ==
    ASSUME NEW L, LedgerOK(L)
    PROVE  LedgerOK(undo(L)) /\ AllWindows(undo(L)) = AllWindows(L)
<1>1. CASE L.history = <<>>
  BY <1>1 DEF undo
<1>2. CASE L.history # <<>>
  <2> DEFINE prev == Last(L.history)
             h == Front(L.history)
             r == Append(L.redo, SnapshotOf(L))
             M == undo(L)
  <2>1. /\ StackOK(h, L) /\ Len(h) = Len(L.history) - 1
        /\ prev \in Snapshot /\ Stacked(prev, L)
    BY <1>2, FrontStack, Zenon DEF LedgerOK
  <2>2. StackOK(r, L) /\ Len(r) = Len(L.redo) + 1
    BY SnapshotOfOK, PushStack, Zenon DEF LedgerOK
  <2>3. M = [orbits |-> prev.orbits, active |-> prev.active, history |-> h, redo |-> r]
    BY <1>2, Zenon DEF undo
  <2>4. /\ Len(L.history) \in Nat /\ Len(L.redo) \in Nat
    BY LenProperties DEF LedgerOK, StackOK
  <2>5. Len(L.history) + Len(L.redo) <= HistoryDepth
    BY Zenon DEF LedgerOK
  <2> HIDE DEF prev, h, r, M
  <2>6. /\ M \in Ledger /\ M.orbits = prev.orbits /\ M.history = h /\ M.redo = r
    BY <2>1, <2>2, <2>3 DEF Ledger, Snapshot, StackOK
  <2>7. WellFormed(M) /\ AllWindows(M) = AllWindows(L)
    BY <2>1, <2>6, Zenon DEF Stacked, WellFormed, AllWindows
  <2>8. StackOK(M.history, M) /\ StackOK(M.redo, M)
    BY <2>1, <2>2, <2>6, <2>7 DEF StackOK, Stacked
  <2>9. Len(M.history) + Len(M.redo) <= HistoryDepth
    <3>1. \A a, b, c : a \in Nat /\ b \in Nat => (a - 1) + (b + 1) = a + b
      OBVIOUS
    <3>2. Len(h) + Len(r) = Len(L.history) + Len(L.redo)
      BY <3>1, <2>1, <2>2, <2>4, ZenonT(30)
    <3> QED BY <3>2, <2>5, <2>6, Zenon
  <2> QED BY <2>6, <2>7, <2>8, <2>9 DEF LedgerOK, M
<1> QED BY <1>1, <1>2

\* redo swaps the other way: good ledger, same windows.
LEMMA RedoOK ==
    ASSUME NEW L, LedgerOK(L)
    PROVE  LedgerOK(redo(L)) /\ AllWindows(redo(L)) = AllWindows(L)
<1>1. CASE L.redo = <<>>
  BY <1>1 DEF redo
<1>2. CASE L.redo # <<>>
  <2> DEFINE next == Last(L.redo)
             h == Append(L.history, SnapshotOf(L))
             r == Front(L.redo)
             M == redo(L)
  <2>1. /\ StackOK(r, L) /\ Len(r) = Len(L.redo) - 1
        /\ next \in Snapshot /\ Stacked(next, L)
    BY <1>2, FrontStack DEF LedgerOK
  <2>2. StackOK(h, L) /\ Len(h) = Len(L.history) + 1
    BY SnapshotOfOK, PushStack, Zenon DEF LedgerOK
  <2>3. M = [orbits |-> next.orbits, active |-> next.active, history |-> h, redo |-> r]
    BY <1>2, Zenon DEF redo
  <2>4. /\ Len(L.history) \in Nat /\ Len(L.redo) \in Nat
    BY LenProperties DEF LedgerOK, StackOK
  <2>5. Len(L.history) + Len(L.redo) <= HistoryDepth
    BY Zenon DEF LedgerOK
  <2> HIDE DEF next, h, r, M
  <2>6. /\ M \in Ledger /\ M.orbits = next.orbits /\ M.history = h /\ M.redo = r
    BY <2>1, <2>2, <2>3 DEF Ledger, Snapshot, StackOK
  <2>7. WellFormed(M) /\ AllWindows(M) = AllWindows(L)
    BY <2>1, <2>6, Zenon DEF Stacked, WellFormed, AllWindows
  <2>8. StackOK(M.history, M) /\ StackOK(M.redo, M)
    BY <2>1, <2>2, <2>6, <2>7, SMTT(30) DEF StackOK, Stacked
  <2>9. Len(M.history) + Len(M.redo) <= HistoryDepth
    <3>1. \A a, b, c : a \in Nat /\ b \in Nat => (a + 1) + (b - 1) = a + b
      OBVIOUS
    <3>2. Len(h) + Len(r) = Len(L.history) + Len(L.redo)
      BY <3>1, <2>1, <2>2, <2>4, ZenonT(30)
    <3> QED BY <3>2, <2>5, <2>6, Zenon
  <2> QED BY <2>6, <2>7, <2>8, <2>9 DEF LedgerOK, M
<1> QED BY <1>1, <1>2

-----------------------------------------------------------------------------
(* The theorems.                                                           *)

\* The empty ledger (Ledger::new) is good.
LEMMA InitOK == Init => LedgerOK(ledger)
<1> SUFFICES ASSUME Init PROVE LedgerOK(ledger)
  OBVIOUS
<1>1. NewOrbit \in OrbitState
  BY LedgerAssumption, EmptySeq DEF NewOrbit, OrbitState
<1>2. NewOrbit.windows = <<>> /\ NewOrbit.focus = 0 /\ NewOrbit.stowed = {}
      /\ NewOrbit.fullscreen = NoWin
  BY DEF NewOrbit
<1>3. WindowSet(NewOrbit) = {}
  BY <1>2, EmptySeq, LenProperties DEF WindowSet, Range
<1>4. OrbitWellFormed(NewOrbit)
  BY <1>2, <1>3 DEF OrbitWellFormed
<1>5. 1 \in OrbitId
  BY LedgerAssumption DEF OrbitId
<1>6. /\ ledger \in Ledger /\ ledger.history = <<>> /\ ledger.redo = <<>>
      /\ \A o \in OrbitId : ledger.orbits[o] = NewOrbit
  BY <1>1, <1>5, EmptySeq DEF Init, NewLedger, Ledger
<1>7. WellFormed(ledger)
  BY <1>3, <1>4, <1>6 DEF WellFormed
<1>8. StackOK(ledger.history, ledger) /\ StackOK(ledger.redo, ledger)
  BY <1>6, EmptyStack, Zenon
<1>9. Len(ledger.history) + Len(ledger.redo) <= HistoryDepth
  <2>1. Len(ledger.history) = 0 /\ Len(ledger.redo) = 0
    BY <1>6, EmptyStack, Zenon
  <2>2. HistoryDepth \in Nat
    BY LedgerAssumption
  <2>3. \A n \in Nat : 0 + 0 <= n
    OBVIOUS
  <2> QED BY <2>1, <2>2, <2>3, Zenon
<1> QED BY <1>6, <1>7, <1>8, <1>9 DEF LedgerOK

\* Every desired mutation of the specification is a desired edit.
LEMMA DesiredMutationOK ==
    LedgerOK(ledger) /\ DesiredMutation => EditOK(ledger, ledger')
<1> SUFFICES ASSUME LedgerOK(ledger), DesiredMutation PROVE EditOK(ledger, ledger')
  OBVIOUS
<1>1. ASSUME NEW win \in Win, FocusWindow(win) PROVE EditOK(ledger, ledger')
  BY <1>1, FocusWindowOK DEF FocusWindow
<1>2. ASSUME NEW dir \in Dir, FocusStep(dir) PROVE EditOK(ledger, ledger')
  BY <1>2, FocusStepOK DEF FocusStep
<1>3. ASSUME NEW dir \in Dir, Swap(dir) PROVE EditOK(ledger, ledger')
  BY <1>3, SwapOK DEF Swap
<1>4. ASSUME NEW target \in OrbitId, MoveToOrbit(target) PROVE EditOK(ledger, ledger')
  BY <1>4, MoveToOrbitOK DEF MoveToOrbit
<1>5. ASSUME NEW target \in OrbitId, SwitchOrbit(target) PROVE EditOK(ledger, ledger')
  BY <1>5, SwitchOrbitOK DEF SwitchOrbit
<1>6. CASE ToggleStow
  BY <1>6, ToggleOK DEF ToggleStow
<1>7. CASE ToggleFullscreen
  BY <1>7, ToggleOK DEF ToggleFullscreen
<1>8. ASSUME NEW layout \in Layouts, SetLayout(layout) PROVE EditOK(ledger, ledger')
  BY <1>8, SetLayoutOK DEF SetLayout
<1> QED BY <1>1, <1>2, <1>3, <1>4, <1>5, <1>6, <1>7, <1>8 DEF DesiredMutation

\* Every step keeps the ledger good.
LEMMA NextOK == LedgerOK(ledger) /\ [Next]_ledger => LedgerOK(ledger')
<1> SUFFICES ASSUME LedgerOK(ledger), [Next]_ledger PROVE LedgerOK(ledger')
  OBVIOUS
<1>1. CASE DesiredMutation
  BY <1>1, DesiredMutationOK DEF EditOK
<1>2. ASSUME NEW win \in Win, NEW orbit \in OrbitId, Summon(win, orbit) PROVE LedgerOK(ledger')
  BY <1>2, SummonOK DEF Summon
<1>3. ASSUME NEW win \in Win, Banish(win) PROVE LedgerOK(ledger')
  BY <1>3, BanishOK DEF Banish
<1>4. CASE Undo
  BY <1>4, UndoOK DEF Undo
<1>5. CASE Redo
  BY <1>5, RedoOK DEF Redo
<1>6. CASE UNCHANGED ledger
  BY <1>6
<1> QED BY <1>1, <1>2, <1>3, <1>4, <1>5, <1>6 DEF Next, ObservedLifecycle

IInv == LedgerOK(ledger)

\* The inductive invariant, for every method of ledger.rs, holds in every
\* reachable state.
THEOREM LedgerInductive == Spec => []IInv
<1>1. Init => IInv
  BY InitOK DEF IInv
<1>2. IInv /\ [Next]_ledger => IInv'
  BY NextOK DEF IInv
<1> QED BY <1>1, <1>2, PTL DEF Spec

\* The ledger always has the shape ledger.rs declares, is consistent together
\* with everything undo and redo can restore, never offers to restore another
\* window set, and keeps its history within HISTORY_DEPTH.
THEOREM LedgerSafety ==
    Spec => [](TypeOK /\ LedgerConsistent /\ SnapshotsAgreeOnWindows /\ HistoryBounded)
<1>1. IInv => TypeOK /\ LedgerConsistent /\ SnapshotsAgreeOnWindows /\ HistoryBounded
  BY LedgerOKIsTheInvariants DEF IInv
<1> QED BY <1>1, LedgerInductive, PTL

\* Undoing any desired mutation restores the ledger from before it, and neither
\* a desired mutation, nor undo, nor redo, changes which windows exist.
THEOREM UndoIsExact == Spec => UndoRestoresStep
<1>1. IInv => [DesiredMutation => SnapshotOf(undo(ledger')) = SnapshotOf(ledger)]_ledger
  BY DesiredMutationOK DEF EditOK, IInv
<1>2. LedgerOK(ledger) /\ Undo => AllWindows(ledger') = AllWindows(ledger)
  BY UndoOK DEF Undo
<1>3. LedgerOK(ledger) /\ Redo => AllWindows(ledger') = AllWindows(ledger)
  BY RedoOK DEF Redo
<1>4. IInv =>
        [DesiredMutation \/ Undo \/ Redo => AllWindows(ledger') = AllWindows(ledger)]_ledger
  BY <1>2, <1>3, DesiredMutationOK DEF EditOK, IInv
<1> QED BY <1>1, <1>4, LedgerInductive, PTL DEF UndoRestoresStep

\* Taking the last snapshot off a stack and pushing it back is the identity.
LEMMA PopThenPush ==
    ASSUME NEW L, NEW stack, StackOK(stack, L), stack # <<>>
    PROVE  Append(Front(stack), Last(stack)) = stack
<1>1. stack \in Seq(Snapshot) /\ Len(stack) \in Nat \ {0}
  BY EmptySeq DEF StackOK
<1>2. PICK s \in Seq(Snapshot), e \in Snapshot : stack = Append(s, e)
  BY <1>1, SequenceEmptyOrAppend
<1>3. /\ Len(stack) = Len(s) + 1 /\ stack[Len(s) + 1] = e
      /\ \A i \in 1..Len(s) : stack[i] = s[i]
  BY <1>2, AppendProperties
<1>4. /\ Front(stack) \in Seq(Snapshot) /\ Len(Front(stack)) = Len(stack) - 1
  BY FrontStack, Zenon DEF StackOK
<1>5. Len(s) \in Nat /\ Len(Front(stack)) = Len(s)
  BY <1>2, <1>3, <1>4, LenProperties
<1>6. \A i \in 1..Len(s) : Front(stack)[i] = s[i]
  BY <1>1, <1>3, <1>5 DEF Front
<1>7. Front(stack) = s
  BY <1>2, <1>4, <1>5, <1>6, SeqEqual
<1> QED BY <1>2, <1>3, <1>7 DEF Last

\* Redo takes back an undo to the last field.
THEOREM UndoRedoRoundTrip == Spec => []UndoThenRedo
<1>2. ASSUME LedgerOK(ledger), ledger.history # <<>> PROVE redo(undo(ledger)) = ledger
  <2> DEFINE h == ledger.history
             r == ledger.redo
             S == SnapshotOf(ledger)
             M == undo(ledger)
             pushed == Append(r, S)
  <2>1. M = [orbits |-> Last(h).orbits, active |-> Last(h).active,
             history |-> Front(h), redo |-> pushed]
    BY <1>2, Zenon DEF undo
  <2>2. StackOK(h, ledger) /\ StackOK(r, ledger) /\ S \in Snapshot /\ Stacked(S, ledger)
    BY <1>2, SnapshotOfOK, Zenon DEF LedgerOK
  <2>3. pushed # <<>> /\ Last(pushed) = S /\ StackOK(pushed, ledger)
    BY <2>2, PushStack
  <2>4. Front(pushed) = r
    <3>1. Append(Front(pushed), S) = pushed
      BY <2>3, PopThenPush, Zenon
    <3>2. Front(pushed) \in Seq(Snapshot) /\ r \in Seq(Snapshot)
      BY <2>2, <2>3, FrontStack, Zenon DEF StackOK
    <3> QED BY <3>1, <3>2, <2>2, AppendInjective
  <2>5. SnapshotOf(M) = Last(h)
    <3>1. Last(h) \in Snapshot BY <1>2, <2>2, FrontStack, Zenon
    <3> HIDE DEF h, r, pushed
    <3> QED BY <2>1, <3>1 DEF SnapshotOf, Snapshot
  <2>6. Append(Front(h), Last(h)) = h
    BY <1>2, <2>2, PopThenPush
  <2>7. M.redo = pushed /\ M.history = Front(h)
    BY <2>1
  <2>8. redo(M) = [orbits |-> S.orbits, active |-> S.active, history |-> h, redo |-> r]
    <3> HIDE DEF h, r, S, M, pushed
    <3> QED BY <2>3, <2>4, <2>5, <2>6, <2>7 DEF redo
  <2> QED BY <1>2, <2>8 DEF SnapshotOf, LedgerOK, Ledger
<1>3. IInv => UndoThenRedo
  BY <1>2 DEF UndoThenRedo, IInv
<1> QED BY <1>3, LedgerInductive, PTL
=============================================================================
