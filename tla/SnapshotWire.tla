---------------------------- MODULE SnapshotWire ----------------------------
(***************************************************************************)
(* The session snapshot between two daemons (SessionSnapshotV1 of          *)
(* crates/realm-session/src/session.rs): what one writes, and what the     *)
(* next one accepts of the file it finds.  A JSON object is the sequence   *)
(* of its fields, since the decoders read them in one order only.  Indices *)
(* are those of the code; null is None.                                    *)
(***************************************************************************)
EXTENDS Layout

CONSTANT None

OrbitName == <<"triptych", "scriptorium", "observatory", "forge", "athenaeum", "crypt">>
SchemaVersion == 1
ProtocolVersion == 2

Object(record, keys) == [i \in DOMAIN keys |-> [key |-> keys[i], value |-> record[keys[i]]]]
Record(object) ==
    LET Index(key) == CHOOSE i \in DOMAIN object : object[i].key = key
    IN  [key \in {object[i].key : i \in DOMAIN object} |-> object[Index(key)].value]
\* require_field of each field in turn, then reject_extra_field.
Conforms(object, keys) == [i \in DOMAIN object |-> object[i].key] = keys

BindingKeys == <<"win_id", "backend_id">>
OrbitKeys == <<"id", "windows", "focus", "stowed", "layout", "fullscreen", "name">>
LedgerKeys == <<"orbits", "active">>
SnapshotKeys == <<"schema_version", "protocol_version", "ledger", "bindings", "next_win_id",
                  "active_orbit">>

-----------------------------------------------------------------------------
(* Writing.                                                                *)

Ascending(S) ==
    [i \in 1..Cardinality(S) |-> CHOOSE n \in S : Cardinality({m \in S : m <= n}) = i]

WireOrbit(o, id) ==
    [id |-> id - 1, windows |-> o.windows, focus |-> IF o.focus = 0 THEN None ELSE o.focus - 1,
     stowed |-> Ascending(o.stowed), layout |-> o.layout,
     fullscreen |-> IF o.fullscreen = NoWin THEN None ELSE o.fullscreen, name |-> OrbitName[id]]

\* Session::snapshot: the bindings sorted by window.
SortedBindings(ids) ==
    LET Owner(win) == CHOOSE b \in DOMAIN ids : ids[b] = win
        wins == Ascending(Range(ids))
    IN  [i \in DOMAIN wins |-> [win_id |-> wins[i], backend_id |-> Owner(wins[i])]]

\* Session::snapshot and SessionSnapshotV1::new: the undo history stays behind.
snapshot(a) ==
    [schema_version |-> SchemaVersion, protocol_version |-> ProtocolVersion,
     ledger |-> [orbits |-> [o \in OrbitId |-> WireOrbit(a.ledger.orbits[o], o)],
                 active |-> a.ledger.active - 1],
     bindings |-> SortedBindings(a.ids), next_win_id |-> a.next,
     active_orbit |-> a.ledger.active - 1]

to_json(s) ==
    LET orbits == [i \in DOMAIN s.ledger.orbits |-> Object(s.ledger.orbits[i], OrbitKeys)]
        ledger == [orbits |-> orbits, active |-> s.ledger.active]
        bindings == [i \in DOMAIN s.bindings |-> Object(s.bindings[i], BindingKeys)]
    IN  Object([s EXCEPT !.ledger = Object(ledger, LedgerKeys), !.bindings = bindings],
               SnapshotKeys)

-----------------------------------------------------------------------------
(* Reading.                                                                *)

Distinct(s) == \A i, j \in DOMAIN s : s[i] = s[j] => i = j

\* One list after the other.
Concatenated(lists) ==
    LET upto[i \in 0..Len(lists)] == IF i = 0 THEN <<>> ELSE upto[i - 1] \o lists[i]
    IN  upto[Len(lists)]

\* The part of validate() about one orbit.
ValidOrbit(o, i, next) ==
    /\ o.id = i - 1 /\ o.name = OrbitName[i]
    /\ IF o.windows = <<>> THEN o.focus = None ELSE o.focus # None /\ o.focus < Len(o.windows)
    /\ \A win \in Range(o.windows) : win < next
    /\ Range(o.stowed) \subseteq Range(o.windows) /\ Distinct(o.stowed)
    /\ o.fullscreen = None \/ o.fullscreen \in Range(o.windows)

ValidBindings(bindings, windows) ==
    LET wins == [i \in DOMAIN bindings |-> bindings[i].win_id]
    IN  /\ Distinct([i \in DOMAIN bindings |-> bindings[i].backend_id])
        /\ \A i \in 2..Len(wins) : wins[i - 1] < wins[i]
        /\ Range(wins) = Range(windows)

validate(s) ==
    LET orbits == s.ledger.orbits
        windows == Concatenated([i \in DOMAIN orbits |-> orbits[i].windows])
    IN  /\ s.schema_version = SchemaVersion /\ s.protocol_version = ProtocolVersion
        /\ s.active_orbit = s.ledger.active /\ s.active_orbit < OrbitCount
        /\ Len(orbits) = OrbitCount
        /\ \A i \in DOMAIN orbits : ValidOrbit(orbits[i], i, s.next_win_id)
        /\ Distinct(windows) /\ ValidBindings(s.bindings, windows)

Decoded(json) ==
    LET top == Record(json)
        ledger == Record(top.ledger)
    IN  [top EXCEPT !.ledger = [ledger EXCEPT !.orbits = [i \in DOMAIN @ |-> Record(@[i])]],
                    !.bindings = [i \in DOMAIN @ |-> Record(@[i])]]

\* The closed schema: the visitors of the four records.
Decodes(json) ==
    /\ Conforms(json, SnapshotKeys)
    /\ LET top == Record(json)
       IN  /\ Conforms(top.ledger, LedgerKeys)
           /\ \A o \in Range(Record(top.ledger).orbits) : Conforms(o, OrbitKeys)
           /\ \A b \in Range(top.bindings) : Conforms(b, BindingKeys)

\* from_json, None when the bytes are rejected.
from_json(json) ==
    LET s == Decoded(json)
    IN  IF Decodes(json) /\ validate(s) THEN s ELSE None

\* into_ledger
LedgerOf(wire) ==
    LET Orbit(w) == [windows |-> w.windows, focus |-> IF w.focus = None THEN 0 ELSE w.focus + 1,
                     stowed |-> Range(w.stowed), layout |-> w.layout,
                     fullscreen |-> IF w.fullscreen = None THEN NoWin ELSE w.fullscreen]
    IN  [orbits |-> [i \in DOMAIN wire.orbits |-> Orbit(wire.orbits[i])],
         active |-> wire.active + 1, history |-> <<>>, redo |-> <<>>]

\* What connect takes from a snapshot, and from none.
EmptySnapshot == [ledger |-> NewLedger, ids |-> <<>>, next |-> 0]
Restored(s) ==
    IF s = None THEN EmptySnapshot
    ELSE LET Index(b) == CHOOSE i \in DOMAIN s.bindings : s.bindings[i].backend_id = b
         IN  [ledger |-> LedgerOf(s.ledger),
              ids |-> [b \in {s.bindings[i].backend_id : i \in DOMAIN s.bindings} |->
                          s.bindings[Index(b)].win_id],
              next |-> s.next_win_id]

\* classify_snapshot_read of a file that could be read, then connect: rejected
\* bytes are reported, and the session starts empty.
LoadSnapshot(file) == Restored(IF file = None THEN None ELSE from_json(file))
=============================================================================
