---------------------------- MODULE RiverObjects ----------------------------
(***************************************************************************)
(* What the River backend (crates/realm-session/src/backend/river.rs) keeps *)
(* of River's objects: the globals it needs, input devices with the policy *)
(* it sets on them, outputs and seats, as operators on records.            *)
(* Objects are numbered in the order River creates them, so that a number  *)
(* is also the ordinal.  A device is announced in one message, with its    *)
(* kind: "keyboard", "touchpad" (it can tap and does not yet) or "mouse".  *)
(***************************************************************************)
EXTENDS Integers, Sequences, FiniteSetsExt

CONSTANTS None, DeviceLimit  \* devices the backend accepts

Message(kind, w, size) == [kind |-> kind, w |-> w, size |-> size]
Signal(kind) == Message(kind, None, None)
Request(kind, of) == [kind |-> kind, of |-> of, focus |-> "keep", binds |-> FALSE]

-----------------------------------------------------------------------------
(* Discovery.  globals maps an interface to its version, 0 if not there.   *)

Required == [window_manager |-> 4, xkb_bindings |-> 3, layer_shell |-> 1,
             input_manager |-> 2, libinput_config |-> 2]
Interfaces == DOMAIN Required
RegistryKinds == {"global", "global_removed"}

record(globals, interface, version) ==
    IF interface \in Interfaces THEN [globals EXCEPT ![interface] = version] ELSE globals
remove(globals, interface) ==
    IF interface \in Interfaces THEN [globals EXCEPT ![interface] = 0] ELSE globals
validate(globals) == \A i \in Interfaces : globals[i] >= Required[i]

-----------------------------------------------------------------------------
(* Input policy.  s: the devices, those whose set_tap has no result yet,   *)
(* the requests sent so far, and the error that ends the backend.          *)

DeviceKinds == {"keyboard", "touchpad", "mouse"}
InputKinds == DeviceKinds \cup {"device_removed", "tap_result"}

\* What a device's done asks of it: a repeat rate, or to tap.
DevicePolicy(m) ==
    CASE m.kind = "keyboard" -> <<Request("other", {})>>
      [] m.kind = "touchpad" -> <<Request("set_tap", {m.w})>>
      [] m.kind = "mouse" -> <<>>

InputDeviceDone(s, m) ==
    IF Cardinality(s.devices) = DeviceLimit THEN [s EXCEPT !.error = "capacity"]
    ELSE [s EXCEPT !.devices = @ \cup {m.w}, !.sent = @ \o DevicePolicy(m),
                   !.results = IF m.kind = "touchpad" THEN @ \cup {m.w} ELSE @]

\* The device is forgotten; the result it owes is not.
InputDeviceRemoved(s, m) ==
    [s EXCEPT !.devices = @ \ {m.w}, !.sent = Append(@, Request("other", {}))]

\* m.size: River accepted the policy.
LibinputResult(s, m) ==
    IF m.w \in s.results /\ m.size THEN [s EXCEPT !.results = @ \ {m.w}]
    ELSE [s EXCEPT !.error = "rejected"]

apply_input_event(s, m) ==
    IF s.error # "none" THEN s
    ELSE CASE m.kind \in DeviceKinds -> InputDeviceDone(s, m)
           [] m.kind = "device_removed" -> InputDeviceRemoved(s, m)
           [] m.kind = "tap_result" -> LibinputResult(s, m)

apply_input_events(s, held) ==
    LET after[i \in 0..Len(held)] ==
          IF i = 0 THEN s ELSE apply_input_event(after[i - 1], held[i])
    IN  after[Len(held)]

-----------------------------------------------------------------------------
(* Outputs: [geometry, area], and the one all windows are on.              *)

NewOutput == [geometry |-> FALSE, area |-> FALSE]

\* After a loss an output without a work area will not do.
Eligible(outputs, lost) ==
    {o \in DOMAIN outputs : outputs[o].geometry /\ (lost => outputs[o].area)}

\* The first complete one in the order of creation.
SelectOutput(selected, outputs, lost) ==
    IF selected # None THEN selected
    ELSE IF Eligible(outputs, lost) = {} THEN None
    ELSE Min(Eligible(outputs, lost))
=============================================================================
