------------------------- MODULE ActivationRegister -------------------------
(***************************************************************************)
(* What the generation store promises about `current`: a register holding  *)
(* the generation that the next launch will use, written by one operation  *)
(* at a time.  A write takes effect at one instant, or not at all.  It may *)
(* be seen before it is durable; until it is, a power loss may bring an    *)
(* earlier value back.  The answer of a write is honest: "committed" means *)
(* that no power loss can undo it, "not_committed" that it has had no      *)
(* effect.  An operation that finds its value in place writes nothing: it  *)
(* answers "committed" of a value that is only as durable as the earlier   *)
(* write made it.                                                          *)
(***************************************************************************)
CONSTANTS Ids,    \* the generation identifiers
          None    \* no generation

VARIABLES value,    \* what recovery would return now
          durable,  \* the values a power loss may leave
          target,   \* what the running operation writes, None when there is none
          effected, \* the running operation has taken effect
          answer    \* the answer of the last operation

vars == <<value, durable, target, effected, answer>>

Answers == {"none", "committed", "cleanup_pending", "ambiguous",
            "not_committed", "error"}

Init ==
  /\ value = None
  /\ durable = {None}
  /\ target = None
  /\ effected = FALSE
  /\ answer = "none"

Start(g) ==
  /\ target = None
  /\ target' = g
  /\ effected' = FALSE
  /\ answer' = "none"
  /\ UNCHANGED <<value, durable>>

\* The one instant at which a write takes effect.
TakeEffect ==
  /\ target # None
  /\ ~effected
  /\ effected' = TRUE
  /\ value' = target
  /\ durable' = durable \cup {target}
  /\ UNCHANGED <<target, answer>>

Persist ==
  /\ durable' = {value}
  /\ UNCHANGED <<value, target, effected, answer>>

\* An operation starts, or ends without having fixed a target: no effect.
NoEffect(a) ==
  /\ target = None
  /\ a \in {"none", "error", "not_committed"}
  /\ durable' \in {durable, {value}}
  /\ answer' = a
  /\ UNCHANGED <<value, target, effected>>

\* An operation ends because what it would have written is there.
Retain ==
  /\ target = None
  /\ value # None
  /\ answer' = "committed"
  /\ UNCHANGED <<value, durable, target, effected>>

Finish(a) ==
  /\ target # None
  /\ a \in {"committed", "cleanup_pending"} => durable = {target}
  /\ a = "not_committed" => ~effected
  /\ a \in {"committed", "cleanup_pending", "ambiguous", "not_committed"}
  /\ target' = None
  /\ effected' = FALSE
  /\ answer' = a
  /\ UNCHANGED <<value, durable>>

\* The operation's process dies: it never answers.
Crash ==
  /\ target' = None
  /\ effected' = FALSE
  /\ answer' = "none"
  /\ UNCHANGED <<value, durable>>

PowerLoss ==
  /\ value' \in durable
  /\ durable' = {value'}
  /\ target' = None
  /\ effected' = FALSE
  /\ answer' = "none"

Next ==
  \/ \E g \in Ids : Start(g)
  \/ TakeEffect
  \/ Persist
  \/ Retain
  \/ \E a \in Answers : NoEffect(a) \/ Finish(a)
  \/ Crash
  \/ PowerLoss

Spec == Init /\ [][Next]_vars
=============================================================================
