-------------------------- MODULE GenerationRules ---------------------------
(***************************************************************************)
(* The generation store's rules (crates/realm-theme/src/generation.rs) as  *)
(* functions of what is in its directories.                                *)
(*                                                                         *)
(* A root is the content of the store's root directory:                    *)
(*   cur    the generation `current` names, None when the file is absent   *)
(*   jc     `.current-<id>`: its id and its body; id None when absent.  A  *)
(*          body Torn is a file created and not (completely) written       *)
(*   ja     the id of the empty file `.absent-<id>`, or None               *)
(*   jm     `.committed-<id>`: its id and its body (None when empty)       *)
(*   order  publication-order: "absent", "torn" (created, not written) or  *)
(*          "written"                                                      *)
(*   next   publication-order's next-sequence                              *)
(*   seq    publication-order's mapping, 0 for an id without one           *)
(*   staged `.publication-order` exists                                    *)
(*                                                                         *)
(* A tree map gives for each id what is in `generations/`: "none",         *)
(* "staging" (`.staging-<id>`), "sealed" (a complete final tree, the only  *)
(* one whose manifest, seal, receipt and outputs verify) or "broken" (a    *)
(* final tree whose removal was begun).                                    *)
(***************************************************************************)
EXTENDS Naturals, FiniteSets

CONSTANTS Ids, None, Torn

ASSUME NamesAreDistinct == None \notin Ids /\ Torn \notin Ids /\ None # Torn

NoFile == [id |-> None, body |-> None]

PublicationOrderEmpty(r) ==
  r.order = "written" /\ r.next = 1 /\ \A g \in Ids : r.seq[g] = 0

EmptyRoot ==
  [cur |-> None, jc |-> NoFile, ja |-> None, jm |-> NoFile,
   order |-> "absent", next |-> 1, seq |-> [g \in Ids |-> 0], staged |-> FALSE]

Sealed(t, g) == g \in Ids /\ t[g] = "sealed"

Final(t) == {g \in Ids : t[g] \in {"sealed", "broken"}}

Journals(r) ==
  {k \in {"current", "absent", "committed"} :
     \/ k = "current" /\ r.jc.id # None
     \/ k = "absent" /\ r.ja # None
     \/ k = "committed" /\ r.jm.id # None}

(***************************************************************************)
(* inspect_pointer_journals: the state of the pointer transaction, or      *)
(* "error" for an inventory that recovery and selection refuse.            *)
(***************************************************************************)
DiscardsCurrent(r, t) ==
  /\ Journals(r) = {"current"}
  /\ r.cur # r.jc.id /\ r.jc.body = r.jc.id /\ Sealed(t, r.jc.id)

RollsBackCurrent(r, t) ==
  /\ Journals(r) = {"current"}
  /\ r.cur = r.jc.id /\ r.jc.body # r.jc.id /\ Sealed(t, r.jc.body)

RollsBackAbsent(r, t) ==
  Journals(r) = {"absent"} /\ r.cur = r.ja /\ Sealed(t, r.ja)

DiscardsPristine(r, t) ==
  /\ Journals(r) = {"current", "absent"}
  /\ r.cur = None /\ r.jc.id = r.ja /\ r.jc.body = r.jc.id /\ Sealed(t, r.jc.id)

CleansCommitted(r, t) ==
  /\ Journals(r) = {"committed"}
  /\ r.cur = r.jm.id /\ r.jm.body # r.jm.id /\ Sealed(t, r.jm.id)
  /\ r.jm.body # None => Sealed(t, r.jm.body)

InspectPointerJournals(r, t) ==
  CASE r.jc.body = Torn \/ (r.cur # None /\ ~Sealed(t, r.cur)) -> "error"
    [] OTHER ->
         CASE Journals(r) = {} -> "clean"
           [] DiscardsCurrent(r, t) -> "discard_current"
           [] RollsBackCurrent(r, t) -> "rollback_current"
           [] RollsBackAbsent(r, t) -> "rollback_absent"
           [] DiscardsPristine(r, t) -> "discard_pristine"
           [] CleansCommitted(r, t) -> "cleanup_committed"
           [] OTHER -> "error"

\* The generation that recovery makes current.
Recovered(r) ==
  CASE r.jc.id # None /\ r.cur = r.jc.id /\ r.jc.body # Torn -> r.jc.body
    [] r.ja # None /\ r.cur = r.ja -> None
    [] OTHER -> r.cur

(***************************************************************************)
(* Conditions of the operations.                                           *)
(***************************************************************************)
\* select_current accepts only these transactions, with a current generation.
Selectable(r, t) ==
  /\ InspectPointerJournals(r, t) \in {"clean", "cleanup_committed"}
  /\ r.cur # None

\* publication-order parses: it was written completely.
PublicationOrderParses(r) == r.order = "written"

\* Every entry of generations/ is a final generation that has a sequence.
PublicationOrderComplete(r, t) ==
  /\ PublicationOrderParses(r)
  /\ \A g \in Ids : t[g] = "none" \/ (g \in Final(t) /\ r.seq[g] # 0)

CurrentOrPristine(r, t) ==
  IF r.cur # None THEN Sealed(t, r.cur)
  ELSE \A g \in Ids : t[g] = "none" \/ Sealed(t, g)

PristineBootstrap(r, t, leaseFiles) ==
  /\ ~r.staged
  /\ \A g \in Ids : t[g] = "none"
  /\ leaseFiles = {}
  /\ PublicationOrderEmpty(r)

\* A collection that does not ask which generations are leased.
CollectCandidates_IgnoresLeases(r, t, live) ==
  {g \in Ids : Sealed(t, g)} \ {r.cur, r.jm.body}

(***************************************************************************)
(* The generations that garbage collection removes: all but the live ones, *)
(* current, what a committed journal names, and the two with the greatest  *)
(* sequences of the rest; none at all when anything is uncertain.          *)
(***************************************************************************)
CollectCandidates(r, t, live) ==
  {g \in Ids : Sealed(t, g)} \ (live \cup {r.cur, r.jm.body})

\* One retained generation instead of two.
Newest_One(r, S) == {g \in S : Cardinality({h \in S : r.seq[h] > r.seq[g]}) < 1}
Newest(r, S) == {g \in S : Cardinality({h \in S : r.seq[h] > r.seq[g]}) < 2}

Collectible(r, t, live) ==
  IF /\ InspectPointerJournals(r, t) \in {"clean", "cleanup_committed"}
     /\ r.cur # None
     /\ ~r.staged
     /\ PublicationOrderComplete(r, t)
     /\ \A g \in Final(t) : Sealed(t, g)
  THEN CollectCandidates(r, t, live) \ Newest(r, CollectCandidates(r, t, live))
  ELSE {}
=============================================================================
