---------------------------- MODULE InboxTriage ----------------------------
(***************************************************************************)
(* How an observation changes the triage state of the inbox item it is of: *)
(* the canonical classifier (internal/app/sources/canonical) and           *)
(* applyTransition (internal/app/data/stores/store_inbox_item.go).         *)
(*                                                                         *)
(* A payload is abstracted to its canonical state: "open" stands for every *)
(* state that is not terminal and "closed" for every state that is.        *)
(* "absent" is no payload at all.  archived is the archive actor, or "no"  *)
(* for a row whose archived_at is NULL.                                    *)
(***************************************************************************)

Payloads     == {"open", "closed"}
Actors       == {"no", "manual", "system"}
Attentions   == {"activity", "trivial"}
Policies     == {"all", "state-changes", "never"}

\* Classify: the first observation is no transition, terminal or not.
Transition(prev, cur) ==
    CASE prev = "open"   /\ cur = "closed" -> "entered"
      [] prev = "closed" /\ cur = "open"   -> "left"
      [] OTHER                             -> "none"

\* Mutant of Resurfaces: the policy of a manual archive is ignored.
ResurfacesAnyway(archived, transition, attention, policy) ==
    transition = "left" \/ (archived = "manual" /\ attention = "activity")

\* Whether an archived item returns to the inbox.  A system archive follows
\* the source; a manual one follows the policy.
Resurfaces(archived, transition, attention, policy) ==
    /\ ~(archived = "manual" /\ policy = "never")
    /\ \/ transition = "left"
       \/ archived = "manual" /\ policy = "all" /\ attention = "activity"

\* A user archive wins over a terminal observation.
ArchivedAfter(archived, transition, attention, policy) ==
    CASE transition = "entered" /\ archived = "manual" -> "manual"
      [] transition = "entered" /\ archived # "manual" -> "system"
      [] transition # "entered" /\ archived = "no"     -> "no"
      [] OTHER -> IF Resurfaces(archived, transition, attention, policy) THEN "no" ELSE archived

UnreadAfter(unread, archived, transition, attention, policy) ==
    CASE transition = "entered" -> unread /\ archived = "manual"
      [] transition # "entered" /\ archived = "no" ->
             unread \/ attention = "activity" \/ transition = "left"
      [] OTHER -> unread \/ Resurfaces(archived, transition, attention, policy)
=============================================================================
