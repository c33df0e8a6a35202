----------------------------- MODULE Versioning -----------------------------
(***************************************************************************)
(* The rule that decides whether an event may overwrite a projection       *)
(* (domains/projections/versioning.py).  Every projection of an aggregate  *)
(* uses it: orders, leads, manual sales and sessions.                      *)
(***************************************************************************)
EXTENDS Integers

CONSTANT NoValue   \* a NULL column or an absent field

ASSUME NoValueAssumption == NoValue \notin Int

\* should_apply_entity_update: versions decide where the entity has the column
\* and both are known, occurred_at otherwise; an empty projection takes
\* anything.
ShouldApply(storedVersion, version, storedAt, at, hasVersionColumn, allowEqual) ==
  LET byVersion == hasVersionColumn /\ storedVersion # NoValue /\ version # NoValue
  IN \/ storedVersion = NoValue /\ storedAt = NoValue
     \/ byVersion /\ version > storedVersion
     \/ byVersion /\ allowEqual /\ version = storedVersion
     \/ ~byVersion /\ storedAt = NoValue
     \/ ~byVersion /\ storedAt # NoValue /\ at > storedAt
     \/ ~byVersion /\ storedAt # NoValue /\ allowEqual /\ at = storedAt

\* overlay_attributes for one attribute: an absent value never overwrites.
Overlay(current, value, onlyEmpty) ==
  IF value = NoValue \/ (onlyEmpty /\ current # NoValue) THEN current ELSE value
=============================================================================
