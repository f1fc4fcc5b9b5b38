------------------------------- MODULE Rules --------------------------------
(***************************************************************************)
(* The fraud rules and what they decide (crates/domain/src/rule.rs,        *)
(* transaction.rs, decision.rs; the query of rule_repo.rs).  Operators     *)
(* only: who holds which rules when, and the loop over them, are Engine's  *)
(* business.                                                               *)
(*                                                                         *)
(* A rule's params are JSON; what matters of them is whether the field its *)
(* type asks for is there, so they are a record with that field, the field *)
(* of another type, or none.                                               *)
(***************************************************************************)
EXTENDS Integers, Sequences, SequencesExt

CONSTANT Never          \* a rule without valid_until

Types == {"Threshold", "Blacklist"}     \* RuleType

\* Mutant: valid_until itself still counts.
IsActiveAtInclusive(rule, at) ==
    /\ rule.enabled
    /\ at >= rule.valid_from
    /\ rule.valid_until # Never => at <= rule.valid_until

\* is_active_at: from valid_from on, up to but not including valid_until.
IsActiveAt(rule, at) ==
    /\ rule.enabled
    /\ at >= rule.valid_from
    /\ rule.valid_until # Never => at < rule.valid_until

\* The params of the rule have what its type needs.
Parses(rule) ==
    IF rule.type = "Threshold" THEN "max_amount" \in DOMAIN rule.params
    ELSE "blacklisted_accounts" \in DOMAIN rule.params

Matches(rule, tx) ==
    IF rule.type = "Threshold" THEN tx.amount > rule.params.max_amount
    ELSE tx.source \in rule.params.blacklisted_accounts

\* evaluate returns Triggered; Skipped, Passed and an error all count as not.
Triggers(rule, tx) ==
    IsActiveAt(rule, tx.timestamp) /\ Parses(rule) /\ Matches(rule, tx)

\* validate.
Valid(tx) == tx.amount > 0 /\ tx.source # tx.destination

Decline == [kind |-> "Decline"]
Accept == [kind |-> "Accept"]
Review(rules) == [kind |-> "Review", triggered_rules |-> rules]

-----------------------------------------------------------------------------
(* load_active_rules at time now.                                          *)

\* The WHERE clause.
Selected(rows, now) ==
    { row \in rows : /\ row.enabled
                     /\ row.valid_from <= now
                     /\ row.valid_until # Never => row.valid_until > now }

\* One row of an unknown type fails the whole load.
LoadFailsOn(rows, now) == \E row \in Selected(rows, now) : row.type \notin Types

ByPriority(rules) ==
    \A i, j \in 1 .. Len(rules) : i < j => rules[i].priority >= rules[j].priority

\* The lists the query may return: by priority, ties in any order.
Loads(rows, now) ==
    { rules \in SetToSeqs(Selected(rows, now)) : ByPriority(rules) }
=============================================================================
