------------------------------ MODULE MCEngine ------------------------------
(***************************************************************************)
(* Instances of Engine for TLC: a few rules that overlap in time and in    *)
(* what they match, and transactions on either side of their limits.       *)
(***************************************************************************)
EXTENDS Engine

CONSTANTS alice, bob    \* accounts

Row(code, type, params, priority, from, until) ==
    [code |-> code, type |-> type, params |-> params, enabled |-> TRUE,
     priority |-> priority, valid_from |-> from, valid_until |-> until]

Limit(n) == [max_amount |-> n]
Blacklist(accounts) == [blacklisted_accounts |-> accounts]

Low == Row("limit", "Threshold", Limit(10), 1, 0, 1)
High == Row("limit", "Threshold", Limit(20), 2, 1, Never)
Listed == Row("list", "Blacklist", Blacklist({alice}), 2, 0, Never)
Unlisted == [Listed EXCEPT !.enabled = FALSE]
Malformed == Row("other", "Threshold", Blacklist({alice}), 3, 0, Never)
Unknown == Row("other", "Velocity", Limit(10), 3, 0, 2)

Tx(source, amount, timestamp) ==
    [source |-> source, destination |-> bob, amount |-> amount,
     timestamp |-> timestamp]

MCTxs == { Tx(alice, 11, 0), Tx(alice, 21, 1), Tx(bob, 21, 1) }

MCRows == {Low, High, Listed, Unlisted, Malformed, Unknown}
OneTx == {Tx(alice, 11, 0)}

FewRows == {Low, Listed, Unknown}
=============================================================================
