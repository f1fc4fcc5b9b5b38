--------------------------- MODULE MCTransactions ---------------------------
(***************************************************************************)
(* Payloads for Transactions: one of each currency, in two pairs that      *)
(* share an id, with and without a timestamp, plainly spelled and not; and *)
(* one of each kind that does not parse.                                   *)
(***************************************************************************)
EXTENDS Transactions

CONSTANTS alice, bob, t1, t2

Payload(id, source, currency, timestamp) ==
    [id |-> id, source |-> source, destination |-> Text(bob, TRUE),
     amount |-> 5, currency |-> currency, timestamp |-> timestamp]

Plain(x) == Text(x, TRUE)
Odd(x) == Text(x, FALSE)

MCPayloads ==
    { Payload(Plain(t1), Plain(alice), "RUB", Missing),
      Payload(Odd(t1), Odd(alice), "CNY", 1),
      Payload(Plain(t2), Plain(alice), "USD", 1),
      Payload(Plain(t2), Odd(bob), "EUR", OutOfRange),
      Payload(Plain(t2), Plain("short"), "RUB", 0),
      Payload(Plain("not a uuid"), Plain(alice), "RUB", 0),
      Payload(Plain(t1), Plain(alice), "rub", 0),
      Garbled }
=============================================================================
