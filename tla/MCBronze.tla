------------------------------- MODULE MCBronze -------------------------------
(* Two transactions; copies with other values, at the bounds of the filters and
   beyond them; three files. *)
EXTENDS Bronze

CONSTANTS x1, x2

Record(t, amount, currency, length) ==
    [transaction_id |-> t, amount |-> amount, currency |-> currency, iban_length |-> length]

Good == Record(x1, 1, "CHF", 34)
Other == Record(x1, 999999999, "EUR", None)
Bad == Record(x1, 1000000000, "EUR", 15)
Second == Record(x2, 5, "AED", 15)
Short == Record(x2, 5, "AED", 14)

SomeContents == {{Good}, {Good, Second}, {Other, Bad}, {Other, Short}, {}}

\* Nothing that a filter could drop.
CleanContents == {{Good}, {Second}}
=============================================================================
