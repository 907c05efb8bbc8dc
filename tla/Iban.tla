---------------------------------- MODULE Iban ----------------------------------
(***************************************************************************)
(* IBANValidator.validate of backend/utils/iban_validator.py, for an IBAN  *)
(* that somebody types with one slip.  A normalised IBAN is a sequence of  *)
(* characters, each as the checksum reads it: 0..9 for digits, 10..35 for  *)
(* letters.                                                                *)
(***************************************************************************)
EXTENDS Integers, Sequences, SequencesExt

CONSTANT Issued   \* the country and the account part of the IBANs that are typed

Digits == 0 .. 9
Letters == 10 .. 35
Characters == Digits \cup Letters

VARIABLES
    iban,   \* the IBAN as it was issued
    typed   \* as it was typed

typing == <<iban, typed>>

\* IBAN_SPECS: the length by the two letters of the country.
Length ==
    [CH |-> 21, DE |-> 22, AT |-> 20, LI |-> 21, FR |-> 27, NL |-> 18, GB |-> 22, LU |-> 20]

Country ==
    [CH |-> <<12, 17>>, DE |-> <<13, 14>>, AT |-> <<10, 29>>, LI |-> <<21, 18>>,
     FR |-> <<15, 27>>, NL |-> <<23, 21>>, GB |-> <<16, 11>>, LU |-> <<21, 30>>]

\* Accounts have the length that the table leaves them.
ASSUME IssuedAssumption ==
    \A i \in Issued :
        /\ i[1] \in DOMAIN Country
        /\ i[2] \in Seq(Characters) /\ Len(i[2]) = Length[i[1]] - 4

\* _validate_structure: a country of the table and its length.  bban_pattern is not used.
StructureValid(s) ==
    \E cc \in DOMAIN Country : SubSeq(s, 1, 2) = Country[cc] /\ Len(s) = Length[cc]

\* Mutant: a letter is added to the number like a digit.
BaseOneDigit(v) == 10

\* What the number so far is multiplied with: a letter is two digits.
Base(v) == IF v \in Digits THEN 10 ELSE 100

Read(rest, v) == (Base(v) * rest + v) % 97

\* The remainders of the numbers that the first characters of s stand for.
Running(s) ==
    LET r[n \in 0 .. Len(s)] == IF n = 0 THEN 0 ELSE Read(r[n - 1], s[n]) IN r

\* int(numeric) % 97
Remainder(s) == Running(s)[Len(s)]

\* The account part, then the country and the check digits.
Rearranged(s) == SubSeq(s, 5, Len(s)) \o SubSeq(s, 1, 4)

\* _validate_checksum
ChecksumValid(s) == Remainder(Rearranged(s)) = 1

\* validate, is_valid
Valid(s) == StructureValid(s) /\ ChecksumValid(s)

-----------------------------------------------------------------------------
(* Issuing and typing, outside the program *)

\* ISO 13616: 98 minus the remainder over check digits 00.  Here a character counts as often
\* as the characters behind it have digits: the reference for the validator.
Weights(s) ==
    LET w[n \in 0 .. Len(s)] ==
            IF n = Len(s) THEN 1 ELSE ((IF s[n + 1] > 9 THEN 100 ELSE 10) * w[n + 1]) % 97
    IN  w

Totals(s) ==
    LET w == Weights(s)
        t[n \in 0 .. Len(s)] == IF n = 0 THEN 0 ELSE t[n - 1] + s[n] * w[n]
    IN  t

CheckDigits(cc, bban) ==
    LET s == bban \o Country[cc] \o <<0, 0>> IN 98 - (Totals(s)[Len(s)] % 97)

Issue(cc, bban) ==
    LET check == CheckDigits(cc, bban)
    IN  Country[cc] \o <<check \div 10, check % 10>> \o bban

IbanInit ==
    /\ \E i \in Issued : iban = Issue(i[1], i[2])
    /\ typed = iban

Exchanged(s, i) == [s EXCEPT ![i] = s[i + 1], ![i + 1] = s[i]]

Slip ==
    /\ typed = iban
    /\ \E i \in DOMAIN iban :
        \/ \E v \in Characters : typed' = [iban EXCEPT ![i] = v]
        \/ i < Len(iban) /\ typed' = Exchanged(iban, i)
        \/ typed' = RemoveAt(iban, i)
        \/ typed' = InsertAt(iban, i, iban[i])
    /\ UNCHANGED iban

IbanSpec == IbanInit /\ [][Slip]_typing

-----------------------------------------------------------------------------
(* Properties *)

Alike(v, w) == v \in Digits <=> w \in Digits

\* A slip that puts a letter for a digit, or a digit for a letter.
MixesKinds(s, t) == Len(s) = Len(t) /\ \E i \in DOMAIN s : ~Alike(s[i], t[i])

\* "ISO 13616 mod-97 checksum validation" (iban_validator.py): an IBAN is accepted as it was
\* issued, and not with one character replaced by another of its kind (a digit for a digit, a
\* letter for a letter), two neighbours of a kind exchanged, one left out or typed twice.
OneSlipIsCaught ==
    Valid(typed) /\ ~MixesKinds(iban, typed) <=> typed = iban
===============================================================================
