------------------------------ MODULE Validators ------------------------------
(***************************************************************************)
(* The validators of data identifiers (server/detection/analyzers/         *)
(* validators.py): what is accepted of the text a pattern has matched.     *)
(*                                                                         *)
(* Abstracted: separators, which the validators strip, are gone.  Numbers  *)
(* are sequences of digits, most significant first; an IBAN is a sequence  *)
(* of characters, 0..9 for digits and 10..35 for letters, as the code      *)
(* converts them; a date, the three numbers of its fields; of an e-mail    *)
(* address only the lengths of its parts count.                            *)
(***************************************************************************)
EXTENDS Integers, Sequences

\* The loops that add up: total is what the first terms come to.
Total(terms) ==
  LET total[k \in 0..Len(terms)] == IF k = 0 THEN 0 ELSE total[k - 1] + terms[k]
  IN total[Len(terms)]

Value(ds) == Total([i \in DOMAIN ds |-> ds[i] * 10 ^ (Len(ds) - i)])

LuhnTerm(d) == IF 2 * d > 9 THEN 2 * d - 9 ELSE 2 * d
\* Every second digit, counted from the right, is doubled.
Luhn(ds) ==
  /\ Len(ds) >= 13
  /\ Total([i \in DOMAIN ds |-> IF (Len(ds) - i) % 2 = 1 THEN LuhnTerm(ds[i]) ELSE ds[i]]) % 10 = 0

SsnArea(ds) ==
  /\ Len(ds) = 9
  /\ LET area == Value(SubSeq(ds, 1, 3)) IN area \notin {0, 666} /\ area < 900
  /\ Value(SubSeq(ds, 4, 5)) # 0 /\ Value(SubSeq(ds, 6, 9)) # 0

\* A country code 1 is dropped.
PhoneFormat(ds) ==
  LET local == IF Len(ds) = 11 /\ ds[1] = 1 THEN Tail(ds) ELSE ds
  IN Len(local) = 10 /\ local[1] >= 2 /\ local[4] >= 2

\* local and labels of the domain, by length.
EmailDomain(local, labels) ==
  local > 0 /\ Len(labels) >= 2 /\ labels[Len(labels)] \in 2..63

\* A letter is two decimal digits.
Mod97(cs) ==
  LET mod[i \in 0..Len(cs)] ==
        IF i = 0 THEN 0 ELSE (mod[i - 1] * (IF cs[i] < 10 THEN 10 ELSE 100) + cs[i]) % 97
  IN mod[Len(cs)]
\* The first four characters go to the end.
IbanMod97(cs) ==
  /\ Len(cs) \in 5..34
  /\ \A i \in 1..2 : cs[i] >= 10
  /\ \A i \in 3..4 : cs[i] < 10
  /\ Mod97(SubSeq(cs, 5, Len(cs)) \o SubSeq(cs, 1, 4)) = 1

PassportFormat(ds) == Len(ds) \in 8..9              \* after an optional letter
DriversLicenseFormat(ds) == ds # << >> => \E i \in DOMAIN ds : ds[i] # 0

Ipv4Range(octets) ==
  /\ Len(octets) = 4
  /\ \A i \in 1..4 : octets[i] <= 255
  /\ \E i \in 1..4 : octets[i] # 0
  /\ \E i \in 1..4 : octets[i] # 255

Leap(year) == year % 4 = 0 /\ (year % 100 # 0 \/ year % 400 = 0)
Days(month, year) ==
  IF month = 2 THEN IF Leap(year) THEN 29 ELSE 28
  ELSE IF month \in {4, 6, 9, 11} THEN 30 ELSE 31
\* Month first, or the year first: which one, the separator and the lengths tell.
DateCalendar(month, day, year) ==
  month \in 1..12 /\ day \in 1..Days(month, year) /\ year \in 1900..2100

AbaWeights_ == <<3, 7, 5, 3, 7, 5, 3, 7, 5>>   \* a mutant: a weight that 10 is no prime to
AbaWeights == <<3, 7, 1, 3, 7, 1, 3, 7, 1>>
AbaChecksum(ds) == Len(ds) = 9 /\ Total([i \in 1..9 |-> ds[i] * AbaWeights[i]]) % 10 = 0
=============================================================================
