------------------------------ MODULE Analyzers ------------------------------
(***************************************************************************)
(* The analyzers of the detection engine (server/detection/analyzers/): a  *)
(* match of each is what tells it from another, a rule and a place in the  *)
(* component.                                                              *)
(*                                                                         *)
(* A value is [is, of]: a number of some shape, with its digits, or a word *)
(* <<k, c>>, k naming its letters and c > 0 where some are capitals; or a  *)
(* document long enough to have a fingerprint.                             *)
(***************************************************************************)
EXTENDS Validators, Content

CONSTANTS
  Within,    \* pairs <<j, k>>: the word j stands inside the word k
  MimeDB,    \* MIME_TYPE_DB: from MIME types to categories
  ExtDB,     \* EXTENSION_FALLBACK: from extensions to categories
  Threshold, \* DEFAULT_SIMILARITY_THRESHOLD, in percent
  Bits       \* SIMHASH_BITS

ASSUME SimilarityAssumption == Bits \in Nat /\ Threshold \in 0..100

Opaque == [is |-> "opaque", of |-> << >>]       \* what an encoded item looks like
\* The values a pattern or a dictionary can see in a text.
Seen(text) == [i \in DOMAIN text |-> IF text[i].code = << >> THEN text[i].value ELSE Opaque]

-----------------------------------------------------------------------------
(* DataIdentifierAnalyzer.                                                 *)

\* The validator of the identifier whose pattern the value has the shape of.
Valid(v) ==
  CASE v.is = "card" -> Luhn(v.of)              [] v.is = "ssn" -> SsnArea(v.of)
    [] v.is = "phone" -> PhoneFormat(v.of)      [] v.is = "email" -> EmailDomain(v.of[1], Tail(v.of))
    [] v.is = "iban" -> IbanMod97(v.of)         [] v.is = "ip" -> Ipv4Range(v.of)
    [] v.is = "date" -> DateCalendar(v.of[1], v.of[2], v.of[3])
    [] v.is = "aba" -> AbaChecksum(v.of)        [] v.is = "passport" -> PassportFormat(v.of)
    [] v.is = "license" -> DriversLicenseFormat(v.of)
    [] OTHER -> FALSE

DataIdentifierMatches(identifiers, text) ==
  LET v == Seen(text) IN {<<v[i].is, i>> : i \in {j \in DOMAIN v : v[j].is \in identifiers /\ Valid(v[j])}}

\* RegexAnalyzer: a pattern is the values it matches.
RegexMatches(patterns, text) ==
  LET v == Seen(text) IN {u \in (DOMAIN patterns) \X (DOMAIN v) : v[u[2]] \in patterns[u[1]]}

-----------------------------------------------------------------------------
(* KeywordAnalyzer.  A dictionary is [keywords, sensitive, whole,          *)
(* proximity].                                                             *)

Lower(word) == <<word[1], 0>>
Fold(word, sensitive) == IF sensitive THEN word ELSE Lower(word)
Words(text) == LET v == Seen(text) IN [i \in DOMAIN v |-> IF v[i].is = "word" THEN v[i].of ELSE <<0, 0>>]

\* Two keywords that differ in case only are one entry without case: the later one.
Stored(dict) ==
  {k \in DOMAIN dict.keywords : \A l \in DOMAIN dict.keywords :
     Fold(dict.keywords[l], dict.sensitive) = Fold(dict.keywords[k], dict.sensitive) => l <= k}

KeywordHits(dict, k, word) ==
  LET key == Fold(dict.keywords[k], dict.sensitive)   seen == Fold(word, dict.sensitive)
  IN seen = key \/ (~dict.whole /\ <<key, seen>> \in Within)
KeywordMatches(dict, text) ==
  LET w == Words(text) IN {u \in Stored(dict) \X (DOMAIN w) : KeywordHits(dict, u[1], w[u[2]])}

\* _match_proximity: the words are always compared in lower case, so that a rule with
\* case matches only where its own keywords have no capitals.
Near_(i, j, max) == i # j /\ (IF i < j THEN j - i ELSE i - j) <= max    \* a mutant: off by one
Near(i, j, max) == i # j /\ (IF i < j THEN j - i ELSE i - j) - 1 <= max
ProximityMatches(dict, text) ==
  LET w == Words(text)
  IN {u \in (DOMAIN dict.proximity) \X (DOMAIN w) \X (DOMAIN w) :
        LET rule == dict.proximity[u[1]]
        IN /\ Lower(w[u[2]]) = Fold(rule.a, rule.sensitive) /\ Lower(w[u[3]]) = Fold(rule.b, rule.sensitive)
           /\ Near(u[2], u[3], rule.max)}

-----------------------------------------------------------------------------
(* FileTypeAnalyzer, on what the metadata of a component tell of its file. *)

Unknown == "unknown"
\* detect_file_type: by MIME type, then by extension.
Category(info) ==
  IF info.mime \in DOMAIN MimeDB THEN MimeDB[info.mime]
  ELSE IF info.ext \in DOMAIN ExtDB THEN ExtDB[info.ext] ELSE Unknown

\* A condition that is empty, or a size of 0, is none.
Conditions(rule) ==
  {c \in {"categories", "mimes", "exts", "names"} : rule[c] # {}}
  \cup {c \in {"min", "max"} : rule[c] > 0}
Holds(rule, c, info) ==
  CASE c = "categories" -> Category(info) \in rule.categories
    [] c = "mimes" -> info.mime \in rule.mimes   [] c = "exts" -> info.ext \in rule.exts
    [] c = "names" -> info.name \in rule.names
    [] c = "min" -> info.size >= rule.min        [] c = "max" -> info.size <= rule.max
RuleMatches_(rule, info) == \E c \in Conditions(rule) : Holds(rule, c, info)   \* a mutant: or
RuleMatches(rule, info) ==
  Conditions(rule) # {} /\ \A c \in Conditions(rule) : Holds(rule, c, info)
FileTypeMatches(rules, component) ==
  {r \in DOMAIN rules : component.file # << >> /\ RuleMatches(rules[r], component.file[1])}

-----------------------------------------------------------------------------
(* Fingerprints.  A document is one value: the hashes of its shingles.     *)

IsDocument(text) == Len(text) = 1 /\ text[1].code = << >> /\ text[1].value.is = "document"
Bit(h, b) == (h \div 2 ^ b) % 2
\* compute_simhash: the bits that most shingles have.
Simhash(hashes) ==
  {b \in 0..(Bits - 1) : 2 * Cardinality({i \in DOMAIN hashes : Bit(hashes[i], b) = 1}) > Len(hashes)}
HammingDistance(g, h) == Cardinality((g \ h) \cup (h \ g))
Similar(g, h) == 100 * (Bits - HammingDistance(g, h)) >= Threshold * Bits
=============================================================================
