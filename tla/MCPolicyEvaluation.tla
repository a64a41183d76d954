-------------------------- MODULE MCPolicyEvaluation --------------------------
(* Model values of PolicyEvaluation for TLC: policies of up to two rules of up *)
(* to two conditions and up to two exceptions, three matches or fewer.         *)
EXTENDS PolicyEvaluation

Condition(type, op, n, analyzer, label, component) ==
  [type |-> type, op |-> op, min |-> n, max |-> n, analyzer |-> analyzer,
   label |-> label, component |-> component]

Conditions ==
  { Condition("content", "matches", 1, "regex", "", ""),
    Condition("content", "matches", 1, "keyword", "", ""),
    Condition("content", "count_gte", 2, "regex", "", ""),
    Condition("content", "count_lte", 1, "regex", "", ""),
    Condition("content", "not_matches", 1, "keyword", "", ""),
    Condition("content", "matches", 1, "regex", "", "body"),
    Condition("content", "not_matches", 1, "", "", "body"),
    Condition("file", "matches", 1, "", "pdf", "") }

Rules == {{c} : c \in Conditions}
         \cup {{c1, c2} : c1 \in {c \in Conditions : c.op = "matches"},
                          c2 \in {c \in Conditions : c.op # "matches"}}

Exception(scope, when, analyzer, label, component) ==
  [scope |-> scope, when |-> when, analyzer |-> analyzer, label |-> label,
   component |-> component]

Exceptions ==
  { Exception("message", "holds", "", "", ""),
    Exception("message", "unset", "", "ssn", ""),
    Exception("component", "holds", "regex", "", ""),
    Exception("component", "holds", "", "", "body"),
    Exception("component", "unset", "keyword", "", "") }

Tiers == {{}, {[severity |-> 3, min |-> 2], [severity |-> 2, min |-> 1]}}

AllPolicies ==
  [active : {TRUE}, group : {"none", "stranger"}, default : {1}, tiers : Tiers,
   rules : {{r1, r2} : r1, r2 \in Rules},
   exceptions : {{}} \cup {{e1, e2} : e1, e2 \in Exceptions}]

Match(n, analyzer, component) ==
  [id |-> <<n>>, analyzer |-> analyzer, label |-> IF n = 1 THEN "ssn" ELSE "other",
   component |-> component]

SomeDetections ==
  [matches : SUBSET {Match(1, "regex", "body"), Match(2, "regex", "attachment"),
                     Match(3, "keyword", "body")},
   file : {"", "pdf"}]
===============================================================================
