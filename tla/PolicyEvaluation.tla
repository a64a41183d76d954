--------------------------- MODULE PolicyEvaluation ---------------------------
(***************************************************************************)
(* The two policy evaluators: the agent's (agent/src/detection/            *)
(* policy_evaluator.cpp), which decides what happens to a file, and the    *)
(* server's (server/detection/policy_evaluator.py).  Each takes a policy   *)
(* and the matches that the analysers found, and returns what is left of   *)
(* the matches after the exceptions; the policy is violated when something *)
(* is, with a severity by their number.                                    *)
(*                                                                         *)
(* Abstracted: a rule is the set of its conditions, a policy's rules and   *)
(* exceptions are sets, matches a set of records told apart by their id    *)
(* (the code filters and counts its lists and never looks at their order); *)
(* the empty string is Blank.  What an exception's callback or its groups  *)
(* say of the message is its field "when": unset if it has neither.        *)
(***************************************************************************)
EXTENDS Integers, FiniteSets

CONSTANTS
  Blank,       \* the empty string
  FileType,    \* the name of the file type analyser
  Policies,    \* bound: policies
  Detections   \* bound: detection results

Operators == {"matches", "not_matches", "count_gte", "count_lte"}

ASSUME EvaluationAssumption ==
  /\ \A p \in Policies :
       /\ p = [active |-> p.active, group |-> p.group, default |-> p.default,
               tiers |-> p.tiers, rules |-> p.rules, exceptions |-> p.exceptions]
       /\ p.active \in BOOLEAN /\ p.group \in {"none", "member", "stranger"}
       /\ IsFiniteSet(p.rules)
       /\ \A r \in p.rules : IsFiniteSet(r) /\ \A c \in r : c.op \in Operators
       /\ \A t \in p.tiers : t.min \in Int /\ t.severity \in Int
       /\ \A e \in p.exceptions : /\ e.scope \in {"message", "component"}
                                  /\ e.when \in {"unset", "holds", "fails"}
  /\ \A d \in Detections : IsFiniteSet(d.matches)

VARIABLES
  policy, detection,
  agentLeft, serverLeft,  \* the matches each evaluator returns
  done

evaluationVars == <<policy, detection, agentLeft, serverLeft, done>>

\* An empty filter lets everything through.
Fits(filter, value) == filter = Blank \/ filter = value

-------------------------------------------------------------------------------
(* The agent.                                                              *)

Covers(c, m) ==
  /\ Fits(c.analyzer, m.analyzer)
  /\ Fits(c.label, m.label)
  /\ Fits(c.component, m.component)

CountMatches(c, d) ==
  LET counted == {m \in d.matches : Covers(c, m) /\ (c.type = "file" => Fits(c.label, d.file))}
  IN  IF c.type = "file" /\ counted = {} /\ c.label # Blank /\ c.label = d.file
      THEN 1 ELSE Cardinality(counted)

EvaluateCondition(c, d) ==
  CASE c.op \in {"matches", "count_gte"} -> CountMatches(c, d) >= c.min
    [] c.op = "not_matches" -> CountMatches(c, d) = 0
    [] c.op = "count_lte" -> CountMatches(c, d) <= c.max

EvaluateRule(r, d) == r # {} /\ \A c \in r : EvaluateCondition(c, d)

\* The match made up for a file type condition that only the metadata meets.
Synthesized(r, c, d) ==
  [id |-> <<r, c>>, analyzer |-> FileType, component |-> Blank, label |-> d.file]

\* Mutant of CollectRelevantMatches: any file type condition makes one up.
CollectAnyFileType(p, d) ==
  LET covered == {m \in d.matches : \E r \in p.rules : \E c \in r : Covers(c, m)}
  IN  IF covered # {} THEN covered
      ELSE UNION {{Synthesized(r, c, d) : c \in {x \in r : x.type = "file"}} : r \in p.rules}

\* Whatever any condition of any rule covers, whether the rule holds or not.
CollectRelevantMatches(p, d) ==
  LET covered == {m \in d.matches : \E r \in p.rules : \E c \in r : Covers(c, m)}
      unfiltered == \E r \in p.rules : \E c \in r : c.analyzer = Blank /\ c.label = Blank
  IN  IF covered # {} THEN covered
      ELSE IF d.matches # {} /\ unfiltered THEN d.matches
      ELSE UNION {{Synthesized(r, c, d) :
                     c \in {x \in r : x.type = "file" /\ d.file # Blank /\ Fits(x.label, d.file)}} :
                   r \in p.rules}

\* An exception for the whole message; without a callback or a label it applies.
Excludes(e, d) ==
  /\ e.scope = "message"
  /\ \/ e.when = "holds"
     \/ e.when = "unset" /\ (e.label = Blank \/ \E m \in d.matches : m.label = e.label)

\* An exception for matched components.
Removes(e, m) ==
  /\ e.scope = "component" /\ e.when \in {"unset", "holds"}
  /\ Covers(e, m)

\* Mutant of ApplyMCOExceptions: a match goes only if every exception removes it.
ApplyMCOExceptionsJointly(exceptions, matches) ==
  {m \in matches : exceptions = {} \/ ~\A e \in exceptions : Removes(e, m)}

ApplyMCOExceptions(exceptions, matches) ==
  {m \in matches : ~\E e \in exceptions : Removes(e, m)}

\* Mutant of Evaluate: only a first rule is looked at.
EvaluateOneRule(p, d) ==
  IF /\ p.active
     /\ p.rules # {} /\ EvaluateRule(CHOOSE r \in p.rules : TRUE, d)
     /\ ~\E e \in p.exceptions : Excludes(e, d)
  THEN ApplyMCOExceptions(p.exceptions, CollectRelevantMatches(p, d))
  ELSE {}

Evaluate(p, d) ==
  IF /\ p.active
     /\ \E r \in p.rules : EvaluateRule(r, d)
     /\ ~\E e \in p.exceptions : Excludes(e, d)
  THEN ApplyMCOExceptions(p.exceptions, CollectRelevantMatches(p, d))
  ELSE {}

-------------------------------------------------------------------------------
(* The server.                                                             *)

\* RuleCondition.evaluate; its threshold is c.min or c.max, by the operator.
ServerCondition(c, d) ==
  LET n == Cardinality({m \in d.matches : m.analyzer = c.analyzer /\ Fits(c.component, m.component)})
  IN  CASE c.op = "matches" -> n > 0
        [] c.op = "not_matches" -> n = 0
        [] c.op = "count_gte" -> n >= c.min
        [] c.op = "count_lte" -> n <= c.max

ServerRule(r, d) == r # {} /\ \A c \in r : ServerCondition(c, d)

\* Mutant of Contributing: the analysers of every rule of the policy.
ContributingAny(p, d) ==
  {c.analyzer : c \in UNION p.rules}

\* matched_analyzers of the rules that hold: those of all their conditions.
Contributing(p, d) ==
  {c.analyzer : c \in UNION {r \in p.rules : ServerRule(r, d)}}

\* PolicyException.applies: without a callback or groups it never does.
Applies(e, scope) == e.scope = scope /\ e.when = "holds"

\* filter_matches, for matched components.
Filters(e, m) == Fits(e.analyzer, m.analyzer) /\ Fits(e.component, m.component)

ServerEvaluate(p, d) ==
  IF /\ p.active
     /\ \E r \in p.rules : ServerRule(r, d)
     /\ p.group # "stranger"
     /\ ~\E e \in p.exceptions : Applies(e, "message")
  THEN {m \in d.matches : /\ m.analyzer \in Contributing(p, d)
                          /\ ~\E e \in p.exceptions : Applies(e, "component") /\ Filters(e, m)}
  ELSE {}

-------------------------------------------------------------------------------
\* Mutant of CalculateSeverity: the thresholds are sorted the other way.
CalculateSeverityAscending(p, n) ==
  LET met == {t \in p.tiers : n >= t.min}
  IN  IF met = {} THEN p.default
      ELSE (CHOOSE t \in met : \A u \in met : t.min <= u.min).severity

\* Both: the tier with the most matches that are reached.
CalculateSeverity(p, n) ==
  LET met == {t \in p.tiers : n >= t.min}
  IN  IF met = {} THEN p.default
      ELSE (CHOOSE t \in met : \A u \in met : u.min <= t.min).severity

-------------------------------------------------------------------------------
EvaluationInit ==
  /\ policy \in Policies /\ detection \in Detections
  /\ agentLeft = {} /\ serverLeft = {} /\ done = FALSE

Decide ==
  /\ ~done
  /\ agentLeft' = Evaluate(policy, detection)
  /\ serverLeft' = ServerEvaluate(policy, detection)
  /\ done' = TRUE
  /\ UNCHANGED <<policy, detection>>

EvaluationNext == Decide

EvaluationSpec == EvaluationInit /\ [][EvaluationNext]_evaluationVars

-------------------------------------------------------------------------------
(* Properties.                                                             *)

WithRules(rs) == [policy EXCEPT !.rules = rs]
Without(e) == [policy EXCEPT !.exceptions = @ \ {e}]

EvaluationTypeOK ==
  /\ policy \in Policies /\ detection \in Detections /\ done \in BOOLEAN
  /\ agentLeft \subseteq detection.matches
       \cup UNION {{Synthesized(r, c, detection) :
                       c \in {x \in r : x.type = "file" /\ Fits(x.label, detection.file)}} :
                     r \in policy.rules}
  /\ serverLeft \subseteq detection.matches

\* On the server the rules of a policy are alternatives: what it finds is what
\* its rules find one by one, and a rule that does not hold adds nothing.
RulesAreAlternatives ==
  done => serverLeft = UNION {ServerEvaluate(WithRules({r}), detection) : r \in policy.rules}

\* An exception only ever takes matches away, in both evaluators.
ExceptionsOnlyRemove ==
  done => \A e \in policy.exceptions :
            /\ agentLeft \subseteq Evaluate(Without(e), detection)
            /\ serverLeft \subseteq ServerEvaluate(Without(e), detection)

\* What both sides can express: named analysers, one match needed, no labels
\* or components, exceptions with a callback, no groups.
Shared ==
  /\ policy.group = "none"
  /\ \A r \in policy.rules : \A c \in r :
       c.type # "file" /\ c.analyzer # Blank /\ c.label = Blank /\ c.component = Blank
       /\ (c.op = "matches" => c.min = 1)
  /\ \A e \in policy.exceptions : e.when # "unset" /\ e.label = Blank

\* The endpoint is no laxer than the server: what the server finds in violation
\* of a policy, the agent finds too.
AgentIsNoLaxer == done /\ Shared => serverLeft \subseteq agentLeft

Rising(p) ==
  /\ \A t, u \in p.tiers : t.min < u.min => t.severity <= u.severity
  /\ \A t, u \in p.tiers : t.min = u.min => t = u

\* Tiers are evaluated highest first: when they rise with the number of matches, a
\* violation is as severe as the worst tier that what is left of them reaches.
NoTierIsMissed ==
  done /\ Rising(policy) =>
    \A n \in {Cardinality(agentLeft), Cardinality(serverLeft)}, t \in policy.tiers :
      t.min <= n => t.severity <= CalculateSeverity(policy, n)

\* What is left and how severe it is, in both evaluators (CalculateSeverity).
SeverityFollowsMatches == EvaluationTypeOK /\ NoTierIsMissed

\* "Mirrors the Python server's policy evaluation pipeline": on policies that
\* both can express the evaluators find the same matches.
Parity == done /\ Shared => agentLeft = serverLeft
===============================================================================
