------------------------------ MODULE Agent_proofs ------------------------------
(***************************************************************************)
(* Proofs about what the agent decides and how it runs: the evaluators of  *)
(* PolicyEvaluation for every policy and every detection result, and the   *)
(* threads of AgentService for every list of components.                   *)
(*                                                                         *)
(* The watchdog and the main thread are never at the components together:  *)
(* until the watchdog has ended, all components with a Start that can fail *)
(* run, and after that the main thread stops them one by one.              *)
(***************************************************************************)
EXTENDS PolicyEvaluation, AgentService, FiniteSetTheorems, WellFoundedInduction, TLAPS

-----------------------------------------------------------------------------
(* The evaluators.                                                         *)

\* The fields of a policy whose rules or exceptions were replaced.
LEMMA Replaced ==
  ASSUME NEW p \in Policies, NEW x
  PROVE  /\ [p EXCEPT !.rules = x].active = p.active
         /\ [p EXCEPT !.rules = x].group = p.group
         /\ [p EXCEPT !.rules = x].rules = x
         /\ [p EXCEPT !.rules = x].exceptions = p.exceptions
         /\ [p EXCEPT !.exceptions = x].active = p.active
         /\ [p EXCEPT !.exceptions = x].group = p.group
         /\ [p EXCEPT !.exceptions = x].rules = p.rules
         /\ [p EXCEPT !.exceptions = x].exceptions = x
BY EvaluationAssumption DEF EvaluationAssumption

\* What has been decided is what the evaluators compute of the inputs.
Decided ==
  /\ policy \in Policies /\ detection \in Detections
  /\ done => /\ agentLeft = Evaluate(policy, detection)
             /\ serverLeft = ServerEvaluate(policy, detection)

LEMMA DecidedAlways == EvaluationSpec => []Decided
<1>1. EvaluationInit => Decided
  BY DEF EvaluationInit, Decided
<1>2. Decided /\ [EvaluationNext]_evaluationVars => Decided'
  BY DEF Decided, EvaluationNext, Decide, evaluationVars
<1> QED
  BY <1>1, <1>2, PTL DEF EvaluationSpec

\* The server's evaluator, without intermediate definitions.
LEMMA ServerLeaves ==
  ASSUME NEW p \in Policies, NEW d, NEW m
  PROVE  m \in ServerEvaluate(p, d) <=>
           /\ p.active /\ p.group # "stranger"
           /\ ~\E e \in p.exceptions : Applies(e, "message")
           /\ m \in d.matches
           /\ ~\E e \in p.exceptions : Applies(e, "component") /\ Filters(e, m)
           /\ \E r \in p.rules : ServerRule(r, d) /\ \E c \in r : c.analyzer = m.analyzer
<1>1. m.analyzer \in Contributing(p, d)
        <=> \E r \in p.rules : ServerRule(r, d) /\ \E c \in r : c.analyzer = m.analyzer
  BY DEF Contributing
<1> QED
  BY <1>1 DEF ServerEvaluate

-------------------------------------------------------------------------------
\* On the server a rule that does not hold adds nothing to what the others find
\* (DetectionRule.evaluate and matched_analyzers, of each rule by itself).
THEOREM ServerRulesAreAlternatives == EvaluationSpec => []RulesAreAlternatives
<1>1. Decided => RulesAreAlternatives
  <2> SUFFICES ASSUME Decided, done
               PROVE  serverLeft = UNION {ServerEvaluate(WithRules({r}), detection) : r \in policy.rules}
    BY DEF RulesAreAlternatives
  <2> DEFINE p == policy  d == detection
  <2>1. p \in Policies /\ serverLeft = ServerEvaluate(p, d)
    BY DEF Decided
  <2>2. ASSUME NEW r \in p.rules, NEW m
        PROVE  m \in ServerEvaluate(WithRules({r}), d) <=>
                 /\ p.active /\ p.group # "stranger"
                 /\ ~\E e \in p.exceptions : Applies(e, "message")
                 /\ m \in d.matches
                 /\ ~\E e \in p.exceptions : Applies(e, "component") /\ Filters(e, m)
                 /\ ServerRule(r, d) /\ \E c \in r : c.analyzer = m.analyzer
    <3>1. m.analyzer \in Contributing(WithRules({r}), d)
            <=> ServerRule(r, d) /\ \E c \in r : c.analyzer = m.analyzer
      BY <2>1, Replaced DEF Contributing, WithRules
    <3> QED
      BY <2>1, <3>1, Replaced DEF ServerEvaluate, WithRules
  <2>3. ASSUME NEW m
        PROVE  m \in ServerEvaluate(p, d) <=> \E r \in p.rules : m \in ServerEvaluate(WithRules({r}), d)
    <3>1. m \in ServerEvaluate(p, d) <=>
            /\ p.active /\ p.group # "stranger"
            /\ ~\E e \in p.exceptions : Applies(e, "message")
            /\ m \in d.matches
            /\ ~\E e \in p.exceptions : Applies(e, "component") /\ Filters(e, m)
            /\ \E r \in p.rules : ServerRule(r, d) /\ \E c \in r : c.analyzer = m.analyzer
      BY <2>1, ServerLeaves
    <3> QED
      BY <2>2, <3>1
  <2> QED
    BY <2>1, <2>3
<1> QED
  BY <1>1, DecidedAlways, PTL

-------------------------------------------------------------------------------
\* Taking an exception away never takes a match away (Evaluate's steps 3 and 4
\* in the agent, steps 4a and 4b of _evaluate_policy in the server).
THEOREM ExceptionsRemove == EvaluationSpec => []ExceptionsOnlyRemove
<1>1. Decided => ExceptionsOnlyRemove
  <2> SUFFICES ASSUME Decided, done, NEW e \in policy.exceptions
               PROVE  /\ agentLeft \subseteq Evaluate(Without(e), detection)
                      /\ serverLeft \subseteq ServerEvaluate(Without(e), detection)
    BY DEF ExceptionsOnlyRemove
  <2> DEFINE p == policy  d == detection  q == Without(e)
  <2>1. /\ p \in Policies
        /\ agentLeft = Evaluate(p, d) /\ serverLeft = ServerEvaluate(p, d)
    BY DEF Decided
  <2>2. /\ q.active = p.active /\ q.group = p.group /\ q.rules = p.rules
        /\ q.exceptions \subseteq p.exceptions
    BY <2>1, Replaced DEF Without
  <2> HIDE DEF q
  <2>3. CollectRelevantMatches(q, d) = CollectRelevantMatches(p, d)
    BY <2>2 DEF CollectRelevantMatches
  <2>4. Contributing(q, d) = Contributing(p, d)
    BY <2>2 DEF Contributing
  <2>5. Evaluate(p, d) \subseteq Evaluate(q, d)
    BY <2>2, <2>3 DEF Evaluate, ApplyMCOExceptions
  <2>6. ServerEvaluate(p, d) \subseteq ServerEvaluate(q, d)
    BY <2>2, <2>4 DEF ServerEvaluate
  <2> QED
    BY <2>1, <2>5, <2>6 DEF q
<1> QED
  BY <1>1, DecidedAlways, PTL

-------------------------------------------------------------------------------
\* A shared condition that the server finds satisfied the agent finds satisfied:
\* both count the matches of its analyser (CountMatches, RuleCondition.evaluate).
LEMMA SharedCondition ==
  ASSUME NEW d \in Detections, NEW c, c.op \in Operators,
         c.type # "file", c.analyzer # Blank, c.label = Blank, c.component = Blank,
         c.op = "matches" => c.min = 1,
         ServerCondition(c, d)
  PROVE  EvaluateCondition(c, d)
<1> DEFINE found == {m \in d.matches : m.analyzer = c.analyzer}
<1>1. CountMatches(c, d) = Cardinality(found)
  <2>1. {m \in d.matches : Covers(c, m) /\ (c.type = "file" => Fits(c.label, d.file))} = found
    BY DEF Covers, Fits
  <2> QED
    BY <2>1 DEF CountMatches
<1>2. {m \in d.matches : m.analyzer = c.analyzer /\ Fits(c.component, m.component)} = found
  BY DEF Fits
<1>3. Cardinality(found) \in Nat
  <2>1. IsFiniteSet(d.matches)
    BY EvaluationAssumption DEF EvaluationAssumption
  <2>2. IsFiniteSet(found)
    BY <2>1, FS_Subset
  <2> QED
    BY <2>2, FS_CardinalityType
<1> DEFINE n == Cardinality(found)
<1>4. /\ c.op = "matches" => n > 0
      /\ c.op = "not_matches" => n = 0
      /\ c.op = "count_gte" => n >= c.min
      /\ c.op = "count_lte" => n <= c.max
  BY <1>2 DEF ServerCondition
<1> HIDE DEF n, found
<1>5. CASE c.op = "matches"
  BY <1>1, <1>3, <1>4, <1>5 DEF EvaluateCondition, n
<1>6. CASE c.op = "not_matches"
  BY <1>1, <1>4, <1>6 DEF EvaluateCondition, n
<1>7. CASE c.op = "count_gte"
  BY <1>1, <1>4, <1>7 DEF EvaluateCondition, n
<1>8. CASE c.op = "count_lte"
  BY <1>1, <1>4, <1>8 DEF EvaluateCondition, n
<1> QED
  BY <1>5, <1>6, <1>7, <1>8 DEF Operators

\* Every match that the server finds in violation of a policy both can express,
\* the agent finds too (Evaluate against _evaluate_policy).
THEOREM AgentNoLaxer == EvaluationSpec => []AgentIsNoLaxer
<1>1. Decided => AgentIsNoLaxer
  <2> SUFFICES ASSUME Decided, done, Shared, NEW m \in serverLeft
               PROVE  m \in agentLeft
    BY DEF AgentIsNoLaxer
  <2> DEFINE p == policy  d == detection
  <2>1. /\ p \in Policies /\ d \in Detections
        /\ agentLeft = Evaluate(p, d) /\ serverLeft = ServerEvaluate(p, d)
    BY DEF Decided
  <2>2. /\ p.active /\ p.group # "stranger"
        /\ ~\E e \in p.exceptions : Applies(e, "message")
        /\ m \in d.matches
        /\ ~\E e \in p.exceptions : Applies(e, "component") /\ Filters(e, m)
    BY <2>1, ServerLeaves
  <2>3. PICK r \in p.rules : ServerRule(r, d) /\ \E c \in r : c.analyzer = m.analyzer
    BY <2>1, ServerLeaves
  <2>4. EvaluateRule(r, d)
    <3>1. ASSUME NEW c \in r PROVE EvaluateCondition(c, d)
      <4>1. c.op \in Operators
        BY <2>1, EvaluationAssumption DEF EvaluationAssumption
      <4>2. /\ c.type # "file" /\ c.analyzer # Blank /\ c.label = Blank /\ c.component = Blank
            /\ c.op = "matches" => c.min = 1
        BY DEF Shared
      <4>3. ServerCondition(c, d)
        BY <2>3 DEF ServerRule
      <4> QED
        BY <2>1, <4>1, <4>2, <4>3, SharedCondition
    <3> QED
      BY <2>3, <3>1 DEF EvaluateRule, ServerRule
  <2>5. ~\E e \in p.exceptions : Excludes(e, d)
    BY <2>2 DEF Shared, Applies, Excludes
  <2>6. m \in CollectRelevantMatches(p, d)
    <3>1. \E s \in p.rules : \E c \in s : Covers(c, m)
      BY <2>3 DEF Shared, Covers, Fits
    <3> QED
      BY <2>2, <3>1 DEF CollectRelevantMatches
  <2>7. ~\E e \in p.exceptions : Removes(e, m)
    BY <2>2 DEF Shared, Applies, Removes, Filters, Covers
  <2> QED
    BY <2>1, <2>2, <2>3, <2>4, <2>5, <2>6, <2>7 DEF Evaluate, ApplyMCOExceptions
<1> QED
  BY <1>1, DecidedAlways, PTL
-------------------------------------------------------------------------------
(* The severity of what is left.                                           *)

LEMMA SynthesizedFinite ==
  ASSUME NEW p \in Policies, NEW d
  PROVE  IsFiniteSet({Synthesized(x[1], x[2], d) : x \in p.rules \X UNION p.rules})
<1> DEFINE S == p.rules \X UNION p.rules
           f == [x \in S |-> Synthesized(x[1], x[2], d)]
           T == {Synthesized(x[1], x[2], d) : x \in S}
<1>1. IsFiniteSet(p.rules) /\ \A r \in p.rules : IsFiniteSet(r)
  BY EvaluationAssumption DEF EvaluationAssumption
<1>2. IsFiniteSet(UNION p.rules)
  BY <1>1, FS_UNION
<1>3. IsFiniteSet(S)
  BY <1>1, <1>2, FS_Product
<1>4. f \in Surjection(S, T)
  <2>1. f \in [S -> T] /\ \A x \in S : f[x] = Synthesized(x[1], x[2], d)
    OBVIOUS
  <2>2. \A t \in T : \E x \in S : Synthesized(x[1], x[2], d) = t
    OBVIOUS
  <2> HIDE DEF f, S, T
  <2>3. \A t \in T : \E x \in S : f[x] = t
    BY <2>1, <2>2
  <2> QED  BY <2>1, <2>3 DEF Surjection
<1> HIDE DEF f, S
<1> QED  BY <1>3, <1>4, FS_Surjection DEF S

LEMMA AgentLeavesFew ==
  ASSUME NEW p \in Policies, NEW d \in Detections
  PROVE  /\ IsFiniteSet(Evaluate(p, d))
         /\ Evaluate(p, d) \subseteq d.matches
              \cup UNION {{Synthesized(r, c, d) :
                              c \in {x \in r : x.type = "file" /\ Fits(x.label, d.file)}} :
                            r \in p.rules}
<1> DEFINE all == {Synthesized(x[1], x[2], d) : x \in p.rules \X UNION p.rules}
           made == UNION {{Synthesized(r, c, d) :
                              c \in {x \in r : x.type = "file" /\ Fits(x.label, d.file)}} :
                            r \in p.rules}
           few == UNION {{Synthesized(r, c, d) :
                     c \in {x \in r : x.type = "file" /\ d.file # Blank /\ Fits(x.label, d.file)}} :
                   r \in p.rules}
<1>1. IsFiniteSet(all) /\ IsFiniteSet(d.matches)
  BY SynthesizedFinite, EvaluationAssumption DEF EvaluationAssumption
<1>2. made \subseteq all
  <2>1. ASSUME NEW r \in p.rules, NEW c \in r PROVE Synthesized(r, c, d) \in all
    <3>1. <<r, c>> \in p.rules \X UNION p.rules
      OBVIOUS
    <3> QED  BY <3>1
  <2> HIDE DEF all
  <2> QED  BY <2>1
<1>3. few \subseteq made
  OBVIOUS
<1>4. CollectRelevantMatches(p, d) \subseteq d.matches \cup few
  BY DEF CollectRelevantMatches
<1>5. Evaluate(p, d) \subseteq CollectRelevantMatches(p, d)
  BY DEF Evaluate, ApplyMCOExceptions
<1> HIDE DEF all, made, few
<1>6. IsFiniteSet(d.matches \cup all)
  BY <1>1, FS_Union
<1>7. Evaluate(p, d) \in SUBSET (d.matches \cup all)
  BY <1>2, <1>3, <1>4, <1>5
<1>8. IsFiniteSet(Evaluate(p, d))
  BY <1>6, <1>7, FS_Subset
<1> QED  BY <1>3, <1>4, <1>5, <1>8 DEF made

\* Of the tiers that a number reaches one is the highest: nothing descends for
\* ever below that number.
LEMMA HighestTier ==
  ASSUME NEW met, met # {}, NEW n \in Int, \A t \in met : t.min \in Int /\ t.min <= n
  PROVE  \E t \in met : \A u \in met : u.min <= t.min
<1> DEFINE T == {n - t.min : t \in met}
<1>1. T \subseteq Nat /\ T # {}
  OBVIOUS
<1>2. \A t \in met : n - t.min \in T
  OBVIOUS
<1>3. \A x \in T : \E t \in met : x = n - t.min
  OBVIOUS
<1> HIDE DEF T
<1>4. PICK x \in T : \A y \in T : ~(<<y, x>> \in OpToRel(<, Nat))
  BY <1>1, NatLessThanWellFounded, WFMin
<1>5. \A y \in T : ~(y < x)
  BY <1>1, <1>4 DEF OpToRel
<1>6. PICK t \in met : x = n - t.min
  BY <1>3
<1>7. ASSUME NEW u \in met PROVE u.min <= t.min
  <2>1. ~(n - u.min < n - t.min)
    BY <1>2, <1>5, <1>6
  <2> QED  BY <2>1
<1> QED  BY <1>7

\* CalculateSeverity takes the first tier reached, the tiers sorted by falling
\* number of matches.
LEMMA SeverityOfHighest ==
  ASSUME NEW p \in Policies, Rising(p), NEW n \in Int, NEW t \in p.tiers, t.min <= n
  PROVE  t.severity <= CalculateSeverity(p, n)
<1> DEFINE met == {u \in p.tiers : n >= u.min}
           top == CHOOSE u \in met : \A v \in met : v.min <= u.min
<1>1. \A u \in p.tiers : u.min \in Int /\ u.severity \in Int
  BY EvaluationAssumption DEF EvaluationAssumption
<1>2. t \in met /\ \A u \in met : u \in p.tiers /\ u.min <= n
  BY <1>1
<1>3. CalculateSeverity(p, n) = top.severity
  BY <1>2 DEF CalculateSeverity
<1> HIDE DEF met
<1>4. \E u \in met : \A v \in met : v.min <= u.min
  BY <1>1, <1>2, HighestTier
<1>5. top \in met /\ t.min <= top.min
  BY <1>2, <1>4
<1> HIDE DEF top
<1>6. CASE t.min < top.min
  BY <1>1, <1>2, <1>3, <1>5, <1>6 DEF Rising
<1>7. CASE t.min = top.min
  BY <1>1, <1>2, <1>3, <1>5, <1>7 DEF Rising
<1> QED  BY <1>1, <1>2, <1>5, <1>6, <1>7

\* Whatever the evaluators leave of the matches comes from the detection or was
\* made up for a file type condition, and no tier it reaches is missed
\* (CalculateSeverity of the agent, calculate_severity of the server).
THEOREM SeverityIsRight == EvaluationSpec => []SeverityFollowsMatches
<1> DEFINE Undecided == done \in BOOLEAN /\ (~done => agentLeft = {} /\ serverLeft = {})
<1>1. EvaluationInit => Undecided
  BY DEF EvaluationInit
<1>2. Undecided /\ [EvaluationNext]_evaluationVars => Undecided'
  BY DEF EvaluationNext, Decide, evaluationVars
<1>3. Decided /\ Undecided => SeverityFollowsMatches
  <2> SUFFICES ASSUME Decided, Undecided PROVE EvaluationTypeOK /\ NoTierIsMissed
    BY DEF SeverityFollowsMatches
  <2>1. policy \in Policies /\ detection \in Detections
    BY DEF Decided
  <2>2. done => /\ agentLeft = Evaluate(policy, detection)
                /\ serverLeft = ServerEvaluate(policy, detection)
    BY DEF Decided
  <2>3. ServerEvaluate(policy, detection) \subseteq detection.matches
    BY DEF ServerEvaluate
  <2>4. EvaluationTypeOK
    BY <2>1, <2>2, <2>3, AgentLeavesFew DEF EvaluationTypeOK
  <2>5. ASSUME done PROVE IsFiniteSet(agentLeft) /\ IsFiniteSet(serverLeft)
    <3>1. IsFiniteSet(agentLeft)
      BY <2>1, <2>2, <2>5, AgentLeavesFew
    <3>2. IsFiniteSet(detection.matches)
      BY <2>1, EvaluationAssumption DEF EvaluationAssumption
    <3>3. serverLeft \in SUBSET detection.matches
      BY <2>2, <2>3, <2>5
    <3>4. IsFiniteSet(serverLeft)
      BY <3>2, <3>3, FS_Subset
    <3> QED  BY <3>1, <3>4
  <2>6. ASSUME done PROVE Cardinality(agentLeft) \in Int /\ Cardinality(serverLeft) \in Int
    BY <2>5, <2>6, FS_CardinalityType
  <2>7. NoTierIsMissed
    BY <2>1, <2>6, SeverityOfHighest DEF NoTierIsMissed
  <2> QED  BY <2>4, <2>7
<1> HIDE DEF Undecided
<1> QED  BY <1>1, <1>2, <1>3, DecidedAlways, PTL DEF EvaluationSpec

-----------------------------------------------------------------------------
(* The threads of the agent: the invariant.                                *)

Quiet(c) == ~running[c] /\ thread[c] \in {"none", "ended"}

\* Those whose Start may fail are never stopped while the watchdog is there.
Up(c) == MayFailToStart(c) => running[c]

\* Where the two threads can be at the same time, and at which component.
Positions ==
  /\ dog # "off" => main \in {"wait", "unwatch", "joinDog"}
  /\ dog \in DogHolds => at["dog"] >= 1
  /\ dog \in {"dogJoin", "restart"} => at["dog"] <= N
  /\ main \in {"start", "stopJoin"} => at["main"] >= 1
  /\ main \in {"stop", "stopJoin"} => at["main"] <= N

\* A thread at work has its flag set, unless somebody waits for it to end.
Flags ==
  \A c \in Comps :
    /\ thread[c] = "setup" => c \in Monitors
    /\ c \in Ports /\ running[c] => handle[c]
    /\ thread[c] \in {"setup", "loop", "stuck"} =>
         \/ running[c]
         \/ dog = "dogJoin" /\ c = Checked
         \/ main = "stopJoin" /\ c = Order[at["main"]]

\* How far the main thread has come with starting, and with stopping.
Phases ==
  /\ main \in {"init", "done"} => \A c \in Comps : Quiet(c)
  /\ main = "start" => \A i \in 1 .. at["main"] - 1 : Up(Order[i])
  /\ dog # "off" => \A c \in Comps : Up(c)
  /\ main \in {"stop", "stopJoin"} => \A i \in at["main"] + 1 .. N : Quiet(Order[i])
  /\ main = "stopJoin" => ~running[Order[at["main"]]]

AgentInv == TypeOK /\ Positions /\ Flags /\ Phases /\ LogOnlyIsNotReached

LEMMA Components ==
  /\ N \in Nat /\ \A i \in 1 .. N : Order[i] \in Comps
  /\ \A c \in Comps : \E i \in 1 .. N : Order[i] = c
  /\ Monitors \subseteq Comps /\ Ports \subseteq Comps /\ Clients \subseteq Comps
  /\ Scanners \cap (Monitors \cup Ports \cup Clients) = {}
  /\ Monitors \cap Ports = {} /\ Monitors \cap Clients = {} /\ Ports \cap Clients = {}
  /\ Launches \subseteq {"console", "service"} /\ MaxFaults \in Nat
BY ServiceAssumption DEF ServiceAssumption, Comps, N, ToSet

\* A component as it was checked, or as it is stopped, is one of the list.
LEMMA AtComponent ==
  ASSUME TypeOK, Positions
  PROVE  /\ dog \in {"dogJoin", "restart"} \/ (dog = "check" /\ at["dog"] <= N) => Checked \in Comps
         /\ main = "stopJoin" \/ (main = "stop" /\ at["main"] >= 1)
              \/ (main = "start" /\ at["main"] <= N) => Order[at["main"]] \in Comps
         /\ at["dog"] \in 0 .. N + 1 /\ at["main"] \in 0 .. N + 1 /\ N \in Nat
BY Components DEF TypeOK, Positions, Checked, DogHolds

-----------------------------------------------------------------------------
(* Steps of the two threads that leave the components alone.               *)

\* The flags are about the components and the waits for their threads.
LEMMA FlagsKept ==
  ASSUME AgentInv, UNCHANGED comps,
         dog = "dogJoin" => dog' = "dogJoin" /\ at'["dog"] = at["dog"],
         main = "stopJoin" => main' = "stopJoin" /\ at'["main"] = at["main"]
  PROVE  Flags'
BY DEF AgentInv, Flags, Checked, comps

LEMMA MainKeeps ==
  ASSUME AgentInv,
         \/ RunConsole \/ RunAsService \/ ConsoleCtrlHandler \/ StartFails \/ StartWatchdog
         \/ Shutdown \/ StopWatchdog \/ JoinWatchdog \/ LockToStop \/ ComponentsStopped \/ Exit
  PROVE  AgentInv'
<1>1. ASSUME RunConsole PROVE AgentInv'
  <2>1. TypeOK'
    BY <1>1, Components DEF RunConsole, AgentInv, TypeOK, Positions, MainHolds, DogHolds,
       States, service, control, comps
  <2>2. Positions'
    BY <1>1, Components DEF RunConsole, AgentInv, TypeOK, Positions, DogHolds, service,
       control, comps
  <2>3. Flags'
    BY <1>1, FlagsKept DEF RunConsole, AgentInv, TypeOK, service, control, comps
  <2>4. Phases'
    BY <1>1, Components DEF RunConsole, AgentInv, TypeOK, Positions, Phases, Up, Quiet,
       service, control, comps
  <2>5. LogOnlyIsNotReached'
    BY <1>1 DEF RunConsole, AgentInv, LogOnlyIsNotReached, Checked, service, control, comps
  <2> QED  BY <2>1, <2>2, <2>3, <2>4, <2>5 DEF AgentInv
<1>2. ASSUME RunAsService PROVE AgentInv'
  <2>1. TypeOK'
    BY <1>2, Components DEF RunAsService, AgentInv, TypeOK, Positions, MainHolds, DogHolds,
       service, control, comps
  <2>2. Positions'
    BY <1>2, Components DEF RunAsService, AgentInv, TypeOK, Positions, DogHolds, service,
       control, comps
  <2>3. Flags'
    BY <1>2, FlagsKept DEF RunAsService, AgentInv, TypeOK, service, control, comps
  <2>4. Phases'
    BY <1>2, Components DEF RunAsService, AgentInv, TypeOK, Positions, Phases, Up, Quiet,
       service, control, comps
  <2>5. LogOnlyIsNotReached'
    BY <1>2 DEF RunAsService, AgentInv, LogOnlyIsNotReached, Checked, service, control, comps
  <2> QED  BY <2>1, <2>2, <2>3, <2>4, <2>5 DEF AgentInv
<1>3. ASSUME ConsoleCtrlHandler PROVE AgentInv'
  <2>1. TypeOK'
    BY <1>3, Components DEF ConsoleCtrlHandler, AgentInv, TypeOK, Positions, MainHolds,
       DogHolds,
       States, service, control, comps
  <2>2. Positions'
    BY <1>3, Components DEF ConsoleCtrlHandler, AgentInv, TypeOK, Positions, DogHolds,
       service, control, comps
  <2>3. Flags'
    BY <1>3, FlagsKept DEF ConsoleCtrlHandler, AgentInv, TypeOK, service, control, comps
  <2>4. Phases'
    BY <1>3, Components DEF ConsoleCtrlHandler, AgentInv, TypeOK, Positions, Phases, Up,
       Quiet, service, control, comps
  <2>5. LogOnlyIsNotReached'
    BY <1>3 DEF ConsoleCtrlHandler, AgentInv, LogOnlyIsNotReached, Checked, service, control,
       comps
  <2> QED  BY <2>1, <2>2, <2>3, <2>4, <2>5 DEF AgentInv
<1>4. ASSUME StartFails PROVE AgentInv'
  <2>1. TypeOK'
    BY <1>4, Components DEF StartFails, AgentInv, TypeOK, Positions, MainHolds, DogHolds,
       CannotStart, Fault, service, control, comps
  <2>2. Positions'
    BY <1>4, Components DEF StartFails, AgentInv, TypeOK, Positions, DogHolds, service,
       control, comps
  <2>3. Flags'
    BY <1>4, FlagsKept DEF StartFails, AgentInv, TypeOK, service, control, comps
  <2>4. Phases'
    BY <1>4, Components DEF StartFails, AgentInv, TypeOK, Positions, Phases, Up, Quiet,
       service, control, comps
  <2>5. LogOnlyIsNotReached'
    BY <1>4 DEF StartFails, AgentInv, LogOnlyIsNotReached, Checked, service, control, comps
  <2> QED  BY <2>1, <2>2, <2>3, <2>4, <2>5 DEF AgentInv
<1>5. ASSUME StartWatchdog PROVE AgentInv'
  <2>1. TypeOK'
    BY <1>5, Components DEF StartWatchdog, AgentInv, TypeOK, Positions, MainHolds, DogHolds,
       service, control, comps
  <2>2. Positions'
    BY <1>5, Components DEF StartWatchdog, AgentInv, TypeOK, Positions, DogHolds, service,
       control, comps
  <2>3. Flags'
    BY <1>5, FlagsKept DEF StartWatchdog, AgentInv, TypeOK, service, control, comps
  <2>4. Phases'
    BY <1>5, Components DEF StartWatchdog, AgentInv, TypeOK, Positions, Phases, Up, Quiet,
       service, control, comps
  <2>5. LogOnlyIsNotReached'
    BY <1>5 DEF StartWatchdog, AgentInv, LogOnlyIsNotReached, Checked, service, control, comps
  <2> QED  BY <2>1, <2>2, <2>3, <2>4, <2>5 DEF AgentInv
<1>6. ASSUME Shutdown PROVE AgentInv'
  <2>1. TypeOK'
    BY <1>6, Components DEF Shutdown, AgentInv, TypeOK, Positions, MainHolds, DogHolds,
       States, service, control, comps
  <2>2. Positions'
    BY <1>6, Components DEF Shutdown, AgentInv, TypeOK, Positions, DogHolds, service,
       control, comps
  <2>3. Flags'
    BY <1>6, FlagsKept DEF Shutdown, AgentInv, TypeOK, service, control, comps
  <2>4. Phases'
    BY <1>6, Components DEF Shutdown, AgentInv, TypeOK, Positions, Phases, Up, Quiet,
       service, control, comps
  <2>5. LogOnlyIsNotReached'
    BY <1>6 DEF Shutdown, AgentInv, LogOnlyIsNotReached, Checked, service, control, comps
  <2> QED  BY <2>1, <2>2, <2>3, <2>4, <2>5 DEF AgentInv
<1>7. ASSUME StopWatchdog PROVE AgentInv'
  <2>1. TypeOK'
    BY <1>7, Components DEF StopWatchdog, AgentInv, TypeOK, Positions, MainHolds, DogHolds,
       service, control, comps
  <2>2. Positions'
    BY <1>7, Components DEF StopWatchdog, AgentInv, TypeOK, Positions, DogHolds, service,
       control, comps
  <2>3. Flags'
    BY <1>7, FlagsKept DEF StopWatchdog, AgentInv, TypeOK, service, control, comps
  <2>4. Phases'
    BY <1>7, Components DEF StopWatchdog, AgentInv, TypeOK, Positions, Phases, Up, Quiet,
       service, control, comps
  <2>5. LogOnlyIsNotReached'
    BY <1>7 DEF StopWatchdog, AgentInv, LogOnlyIsNotReached, Checked, service, control, comps
  <2> QED  BY <2>1, <2>2, <2>3, <2>4, <2>5 DEF AgentInv
<1>8. ASSUME JoinWatchdog PROVE AgentInv'
  <2>1. TypeOK'
    BY <1>8, Components DEF JoinWatchdog, AgentInv, TypeOK, Positions, MainHolds, DogHolds,
       service, control, comps
  <2>2. Positions'
    BY <1>8, Components DEF JoinWatchdog, AgentInv, TypeOK, Positions, DogHolds, service,
       control, comps
  <2>3. Flags'
    BY <1>8, FlagsKept DEF JoinWatchdog, AgentInv, TypeOK, service, control, comps
  <2>4. Phases'
    BY <1>8, Components DEF JoinWatchdog, AgentInv, TypeOK, Positions, Phases, Up, Quiet,
       service, control, comps
  <2>5. LogOnlyIsNotReached'
    BY <1>8 DEF JoinWatchdog, AgentInv, LogOnlyIsNotReached, Checked, service, control, comps
  <2> QED  BY <2>1, <2>2, <2>3, <2>4, <2>5 DEF AgentInv
<1>9. ASSUME LockToStop PROVE AgentInv'
  <2>1. TypeOK'
    BY <1>9, Components DEF LockToStop, AgentInv, TypeOK, Positions, MainHolds, DogHolds,
       service, control, comps
  <2>2. Positions'
    BY <1>9, Components DEF LockToStop, AgentInv, TypeOK, Positions, DogHolds, service,
       control, comps
  <2>3. Flags'
    BY <1>9, FlagsKept DEF LockToStop, AgentInv, TypeOK, service, control, comps
  <2>4. Phases'
    BY <1>9, Components DEF LockToStop, AgentInv, TypeOK, Positions, Phases, Up, Quiet,
       service, control, comps
  <2>5. LogOnlyIsNotReached'
    BY <1>9 DEF LockToStop, AgentInv, LogOnlyIsNotReached, Checked, service, control, comps
  <2> QED  BY <2>1, <2>2, <2>3, <2>4, <2>5 DEF AgentInv
<1>10. ASSUME ComponentsStopped PROVE AgentInv'
  <2>1. TypeOK'
    BY <1>10, Components DEF ComponentsStopped, AgentInv, TypeOK, Positions, MainHolds,
       DogHolds,
       States, service, control, comps
  <2>2. Positions'
    BY <1>10, Components DEF ComponentsStopped, AgentInv, TypeOK, Positions, DogHolds,
       service, control, comps
  <2>3. Flags'
    BY <1>10, FlagsKept DEF ComponentsStopped, AgentInv, TypeOK, service, control, comps
  <2>4. Phases'
    BY <1>10, Components DEF ComponentsStopped, AgentInv, TypeOK, Positions, Phases, Up,
       Quiet, service, control, comps
  <2>5. LogOnlyIsNotReached'
    BY <1>10 DEF ComponentsStopped, AgentInv, LogOnlyIsNotReached, Checked, service, control,
       comps
  <2> QED  BY <2>1, <2>2, <2>3, <2>4, <2>5 DEF AgentInv
<1>11. ASSUME Exit PROVE AgentInv'
  <2>1. TypeOK'
    BY <1>11, Components DEF Exit, AgentInv, TypeOK, Positions, MainHolds, DogHolds,
       service, control, comps
  <2>2. Positions'
    BY <1>11, Components DEF Exit, AgentInv, TypeOK, Positions, DogHolds, service, control,
       comps
  <2>3. Flags'
    BY <1>11, FlagsKept DEF Exit, AgentInv, TypeOK, service, control, comps
  <2>4. Phases'
    BY <1>11, Components DEF Exit, AgentInv, TypeOK, Positions, Phases, Up, Quiet, service,
       control, comps
  <2>5. LogOnlyIsNotReached'
    BY <1>11 DEF Exit, AgentInv, LogOnlyIsNotReached, Checked, service, control, comps
  <2> QED  BY <2>1, <2>2, <2>3, <2>4, <2>5 DEF AgentInv
<1> QED  BY <1>1, <1>2, <1>3, <1>4, <1>5, <1>6, <1>7, <1>8, <1>9, <1>10, <1>11

LEMMA DogKeeps ==
  ASSUME AgentInv, WatchdogWakes \/ WatchdogLocks \/ SeesHealthy \/ ChecksDone
  PROVE  AgentInv'
<1>1. ASSUME WatchdogWakes PROVE AgentInv'
  <2>1. TypeOK'
    BY <1>1, Components DEF WatchdogWakes, AgentInv, TypeOK, Positions, MainHolds, DogHolds,
       service, control, comps
  <2>2. Positions'
    BY <1>1, Components DEF WatchdogWakes, AgentInv, TypeOK, Positions, DogHolds, service,
       control, comps
  <2>3. Flags'
    BY <1>1, FlagsKept DEF WatchdogWakes, AgentInv, TypeOK, service, control, comps
  <2>4. Phases'
    BY <1>1, Components DEF WatchdogWakes, AgentInv, TypeOK, Positions, Phases, Up, Quiet,
       service, control, comps
  <2>5. LogOnlyIsNotReached'
    BY <1>1 DEF WatchdogWakes, AgentInv, LogOnlyIsNotReached, Checked, service, control, comps
  <2> QED  BY <2>1, <2>2, <2>3, <2>4, <2>5 DEF AgentInv
<1>2. ASSUME WatchdogLocks PROVE AgentInv'
  <2>1. TypeOK'
    BY <1>2, Components DEF WatchdogLocks, AgentInv, TypeOK, Positions, MainHolds, DogHolds,
       service, control, comps
  <2>2. Positions'
    BY <1>2, Components DEF WatchdogLocks, AgentInv, TypeOK, Positions, DogHolds, service,
       control, comps
  <2>3. Flags'
    BY <1>2, FlagsKept DEF WatchdogLocks, AgentInv, TypeOK, service, control, comps
  <2>4. Phases'
    BY <1>2, Components DEF WatchdogLocks, AgentInv, TypeOK, Positions, Phases, Up, Quiet,
       service, control, comps
  <2>5. LogOnlyIsNotReached'
    BY <1>2 DEF WatchdogLocks, AgentInv, LogOnlyIsNotReached, Checked, service, control, comps
  <2> QED  BY <2>1, <2>2, <2>3, <2>4, <2>5 DEF AgentInv
<1>3. ASSUME SeesHealthy PROVE AgentInv'
  <2>1. TypeOK'
    BY <1>3, Components DEF SeesHealthy, AgentInv, TypeOK, Positions, MainHolds, DogHolds,
       service, control, comps
  <2>2. Positions'
    BY <1>3, Components DEF SeesHealthy, AgentInv, TypeOK, Positions, DogHolds, service,
       control, comps
  <2>3. Flags'
    BY <1>3, FlagsKept DEF SeesHealthy, AgentInv, TypeOK, service, control, comps
  <2>4. Phases'
    BY <1>3, Components DEF SeesHealthy, AgentInv, TypeOK, Positions, Phases, Up, Quiet,
       service, control, comps
  <2>5. LogOnlyIsNotReached'
    BY <1>3 DEF SeesHealthy, AgentInv, LogOnlyIsNotReached, Checked, service, control, comps
  <2> QED  BY <2>1, <2>2, <2>3, <2>4, <2>5 DEF AgentInv
<1>4. ASSUME ChecksDone PROVE AgentInv'
  <2>1. TypeOK'
    BY <1>4, Components DEF ChecksDone, AgentInv, TypeOK, Positions, MainHolds, DogHolds,
       service, control, comps
  <2>2. Positions'
    BY <1>4, Components DEF ChecksDone, AgentInv, TypeOK, Positions, DogHolds, service,
       control, comps
  <2>3. Flags'
    BY <1>4, FlagsKept DEF ChecksDone, AgentInv, TypeOK, service, control, comps
  <2>4. Phases'
    BY <1>4, Components DEF ChecksDone, AgentInv, TypeOK, Positions, Phases, Up, Quiet,
       service, control, comps
  <2>5. LogOnlyIsNotReached'
    BY <1>4 DEF ChecksDone, AgentInv, LogOnlyIsNotReached, Checked, service, control, comps
  <2> QED  BY <2>1, <2>2, <2>3, <2>4, <2>5 DEF AgentInv
<1> QED  BY <1>1, <1>2, <1>3, <1>4

-----------------------------------------------------------------------------
(* Steps of the components' threads.                                       *)

\* Of one component: nothing goes to work that was quiet, and what runs keeps running,
\* unless it is a monitor that could not set itself up.
LEMMA ThreadKeeps ==
  ASSUME AgentInv, NEW c \in Comps, UNCHANGED <<service, control>>,
         running' \in [Comps -> BOOLEAN], thread' \in [Comps -> ThreadStates],
         handle' \in [Comps -> BOOLEAN], quit' \in [Comps -> BOOLEAN], faults' \in 0 .. MaxFaults,
         \A d \in Comps \ {c} : /\ running'[d] = running[d] /\ thread'[d] = thread[d]
                                /\ handle'[d] = handle[d],
         running'[c] <=> running[c] /\ ~(c \in Monitors /\ thread'[c] = "ended" /\ thread[c] = "setup"),
         thread[c] \in {"setup", "loop"},
         thread'[c] \in {thread[c], "loop", "stuck", "ended"},
         c \in Ports /\ running'[c] => handle'[c]
  PROVE  AgentInv'
<1>1. TypeOK'
  BY DEF AgentInv, TypeOK, service, control
<1>2. Positions' /\ LogOnlyIsNotReached'
  BY DEF AgentInv, Positions, LogOnlyIsNotReached, Checked, control
<1>3. Flags'
  BY DEF AgentInv, Flags, Checked, control
<1>4. ASSUME NEW d \in Comps, Quiet(d) PROVE Quiet(d)'
  BY <1>4 DEF Quiet
<1>5. ASSUME NEW d \in Comps, Up(d) PROVE Up(d)'
  BY <1>5 DEF Up, MayFailToStart
<1>6. UNCHANGED <<main, dog, at>>
  BY DEF control
<1>7. main = "start" => \A i \in 1 .. at["main"] - 1 : Order[i] \in Comps
  BY Components DEF AgentInv, TypeOK
<1>8. main \in {"stop", "stopJoin"} => \A i \in at["main"] + 1 .. N : Order[i] \in Comps
  BY Components DEF AgentInv, TypeOK
<1>9. main = "stopJoin" => Order[at["main"]] \in Comps
  BY AtComponent DEF AgentInv
<1>10. Phases'
  BY <1>4, <1>5, <1>6, <1>7, <1>8, <1>9 DEF AgentInv, Phases
<1> QED  BY <1>1, <1>2, <1>3, <1>10 DEF AgentInv

LEMMA ThreadsKeep ==
  ASSUME AgentInv, NEW c \in Comps,
         \/ Thread(c) \/ SetUpFails(c) \/ ThreadExits(c) \/ HeartbeatFails(c)
         \/ Reconnects(c) \/ Relocks(c) \/ WaitsForStub(c)
  PROVE  AgentInv'
<1>0. /\ running \in [Comps -> BOOLEAN] /\ thread \in [Comps -> ThreadStates]
      /\ handle \in [Comps -> BOOLEAN] /\ quit \in [Comps -> BOOLEAN] /\ faults \in 0 .. MaxFaults
      /\ MaxFaults \in Nat
  BY Components DEF AgentInv, TypeOK
<1>1. /\ thread[c] = "setup" => c \in Monitors
      /\ c \in Ports /\ running[c] => handle[c]
      /\ Monitors \cap Ports = {} /\ Ports \cap Clients = {}
  BY Components DEF AgentInv, Flags
<1>2. CASE SetUp(c)
  BY <1>0, <1>1, <1>2, ThreadKeeps DEF SetUp, ThreadStates, service, control
<1>3. CASE SetUpFails(c)
  <2>1. /\ UNCHANGED <<service, control, quit>> /\ faults < MaxFaults /\ faults' = faults + 1
        /\ thread' = [thread EXCEPT ![c] = "ended"]
        /\ thread[c] = "setup" /\ running' = [running EXCEPT ![c] = FALSE] /\ handle' = handle
    BY <1>3 DEF SetUpFails, Fault
  <2>2. /\ thread' \in [Comps -> ThreadStates] /\ running' \in [Comps -> BOOLEAN]
        /\ handle' \in [Comps -> BOOLEAN] /\ quit' \in [Comps -> BOOLEAN] /\ faults' \in 0 .. MaxFaults
    BY <1>0, <2>1 DEF ThreadStates
  <2>3. /\ \A d \in Comps \ {c} : /\ running'[d] = running[d] /\ thread'[d] = thread[d]
                                  /\ handle'[d] = handle[d]
        /\ thread'[c] = "ended"
    BY <1>0, <2>1
  <2>4. running'[c] <=> running[c] /\ ~(c \in Monitors /\ thread'[c] = "ended" /\ thread[c] = "setup")
    BY <1>0, <1>1, <2>1, <2>3
  <2>5. c \in Ports /\ running'[c] => handle'[c]
    BY <1>0, <1>1, <2>1, <2>4
  <2> QED  BY <2>1, <2>2, <2>3, <2>4, <2>5, ThreadKeeps
<1>4. CASE LoopEnds(c)
  <2>1. /\ UNCHANGED <<service, control, running, faults>> /\ thread[c] = "loop"
        /\ thread' = [thread EXCEPT ![c] = "ended"] /\ quit' = [quit EXCEPT ![c] = FALSE]
        /\ handle' = [handle EXCEPT ![c] = handle[c] /\ c \in Clients]
        /\ c \in Ports => ~running[c]
    BY <1>1, <1>4, Components DEF LoopEnds
  <2>2. (handle[c] /\ c \in Clients) \in BOOLEAN
    OBVIOUS
  <2>3. /\ thread' \in [Comps -> ThreadStates] /\ handle' \in [Comps -> BOOLEAN]
        /\ quit' \in [Comps -> BOOLEAN] /\ thread'[c] = "ended"
        /\ \A d \in Comps \ {c} : thread'[d] = thread[d] /\ handle'[d] = handle[d]
    BY <1>0, <2>1, <2>2 DEF ThreadStates
  <2> QED  BY <1>0, <2>1, <2>3, ThreadKeeps
<1>5. CASE ThreadExits(c)
  <2>1. /\ UNCHANGED <<service, control, quit>> /\ faults < MaxFaults /\ faults' = faults + 1
        /\ thread' = [thread EXCEPT ![c] = "ended"]
        /\ thread[c] = "loop" /\ running' = running
        /\ handle' = [handle EXCEPT ![c] = handle[c] /\ c \in Ports]
    BY <1>5 DEF ThreadExits, Fault
  <2>2. /\ thread' \in [Comps -> ThreadStates] /\ running' \in [Comps -> BOOLEAN]
        /\ handle' \in [Comps -> BOOLEAN] /\ quit' \in [Comps -> BOOLEAN] /\ faults' \in 0 .. MaxFaults
    BY <1>0, <2>1 DEF ThreadStates
  <2>3. /\ \A d \in Comps \ {c} : /\ running'[d] = running[d] /\ thread'[d] = thread[d]
                                  /\ handle'[d] = handle[d]
        /\ thread'[c] = "ended"
    BY <1>0, <2>1
  <2>4. running'[c] <=> running[c] /\ ~(c \in Monitors /\ thread'[c] = "ended" /\ thread[c] = "setup")
    BY <1>0, <1>1, <2>1, <2>3
  <2>5. c \in Ports /\ running'[c] => handle'[c]
    BY <1>0, <1>1, <2>1, <2>4
  <2> QED  BY <2>1, <2>2, <2>3, <2>4, <2>5, ThreadKeeps
<1>6. CASE HeartbeatFails(c)
  <2>1. /\ UNCHANGED <<service, control, quit, running, thread>> /\ c \notin Ports /\ thread[c] = "loop"
        /\ faults' \in 0 .. MaxFaults /\ handle' = [handle EXCEPT ![c] = FALSE]
    BY <1>0, <1>1, <1>6 DEF HeartbeatFails, Fault
  <2>2. handle' \in [Comps -> BOOLEAN] /\ \A d \in Comps \ {c} : handle'[d] = handle[d]
    BY <1>0, <2>1
  <2> QED  BY <1>0, <2>1, <2>2, ThreadKeeps
<1>7. CASE Reconnects(c)
  BY <1>0, <1>1, <1>7, ThreadKeeps DEF Reconnects, service, control
<1>8. CASE Relocks(c) \/ WaitsForStub(c)
  BY <1>0, <1>1, <1>8, ThreadKeeps DEF Relocks, WaitsForStub, ThreadStates, service, control
<1> QED  BY <1>2, <1>3, <1>4, <1>5, <1>6, <1>7, <1>8 DEF Thread

-----------------------------------------------------------------------------
(* Steps of the two threads that start and stop components.                *)

LEMMA StartsFacts ==
  ASSUME AgentInv, NEW c \in Comps, Starts(c)
  PROVE  /\ running' \in [Comps -> BOOLEAN] /\ handle' \in [Comps -> BOOLEAN]
         /\ thread' \in [Comps -> ThreadStates] /\ quit' \in [Comps -> BOOLEAN]
         /\ process' \in {process, "terminated"}
         /\ running'[c] \/ UNCHANGED <<running, thread, handle>>
         /\ MayFailToStart(c) => running'[c]
         /\ c \in Ports /\ running'[c] => handle'[c]
         /\ thread'[c] = "setup" => c \in Monitors
         /\ \A d \in Comps \ {c} : /\ running'[d] = running[d] /\ thread'[d] = thread[d]
                                   /\ handle'[d] = handle[d]
<1>0. /\ running \in [Comps -> BOOLEAN] /\ handle \in [Comps -> BOOLEAN]
      /\ thread \in [Comps -> ThreadStates] /\ quit \in [Comps -> BOOLEAN]
      /\ thread[c] = "setup" => c \in Monitors
      /\ c \in Ports /\ running[c] => handle[c]
  BY DEF AgentInv, TypeOK, Flags
<1>1. CASE StartsNothing(c)
  <2>1. UNCHANGED <<running, thread, handle, quit, process>>
    BY <1>1 DEF Starts, comps
  <2>2. MayFailToStart(c) => running[c]
    BY <1>1 DEF MayFailToStart, StartsNothing
  <2> QED  BY <1>0, <2>1, <2>2
<1>2. CASE ~StartsNothing(c)
  <2>1. /\ running' = [running EXCEPT ![c] = TRUE]
        /\ thread' = [thread EXCEPT ![c] =
             IF c \in Monitors THEN "setup" ELSE IF c \in Looping THEN "loop" ELSE thread[c]]
        /\ handle' = [handle EXCEPT ![c] = IF c \in Ports \cup Clients THEN TRUE ELSE handle[c]]
        /\ process' \in {process, "terminated"} /\ quit' = quit
    BY <1>2 DEF Starts
  <2>2. running' \in [Comps -> BOOLEAN] /\ running'[c] /\ \A d \in Comps \ {c} : running'[d] = running[d]
    BY <1>0, <2>1
  <2>3. /\ handle' \in [Comps -> BOOLEAN] /\ (c \in Ports => handle'[c])
        /\ \A d \in Comps \ {c} : handle'[d] = handle[d]
    BY <1>0, <2>1
  <2>4. /\ thread' \in [Comps -> ThreadStates]
        /\ thread'[c] = "setup" => c \in Monitors
        /\ \A d \in Comps \ {c} : thread'[d] = thread[d]
    BY <1>0, <2>1 DEF ThreadStates
  <2> QED  BY <1>0, <2>1, <2>2, <2>3, <2>4
<1> QED  BY <1>1, <1>2

LEMMA StopSignalsFacts ==
  ASSUME AgentInv, NEW c \in Comps, StopSignals(c)
  PROVE  /\ running' \in [Comps -> BOOLEAN] /\ handle' \in [Comps -> BOOLEAN]
         /\ quit' \in [Comps -> BOOLEAN] /\ thread' = thread /\ ~running'[c]
         /\ \A d \in Comps \ {c} : running'[d] = running[d] /\ handle'[d] = handle[d]
<1>0. /\ running \in [Comps -> BOOLEAN] /\ handle \in [Comps -> BOOLEAN] /\ quit \in [Comps -> BOOLEAN]
  BY DEF AgentInv, TypeOK
<1>1. /\ running' = [running EXCEPT ![c] = FALSE] /\ thread' = thread
  BY DEF StopSignals
<1>2. quit' \in [Comps -> BOOLEAN]
  <2>1. quit' = [quit EXCEPT ![c] = quit[c] \/ (running[c] /\ c \in Monitors /\ handle[c])]
    BY DEF StopSignals
  <2>2. (quit[c] \/ (running[c] /\ c \in Monitors /\ handle[c])) \in BOOLEAN
    OBVIOUS
  <2> QED  BY <1>0, <2>1, <2>2
<1>3. handle' \in [Comps -> BOOLEAN] /\ \A d \in Comps \ {c} : handle'[d] = handle[d]
  <2>1. handle' = [handle EXCEPT ![c] =
                     handle[c] /\ (c \in Monitors \/ (c \in Clients /\ Joinable(c)))]
    BY DEF StopSignals
  <2>2. (handle[c] /\ (c \in Monitors \/ (c \in Clients /\ Joinable(c)))) \in BOOLEAN
    OBVIOUS
  <2> QED  BY <1>0, <2>1, <2>2
<1> QED  BY <1>0, <1>1, <1>2, <1>3

\* Who is stopped and not waited for has no thread at work.
LEMMA NothingToJoin ==
  ASSUME AgentInv, NEW c \in Comps, ~StopJoins(c),
         ~(dog = "dogJoin" /\ c = Checked), main # "stopJoin"
  PROVE  thread[c] \in {"none", "ended"}
<1>1. thread[c] = "none" \/ ~running[c]
  BY DEF StopJoins, Joinable
<1> QED  BY <1>1 DEF AgentInv, TypeOK, ThreadStates, Flags

LEMMA StartComponentInv == ASSUME AgentInv, StartComponent PROVE AgentInv'
<1>0. PICK c : c = Order[at["main"]]
  OBVIOUS
<1>1. /\ main = "start" /\ at["main"] <= N /\ Starts(c)
      /\ at' = [at EXCEPT !["main"] = at["main"] + 1]
      /\ UNCHANGED <<launch, state, stopEvent, cached, targets, main, dog, lock, watching, faults>>
  BY <1>0 DEF StartComponent
<1>2. /\ c \in Comps /\ dog = "off" /\ at["main"] \in 1 .. N /\ N \in Nat
      /\ at \in [{"main", "dog"} -> 0 .. N + 1]
  BY <1>0, <1>1, AtComponent DEF AgentInv, TypeOK, Positions
<1>3. /\ running' \in [Comps -> BOOLEAN] /\ handle' \in [Comps -> BOOLEAN]
      /\ thread' \in [Comps -> ThreadStates] /\ quit' \in [Comps -> BOOLEAN]
      /\ process' \in {process, "terminated"}
      /\ running'[c] \/ UNCHANGED <<running, thread, handle>>
      /\ MayFailToStart(c) => running'[c]
      /\ c \in Ports /\ running'[c] => handle'[c]
      /\ thread'[c] = "setup" => c \in Monitors
      /\ \A d \in Comps \ {c} : /\ running'[d] = running[d] /\ thread'[d] = thread[d]
                                /\ handle'[d] = handle[d]
  BY <1>1, <1>2, StartsFacts
<1>4. at' \in [{"main", "dog"} -> 0 .. N + 1] /\ at'["main"] = at["main"] + 1
  BY <1>1, <1>2
<1>5. TypeOK'
  BY <1>1, <1>3, <1>4 DEF AgentInv, TypeOK
<1>6. Positions' /\ LogOnlyIsNotReached'
  BY <1>1, <1>2, <1>4 DEF Positions, LogOnlyIsNotReached, DogHolds
<1>7. Flags'
  BY <1>1, <1>2, <1>3 DEF AgentInv, Flags
<1>8. ASSUME NEW i \in 1 .. at'["main"] - 1 PROVE Up(Order[i])'
  <2>1. i \in 1 .. N /\ (i = at["main"] \/ i \in 1 .. at["main"] - 1)
    BY <1>2, <1>4
  <2>2. Order[i] \in Comps /\ (i \in 1 .. at["main"] - 1 => Up(Order[i]))
    BY <1>1, <2>1, Components DEF AgentInv, Phases
  <2> QED  BY <1>0, <1>3, <2>1, <2>2 DEF Up
<1>9. Phases'
  BY <1>1, <1>2, <1>8 DEF Phases
<1> QED  BY <1>5, <1>6, <1>7, <1>9 DEF AgentInv

LEMMA RestartsInv == ASSUME AgentInv, Restarts PROVE AgentInv'
<1>0. PICK c : c = Checked
  OBVIOUS
<1>1. /\ dog = "restart" /\ Starts(c) /\ dog' = "check"
      /\ at' = [at EXCEPT !["dog"] = at["dog"] + 1]
      /\ UNCHANGED <<launch, state, stopEvent, cached, targets, main, lock, watching, faults>>
  BY <1>0 DEF Restarts
<1>2. /\ c \in Comps /\ main \in {"wait", "unwatch", "joinDog"} /\ at["dog"] \in 1 .. N /\ N \in Nat
      /\ at \in [{"main", "dog"} -> 0 .. N + 1]
  BY <1>0, <1>1, AtComponent DEF AgentInv, TypeOK, Positions, DogHolds
<1>3. /\ running' \in [Comps -> BOOLEAN] /\ handle' \in [Comps -> BOOLEAN]
      /\ thread' \in [Comps -> ThreadStates] /\ quit' \in [Comps -> BOOLEAN]
      /\ process' \in {process, "terminated"}
      /\ running'[c] \/ UNCHANGED <<running, thread, handle>>
      /\ MayFailToStart(c) => running'[c]
      /\ c \in Ports /\ running'[c] => handle'[c]
      /\ thread'[c] = "setup" => c \in Monitors
      /\ \A d \in Comps \ {c} : /\ running'[d] = running[d] /\ thread'[d] = thread[d]
                                /\ handle'[d] = handle[d]
  BY <1>1, <1>2, StartsFacts
<1>4. at' \in [{"main", "dog"} -> 0 .. N + 1] /\ at'["dog"] \in 1 .. N + 1
  BY <1>1, <1>2
<1>5. TypeOK'
  BY <1>1, <1>3, <1>4 DEF AgentInv, TypeOK, DogHolds
<1>6. Positions' /\ LogOnlyIsNotReached'
  BY <1>1, <1>2, <1>4 DEF Positions, LogOnlyIsNotReached, DogHolds
<1>7. Flags'
  BY <1>1, <1>2, <1>3 DEF AgentInv, Flags
<1>8. ASSUME NEW d \in Comps PROVE Up(d)'
  BY <1>1, <1>3 DEF AgentInv, Phases, Up
<1>9. Phases'
  BY <1>1, <1>2, <1>8 DEF Phases
<1> QED  BY <1>5, <1>6, <1>7, <1>9 DEF AgentInv

LEMMA SeesUnhealthyInv == ASSUME AgentInv, SeesUnhealthy PROVE AgentInv'
<1>0. PICK c : c = Checked
  OBVIOUS
<1>1. /\ dog = "check" /\ at["dog"] <= N /\ ~Healthy(c) /\ StopSignals(c)
      /\ dog' = IF StopJoins(c) THEN "dogJoin" ELSE "restart"
      /\ UNCHANGED <<launch, process, state, stopEvent, cached, targets, main, at, lock, watching, faults>>
  BY <1>0 DEF SeesUnhealthy, service
<1>2. /\ c \in Comps /\ main \in {"wait", "unwatch", "joinDog"} /\ at["dog"] \in 1 .. N
  BY <1>0, <1>1, AtComponent DEF AgentInv, TypeOK, Positions, DogHolds
<1>3. /\ running' \in [Comps -> BOOLEAN] /\ handle' \in [Comps -> BOOLEAN]
      /\ quit' \in [Comps -> BOOLEAN] /\ thread' = thread /\ ~running'[c]
      /\ \A d \in Comps \ {c} : running'[d] = running[d] /\ handle'[d] = handle[d]
  BY <1>1, <1>2, StopSignalsFacts
<1>4. ~MayFailToStart(c)
  <2>1. Up(c) /\ (c \in Ports /\ running[c] => handle[c])
    BY <1>1, <1>2 DEF AgentInv, Phases, Flags
  <2> QED  BY <1>1, <2>1 DEF Up, Healthy, MayFailToStart
<1>5. TypeOK'
  BY <1>1, <1>3 DEF AgentInv, TypeOK, DogHolds
<1>6. Positions'
  BY <1>1, <1>2 DEF Positions, DogHolds
<1>7. Checked' = c
  BY <1>0, <1>1 DEF Checked
<1>8. LogOnlyIsNotReached'
  BY <1>4, <1>7 DEF LogOnlyIsNotReached, MayFailToStart
<1>9. dog' # "dogJoin" => thread[c] \in {"none", "ended"}
  BY <1>1, <1>2, NothingToJoin
<1>10. Flags'
  BY <1>1, <1>2, <1>3, <1>7, <1>9 DEF AgentInv, Flags
<1>11. ASSUME NEW d \in Comps PROVE Up(d)'
  BY <1>1, <1>3, <1>4 DEF AgentInv, Phases, Up
<1>12. Phases'
  BY <1>1, <1>2, <1>11 DEF Phases
<1> QED  BY <1>5, <1>6, <1>8, <1>10, <1>12 DEF AgentInv

LEMMA StopComponentInv == ASSUME AgentInv, StopComponent PROVE AgentInv'
<1>0. PICK c : c = Order[at["main"]]
  OBVIOUS
<1>1. /\ main = "stop" /\ at["main"] >= 1 /\ StopSignals(c)
      /\ IF StopJoins(c) THEN main' = "stopJoin" /\ at' = at
         ELSE at' = [at EXCEPT !["main"] = at["main"] - 1] /\ main' = main
      /\ UNCHANGED <<launch, process, state, stopEvent, cached, targets, dog, lock, watching, faults>>
  BY <1>0 DEF StopComponent, service
<1>2. /\ c \in Comps /\ dog = "off" /\ at["main"] \in 1 .. N /\ N \in Nat
      /\ at \in [{"main", "dog"} -> 0 .. N + 1]
  BY <1>0, <1>1, AtComponent DEF AgentInv, TypeOK, Positions
<1>3. /\ running' \in [Comps -> BOOLEAN] /\ handle' \in [Comps -> BOOLEAN]
      /\ quit' \in [Comps -> BOOLEAN] /\ thread' = thread /\ ~running'[c]
      /\ \A d \in Comps \ {c} : running'[d] = running[d] /\ handle'[d] = handle[d]
  BY <1>1, <1>2, StopSignalsFacts
<1>4. /\ at' \in [{"main", "dog"} -> 0 .. N + 1] /\ main' \in {"stop", "stopJoin"}
      /\ main' = "stopJoin" => at' = at
      /\ main' = "stop" => at'["main"] = at["main"] - 1 /\ thread[c] \in {"none", "ended"}
  <2>1. CASE StopJoins(c)
    BY <1>1, <1>2, <2>1
  <2>2. CASE ~StopJoins(c)
    <3>1. thread[c] \in {"none", "ended"}
      BY <1>1, <1>2, <2>2, NothingToJoin
    <3> QED  BY <1>1, <1>2, <2>2, <3>1
  <2> QED  BY <2>1, <2>2
<1>5. TypeOK'
  BY <1>1, <1>3, <1>4 DEF AgentInv, TypeOK, MainHolds
<1>6. Positions' /\ LogOnlyIsNotReached'
  BY <1>1, <1>2, <1>4 DEF Positions, LogOnlyIsNotReached, DogHolds
<1>7. Flags'
  BY <1>0, <1>1, <1>2, <1>3, <1>4 DEF AgentInv, Flags
<1>8. ASSUME NEW i \in at'["main"] + 1 .. N PROVE Quiet(Order[i])'
  <2>1. i \in 1 .. N /\ (i \in at["main"] + 1 .. N \/ (i = at["main"] /\ main' = "stop"))
    BY <1>2, <1>4
  <2>2. Order[i] \in Comps /\ (i \in at["main"] + 1 .. N => Quiet(Order[i]))
    BY <1>1, <2>1, Components DEF AgentInv, Phases
  <2> QED  BY <1>0, <1>3, <1>4, <2>1, <2>2 DEF Quiet
<1>9. Phases'
  BY <1>0, <1>1, <1>2, <1>3, <1>4, <1>8 DEF Phases
<1> QED  BY <1>5, <1>6, <1>7, <1>9 DEF AgentInv

LEMMA JoinsFacts ==
  ASSUME AgentInv, NEW c \in Comps, Joins(c)
  PROVE  /\ thread' \in [Comps -> ThreadStates] /\ thread'[c] = "none"
         /\ handle' \in [Comps -> BOOLEAN] /\ UNCHANGED <<running, quit>>
         /\ c \notin Clients => handle'[c] = handle[c]
         /\ \A d \in Comps \ {c} : thread'[d] = thread[d] /\ handle'[d] = handle[d]
<1>1. /\ thread \in [Comps -> ThreadStates] /\ handle \in [Comps -> BOOLEAN]
      /\ thread' = [thread EXCEPT ![c] = "none"]
      /\ handle' = [handle EXCEPT ![c] = handle[c] /\ c \notin Clients]
      /\ UNCHANGED <<running, quit>>
  BY DEF AgentInv, TypeOK, Joins
<1>2. (handle[c] /\ c \notin Clients) \in BOOLEAN
  OBVIOUS
<1> QED  BY <1>1, <1>2 DEF ThreadStates

LEMMA StopComponentJoinsInv == ASSUME AgentInv, StopComponentJoins PROVE AgentInv'
<1>0. PICK c : c = Order[at["main"]]
  OBVIOUS
<1>1. /\ main = "stopJoin" /\ Joins(c) /\ main' = "stop"
      /\ at' = [at EXCEPT !["main"] = at["main"] - 1]
      /\ UNCHANGED <<launch, process, state, stopEvent, cached, targets, dog, lock, watching, faults>>
  BY <1>0 DEF StopComponentJoins, service
<1>2. /\ c \in Comps /\ dog = "off" /\ at["main"] \in 1 .. N /\ N \in Nat
      /\ at \in [{"main", "dog"} -> 0 .. N + 1] /\ ~running[c] /\ Ports \cap Clients = {}
  BY <1>0, <1>1, AtComponent, Components DEF AgentInv, TypeOK, Positions, Phases
<1>3. /\ thread' \in [Comps -> ThreadStates] /\ thread'[c] = "none"
      /\ handle' \in [Comps -> BOOLEAN] /\ UNCHANGED <<running, quit>>
      /\ c \notin Clients => handle'[c] = handle[c]
      /\ \A d \in Comps \ {c} : thread'[d] = thread[d] /\ handle'[d] = handle[d]
  BY <1>1, <1>2, JoinsFacts
<1>4. at' \in [{"main", "dog"} -> 0 .. N + 1] /\ at'["main"] = at["main"] - 1
  BY <1>1, <1>2
<1>5. TypeOK'
  BY <1>1, <1>3, <1>4 DEF AgentInv, TypeOK, MainHolds
<1>6. Positions' /\ LogOnlyIsNotReached'
  BY <1>1, <1>2, <1>4 DEF Positions, LogOnlyIsNotReached, DogHolds
<1>7. Flags'
  BY <1>0, <1>1, <1>2, <1>3 DEF AgentInv, Flags
<1>8. ASSUME NEW i \in at'["main"] + 1 .. N PROVE Quiet(Order[i])'
  <2>1. i \in 1 .. N /\ (i \in at["main"] + 1 .. N \/ i = at["main"])
    BY <1>2, <1>4
  <2>2. Order[i] \in Comps /\ (i \in at["main"] + 1 .. N => Quiet(Order[i]))
    BY <1>1, <2>1, Components DEF AgentInv, Phases
  <2> QED  BY <1>0, <1>2, <1>3, <2>1, <2>2 DEF Quiet
<1>9. Phases'
  BY <1>1, <1>2, <1>8 DEF Phases
<1> QED  BY <1>5, <1>6, <1>7, <1>9 DEF AgentInv

LEMMA WatchdogJoinsInv == ASSUME AgentInv, WatchdogJoins PROVE AgentInv'
<1>0. PICK c : c = Checked
  OBVIOUS
<1>1. /\ dog = "dogJoin" /\ Joins(c) /\ dog' = "restart"
      /\ UNCHANGED <<launch, process, state, stopEvent, cached, targets, main, at, lock, watching, faults>>
  BY <1>0 DEF WatchdogJoins, service
<1>2. c \in Comps /\ main \in {"wait", "unwatch", "joinDog"} /\ Checked' = c /\ Ports \cap Clients = {}
  BY <1>0, <1>1, AtComponent, Components DEF AgentInv, Positions, Checked
<1>3. /\ thread' \in [Comps -> ThreadStates] /\ thread'[c] = "none"
      /\ handle' \in [Comps -> BOOLEAN] /\ UNCHANGED <<running, quit>>
      /\ c \notin Clients => handle'[c] = handle[c]
      /\ \A d \in Comps \ {c} : thread'[d] = thread[d] /\ handle'[d] = handle[d]
  BY <1>1, <1>2, JoinsFacts
<1>4. TypeOK'
  BY <1>1, <1>3 DEF AgentInv, TypeOK, DogHolds
<1>5. Positions' /\ LogOnlyIsNotReached'
  BY <1>0, <1>1, <1>2 DEF AgentInv, Positions, LogOnlyIsNotReached, DogHolds, MayFailToStart
<1>6. Flags'
  BY <1>0, <1>1, <1>2, <1>3 DEF AgentInv, Flags
<1>7. Phases'
  BY <1>1, <1>2, <1>3 DEF AgentInv, Phases, Up
<1> QED  BY <1>4, <1>5, <1>6, <1>7 DEF AgentInv

-----------------------------------------------------------------------------
LEMMA AgentInit == Init => AgentInv
<1> SUFFICES ASSUME Init PROVE AgentInv
  OBVIOUS
<1>0. N \in Nat /\ MaxFaults \in Nat
  BY Components, ServiceAssumption
<1>1. TypeOK
  <2>1. at \in [{"main", "dog"} -> 0 .. N + 1] /\ faults \in 0 .. MaxFaults
    BY <1>0 DEF Init
  <2>2. /\ running \in [Comps -> BOOLEAN] /\ handle \in [Comps -> BOOLEAN]
        /\ quit \in [Comps -> BOOLEAN]
        /\ thread \in [Comps -> ThreadStates]
    BY DEF Init, ThreadStates
  <2>3. /\ launch \in Launches /\ process \in {"alive", "exited", "terminated"}
        /\ state \in States /\ watching \in BOOLEAN /\ stopEvent \in BOOLEAN
        /\ cached \in BOOLEAN /\ targets \in {"disabled", "configured", "none", "remote"}
    BY DEF Init, States
  <2>4. /\ main \in MainHolds \cup {"init", "wait", "unwatch", "joinDog", "lock", "done"}
        /\ dog \in DogHolds \cup {"off", "sleep", "lock"}
        /\ lock \in {"free", "main", "dog"}
        /\ lock = "main" <=> main \in MainHolds
        /\ lock = "dog" <=> dog \in DogHolds
    BY DEF Init, MainHolds, DogHolds
  <2> QED  BY <2>1, <2>2, <2>3, <2>4 DEF TypeOK
<1>2. Positions /\ LogOnlyIsNotReached
  BY DEF Init, Positions, LogOnlyIsNotReached, DogHolds
<1>3. Flags
  BY DEF Init, Flags
<1>4. Phases
  BY DEF Init, Phases, Quiet
<1> QED  BY <1>1, <1>2, <1>3, <1>4 DEF AgentInv

LEMMA AgentNext == ASSUME AgentInv, [Next]_vars PROVE AgentInv'
<1>1. CASE Main
  BY <1>1, MainKeeps, StartComponentInv, StopComponentInv, StopComponentJoinsInv DEF Main,
     StopComponents
<1>2. CASE WatchdogThread
  BY <1>2, DogKeeps, SeesUnhealthyInv, WatchdogJoinsInv, RestartsInv DEF WatchdogThread
<1>3. CASE ConsoleCtrlHandler
  BY <1>3, MainKeeps
<1>4. ASSUME NEW c \in Comps,
             \/ Thread(c) \/ SetUpFails(c) \/ ThreadExits(c) \/ HeartbeatFails(c)
             \/ Reconnects(c) \/ Relocks(c) \/ WaitsForStub(c)
      PROVE  AgentInv'
  BY <1>4, ThreadsKeep
<1>6. CASE RemoteScanBegins \/ RemoteScanEnds
  BY <1>6 DEF RemoteScanBegins, RemoteScanEnds, service, control, comps, AgentInv, TypeOK,
     Positions, Flags, Phases, Up, Quiet, LogOnlyIsNotReached, Checked
<1>5. CASE UNCHANGED vars
  BY <1>5 DEF vars, service, control, comps, AgentInv, TypeOK, Positions, Flags, Phases, Up,
     Quiet,
              LogOnlyIsNotReached, Checked
<1> QED  BY <1>1, <1>2, <1>3, <1>4, <1>5, <1>6 DEF Next

\* For any list of components: when StopComponents has returned nothing runs and nothing is at
\* work, whatever the watchdog was doing when it was told to stop; and what the watchdog restarts
\* cannot fail its Start, so TransitionToLogOnly is never reached.
THEOREM FlagsAreRight == Spec => []FlagsTellTheThreads
<1>1. AgentInv /\ [Next]_vars => AgentInv'
  BY AgentNext
<1>2. AgentInv => FlagsTellTheThreads
  <2> SUFFICES ASSUME AgentInv PROVE NothingRunsAfterStop
    BY DEF AgentInv, FlagsTellTheThreads
  <2> QED  BY DEF AgentInv, Positions, Phases, Quiet, NothingRunsAfterStop
<1> QED  BY <1>1, <1>2, AgentInit, PTL DEF Spec
================================================================================
