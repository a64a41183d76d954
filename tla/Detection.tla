------------------------------ MODULE Detection ------------------------------
(***************************************************************************)
(* The detection engine (server/detection/engine.py) and what its callers  *)
(* make of its result: two-tier detection for the agents (DetectContent in *)
(* server/grpc_server.py), the detection API (server/api/detection.py),    *)
(* the SMTP gateway (network/smtp_monitor.py, smtp_prevent.py,             *)
(* smtp_entry.py), the HTTP gateway (network/dlp_addon.py, http_monitor.py,*)
(* http_prevent.py, mitmproxy_entry.py), and a caller that brings its own  *)
(* message and analyzers.                                                  *)
(*                                                                         *)
(* The requests of a behaviour are given.  The handlers of DetectContent   *)
(* and of the API share the event loop of the server (main.py): a file is  *)
(* inspected on it, and the API detects on it, while nothing else runs and *)
(* no timer fires.  DetectContent then waits, at most for its timeout, for *)
(* an executor thread that runs the engine; one that gives up cancels a    *)
(* detection that has not begun, but cannot stop one that has.  The        *)
(* gateways are processes of their own and handle one message after the    *)
(* other.                                                                  *)
(***************************************************************************)
EXTENDS Fingerprints

CONSTANTS
  Scenarios,      \* sequences of requests
  Workers,        \* threads of the executor
  GatewayEngine,  \* the analyzers that the gateways are given
  Allowlist,      \* allowlisted_domains, with the hosts below them
  BlockAt,        \* block_threshold, of the gateway in question
  ModifyAt        \* modify_threshold

\* What the requests are made of.
IsValue(v) ==
  /\ v = [is |-> v.is, of |-> v.of]
  /\ v.is \in {"card", "aba"} => v.of \in Seq(0..9)
  /\ v.is = "iban" => v.of \in Seq(0..35)
IsMessage(m) ==
  /\ Sequence(m)
  /\ \A c \in ToSet(m) : /\ IsText(c.text) /\ \A x \in ToSet(c.text) : IsValue(x.value)
                         /\ c.file # << >> => {"mime", "ext", "name", "size"} \subseteq DOMAIN c.file[1]
IsAnalyzer(a) ==
  /\ a.raises \in BOOLEAN
  /\ a.kind = "keywords" =>
       /\ Sequence(a.looks.keywords) /\ a.looks.sensitive \in BOOLEAN /\ a.looks.whole \in BOOLEAN
       /\ \A rule \in ToSet(a.looks.proximity) : rule.max \in Nat /\ rule.sensitive \in BOOLEAN
  /\ a.kind = "filetypes" =>
       \A r \in DOMAIN a.looks : DOMAIN a.looks[r] = {"categories", "mimes", "exts", "names", "min", "max"}
IsRequest(r) ==
  /\ r.via \in {"grpc", "api"} /\ r.file # << >> => r.file[1] \in Files
  /\ r.via = "smtp" => r.up \in BOOLEAN /\ r.mail \in Files
  /\ r.via = "http" => IsText(r.url) /\ Sequence(r.parts) /\ \A p \in ToSet(r.parts) : IsFile(p.inner)
  /\ r.via = "engine" => IsMessage(r.message) /\ \A k \in DOMAIN r.analyzers : IsAnalyzer(r.analyzers[k])

ASSUME ScenariosAssumption == \A s \in Scenarios : Sequence(s) /\ \A i \in DOMAIN s : IsRequest(s[i])
\* The gateways register one analyzer, of identifiers (smtp_entry.py, mitmproxy_entry.py).
ASSUME EngineAssumption ==
  GatewayEngine = <<[kind |-> "identifiers", looks |-> GatewayEngine[1].looks, targets |-> {}, raises |-> FALSE]>>
ASSUME LimitsAssumption == Workers \in Nat /\ BlockAt \in Nat /\ ModifyAt \in Nat

VARIABLES
  requests,
  state,      \* per request: new, reading (on the event loop), queued, running,
              \* abandoned (still running), finished (not yet answered) or done
  loop,       \* the request that has the event loop to itself, or Free
  result,     \* per request: what the engine found, [matches, errors]
  answer,     \* per request: what the caller was answered
  incidents,  \* _incidents of the gateway: [of, action], and whether its line was written
  logged,     \* the incidents in its JSONL file, as they were when written
  delivered   \* what the gateway has sent on: [of, to, marked]

jobs == <<requests, state, loop, result, answer, incidents, logged, delivered>>
vars == <<jobs, library>>

Requests == DOMAIN requests
Free == 0

-----------------------------------------------------------------------------
(* The engine.                                                             *)

\* ParsedMessage.get_components: no target is every type, and generic is always there.
Targeted(a, c) == a.targets = {} \/ c.type \in a.targets \cup {"generic"}

\* Matches of one analyzer in one component.
Analyzed(a, c) ==
  CASE a.kind = "identifiers" -> DataIdentifierMatches(a.looks, c.text)
    [] a.kind = "regex" -> RegexMatches(a.looks, c.text)
    [] a.kind = "keywords" -> {<<"word", m>> : m \in KeywordMatches(a.looks, c.text)}
                              \cup {<<"near", m>> : m \in ProximityMatches(a.looks, c.text)}
    [] a.kind = "filetypes" -> FileTypeMatches(a.looks, c)
    [] a.kind = "fingerprints" -> IF IsDocument(c.text) THEN Search(Simhash(c.text[1].value.of)) ELSE {}

\* DetectionEngine.detect: an analyzer that raises is an error and no match.
Detect(analyzers, message) ==
  [matches |-> [k \in DOMAIN analyzers |->
                  IF analyzers[k].raises THEN {}
                  ELSE UNION {{<<i, m>> : m \in Analyzed(analyzers[k], message[i])} :
                                i \in {j \in DOMAIN message : Targeted(analyzers[k], message[j])}}],
   errors |-> {k \in DOMAIN analyzers : analyzers[k].raises}]
NoResult == [matches |-> << >>, errors |-> {}]
MatchCount(r) == Total([k \in DOMAIN r.matches |-> Cardinality(r.matches[k])])

Analyzer(kind, looks) == [kind |-> kind, looks |-> looks, targets |-> {}, raises |-> FALSE]
\* _build_default_engine of the gRPC server and of the API
ServerEngine == <<Analyzer("identifiers", {"card", "ssn", "email"})>>
ApiEngine == <<Analyzer("identifiers", {"card", "ssn", "phone", "email", "iban", "ip", "date", "aba"})>>

-----------------------------------------------------------------------------
(* The messages.                                                           *)

\* What a gateway reads of a file without an inspector: its bytes as UTF-8.
Raw(f) == IF f.format \in {"text", "html"} THEN FlattenSeq([i \in DOMAIN f.parts |-> f.parts[i].text]) ELSE << >>
Carried(type, text) == Component(type, text, "none", << >>)

(***************************************************************************)
(* SmtpMonitor._parse_email.  The envelope is there always, the subject if *)
(* it is not empty, and every part that walk reaches, into attached mails  *)
(* too: attachments as raw bytes, plain text and HTML as body.             *)
(***************************************************************************)
Walked[f \in Files] ==
  FlattenSeq([i \in DOMAIN f.parts |->
    LET p == f.parts[i]
    IN CASE p.kind \in {"plain", "markup"} -> <<Carried("body", p.text)>>
         [] p.kind \in {"string", "bytes"} -> <<Carried("attachment", Raw(p.inner))>>
         [] p.kind = "message" -> <<Carried("attachment", << >>)>> \o Walked[p.inner]
         [] OTHER -> << >>])
Headers(parts) ==
  LET named == Picked(parts, {i \in DOMAIN parts :
                                \/ parts[i].kind = "envelope"
                                \/ parts[i].kind = "subject" /\ parts[i].text # << >>})
  IN [i \in DOMAIN named |-> Carried(named[i].kind, named[i].text)]
Parsed(mail) == Headers(mail.parts) \o Walked[mail]

\* The fields and files of a form (parse_multipart), or the body.
Fields(r) == [i \in DOMAIN r.parts |-> Carried(r.parts[i].type, Raw(r.parts[i].inner))]
\* DLPAddon.inspect_request: the URL, the fields, and what the normaliser makes of each.
Uploaded(r) ==
  LET variants == [i \in DOMAIN Fields(r) |->
                     LET v == Tail(Normalize(Fields(r)[i].text))
                     IN [k \in DOMAIN v |-> Carried(Fields(r)[i].type, v[k])]]
  IN <<Carried("envelope", r.url)>> \o Fields(r) \o FlattenSeq(variants)

\* DetectContent: the file through the inspector, and as plain text if that raises; or
\* the excerpt.
Submitted(r) ==
  IF r.file = << >> THEN <<Carried("body", r.excerpt)>>
  ELSE LET seen == Inspect[r.file[1]]
       IN IF seen.raised THEN <<Carried("body", Raw(r.file[1]))>> ELSE seen.components

-----------------------------------------------------------------------------
Init ==
  /\ requests \in Scenarios
  /\ state = [i \in Requests |-> "new"] /\ loop = Free
  /\ result = [i \in Requests |-> NoResult]
  /\ answer = [i \in Requests |-> "none"]
  /\ incidents = << >> /\ logged = << >> /\ delivered = {}
  /\ LibraryInit

Gateway == <<incidents, logged, delivered>>
Is(i, via) == i \in Requests /\ requests[i].via = via
Becomes(i, s) == state' = [state EXCEPT ![i] = s]
Answer(i, a) == answer' = [answer EXCEPT ![i] = a]

\* A handler begins.
Arrive(i) ==
  /\ i \in Requests /\ requests[i].via \in {"grpc", "api"} /\ state[i] = "new" /\ loop = Free
  /\ Becomes(i, "reading") /\ loop' = i
  /\ UNCHANGED <<requests, result, answer, Gateway, library>>

\* DetectContent up to the executor: the file has been inspected.
Submit(i) ==
  /\ Is(i, "grpc") /\ state[i] = "reading"
  /\ IF requests[i].file = << >> /\ requests[i].excerpt = << >>
     THEN Becomes(i, "done") /\ Answer(i, "allow")
     ELSE Becomes(i, "queued") /\ UNCHANGED answer
  /\ loop' = Free /\ UNCHANGED <<requests, result, Gateway, library>>

Busy_ == {i \in Requests : state[i] = "running"}     \* a mutant: giving up frees the thread
Busy == {i \in Requests : state[i] \in {"running", "abandoned"}}
Start(i) ==
  /\ Is(i, "grpc") /\ state[i] = "queued" /\ Cardinality(Busy) < Workers
  /\ Becomes(i, "running")
  /\ UNCHANGED <<requests, loop, result, answer, Gateway, library>>

\* The engine ends in its thread: a result for the loop, or only a thread that is free
\* again.
Finish(i) ==
  /\ i \in Busy
  /\ IF state[i] = "abandoned" THEN Becomes(i, "done") /\ UNCHANGED result
     ELSE Becomes(i, "finished") /\ result' = [result EXCEPT ![i] = Detect(ServerEngine, Submitted(requests[i]))]
  /\ UNCHANGED <<requests, loop, answer, Gateway, library>>

\* The verdict, in which result.errors have no part.
Reply(i) ==
  /\ i \in Requests /\ state[i] = "finished" /\ loop = Free
  /\ Becomes(i, "done") /\ Answer(i, IF MatchCount(result[i]) > 0 THEN "block" ELSE "allow")
  /\ UNCHANGED <<requests, loop, result, Gateway, library>>

Waiting_ == {"running", "finished"}               \* a mutant: the wait for a thread has no timeout
Waiting == {"queued", "running", "finished"}
\* asyncio.TimeoutError: the agent's fallback action, or log.  Where the timer fires before
\* the loop has seen the result, which of the two wins is Python's choice (wait_for differs
\* between its versions), and the result may be lost.
Fallback(i) == IF requests[i].fallback \in {"allow", "block"} THEN requests[i].fallback ELSE "log"
TimeOut(i) ==
  /\ Is(i, "grpc") /\ state[i] \in Waiting /\ loop = Free
  /\ Becomes(i, IF state[i] = "running" THEN "abandoned" ELSE "done")
  /\ Answer(i, Fallback(i)) /\ result' = [result EXCEPT ![i] = NoResult]
  /\ UNCHANGED <<requests, loop, Gateway, library>>

Ended(i, r) == Becomes(i, "done") /\ result' = [result EXCEPT ![i] = r]

\* POST /api/detect, to the end of the detection
DetectText(i) ==
  /\ Is(i, "api") /\ requests[i].file = << >> /\ state[i] = "reading"
  /\ LET r == Detect(ApiEngine, requests[i].message)
     IN Ended(i, r) /\ Answer(i, IF MatchCount(r) > 0 THEN "matches" ELSE "clean")
  /\ loop' = Free /\ UNCHANGED <<requests, Gateway, library>>

\* POST /api/detect/file: too large (413) or not to be inspected (422), nothing
\* extracted, or the engine's result.
DetectFile(i) ==
  /\ Is(i, "api") /\ requests[i].file # << >> /\ state[i] = "reading"
  /\ LET f == requests[i].file[1]
         seen == Inspect[f]
         refused == f.format = "large" \/ seen.raised
         r == IF refused THEN NoResult ELSE Detect(ApiEngine, seen.components)
     IN /\ Ended(i, r)
        /\ Answer(i, IF refused THEN "refused" ELSE IF seen.components = << >> THEN "nothing"
                     ELSE IF MatchCount(r) > 0 THEN "matches" ELSE "clean")
  /\ loop' = Free /\ UNCHANGED <<requests, Gateway, library>>

\* A caller of the engine with a message and analyzers of its own.
Analyze(i) ==
  /\ Is(i, "engine") /\ state[i] = "new"
  /\ Ended(i, Detect(requests[i].analyzers, requests[i].message))
  /\ UNCHANGED <<requests, loop, answer, Gateway, library>>

Turn(i) == i \in Requests /\ state[i] = "new" /\ \A j \in 1..(i - 1) : state[j] = "done"

\* SmtpPrevent.determine_action; the monitor only logs.
MailAction(r, count) ==
  IF count = 0 THEN "pass" ELSE IF r.mode = "monitor" THEN "log"
  ELSE IF count >= BlockAt THEN "block" ELSE IF count >= ModifyAt THEN r.default ELSE "log"
Deliver(i, to, up) ==
  delivered' = IF up THEN delivered \cup {[of |-> i, to |-> to, marked |-> FALSE]} ELSE delivered

\* The incident of a violation, as the monitor notes it in memory and in the file, and
\* the prevent mode then corrects in memory.  A file that cannot be written is an error in
\* the program's log, and the incident is in memory only.
Note(i, count, action) ==
  IF count = 0 THEN UNCHANGED <<incidents, logged>>
  ELSE \E written \in BOOLEAN :
         /\ incidents' = Append(incidents, [of |-> i, action |-> action, written |-> written])
         /\ logged' = IF written THEN Append(logged, [of |-> i, action |-> "log"]) ELSE logged

ByVerdict_(action) == IF action = "redirect" THEN "quarantine" ELSE "recipients"  \* a mutant
ByVerdict(action) ==
  IF action = "block" THEN "nobody" ELSE IF action = "redirect" THEN "quarantine" ELSE "recipients"
MailResult(r) == Detect(GatewayEngine, Parsed(r.mail))
\* DLPSmtpHandler.handle_DATA: a failure to forward is logged and answered 250.  The
\* content goes on as it came; apply_modifications has no caller.
Mail(i) ==
  /\ Is(i, "smtp") /\ Turn(i)
  /\ LET r == MailResult(requests[i])
         action == MailAction(requests[i], MatchCount(r))
     IN /\ Ended(i, r) /\ Note(i, MatchCount(r), action)
        /\ IF ByVerdict(action) = "nobody" THEN Answer(i, "550") /\ UNCHANGED delivered
           ELSE Answer(i, "250") /\ Deliver(i, ByVerdict(action), requests[i].up)
  /\ UNCHANGED <<requests, loop, library>>

Inspected(r) ==
  /\ r.method \in {"POST", "PUT", "PATCH"} /\ r.parts # << >>
  /\ r.mode = "prevent" => r.host \notin Allowlist
\* HttpMonitor.process_request, without what it notes
HttpResult(r) == IF Inspected(r) THEN Detect(GatewayEngine, Uploaded(r)) ELSE NoResult
Blocked(r, count) == r.mode = "prevent" /\ count > 0 /\ count >= BlockAt
\* DLPMitmproxyAddon.request
Request(i) ==
  /\ Is(i, "http") /\ Turn(i)
  /\ LET r == HttpResult(requests[i])   n == MatchCount(r)
     IN /\ Ended(i, r) /\ Note(i, n, IF Blocked(requests[i], n) THEN "block" ELSE "log")
        /\ IF Blocked(requests[i], n) THEN Answer(i, "403") /\ UNCHANGED delivered
           ELSE Answer(i, "passed") /\ Deliver(i, "recipients", TRUE)
  /\ UNCHANGED <<requests, loop, library>>

\* Interleavings of the index with requests that do not read it are left out.
ReadsIndex == \E i \in Requests : /\ requests[i].via = "engine"
                                  /\ \E k \in DOMAIN requests[i].analyzers : requests[i].analyzers[k].kind = "fingerprints"
LibraryStep == ReadsIndex /\ LibraryNext /\ UNCHANGED jobs

Next == \/ LibraryStep
        \/ \E i \in Requests : \/ Arrive(i) \/ Submit(i) \/ Start(i) \/ Finish(i) \/ Reply(i) \/ TimeOut(i)
                               \/ DetectText(i) \/ DetectFile(i) \/ Analyze(i) \/ Mail(i) \/ Request(i)

\* Only what the event loop and its timers do is fair: neither a detection nor the
\* inspection of a file need ever end.
Fairness == \A i \in 1..2 : /\ WF_vars(Arrive(i)) /\ WF_vars(Reply(i)) /\ WF_vars(TimeOut(i))
                            /\ WF_vars(Is(i, "grpc") /\ requests[i].file = << >> /\ Submit(i))
Spec == Init /\ [][Next]_vars /\ Fairness
-----------------------------------------------------------------------------
(* Properties.                                                             *)

\* A thread is never given to more detections than there are, nor the event loop to more
\* than one handler; only what has ended has a result; and the gateways never have two
\* incidents of one message.
TypeOK ==
  /\ state \in [Requests -> {"new", "reading", "queued", "running", "abandoned", "finished", "done"}]
  /\ \A i \in Requests : state[i] = "reading" <=> loop = i
  /\ Cardinality({i \in Requests : state[i] \in {"running", "abandoned"}}) <= Workers
  /\ \A i \in Requests : result[i] # NoResult => state[i] \in {"finished", "done"} /\ result[i].errors \subseteq DOMAIN result[i].matches
  /\ \A i \in Requests : state[i] = "abandoned" => answer[i] = Fallback(i)
  /\ \A k, l \in DOMAIN incidents : incidents[k].of = incidents[l].of => k = l

\* A file and those in it, at any depth; every item of them; and whether something of them
\* is not in the components, with a note in one of them or, below a mail, without.
Inside[f \in Files] ==
  {f} \cup UNION {Inside[p.inner] : p \in {q \in ToSet(f.parts) : q.kind \in {"bytes", "message"}}}
Items(f) == UNION {UNION {ToSet(p.text) : p \in ToSet(g.parts)} : g \in Inside[f]}
ReadItems(f) ==      \* without the alternatives that are never read
  UNION {UNION {ToSet(g.parts[i].text) : i \in DOMAIN g.parts \ PassedOver(g.parts)} : g \in Inside[f]}
Incomplete(f) ==
  \E g \in Inside[f] : \/ Inspect[g].raised
                       \/ \E c \in ToSet(Inspect[g].components) : c.note # "none"
                       \/ \E p \in ToSet(g.parts) : p.kind = "message"
Accepted(item, engine) == item.code = << >> /\ item.value.is \in engine[1].looks /\ Valid(item.value)

(***************************************************************************)
(* A detection that has ended says of a file whether it holds something    *)
(* that an identifier accepts, down to the attachments of attached files:  *)
(* block (or matches) only if there is something, allow (or clean) only if *)
(* there is nothing, except in scripts, under an encoding, in the bodies   *)
(* of a mail besides the one that is read, as the HTML next to a plain     *)
(* text, and where the inspector could not read everything.  Neither       *)
(* answer tells these exceptions from a clean file.                        *)
(***************************************************************************)
VerdictFollowsContent ==
  \A i \in Requests :
    state[i] = "done" /\ result[i] # NoResult /\ requests[i].via \in {"grpc", "api"} /\ requests[i].file # << >> =>
      LET f == requests[i].file[1]
          engine == IF requests[i].via = "grpc" THEN ServerEngine ELSE ApiEngine
      IN /\ answer[i] \in {"block", "matches"} => \E x \in Items(f) : Accepted(x, engine)
         /\ answer[i] \in {"allow", "clean", "nothing"} /\ ~Incomplete(f) =>
              \A x \in ReadItems(f) : Accepted(x, engine) => x.hidden

\* The log is in the order of the messages.
InOrder(log) == \A k, l \in DOMAIN log : k < l => log[k].of < log[l].of

(***************************************************************************)
(* What a gateway does with a message is what its incident says of it:     *)
(* blocked, it is refused and goes nowhere; redirected, it goes to the     *)
(* quarantine only; otherwise to its recipients only.  A message without   *)
(* incident goes to its recipients, if the next server takes it.  The file *)
(* has the same messages in the same order, but for those whose line could *)
(* not be written, of which only the memory of the gateway knows.          *)
(***************************************************************************)
EnforcedAsRecorded ==
  /\ InOrder(incidents) /\ InOrder(logged)
  /\ {x.of : x \in ToSet(logged)} = {x.of : x \in {y \in ToSet(incidents) : y.written}}
  /\ \A i \in Requests :
       state[i] = "done" /\ requests[i].via \in {"smtp", "http"} =>
         LET told == {incidents[k].action : k \in {l \in DOMAIN incidents : incidents[l].of = i}}
             sent == {x.to : x \in {y \in delivered : y.of = i}}
             to == IF "block" \in told THEN {} ELSE IF "redirect" \in told THEN {"quarantine"} ELSE {"recipients"}
         IN /\ sent = to \/ (sent = {} /\ ~requests[i].up)
            /\ answer[i] \in {"550", "403"} <=> "block" \in told

\* The passes that a decoding takes: one decoder after the other in each pass.
Order(e) == CASE e = "url" -> 1 [] e = "html" -> 2 [] e = "base64" -> 3
PassesFor(code) ==
  IF code = << >> THEN 0
  ELSE 1 + Cardinality({k \in 2..Len(code) : Order(code[k]) <= Order(code[k - 1])})
Decodable(item) == "short" \notin ToSet(item.code) /\ PassesFor(item.code) <= Passes

(***************************************************************************)
(* Encodings are no way past the HTTP gateway: if an inspected request     *)
(* carries as many identifiers as block_threshold in fields or files it    *)
(* can read, each plain or under encodings that max_depth passes take off, *)
(* it is refused.  (The converse is false: what is plain next to something *)
(* encoded counts again in every variant.)                                 *)
(***************************************************************************)
EncodingsDoNotHelp ==
  \A i \in Requests :
    state[i] = "done" /\ requests[i].via = "http" /\ requests[i].mode = "prevent" /\ Inspected(requests[i]) =>
      LET parts == requests[i].parts
          there == UNION {{<<k, j>> : j \in {l \in DOMAIN Raw(parts[k].inner) :
                             LET x == Raw(parts[k].inner)[l]
                             IN Decodable(x) /\ Accepted([x EXCEPT !.code = << >>], GatewayEngine)}} :
                            k \in DOMAIN parts}
      IN there # {} /\ Cardinality(there) >= BlockAt => answer[i] = "403"

\* The requests of a caller of the engine with this kind of analyzer, and its place.
Using(kind) ==
  {u \in Requests \X (1..2) :
     /\ requests[u[1]].via = "engine" /\ state[u[1]] = "done" /\ u[2] \in DOMAIN requests[u[1]].analyzers
     /\ LET a == requests[u[1]].analyzers[u[2]] IN a.kind = kind /\ ~a.raises}
Found(u) == result[u[1]].matches[u[2]]
Looks(u) == requests[u[1]].analyzers[u[2]].looks
Text(u, i) == requests[u[1]].message[i].text

(***************************************************************************)
(* A keyword analyzer finds, in the components it targets and the generic  *)
(* ones and in no others, and whatever another analyzer raises: without    *)
(* case, every word that is a keyword but for capitals, also where two     *)
(* keywords differ in capitals only; a pair of keywords exactly if at most *)
(* max_distance words stand between two of their places, in either order.  *)
(* A proximity rule with case can find lower case keywords only.           *)
(***************************************************************************)
KeywordsAreFound ==
  \A u \in Using("keywords") : \A i \in DOMAIN requests[u[1]].message :
    LET w == Words(Text(u, i))
        targets == requests[u[1]].analyzers[u[2]].targets
        found == {m[2] : m \in {x \in Found(u) : x[1] = i}}
        hits == {m[2][2] : m \in {x \in found : x[1] = "word"}}
        near == {m[2][1] : m \in {x \in found : x[1] = "near"}}
        Same(x, y) == Lower(x) = Lower(y)
        Pair(rule) == \E j, l \in DOMAIN w :
          /\ j # l /\ Same(w[j], rule.a) /\ Same(w[l], rule.b)
          /\ Cardinality({n \in DOMAIN w : (j < n /\ n < l) \/ (l < n /\ n < j)}) <= rule.max
    IN IF targets = {} \/ requests[u[1]].message[i].type \in targets \cup {"generic"}
       THEN /\ Looks(u).whole /\ ~Looks(u).sensitive =>
                 hits = {j \in DOMAIN w : \E k \in DOMAIN Looks(u).keywords : Same(w[j], Looks(u).keywords[k])}
            /\ \A r \in DOMAIN Looks(u).proximity :
                 LET rule == Looks(u).proximity[r]
                 IN r \in near <=> Pair(rule) /\ (rule.sensitive => rule.a = Lower(rule.a) /\ rule.b = Lower(rule.b))
       ELSE found = {}

\* Neighbours in an IBAN whose swap leaves the remainder as it was.
Alike(x, y) == x = y \/ y = 11 * x \/ x = 11 * y

(***************************************************************************)
(* The checksums do what they are for: of a card, an IBAN or a routing     *)
(* number that is accepted, no number is accepted that differs in one      *)
(* digit, nor an IBAN with two neighbours swapped, but for a digit next to *)
(* the letter of eleven times its value (1B, 2M, 3X), which mod 97 cannot  *)
(* tell from its swap.                                                     *)
(***************************************************************************)
TyposAreCaught ==
  \A u \in Using("identifiers") : \A m \in Found(u) :
    LET v == Text(u, m[1])[m[2][2]].value
        Typo(p, x) == [v EXCEPT !.of[p] = x]
        Swap(p) == [v EXCEPT !.of[p] = v.of[p + 1], !.of[p + 1] = v.of[p]]
    IN /\ v.is \in {"card", "aba", "iban"} =>
            \A p \in DOMAIN v.of, x \in 0..9 : v.of[p] \in 0..9 \ {x} => ~Valid(Typo(p, x))
       /\ v.is = "iban" => \A p \in 5..(Len(v.of) - 1) : ~Alike(v.of[p], v.of[p + 1]) => ~Valid(Swap(p))

(***************************************************************************)
(* The conditions of a file type rule only narrow it: a file it matches is *)
(* matched without any one of them, as long as one is left.  And a rule    *)
(* about categories cannot be avoided by an extension, where the type is   *)
(* known by the bytes.                                                     *)
(***************************************************************************)
None(c) == IF c \in {"min", "max"} THEN 0 ELSE {}
FileTypesAreSound ==
  \A u \in Using("filetypes") : \A m \in Found(u) :
    LET rule == Looks(u)[m[2]]   info == requests[u[1]].message[m[1]].file[1]
    IN /\ \A c \in Conditions(rule) :
            Conditions(rule) # {c} => RuleMatches([rule EXCEPT ![c] = None(c)], info)
       /\ Conditions(rule) = {"categories"} /\ info.mime \in DOMAIN MimeDB =>
            \A e \in DOMAIN ExtDB : RuleMatches(rule, [info EXCEPT !.ext = e])

\* What the analyzers and the normaliser promise each (keyword_analyzer.py,
\* data_identifier_analyzer.py, file_type_analyzer.py, content_normalizer.py).
AnalyzersAreRight ==
  TypeOK /\ EncodingsDoNotHelp /\ KeywordsAreFound /\ TyposAreCaught /\ FileTypesAreSound

(***************************************************************************)
(* Every DetectContent is answered, though all executor threads may be     *)
(* taken by detections that do not end and were given up; unless the event *)
(* loop never comes back from the inspection of a file, or a detection of  *)
(* the API, of whatever caller: then no call is answered any more, and no  *)
(* timeout fires.                                                          *)
(***************************************************************************)
EveryCallIsAnswered ==
  \A i \in 1..2 :
    (i \in Requests /\ requests[i].via = "grpc") ~> ((i \in Requests /\ answer[i] # "none") \/ [](loop # Free))

(***************************************************************************)
(* Violated: a mail whose incident says "modify" carries the marks of it   *)
(* when it is delivered (handle_DATA forwards the content as it came).     *)
(***************************************************************************)
ModifiedMailsAreMarked ==
  \A k \in DOMAIN incidents : \A x \in delivered :
    incidents[k].action = "modify" /\ x.of = incidents[k].of => x.marked
=============================================================================
