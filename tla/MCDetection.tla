----------------------------- MODULE MCDetection -----------------------------
(* The detection engine with its callers, and next to it the archive inspector.   *)
EXTENDS Detection, Archive, TLC

V(is, of) == [is |-> is, of |-> of]
Card == V("card", <<4, 2, 2, 2, 2, 2, 2, 2, 2, 2, 2, 2, 2>>)
BadCard == V("card", <<4, 2, 2, 2, 2, 2, 2, 2, 2, 2, 2, 2, 3>>)
Ssn == V("ssn", <<1, 2, 3, 4, 5, 6, 7, 8, 9>>)
\* Numbers that each validator accepts, and that it refuses for each of its reasons.
Numbers == {
  Card, BadCard, V("card", <<0, 0>>), V("card", <<4, 0, 1, 2, 8, 8, 8, 8, 8, 8, 8, 8, 1, 8, 8, 1>>),
  Ssn, V("ssn", <<0, 0, 0, 4, 5, 6, 7, 8, 9>>), V("ssn", <<6, 6, 6, 4, 5, 6, 7, 8, 9>>),
  V("ssn", <<9, 0, 0, 4, 5, 6, 7, 8, 9>>), V("ssn", <<1, 2, 3, 0, 0, 6, 7, 8, 9>>), V("ssn", <<1, 2, 3, 4, 5, 0, 0, 0, 0>>),
  V("phone", <<2, 1, 2, 5, 5, 5, 0, 1, 0, 0>>), V("phone", <<1, 2, 1, 2, 5, 5, 5, 0, 1, 0, 0>>),
  V("phone", <<1, 1, 2, 5, 5, 5, 0, 1, 0, 0>>), V("phone", <<2, 1, 2, 1, 5, 5, 0, 1, 0, 0>>),
  V("email", <<1, 7, 3>>), V("email", <<0, 7, 3>>), V("email", <<1, 7>>), V("email", <<1, 7, 1>>),
  V("iban", <<23, 24, 9, 3, 8, 6, 0, 1, 1, 1, 1, 7, 9, 4, 7>>), V("iban", <<23, 24, 9, 3, 8, 6, 0, 1, 1, 1, 1, 7, 9, 4, 8>>),
  V("iban", <<16, 11, 8, 2, 32, 14, 28, 29, 1, 2, 3, 4, 5, 6, 9, 8, 7, 6, 5, 4, 3, 2>>), V("iban", <<2, 24, 9, 3, 8>>),
  V("ip", <<10, 0, 0, 1>>), V("ip", <<256, 0, 0, 1>>), V("ip", <<0, 0, 0, 0>>), V("ip", <<255, 255, 255, 255>>),
  V("date", <<2, 29, 2024>>), V("date", <<2, 29, 2023>>), V("date", <<2, 29, 1900>>), V("date", <<2, 29, 2000>>),
  V("date", <<4, 31, 1999>>), V("date", <<13, 1, 1999>>), V("date", <<1, 1, 1899>>),
  V("aba", <<0, 2, 1, 0, 0, 0, 0, 2, 1>>), V("aba", <<0, 2, 1, 0, 0, 0, 0, 2, 2>>), V("aba", <<0, 0, 2, 0, 0, 0, 0, 0, 0>>),
  V("passport", <<1, 2, 3, 4, 5, 6, 7, 8>>), V("passport", <<1, 2>>), V("license", <<0, 0>>), V("license", <<0, 1>>)}
Shapes == {n.is : n \in Numbers}
W(k, c) == V("word", <<k, c>>)

It(v) == Item(v, << >>, FALSE)
Texts == {<<It(Card)>>, <<It(W(1, 0))>>, << >>, <<It(W(1, 0)), It(Card)>>,
          <<Item(Card, << >>, TRUE)>>, <<It(W(1, 0)), It(W(1, 0)), It(Ssn)>>}
Meta == [mime |-> "exe", ext |-> ".txt", name |-> "n", size |-> 2]
File(format, parts) == [format |-> format, parts |-> parts, meta |-> Meta]
Part(kind, text) == [kind |-> kind, text |-> text, broken |-> FALSE]
Nested(kind, f) == [kind |-> kind, text |-> << >>, broken |-> FALSE, inner |-> f]
Break(p) == [p EXCEPT !.broken = TRUE]

Simple == {File(f, <<Part("page", t)>>) : f \in {"text", "html", "binary", "large"}, t \in Texts}
          \cup {File(f, <<Break(Part("page", <<It(Ssn)>>))>>) : f \in {"text", "html", "paged"}}
          \cup {File("paged", <<Part("page", t), Part("page", u)>>) : t, u \in Texts}
          \cup {File("paged", <<Part("page", t), Break(Part("page", <<It(Ssn)>>)), Part("page", u)>>) : t, u \in Texts}
Few == {<<It(Card)>>, <<It(W(1, 0))>>}
\* Mails with every body and attachment together, and every subject and body.
Message(s, b, a) == File("eml", <<Part("envelope", <<It(W(1, 0))>>), Part("subject", s), b, a>>)
Bodied == {Part(k, t) : k \in {"plain", "markup"}, t \in Texts}
Mails == {Message(<<It(W(1, 0))>>, b, Nested("bytes", f)) : b \in Bodied, f \in Simple}
         \cup {Message(s, b, a) : s \in Few \cup {<< >>}, b \in Bodied,
                 a \in {Nested("bytes", File(f, <<Part("page", <<It(W(1, 0))>>)>>)) : f \in {"text", "binary"}}
                       \cup {Break(Nested("bytes", File("text", <<Part("page", <<It(Ssn)>>)>>)))}}
\* Mails with several bodies, in either order, one of which may not be readable.
Alternatives == {File("eml", <<Part("envelope", t), b, c, Nested("bytes", File("text", <<Part("page", t)>>))>>) :
                   t \in {<<It(W(1, 0))>>, <<It(W(1, 0)), It(W(1, 0)), It(Ssn)>>},
                   b, c \in {Part(k, u) : k \in Bodies, u \in Texts} \cup {Break(Part(k, <<It(Ssn)>>)) : k \in Bodies}}
Forward(m) == File("eml", <<Part("envelope", <<It(W(1, 0))>>), Part("plain", <<It(W(1, 0))>>), Nested("message", m), Nested("bytes", m)>>)
Plain(t) == File("eml", <<Part("envelope", <<It(W(1, 0))>>), Part("plain", t)>>)
Inspectable == Simple \cup Mails \cup Alternatives \cup {Forward(Plain(t)) : t \in Texts}

Grpc(file, excerpt, fallback) ==
  [via |-> "grpc", file |-> file, excerpt |-> excerpt, fallback |-> fallback]
Api(file, message) == [via |-> "api", file |-> file, message |-> message]
Engine(analyzers, message) == [via |-> "engine", analyzers |-> analyzers, message |-> message]
Smtp(mode, default, up, mail) ==
  [via |-> "smtp", mode |-> mode, default |-> default, up |-> up, mail |-> mail]
Http(mode, method, host, parts) ==
  [via |-> "http", mode |-> mode, method |-> method, host |-> host, parts |-> parts, url |-> <<It(W(1, 0))>>, up |-> TRUE]

Calls == {Grpc(f, t, fb) : f \in {<< >>, <<File("text", <<Part("page", <<It(Card)>>)>>)>>}, t \in Few \cup {<< >>}, fb \in {"allow", "block", "log", ""}}
\* Calls that overlap, and one that overlaps with the inspection of a file.
FileCalls == {Grpc(<<File("text", <<Part("page", <<It(Card)>>)>>)>>, << >>, "log"), Api(<<File("text", <<Part("page", <<It(Card)>>)>>)>>, << >>),
              Api(<< >>, <<Component("body", <<It(Card)>>, "none", << >>)>>)}
Overlapping == {<<c, e>> : c, e \in {x \in Calls : x.file = << >>}} \cup {<<c, e>> : c \in Calls, e \in FileCalls}
Alone == {<<Grpc(<<f>>, << >>, "log")>> : f \in Inspectable} \cup {<<Api(<<f>>, << >>)>> : f \in Inspectable}
         \cup {<<Api(<< >>, <<Component("body", t, "none", << >>), Component("subject", s, "none", << >>)>>)>> : t, s \in Texts}

Letters == {Plain(t) : t \in {<<It(W(1, 0))>>, <<It(Card)>>, <<It(Card), It(Ssn)>>, <<It(Card), It(Ssn), It(Card)>>}}
           \cup {Forward(Plain(<<It(Card)>>)),
                 File("eml", <<Part("subject", <<It(Ssn)>>), Nested("bytes", File("paged", <<Part("page", <<It(Card)>>)>>)),
                               Nested("string", File("text", <<Part("page", <<It(Card)>>)>>))>>)}
\* All of these files, and those attached to them.
AttachedTo(S) == UNION {{p.inner : p \in {q \in ToSet(f.parts) : q.kind \in Attached}} : f \in S}
EveryFile == LET all == Inspectable \cup Letters \cup {File("text", <<Part("page", <<It(Card)>>)>>)}
             IN all \cup AttachedTo(all) \cup AttachedTo(AttachedTo(all))
RECURSIVE Deep(_)
Deep(f) == LET inner == AttachedTo({f}) IN IF inner = {} THEN 0 ELSE 1 + Max({Deep(g) : g \in inner})
NestingOf == [f \in EveryFile |-> Deep(f)]

Posts == {<<Smtp(mode, default, u, m), Smtp(mode, default, v, n)>> :
            mode \in {"monitor", "prevent"}, default \in {"modify", "redirect"}, u, v \in BOOLEAN, m, n \in Letters}

Coded == {Item(v, code, FALSE) : v \in {Card, W(1, 0)},
            code \in {<< >>, <<"url">>, <<"base64">>, <<"short">>, <<"url", "html", "base64">>, <<"base64", "url">>,
                      <<"base64", "html", "url">>, <<"html", "html">>}}
Field(type, text) == [type |-> type, inner |-> File("text", <<Part("page", text)>>)]
Uploads == {<<Http(mode, "POST", host, <<Field("body", <<x, y>>), f>>)>> :
              mode \in {"monitor", "prevent"}, host \in {"ours", "theirs"}, x, y \in Coded,
              f \in {Field("attachment", <<It(Ssn)>>), [type |-> "attachment", inner |-> File("paged", <<Part("page", <<It(Card)>>)>>)]}}
           \cup {<<Http("prevent", "GET", "theirs", <<Field("body", <<It(Card), It(Ssn), It(Ssn)>>)>>), Http("prevent", "PUT", "theirs", p)>> :
                   p \in {<< >>, <<Field("body", <<It(Card), It(Ssn), It(Ssn)>>)>>}}

\* Messages for analyzers: texts of up to three words, files, numbers and documents.
Vocabulary == {W(1, 0), W(1, 1), W(2, 0), W(2, 1), W(3, 0)}
Sentences == {<<It(a), It(b), It(c)>> : a, b, c \in Vocabulary} \cup {<<It(a)>> : a \in Vocabulary}
Dictionary(keywords, sensitive, whole, proximity) ==
  [keywords |-> keywords, sensitive |-> sensitive, whole |-> whole, proximity |-> proximity]
Rule(a, b, max, sensitive) == [a |-> a, b |-> b, max |-> max, sensitive |-> sensitive]
Dictionaries == {
  Dictionary(<<<<1, 1>>, <<1, 0>>>>, s, w, <<Rule(<<1, 0>>, <<2, 0>>, 0, s), Rule(<<2, 1>>, <<1, 0>>, 1, s)>>) : s, w \in BOOLEAN}
Text1(type, text) == Component(type, text, "none", << >>)
Raising == [Analyzer("regex", << >>) EXCEPT !.raises = TRUE]
Targets(a, t) == [a EXCEPT !.targets = t]
Reading == {<<Engine(<<Raising, Targets(Analyzer("keywords", d), t)>>, <<Text1(type, s)>>)>> :
              d \in Dictionaries, t \in {{}, {"body"}}, type \in {"body", "subject", "generic"}, s \in Sentences}
Checking == {<<Engine(<<Analyzer("identifiers", Shapes), Analyzer("regex", <<{Card, Ssn}>>)>>, <<Text1("body", <<It(n), It(W(1, 0))>>)>>)>> : n \in Numbers}
Infos == [mime : {"exe", "octet-stream"}, ext : {".py", ".txt"}, name : {"n"}, size : {1, 3}]
FileRules == [categories : {{}, {"executable"}}, mimes : {{}, {"exe"}}, exts : {{}, {".py"}}, names : {{}, {"m"}}, min : {0, 2}, max : {0, 2}]
Typing == {<<Engine(<<Analyzer("filetypes", <<r>>)>>, <<Component("attachment", << >>, "none", <<i>>)>>)>> : r \in FileRules, i \in Infos}
Documents == <<<<1, 1, 2>>, <<6, 6, 7>>>>
Doc(of) == <<It(V("document", of))>>
Matching == {<<Engine(<<Targets(Analyzer("fingerprints", {}), {"body", "attachment"})>>, <<Text1("body", Doc(Documents[1])), Text1("generic", Doc(Documents[2])), Text1("subject", Doc(<<4>>))>>)>>}

\* Archives of up to three members, one of which may be an archive of one or two.
Member == [kind |-> "file", name |-> "a", size |-> 1, packed |-> 1, suffixed |-> TRUE, fails |-> "no"]
OfKind(kind) == [Member EXCEPT !.kind = kind]

Ordinary == {Member, [Member EXCEPT !.name = "b"], [Member EXCEPT !.name = "bad"],
          [Member EXCEPT !.fails = "read"], [Member EXCEPT !.fails = "content"],
          [Member EXCEPT !.size = 3], [Member EXCEPT !.size = 3, !.packed = 3], OfKind("dir")}
Subarchives == {[OfKind(k) EXCEPT !.name = n, !.suffixed = s] :
             k \in {"zip", "tar", "7z", "gzip", "bzip2"}, n \in {"a", "b"}, s \in BOOLEAN}
          \cup {[OfKind("zip") EXCEPT !.fails = "content"]}
Innermost == {Member, OfKind("zip"), [Member EXCEPT !.name = "b", !.size = 3], [Member EXCEPT !.fails = "read"], [Member EXCEPT !.name = "bad"]}
LinksIn(top) == IF top = "tar" THEN {OfKind("link")} ELSE {}

\* Two members; one member, an archive, before or after a file; and archives one in the
\* other, of one member each, whose names then have nothing to collide with.
Tree(paths, nodes) == [p \in ToSet(paths) |-> nodes[CHOOSE i \in DOMAIN paths : paths[i] = p]]
FlatTrees == {<< >> :> OfKind(top) @@ <<1>> :> m @@ <<2>> :> n : top \in {"zip", "tar", "7z"}, m, n \in Ordinary}
        \cup {<< >> :> OfKind("tar") @@ <<1>> :> l @@ <<2>> :> n : l \in LinksIn("tar"), n \in Ordinary}
DeepTrees == {Tree(<<<< >>, <<i>>, <<3 - i>>, <<i, 1>>>>, <<OfKind(top), a, n, m>>) :
           top \in {"zip", "tar", "7z"}, i \in 1..2, a \in Subarchives, n \in Ordinary, m \in Innermost}
DeeperTrees == {Tree(<<<< >>, <<1>>, <<1, 1>>, <<1, 1, 1>>>>, <<[OfKind(top) EXCEPT !.suffixed = s], a, b, m>>) :
             top \in {"rar", "gzip", "bzip2"}, s \in BOOLEAN, a, b \in {x \in Subarchives : x.name = "a"}, m \in Innermost}
SingleTrees == {<< >> :> p : p \in {Member, [OfKind("zip") EXCEPT !.fails = "content"]}}

WideTrees == {<< >> :> OfKind(top) @@ <<1>> :> m @@ <<2>> :> Member @@ <<3>> :> n :
           top \in {"zip", "tar", "7z"}, m, n \in Ordinary}
EveryTree == WideTrees \cup FlatTrees \cup DeepTrees \cup DeeperTrees \cup SingleTrees

EveryScenario == Overlapping \cup Alone \cup Posts \cup Uploads \cup Reading \cup Checking \cup Typing \cup Matching
\* TLC evaluates these once, a constant's own definition whenever the constant is used.
MCFiles == EveryFile
MCNesting == NestingOf
MCTrees == EveryTree
MCScenarios == EveryScenario
MCEngine == ApiEngine
MCMimeDB == "exe" :> "executable"
MCExtDB == ".py" :> "script"
MCWithin == {<<<<1, 0>>, <<3, 0>>>>}

\* An archive is walked in the behaviours without requests; in the others one is done.
Idle == tree = << >> :> Member /\ open = << >> /\ bytes = 0 /\ files = 0
        /\ inspected = {<< >>} /\ errors = {} /\ limit = "none"
MCInit == \/ Init /\ Idle
          \/ ArchiveInit /\ requests = << >> /\ state = << >> /\ loop = Free /\ result = << >> /\ answer = << >>
             /\ incidents = << >> /\ logged = << >> /\ delivered = {} /\ LibraryInit
MCNext == \/ Next /\ UNCHANGED walk
          \/ requests = << >> /\ Walk /\ UNCHANGED vars
MCSpec == MCInit /\ [][MCNext]_<<vars, walk>> /\ Fairness
=============================================================================
