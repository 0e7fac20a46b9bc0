----------------------------- MODULE AccessLine -----------------------------
(***************************************************************************)
(* What the web statistics make of one line of Traefik's access log:       *)
(* Ingest picks the lines of Traefik's containers, parseAccessLine and its *)
(* helpers (analytics_parse.go) classify them, and record counts.  Pure    *)
(* functions; the assumptions at the end are evaluated over all inputs of  *)
(* the bounds.  When a page view is counted, and for whom, is the business *)
(* of WebAnalytics.                                                        *)
(*                                                                         *)
(* A host or an image name is a sequence of characters, "www" being one of *)
(* them.  A path is its beginning, its extension and what follows a "?".   *)
(* A user agent is the set of the markers its lower-case text contains.    *)
(***************************************************************************)
LOCAL INSTANCE Naturals
LOCAL INSTANCE FiniteSets
LOCAL INSTANCE SequencesExt

CONSTANTS MaxHost,     \* bound on the length of a host name
          MaxBatch     \* bound on the lines of a batch

-----------------------------------------------------------------------------
(* Hosts.                                                                  *)

Lower(s) == [i \in DOMAIN s |-> CASE s[i] = "A" -> "a" [] s[i] = "T" -> "t" [] OTHER -> s[i]]

\* strings.Trim.
TrimOf(s, cut) ==
  LET inner == {i \in DOMAIN s : s[i] \notin cut} IN
  IF inner = {} THEN <<>> ELSE SubSeq(s, Min(inner), Max(inner))

Places(s, c) == {i \in DOMAIN s : s[i] = c}

\* net.SplitHostPort of a text that starts with a bracket: the bracket that closes
\* it stands right before the last colon, and there is no other.
SplitsAt(s, close) ==
  /\ Places(s, "]") = {close} /\ Places(s, "[") = {1}
  /\ Places(s, ":") # {} /\ Max(Places(s, ":")) = close + 1

normalizeHost(h) ==
  LET s == Lower(TrimOf(h, {" "})) IN
  IF s = <<>> THEN <<>>
  ELSE IF s[1] = "["
  THEN IF \E close \in DOMAIN s : SplitsAt(s, close)
       THEN SubSeq(s, 2, (CHOOSE close \in DOMAIN s : SplitsAt(s, close)) - 1)
       ELSE TrimOf(s, {"[", "]"})
  ELSE LET colons == Places(s, ":")
           bare   == IF Cardinality(colons) = 1 THEN SubSeq(s, 1, Max(colons) - 1) ELSE s
       IN IF bare # <<>> /\ Last(bare) = "." THEN Front(bare) ELSE bare

WithoutWww(s) == IF IsPrefix(<<"www", ".">>, s) THEN SubSeq(s, 3, Len(s)) ELSE s

\* "direct" without a referrer, the empty text when it does not count, else its domain.
\* A referrer is blank, no URL, or a URL with a host, which may be empty.
Uncounted == <<>>

referrerDomain(ref, host) ==
  LET d == WithoutWww(normalizeHost(ref.host)) IN
  CASE ref.kind = "blank" -> <<"direct">>
    [] ref.kind = "bad"   -> Uncounted
    [] OTHER -> IF d = <<>> \/ d = WithoutWww(normalizeHost(host)) THEN Uncounted ELSE d

-----------------------------------------------------------------------------
(* Pages, statuses, user agents.                                           *)

nonPagePrefixes ==
  {"/_next", "/api", "/static", "/assets", "/favicon", "/robots.txt", "/sitemap",
   "/.well-known", "/icon", "/apple-icon", "/opengraph-image"}

\* path.Ext looks at the end of the text it is given.
Ext(p)       == IF p.query # "" THEN p.query ELSE p.ext
CutQuery(p)  == [p EXCEPT !.query = ""]

isPageView(method, status, path) ==
  LET p == CutQuery(path) IN
  /\ method \in {"GET", "HEAD"}
  /\ status >= 200 /\ status <= 399
  /\ p.lead \notin {"", "x"} \cup nonPagePrefixes
  /\ Ext(p) \in {"", ".html", ".htm"}

statusClass(code) ==
  CASE code >= 200 /\ code < 300 -> "2xx"
    [] code >= 300 /\ code < 400 -> "3xx"
    [] code >= 400 /\ code < 500 -> "4xx"
    [] code >= 500 /\ code < 600 -> "5xx"
    [] OTHER -> ""

botMarkers ==
  {"bot", "crawl", "spider", "slurp", "curl", "wget", "python", "go-http", "java/",
   "okhttp", "headless", "lighthouse", "monitor", "uptime", "preview",
   "facebookexternalhit", "telegram", "whatsapp", "scrapy", "httpclient", "axios",
   "node-fetch", "libwww", "pingdom", "phantomjs", "feedfetcher"}

isBot(ua) == ua = {} \/ ua \cap botMarkers # {}

browserRules ==
  <<[name |-> "Edge", markers |-> {"edg/", "edga/", "edgios/"}],
    [name |-> "Opera", markers |-> {"opr/", "opera"}],
    [name |-> "Samsung Internet", markers |-> {"samsungbrowser"}],
    [name |-> "Firefox", markers |-> {"firefox/", "fxios/"}],
    [name |-> "Chrome", markers |-> {"chrome/", "crios/", "chromium/"}],
    [name |-> "Safari", markers |-> {"safari/"}]>>

osRules ==
  <<[name |-> "Windows", markers |-> {"windows"}],
    [name |-> "Android", markers |-> {"android"}],
    [name |-> "iOS", markers |-> {"iphone", "ipad", "ipod"}],
    [name |-> "ChromeOS", markers |-> {"cros"}],
    [name |-> "macOS", markers |-> {"macintosh", "mac os x"}],
    [name |-> "Linux", markers |-> {"linux"}]>>

matchUA(ua, rules) ==
  LET hits == {i \in DOMAIN rules : ua \cap rules[i].markers # {}} IN
  IF hits = {} THEN "Other" ELSE rules[Min(hits)].name

parseUA(ua) == [browser |-> matchUA(ua, browserRules), os |-> matchUA(ua, osRules)]

-----------------------------------------------------------------------------
(* Lines.                                                                  *)

\* An image is the sequence of the parts of its name, and the last one decides.
isSourceImage(image, prefix) ==
  /\ prefix # <<>> /\ image # <<>>
  /\ IsPrefix(Lower(prefix), Lower(Last(image)))

\* Ingest: the image of a container is looked up when the container changes.
\* A container id is 0 for the empty text, with which the loop starts.
IngestStep(imageOf, prefix, b, l) ==
  LET match == IF l.cid # b.cid THEN isSourceImage(imageOf[l.cid], prefix) ELSE b.match IN
  [cid |-> l.cid, match |-> match, recorded |-> IF match THEN Append(b.recorded, l) ELSE b.recorded]

IngestBatch(batch, imageOf, prefix) ==
  FoldLeft(LAMBDA b, l : IngestStep(imageOf, prefix, b, l),
           [cid |-> 0, match |-> FALSE, recorded |-> <<>>], batch).recorded

\* parseAccessLine: no JSON object, a log line of Traefik itself, or a request.
parseAccessLine(l) ==
  IF l.text # "json" THEN "error" ELSE IF l.host = <<>> THEN "other" ELSE "request"

Nothing == [errors |-> 0, requests |-> 0, bots |-> 0, pageviews |-> 0, dims |-> {}]

\* What record adds to the counters of the site and its dimensions.
CountLine(l) ==
  LET host    == normalizeHost(l.host)
      class   == statusClass(l.status)
      request == [Nothing EXCEPT !.requests = 1,
                                 !.dims = IF class = "" THEN {} ELSE {<<"status", class>>}]
      ref     == referrerDomain(l.referer, host)
      view    == {<<"path", CutQuery(l.path)>>, <<"browser", parseUA(l.ua).browser>>,
                  <<"os", parseUA(l.ua).os>>}
                 \cup IF ref = Uncounted THEN {} ELSE {<<"referrer", ref>>}
  IN CASE parseAccessLine(l) = "error" -> [Nothing EXCEPT !.errors = 1]
       [] parseAccessLine(l) = "other" \/ host = <<>> \/ l.router \in {"", "@internal"} -> Nothing
       [] isBot(l.ua) -> [request EXCEPT !.bots = 1]
       [] ~isBot(l.ua) /\ ~isPageView(l.method, l.status, l.path) -> request
       [] OTHER -> [request EXCEPT !.pageviews = 1, !.dims = @ \cup view]

-----------------------------------------------------------------------------
(* What is checked.                                                        *)

\* Host names: labels with a dot between them, without the "www." of the site.
HostNames ==
  {h \in BoundedSeq({"a", "b", "."}, MaxHost) :
     /\ h # <<>> /\ h[1] # "." /\ Last(h) # "."
     /\ \A i \in 1 .. Len(h) - 1 : ~(h[i] = "." /\ h[i + 1] = ".")}

Upper(s) == [i \in DOMAIN s |-> IF s[i] = "a" THEN "A" ELSE s[i]]

\* The ways a client may write the host: capitals, the dot of the root, a port, blanks.
Spellings(h) ==
  LET dotted == {h, Upper(h), h \o <<".">>, Upper(h) \o <<".">>} IN
  UNION {{d, d \o <<":", "9">>, <<" ">> \o d \o <<":", "9", " ">>} : d \in dotted}

\* All requests for a site are counted for one site, however the client writes it.
ASSUME OneHost == \A h \in HostNames : \A s \in Spellings(h) : normalizeHost(s) = h

\* An address with colons of its own loses its port and its brackets, never a part.
ASSUME AddressKept ==
  \A a \in {s \in BoundedSeq({"a", ":"}, MaxHost) : Cardinality(Places(s, ":")) > 1} :
    \A s \in {a, <<"[">> \o a \o <<"]">>, <<"[">> \o a \o <<"]", ":", "9">>} : normalizeHost(s) = a

\* The site itself is no referrer, with or without "www."; any other site is one.
ASSUME OwnSiteIsNoReferrer ==
  LET Sites(h) == {h, <<"www", ".">> \o h} IN
  \A g \in HostNames, h \in HostNames : \A r \in Sites(g), o \in Sites(h) : \A s \in Spellings(r) :
    referrerDomain([kind |-> "url", host |-> s], normalizeHost(o)) = IF g = h THEN Uncounted ELSE g

\* The user agents of the products the rules name, with the markers of others they carry.
Products ==
  {[is |-> "Edge", has |-> {"edg/", "chrome/", "safari/"}], [is |-> "Edge", has |-> {"edgios/", "safari/"}],
   [is |-> "Opera", has |-> {"opr/", "chrome/", "safari/"}],
   [is |-> "Samsung Internet", has |-> {"samsungbrowser", "chrome/", "safari/"}],
   [is |-> "Firefox", has |-> {"firefox/"}], [is |-> "Firefox", has |-> {"fxios/", "safari/"}],
   [is |-> "Chrome", has |-> {"chrome/", "safari/"}], [is |-> "Chrome", has |-> {"crios/", "safari/"}],
   [is |-> "Safari", has |-> {"safari/"}]}

Systems ==
  {[is |-> "Windows", has |-> {"windows"}], [is |-> "Android", has |-> {"android", "linux"}],
   [is |-> "iOS", has |-> {"iphone", "mac os x"}], [is |-> "iOS", has |-> {"ipad", "mac os x"}],
   [is |-> "ChromeOS", has |-> {"cros"}], [is |-> "macOS", has |-> {"macintosh", "mac os x"}],
   [is |-> "Linux", has |-> {"linux"}]}

\* The order of the rules: no product passes for another whose name it also carries.
ASSUME ProductsAreToldApart ==
  \A p \in Products, s \in Systems : parseUA(p.has \cup s.has) = [browser |-> p.is, os |-> s.is]

Batches == BoundedSeq([cid : 0 .. 2, n : {1}], MaxBatch)

\* Looking an image up once per run of lines skips no line and adds none, however the
\* lines of several containers are mixed in a batch.
ASSUME EverySourceLine ==
  \A i1, i2 \in {<<>>, <<<<"t">>>>, <<<<"r">>, <<"T", "x">>>>, <<<<"t">>, <<"r">>>>} :
    LET imageOf == [c \in 0 .. 2 |-> CASE c = 1 -> i1 [] c = 2 -> i2 [] OTHER -> <<>>] IN
    \A batch \in Batches :
      IngestBatch(batch, imageOf, <<"t">>) =
        SelectSeq(batch, LAMBDA l : imageOf[l.cid] \in {<<<<"t">>>>, <<<<"r">>, <<"T", "x">>>>})

Lines ==
  [text : {"json", "text"}, host : {<<>>, <<"a">>, <<":", "9">>}, router : {"", "r", "@internal"},
   method : {"GET", "HEAD", "POST"}, status : {0, 199, 200, 299, 300, 399, 400, 599, 600},
   path : [lead : {"", "x", "/", "/api"}, ext : {"", ".html", ".css"}, query : {"", ".js"}],
   ua : {{}, {"bot", "chrome/"}, {"mozilla"}},
   referer : {[kind |-> "blank", host |-> <<>>], [kind |-> "bad", host |-> <<>>],
              [kind |-> "url", host |-> <<"b">>], [kind |-> "url", host |-> <<"a">>]}]

Of(l, dim) == Cardinality({d \in CountLine(l).dims : d[1] = dim})

\* The figures of the dashboard add up: a line is an error, nothing, or one request;
\* a page view is a request that is no bot's, has a status of 2xx or 3xx, and is
\* entered once under path, browser and system and at most once under referrer; the
\* query of a path is neither shown nor taken for its extension.
ASSUME FiguresAddUp ==
  \A l \in Lines :
    LET c == CountLine(l) IN
    /\ c.errors + c.requests <= 1 /\ c.bots + c.pageviews <= c.requests
    /\ Of(l, "status") = IF c.requests = 1 /\ l.status \in 200 .. 599 THEN 1 ELSE 0
    /\ \A dim \in {"path", "browser", "os"} : Of(l, dim) = c.pageviews
    /\ Of(l, "referrer") <= c.pageviews
    /\ c.pageviews = 1 => <<"status", "2xx">> \in c.dims \/ <<"status", "3xx">> \in c.dims
    /\ CountLine([l EXCEPT !.path.query = ""]) = c
=============================================================================
