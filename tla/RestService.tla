----------------------------- MODULE RestService -----------------------------
(***************************************************************************)
(* The REST client of schemaregistry/internal/rest_service.go: how it      *)
(* finds its credentials, and how a request goes over the list of URLs,    *)
(* with retries at each, under headers that all requests share.  The       *)
(* registry and the network are external.                                  *)
(***************************************************************************)
EXTENDS TokenProvider, Sequences

CONSTANTS
  Urls,           \* how many there are
  Traffic(_),     \* who uses a client with a given provider, and how it is
                  \* answered: [goroutines, bodies, answers]
  Configs,        \* the configurations tried
  Waits           \* the values of RetriesWaitMs and RetriesMaxWaitMs tried

\* The sources of credentials.
Kinds == {"basic", "static", "oauth", "custom"}

ASSUME RestConstants ==
  /\ Urls \in Nat \ {0} /\ Waits \subseteq Nat \ {0}
  /\ None \notin Kinds \cup {"error"} \cup [kind : Kinds, token : Tokens \cup {None}]
  /\ \A p \in Kinds \cup {None} : Traffic(p).answers \subseteq {"ok", "refused", "busy", "lost"}

VARIABLES
  conf,           \* the ClientConfig, until NewRestService() has read it
  provider,       \* the AuthenticationHeaderProvider: a kind, None or "error"
  headers,        \* rs.headers: the Authorization header
  reqs            \* the requests: one of each goroutine

restVars == <<conf, provider, headers, reqs>>
vars == <<tokenVars, restVars>>

-----------------------------------------------------------------------------
(* NewRestService(): a configuration has its two sources and the set of     *)
(* options that are given; SASL_INHERIT does not take GSSAPI.               *)
Needs(c, options, kind) == IF options \subseteq c.given THEN kind ELSE "error"

createURLAuthHeaderProvider(c) == "basic"
createSASLAuthHeaderProvider(c) == IF "gssapi" \in c.given THEN "error" ELSE Needs(c, {"username", "password"}, "basic")
createUSERINFOAuthHeaderProvider(c) == Needs(c, {"userinfo"}, "basic")
checkIdentityPoolIDAndLogicalCluster(c, kind) == Needs(c, {"poolID", "cluster"}, kind)
checkBearerOAuthFields(c, kind) ==
  IF "custom" \in c.given THEN "error"
  ELSE IF Needs(c, {"issuer", "clientID", "clientSecret"}, kind) = "error" THEN "error"
  ELSE checkIdentityPoolIDAndLogicalCluster(c, kind)
createStaticTokenAuthHeaderProvider(c) == IF "custom" \in c.given THEN "error" ELSE Needs(c, {"token"}, "static")
createBearerOAuthHeaderProvider(c) == checkBearerOAuthFields(c, "oauth")
handleCustomAuthenticationHeaderProvider(c) == Needs(c, {"custom"}, "custom")

NewAuthenticationHeaderProvider(c) ==
  IF c.basic # "" /\ c.bearer # "" THEN "error"
  ELSE IF c.basic # ""
  THEN CASE c.basic = "URL" -> createURLAuthHeaderProvider(c)
         [] c.basic = "SASL_INHERIT" -> createSASLAuthHeaderProvider(c)
         [] c.basic = "USER_INFO" -> createUSERINFOAuthHeaderProvider(c)
         [] OTHER -> "error"
  ELSE IF c.bearer # ""
  THEN CASE c.bearer = "STATIC_TOKEN" -> createStaticTokenAuthHeaderProvider(c)
         [] c.bearer = "OAUTHBEARER" -> createBearerOAuthHeaderProvider(c)
         [] c.bearer = "CUSTOM" -> handleCustomAuthenticationHeaderProvider(c)
         [] OTHER -> "error"
  ELSE None

\* A certificate comes with its key, and files that cannot be loaded are refused.
ConfigureTLS(c) == /\ "certificate" \in c.given => {"key", "pairLoads"} \subseteq c.given
                   /\ "ca" \in c.given => "caLoads" \in c.given

NoRequest == [pc |-> "idle", body |-> FALSE, left |-> FALSE, url |-> 0, i |-> 0, resp |-> "none",
              own |-> None, alone |-> TRUE, last |-> [auth |-> None, own |-> None, body |-> FALSE, i |-> 0, answer |-> "none"],
              ret |-> "none"]

Init ==
  /\ TokenInit
  /\ conf \in Configs
  /\ provider = None
  /\ headers = None
  /\ reqs = [g \in Goroutines |-> NoRequest]

\* A client of the application's own makes configureTransport() unnecessary.
NewRestService ==
  /\ conf # None
  /\ provider' = LET p == NewAuthenticationHeaderProvider(conf)
                 IN IF p # "error" /\ "httpClient" \notin conf.given /\ ~ConfigureTLS(conf) THEN "error" ELSE p
  /\ conf' = None
  /\ UNCHANGED <<tokenVars, headers, reqs>>

-----------------------------------------------------------------------------
(* HandleRequest() and HandleHTTPRequest().                                 *)
Tried(g) == reqs[g].last.answer # "none"
Running(g) == reqs[g].pc \notin {"idle", "done"}
Put(g, r) == reqs' = [reqs EXCEPT ![g] = r]
Set(g, r) == Put(g, r) /\ UNCHANGED <<conf, provider, headers>>

\* A request for the first URL, with a body or without.
HandleRequest(g, body) ==
  /\ conf = None /\ provider # "error" /\ g \in Traffic(provider).goroutines
  /\ reqs[g].pc = "idle"
  /\ reqs' = [h \in Goroutines |->
               IF h = g THEN [NoRequest EXCEPT !.pc = "url", !.body = body, !.alone = \A k \in Goroutines : ~Running(k)]
               ELSE [reqs[h] EXCEPT !.alone = @ /\ ~Running(h)]]
  /\ UNCHANGED <<tokenVars, conf, provider, headers>>

Answer(r, how) == [r EXCEPT !.pc = "done", !.ret = how, !.own = None, !.left = FALSE, !.i = 0, !.resp = "none"]

\* An error ends the call at the last URL; otherwise the next one is tried.
UrlFailed(r) == IF r.url = Urls - 1 THEN Answer(r, "error") ELSE [r EXCEPT !.pc = "url", !.url = @ + 1]

\* The Authorization header: of a kind, with a token if that kind has one.
Header(kind, t) == [kind |-> kind, token |-> t]

\* HandleHTTPRequest() encodes the body into a buffer that serves all retries at
\* this URL (EncodedOnce: at all of them) ...
EncodedOnce(r) == [r EXCEPT !.left = IF r.url = 0 THEN r.body ELSE @, !.i = 0]
Encoded(r) == [r EXCEPT !.left = r.body, !.i = 0]

\* ... unless that fails, and asks for the headers.
HandleHTTPRequest(g) ==
  /\ reqs[g].pc = "url"
  /\ \/ UNCHANGED tokenVars /\ Set(g, UrlFailed(reqs[g]))
     \/ LET r == Encoded(reqs[g])
        IN CASE provider = None -> UNCHANGED tokenVars /\ Set(g, [r EXCEPT !.pc = "send"])
             [] provider = "oauth" -> GetToken(g) /\ Set(g, [r EXCEPT !.pc = "token"])
             [] OTHER -> UNCHANGED tokenVars /\ Set(g, [r EXCEPT !.pc = "headers", !.own = Header(provider, None)])

\* GetToken(), step by step; its answer is the request's own header.
TokenTaken(g) ==
  /\ reqs[g].pc = "token"
  /\ TokenStep(g)
  /\ Set(g, CASE tpc'[g] = "got" -> [reqs[g] EXCEPT !.pc = "headers", !.own = Header("oauth", got'[g].token)]
              [] tpc'[g] = "failed" -> UrlFailed(reqs[g])
              [] OTHER -> reqs[g])

\* SetAuthenticationHeaders() writes the header that all requests share; the
\* application's own provider may fail before or after that.  (KeepHeader: a
\* header that is set is left alone.)
KeepHeader(g) ==
  /\ reqs[g].pc = "headers" /\ UNCHANGED <<tokenVars, conf, provider>>
  /\ headers' = (IF headers = None THEN reqs[g].own ELSE headers)
  /\ Put(g, [reqs[g] EXCEPT !.pc = "send"])

SetAuthenticationHeaders(g) ==
  /\ reqs[g].pc = "headers" /\ UNCHANGED <<tokenVars, conf, provider>>
  /\ \/ headers' = reqs[g].own /\ Put(g, [reqs[g] EXCEPT !.pc = "send"])
     \/ provider = "custom" /\ headers' \in {headers, reqs[g].own} /\ Put(g, UrlFailed(reqs[g]))

isSuccess(answer) == answer = "ok"
isRetriable(answer) == answer = "busy"
Final(answer) == isSuccess(answer) \/ ~isRetriable(answer)

\* One attempt with what is left of the body, and what comes back: no answer at
\* all, or one that is final or may be retried after a pause.
Attempt(r, answer) ==
  [r EXCEPT !.left = FALSE,
            !.last = [auth |-> headers, own |-> r.own, body |-> r.left, i |-> r.i, answer |-> answer]]
Sent(r, answer) ==
  LET s == Attempt(r, answer)
  IN IF answer = "lost" THEN UrlFailed(s)
     ELSE IF Final(answer) \/ r.i >= MaxRetries THEN [s EXCEPT !.pc = "answered", !.resp = answer]
     ELSE [s EXCEPT !.i = @ + 1]

Do(g, answer) ==
  /\ reqs[g].pc = "send" /\ UNCHANGED tokenVars
  /\ Set(g, Sent(reqs[g], answer))

\* Back in HandleRequest(): the next URL after an answer that may be retried,
\* or the answer, which may not decode.
Settled(r) == Final(r.resp) \/ r.url >= MaxRetries \/ r.url = Urls - 1
Answered(g, decodes) ==
  /\ reqs[g].pc = "answered" /\ UNCHANGED tokenVars
  /\ LET r == reqs[g]
     IN Set(g, IF ~Settled(r) THEN [r EXCEPT !.pc = "url", !.url = @ + 1]
               ELSE Answer(r, IF ~decodes THEN "error" ELSE IF isSuccess(r.resp) THEN "ok" ELSE "failure"))

-----------------------------------------------------------------------------
(* fullJitter() waits b * 2^i * wait for a b below 1: at most 2^i * wait.   *)
(* ceilingRetries is the logarithm of max / wait, rounded towards zero.     *)
ceilingRetries(max, wait) ==
  IF max >= wait THEN CHOOSE n \in 0 .. max : 2^n * wait <= max /\ 2^(n + 1) * wait > max
  ELSE -(CHOOSE n \in 0 .. wait : 2^n * max <= wait /\ 2^(n + 1) * max > wait)
fullJitter(i, ceiling, max, wait) == IF i > ceiling THEN max ELSE 2^i * wait

-----------------------------------------------------------------------------
Step(g) ==
  \/ HandleHTTPRequest(g) \/ TokenTaken(g) \/ SetAuthenticationHeaders(g)
  \/ \E answer \in Traffic(provider).answers : Do(g, answer)
  \/ \E decodes \in BOOLEAN : Answered(g, decodes)

Next ==
  \/ NewRestService
  \/ \E g \in Goroutines :
       \/ \E body \in Traffic(provider).bodies : HandleRequest(g, body)
       \/ Step(g)
  \/ provider = "oauth" /\ Tick /\ UNCHANGED restVars

\* Goroutines go on; an exchange with the registry or the token server ends, if
\* only by the HTTP client's timeout.
FairSpec == Init /\ [][Next]_vars /\ \A g \in Goroutines : WF_vars(Step(g))

-----------------------------------------------------------------------------
\* Types of the token, the provider and the requests.
TypeOK ==
  /\ TokenTypeOK
  /\ provider \in {None, "error", "basic", "static", "oauth", "custom"}
  /\ \A g \in Goroutines :
       /\ reqs[g].pc \in {"idle", "url", "token", "headers", "send", "answered", "done"}
       /\ reqs[g].url \in 0 .. Urls - 1 /\ reqs[g].i \in 0 .. MaxRetries
       /\ reqs[g].ret \in {"none", "ok", "failure", "error"}

\* Once a source of credentials is configured, either NewRestService() fails or
\* every attempt carries a header of that source, whoever wrote it last.
Authorized ==
  \A g \in Goroutines : Tried(g) =>
    IF provider = None THEN reqs[g].last.auth = None
    ELSE /\ reqs[g].last.auth # None /\ reqs[g].last.auth.kind = provider
         /\ provider = "oauth" => reqs[g].last.auth.token # None

\* A configuration names at most one source, and the provider is of its kind.
SourceHonoured ==
  conf # None =>
    LET p == NewAuthenticationHeaderProvider(conf)
    IN /\ p = None <=> conf.basic = "" /\ conf.bearer = ""
       /\ p \in {"static", "oauth", "custom"} => conf.basic = "" /\ (p = "custom" <=> "custom" \in conf.given)
       /\ p = "basic" => conf.bearer = ""

\* A request that no other overlaps is sent with the header it obtained itself:
\* only a concurrent request can put another token in its place.
OwnHeader ==
  \A g \in Goroutines : (Tried(g) /\ reqs[g].alone) => reqs[g].last.auth = reqs[g].last.own

\* Every attempt is sent with credentials of the source the configuration names.
Credentials == SourceHonoured /\ Authorized /\ OwnHeader

\* A request is never sent again after an answer that is final, a success is
\* reported as one, and a failure only when nothing is left to try: no attempt
\* of the last URL, or of the one after MaxRetries others.
AnswerKept ==
  \A g \in Goroutines : LET r == reqs[g] IN
    /\ r.ret = "ok" => r.last.answer = "ok"
    /\ r.ret = "failure" => \/ r.last.answer = "refused"
                            \/ r.last.answer = "busy" /\ r.last.i = MaxRetries /\ (r.url = Urls - 1 \/ r.url >= MaxRetries)
    /\ r.pc \in {"url", "token", "headers", "send"} => r.last.answer \notin {"ok", "refused"}

\* The first attempt at each URL carries the body, whatever attempts at other
\* URLs have read of it.
BodySent == \A g \in Goroutines : (Tried(g) /\ reqs[g].last.i = 0) => reqs[g].last.body = reqs[g].body

\* No pause is longer than RetriesMaxWaitMs, if RetriesWaitMs is not.
JitterBounded ==
  conf # None => \A max, wait \in Waits : \A i \in 0 .. 5 :
    wait <= max => fullJitter(i, ceilingRetries(max, wait), max, wait) <= max

\* Requests are tried at the URLs in turn as often as they may and need to be.
Attempts == TypeOK /\ AnswerKept /\ BodySent /\ JitterBounded

\* Every request returns, however often attempts fail.
RequestReturns == \A g \in Goroutines : Running(g) ~> reqs[g].pc = "done"

\* "MaxRetries specifices the maximum number of retries for a request": a retry
\* is of the request, its body included.
RetrySendsBody == \A g \in Goroutines : Tried(g) => reqs[g].last.body = reqs[g].body
=============================================================================
