----------------------------- MODULE RestProofs -----------------------------
(***************************************************************************)
(* For every set of goroutines, every number of URLs and retries and all   *)
(* lifetimes of tokens: the goroutines that share a token never fetch it   *)
(* twice at a time or while it is still good, and never return one that is *)
(* not; and every attempt of a request carries credentials of the source   *)
(* that was configured, and its answer is kept.                            *)
(***************************************************************************)
EXTENDS RestService, TLAPS

USE Zenon

Gots == [token : Tokens \cup {None}, at : Int, cached : BOOLEAN]

\* Only the holder of p.tokenLock fetches, and it holds it for nothing else.
LockHeld ==
  /\ \A g \in Goroutines : tpc[g] = "fetch" <=> tokenLock = g
  /\ tokenLock # None => ~Valid

\* p.expiry is four fifths of the way from p.token's issue to its end, so a token
\* before its p.expiry is one ...
Aged == Valid => /\ token \in Tokens
                 /\ expiry = token.issued + Threshold(token.ends - token.issued)

\* ... and what was returned without a fetch was such a token at that time.
GotAged == \A g \in Goroutines : (tpc[g] = "got" /\ got[g].cached) =>
             /\ got[g].token \in Tokens
             /\ got[g].at < got[g].token.issued + Threshold(got[g].token.ends - got[g].token.issued)

TokenInv == TokenTypeOK /\ got \in [Goroutines -> Gots] /\ LockHeld /\ Aged /\ GotAged

\* Four fifths, rounded down, are at most four fifths.
LEMMA ThresholdBelow ==
  ASSUME NEW n \in Int, NEW k \in Int, k < Threshold(n)
  PROVE 5 * k < 4 * n
  BY SMT DEF Threshold

LEMMA ThresholdInt == \A n \in Int : Threshold(n) \in Int
  BY SMT DEF Threshold

LEMMA InitTokenInv == TokenInit => TokenInv
  <1> SUFFICES ASSUME TokenInit PROVE TokenInv
    OBVIOUS
  <1>1. TokenTypeOK
    BY TokenConstants, SMT DEF TokenInit, TokenTypeOK
  <1>2. got \in [Goroutines -> Gots]
    BY SMT DEF TokenInit, Gots, Nothing
  <1>3. LockHeld
    BY TokenConstants, SMT DEF TokenInit, LockHeld
  <1>4. Aged
    BY SMT DEF TokenInit, Aged, Valid
  <1>5. GotAged
    BY DEF TokenInit, GotAged
  <1> QED
    BY <1>1, <1>2, <1>3, <1>4, <1>5 DEF TokenInv

-----------------------------------------------------------------------------
(* The two looks at the token take it only before its expiry.               *)
LEMMA ReturnsCached ==
  ASSUME TokenInv, NEW g \in Goroutines, Valid, tpc[g] # "fetch", Returns(g, token, TRUE),
         UNCHANGED <<now, token, expiry, tokenLock, tries>>
  PROVE  TokenInv'
  <1>1. token \in Tokens /\ now < token.issued + Threshold(token.ends - token.issued)
    BY SMT DEF TokenInv, Aged, Valid
  <1>2. TokenTypeOK'
    BY SMT DEF TokenInv, TokenTypeOK, Returns
  <1>3. (got \in [Goroutines -> Gots])'
    BY <1>1, SMT DEF TokenInv, TokenTypeOK, Returns, Gots
  <1>4. LockHeld'
    BY SMT DEF TokenInv, TokenTypeOK, LockHeld, Returns, Valid
  <1>5. Aged'
    BY DEF TokenInv, Aged, Valid
  <1>6. GotAged'
    <2> SUFFICES ASSUME NEW h \in Goroutines, tpc'[h] = "got", got'[h].cached
                 PROVE /\ got'[h].token \in Tokens
                       /\ got'[h].at < got'[h].token.issued + Threshold(got'[h].token.ends - got'[h].token.issued)
      BY DEF GotAged
    <2>1. CASE h = g
      <3>1. got'[h] = [token |-> token, at |-> now, cached |-> TRUE]
        BY <2>1, SMT DEF TokenInv, Returns
      <3>2. got'[h].token = token /\ got'[h].at = now
        BY <3>1, SMT
      <3> QED BY <3>2, <1>1
    <2>2. CASE h # g
      <3>1. got'[h] = got[h] /\ tpc'[h] = tpc[h]
        BY <2>2, SMT DEF TokenInv, TokenTypeOK, Returns
      <3> QED BY <3>1 DEF TokenInv, GotAged
    <2> QED BY <2>1, <2>2
  <1> QED BY <1>2, <1>3, <1>4, <1>5, <1>6 DEF TokenInv

\* A step of g that returns nothing leaves what was returned as it is.
LEMMA GotKept ==
  ASSUME TokenInv, NEW g \in Goroutines, UNCHANGED got,
         \A h \in Goroutines : h # g => tpc'[h] = tpc[h], tpc'[g] # "got"
  PROVE  GotAged' /\ (got \in [Goroutines -> Gots])'
  BY DEF TokenInv, GotAged

LEMMA GetTokenKeeps == ASSUME TokenInv, NEW g \in Goroutines, GetToken(g) PROVE TokenInv'
  <1>1. TokenTypeOK'
    BY SMT DEF TokenInv, TokenTypeOK, GetToken
  <1>2. LockHeld'
    BY SMT DEF TokenInv, TokenTypeOK, LockHeld, GetToken, Valid
  <1>3. Aged'
    BY DEF TokenInv, Aged, GetToken, Valid
  <1>4. GotAged' /\ (got \in [Goroutines -> Gots])'
    <2>1. (\A h \in Goroutines : h # g => tpc'[h] = tpc[h]) /\ tpc'[g] # "got" /\ UNCHANGED got
      BY SMT DEF TokenInv, TokenTypeOK, GetToken
    <2> QED BY <2>1, GotKept
  <1> QED BY <1>1, <1>2, <1>3, <1>4 DEF TokenInv

LEMMA LookKeeps == ASSUME TokenInv, NEW g \in Goroutines, Look(g) PROVE TokenInv'
  <1>1. CASE Valid
    BY <1>1, ReturnsCached DEF Look
  <1>2. CASE ~Valid
    <2>1. TokenTypeOK'
      BY <1>2, SMT DEF TokenInv, TokenTypeOK, Look
    <2>2. LockHeld'
      BY <1>2, SMT DEF TokenInv, TokenTypeOK, LockHeld, Look, Valid
    <2>3. Aged'
      BY DEF TokenInv, Aged, Look, Valid
    <2>4. (\A h \in Goroutines : h # g => tpc'[h] = tpc[h]) /\ tpc'[g] # "got" /\ UNCHANGED got
      BY <1>2, SMT DEF TokenInv, TokenTypeOK, Look
    <2> QED BY <2>1, <2>2, <2>3, <2>4, GotKept DEF TokenInv
  <1> QED BY <1>1, <1>2

LEMMA LockKeeps == ASSUME TokenInv, NEW g \in Goroutines, Lock(g) PROVE TokenInv'
  <1>1. CASE Valid
    BY <1>1, ReturnsCached DEF Lock
  <1>2. CASE ~Valid
    <2>1. TokenTypeOK'
      BY <1>2, TokenConstants, SMT DEF TokenInv, TokenTypeOK, Lock
    <2>2. LockHeld'
      BY <1>2, TokenConstants, SMT DEF TokenInv, TokenTypeOK, LockHeld, Lock, Valid
    <2>3. Aged'
      BY DEF TokenInv, Aged, Lock, Valid
    <2>4. (\A h \in Goroutines : h # g => tpc'[h] = tpc[h]) /\ tpc'[g] # "got" /\ UNCHANGED got
      BY <1>2, SMT DEF TokenInv, TokenTypeOK, Lock
    <2> QED BY <2>1, <2>2, <2>3, <2>4, GotKept DEF TokenInv
  <1> QED BY <1>1, <1>2
\* A token comes with its expiry, and the lock is given up.
LEMMA FetchKeeps ==
  ASSUME TokenInv, NEW g \in Goroutines, NEW lifetime \in Lifetimes, Fetch(g, lifetime)
  PROVE  TokenInv'
  <1>1. lifetime \in Int /\ Threshold(lifetime) \in Int /\ now \in Nat
    BY TokenConstants, ThresholdInt DEF TokenInv, TokenTypeOK
  <1>2. /\ token' = [issued |-> now, ends |-> now + lifetime] /\ token' \in Tokens
        /\ expiry' = now + Threshold(lifetime) /\ UNCHANGED now
        /\ (now + lifetime) - now = lifetime
    BY <1>1, SMT DEF Fetch, Tokens
  <1>3. TokenTypeOK'
    BY <1>1, <1>2, SMT DEF TokenInv, TokenTypeOK, Fetch, Returns
  <1>4. (got \in [Goroutines -> Gots])'
    BY <1>1, <1>2, SMT DEF TokenInv, TokenTypeOK, Fetch, Returns, Gots
  <1>5. LockHeld'
    BY TokenConstants, SMT DEF TokenInv, TokenTypeOK, LockHeld, Fetch, Returns
  <1>6. Aged'
    BY <1>2, SMT DEF Aged
  <1>7. GotAged'
    <2> SUFFICES ASSUME NEW h \in Goroutines, tpc'[h] = "got", got'[h].cached
                 PROVE /\ got'[h].token \in Tokens
                       /\ got'[h].at < got'[h].token.issued + Threshold(got'[h].token.ends - got'[h].token.issued)
      BY DEF GotAged
    <2>1. h # g
      BY SMT DEF TokenInv, Fetch, Returns
    <2>2. got'[h] = got[h] /\ tpc'[h] = tpc[h]
      BY <2>1, SMT DEF TokenInv, TokenTypeOK, Fetch, Returns
    <2> QED BY <2>2 DEF TokenInv, GotAged
  <1> QED BY <1>3, <1>4, <1>5, <1>6, <1>7 DEF TokenInv

LEMMA FetchFailsKeeps == ASSUME TokenInv, NEW g \in Goroutines, FetchFails(g) PROVE TokenInv'
  <1>1. TokenTypeOK'
    BY TokenConstants, SMT DEF TokenInv, TokenTypeOK, FetchFails
  <1>2. LockHeld'
    BY TokenConstants, SMT DEF TokenInv, TokenTypeOK, LockHeld, FetchFails, Valid
  <1>3. Aged'
    BY DEF TokenInv, Aged, FetchFails, Valid
  <1>4. (\A h \in Goroutines : h # g => tpc'[h] = tpc[h]) /\ tpc'[g] # "got" /\ UNCHANGED got
    BY SMT DEF TokenInv, TokenTypeOK, FetchFails
  <1> QED BY <1>1, <1>2, <1>3, <1>4, GotKept DEF TokenInv

\* Time passes: a token that was not good does not become so.
LEMMA TickKeeps == ASSUME TokenInv, Tick PROVE TokenInv'
  <1>1. TokenTypeOK' /\ (Valid' => Valid)
    BY SMT DEF TokenInv, TokenTypeOK, Tick, Valid
  <1>2. LockHeld'
    BY <1>1 DEF TokenInv, LockHeld, Tick
  <1>3. Aged'
    BY <1>1 DEF TokenInv, Aged, Tick
  <1>4. GotAged' /\ (got \in [Goroutines -> Gots])'
    BY DEF TokenInv, GotAged, Tick
  <1> QED BY <1>1, <1>2, <1>3, <1>4 DEF TokenInv

LEMMA StepTokenInv == TokenInv /\ [TokenNext]_tokenVars => TokenInv'
  <1> SUFFICES ASSUME TokenInv, [TokenNext]_tokenVars PROVE TokenInv'
    OBVIOUS
  <1>1. CASE UNCHANGED tokenVars
    BY <1>1 DEF tokenVars, TokenInv, TokenTypeOK, LockHeld, Aged, GotAged, Valid
  <1>2. CASE Tick
    BY <1>2, TickKeeps
  <1>3. ASSUME NEW g \in Goroutines, GetToken(g) \/ TokenStep(g) PROVE TokenInv'
    BY <1>3, GetTokenKeeps, LookKeeps, LockKeeps, FetchKeeps, FetchFailsKeeps DEF TokenStep
  <1> QED BY <1>1, <1>2, <1>3 DEF TokenNext

LEMMA TokenInvAlways == TokenSpec => []TokenInv
  <1> QED BY InitTokenInv, StepTokenInv, PTL DEF TokenSpec

\* For any number of goroutines, retries and any lifetimes, a token is fetched by
\* one goroutine at a time, and only while the one there is has expired
\* (BearerTokenAuthenticationHeaderProvider.GetToken).
THEOREM TokenSingleFetch == TokenSpec => []SingleFetch
  <1>1. TokenInv => SingleFetch
    <2> SUFFICES ASSUME TokenInv, NEW g \in Goroutines, tpc[g] = "fetch"
                 PROVE ~Valid /\ \A h \in Goroutines : tpc[h] = "fetch" => h = g
      BY DEF SingleFetch
    <2>1. tokenLock = g /\ tokenLock # None
      BY TokenConstants DEF TokenInv, LockHeld
    <2> QED BY <2>1 DEF TokenInv, LockHeld
  <1> QED BY <1>1, TokenInvAlways, PTL

\* A token that GetToken() returns without fetching it has at least a fifth of
\* its life left, and is never nil.
THEOREM TokenFresh == TokenSpec => []FreshToken
  <1>1. TokenInv => FreshToken
    <2> SUFFICES ASSUME TokenInv PROVE FreshToken
      OBVIOUS
    <2>1. Valid => token # None
      BY TokenConstants DEF TokenInv, Aged
    <2>2. ASSUME NEW g \in Goroutines, tpc[g] = "got", got[g].cached
          PROVE /\ got[g].token # None
                /\ 5 * (got[g].at - got[g].token.issued) < 4 * (got[g].token.ends - got[g].token.issued)
      <3>1. /\ got[g].token \in Tokens /\ got[g].at \in Int
            /\ got[g].at < got[g].token.issued + Threshold(got[g].token.ends - got[g].token.issued)
        BY <2>2, SMT DEF TokenInv, GotAged, Gots
      <3> DEFINE n == got[g].token.ends - got[g].token.issued
                 k == got[g].at - got[g].token.issued
      <3>2. n \in Int /\ k \in Int
        BY <3>1, SMT DEF Tokens
      <3>3. k < Threshold(n)
        BY <3>1, <3>2, ThresholdInt, SMT DEF Tokens
      <3>4. 5 * k < 4 * n
        BY <3>2, <3>3, ThresholdBelow
      <3> QED BY <3>1, <3>4, TokenConstants
    <2> QED BY <2>1, <2>2 DEF FreshToken
  <1> QED BY <1>1, TokenInvAlways, PTL

-----------------------------------------------------------------------------
(* Requests.  The invariant speaks of one request r and the provider p.     *)
ReqFields == {"pc", "body", "left", "url", "i", "resp", "own", "alone", "last", "ret"}
LastFields == {"auth", "own", "body", "i", "answer"}
Headers == [kind : Kinds, token : Tokens \cup {None}]

\* A header of p: none without a provider, and with a token from the token server.
Of(p, h) == IF p = None THEN h = None ELSE h \in Headers /\ h.kind = p /\ (p = "oauth" => h.token # None)

Typed(r) ==
  /\ DOMAIN r = ReqFields /\ DOMAIN r.last = LastFields
  /\ r.pc \in {"idle", "url", "token", "headers", "send", "answered", "done"}
  /\ r.url \in 0 .. Urls - 1 /\ r.i \in 0 .. MaxRetries
  /\ r.ret \in {"none", "ok", "failure", "error"}

\* Before its attempts.
Prepared(r, p) ==
  /\ r.pc = "idle" => r.last.answer = "none"
  /\ r.pc # "idle" => p # "error"
  /\ r.pc = "token" => p = "oauth"
  /\ r.pc = "headers" => p # None /\ Of(p, r.own)
  /\ p = None => r.own = None
  /\ r.pc \in {"token", "headers", "send"} /\ r.i = 0 => r.left = r.body

\* Its last attempt ...
Attempted(r, p) == r.last.answer # "none" =>
  /\ r.last.answer \in {"ok", "refused", "busy", "lost"}
  /\ Of(p, r.last.auth)
  /\ r.alone => r.last.auth = r.last.own
  /\ r.last.i = 0 => r.last.body = r.body

\* ... and what becomes of the answer.
Kept(r) ==
  /\ r.pc # "done" => r.ret = "none"
  /\ r.pc \in {"url", "token", "headers", "send"} => r.last.answer \notin {"ok", "refused"}
  /\ r.pc = "answered" => /\ r.resp = r.last.answer /\ r.resp \in {"ok", "refused", "busy"}
                          /\ r.resp = "busy" => r.last.i = MaxRetries
  /\ r.ret = "ok" => r.last.answer = "ok"
  /\ r.ret = "failure" => \/ r.last.answer = "refused"
                          \/ /\ r.last.answer = "busy" /\ r.last.i = MaxRetries
                             /\ r.url = Urls - 1 \/ r.url >= MaxRetries

ReqOK(r, p) == Typed(r) /\ Prepared(r, p) /\ Attempted(r, p) /\ Kept(r)

\* The header that all requests share is of the provider, if one has written it, and
\* the request's own if no other runs.
Shared(g) == reqs[g].pc = "send" => Of(provider, headers) /\ (reqs[g].alone => headers = reqs[g].own)

\* A request that no other overlaps is alone.
Alone(g) == Running(g) /\ reqs[g].alone => \A h \in Goroutines : Running(h) => h = g

\* Nothing is sent before NewRestService() has read the configuration.
Unread == conf # None => provider = None /\ \A g \in Goroutines : reqs[g].pc = "idle"

ReqsOK == /\ DOMAIN reqs = Goroutines
          /\ \A g \in Goroutines : ReqOK(reqs[g], provider) /\ Shared(g) /\ Alone(g)

RestInv ==
  /\ TokenInv
  /\ provider \in Kinds \cup {None, "error"}
  /\ headers = None \/ Of(provider, headers)
  /\ provider = None => headers = None
  /\ Unread
  /\ ReqsOK

-----------------------------------------------------------------------------
(* GetToken() within the requests.                                          *)

\* Whatever a request does, it uses the token as GetToken() does.
LEMMA UsesToken == [Next]_vars => [TokenNext]_tokenVars
<1> SUFFICES ASSUME [Next]_vars PROVE [TokenNext]_tokenVars
  OBVIOUS
<1>1. CASE UNCHANGED vars
  BY <1>1 DEF vars
<1>2. CASE NewRestService
  BY <1>2 DEF NewRestService
<1>3. ASSUME NEW g \in Goroutines, NEW body, HandleRequest(g, body) PROVE UNCHANGED tokenVars
  BY <1>3 DEF HandleRequest
<1>4. ASSUME NEW g \in Goroutines, Step(g) PROVE GetToken(g) \/ TokenStep(g) \/ UNCHANGED tokenVars
  <2>1. CASE HandleHTTPRequest(g)
    BY <2>1, SMT DEF HandleHTTPRequest
  <2>2. CASE TokenTaken(g)
    BY <2>2 DEF TokenTaken
  <2>3. CASE SetAuthenticationHeaders(g)
    BY <2>3 DEF SetAuthenticationHeaders
  <2>4. ASSUME NEW answer, Do(g, answer) PROVE UNCHANGED tokenVars
    BY <2>4 DEF Do
  <2>5. ASSUME NEW decodes, Answered(g, decodes) PROVE UNCHANGED tokenVars
    BY <2>5 DEF Answered
  <2> QED BY <1>4, <2>1, <2>2, <2>3, <2>4, <2>5 DEF Step
<1>5. CASE provider = "oauth" /\ Tick /\ UNCHANGED restVars
  BY <1>5 DEF TokenNext
<1> QED BY <1>1, <1>2, <1>3, <1>4, <1>5 DEF Next, TokenNext

\* What GetToken() returns is a token.
LEMMA GotToken ==
  ASSUME TokenInv, NEW g \in Goroutines, TokenStep(g), tpc'[g] = "got"
  PROVE  got'[g].token \in Tokens
<1>0. g \in DOMAIN got /\ g \in DOMAIN tpc
  BY DEF TokenInv, TokenTypeOK
<1>1. ASSUME NEW t \in Tokens, NEW c, Returns(g, t, c) PROVE got'[g].token \in Tokens
  BY <1>0, <1>1 DEF Returns
<1>2. Valid => token \in Tokens
  BY DEF TokenInv, Aged
<1>3. CASE Look(g)
  <2>1. Valid
    BY <1>0, <1>3 DEF Look
  <2> QED BY <1>1, <1>2, <1>3, <2>1 DEF Look
<1>4. CASE Lock(g)
  <2>1. Valid
    BY <1>0, <1>4 DEF Lock
  <2> QED BY <1>1, <1>2, <1>4, <2>1 DEF Lock
<1>5. ASSUME NEW lifetime \in Lifetimes, Fetch(g, lifetime) PROVE got'[g].token \in Tokens
  <2>1. token' \in Tokens
    BY <1>5, TokenConstants, SMT DEF Fetch, Tokens, TokenInv, TokenTypeOK
  <2> QED BY <1>1, <1>5, <2>1 DEF Fetch
<1>6. CASE FetchFails(g)
  <2>1. CASE tries[g] = MaxRetries
    BY <1>0, <1>6, <2>1 DEF FetchFails
  <2>2. CASE tries[g] # MaxRetries
    BY <1>0, <1>6, <2>2 DEF FetchFails
  <2> QED BY <2>1, <2>2
<1> QED BY <1>3, <1>4, <1>5, <1>6 DEF TokenStep

-----------------------------------------------------------------------------
(* One request.                                                             *)

\* A request that goes on.
Going(r, p) ==
  /\ Typed(r) /\ Attempted(r, p)
  /\ r.ret = "none" /\ r.last.answer \notin {"ok", "refused"}
  /\ p # "error" /\ (p = None => r.own = None)

LEMMA OnTheWay == ASSUME NEW r, NEW p, ReqOK(r, p), r.pc \in {"url", "token", "headers", "send"} PROVE Going(r, p)
BY DEF ReqOK, Going, Prepared, Kept

LEMMA NextUrl ==
  ASSUME NEW u \in 0 .. Urls - 1, u # Urls - 1
  PROVE  u + 1 \in 0 .. Urls - 1
BY RestConstants, SMT

LEMMA NoneIsNone == None \notin Headers /\ \A k \in Kinds : k # None
BY RestConstants DEF Headers

\* A request whose step leaves what it has sent as it was.
LEMMA SameAttempt ==
  ASSUME NEW r, NEW s, NEW p, Attempted(r, p), s.last = r.last, s.alone = r.alone, s.body = r.body
  PROVE  Attempted(s, p)
BY DEF Attempted

LEMMA UrlFailedOK ==
  ASSUME NEW r, NEW p, Going(r, p)
  PROVE  ReqOK(UrlFailed(r), p) /\ UrlFailed(r).pc \in {"url", "done"} /\ UrlFailed(r).alone = r.alone
<1>1. PICK s : s = UrlFailed(r)
  OBVIOUS
<1>2. DOMAIN r = ReqFields /\ DOMAIN r.last = LastFields /\ r.url \in 0 .. Urls - 1 /\ r.i \in 0 .. MaxRetries
  BY DEF Going, Typed
<1>3. CASE r.url = Urls - 1
  <2>1. s = Answer(r, "error")
    BY <1>1, <1>3 DEF UrlFailed
  <2>2. /\ DOMAIN s = ReqFields /\ s.pc = "done" /\ s.body = r.body /\ s.url = r.url /\ s.i = 0 /\ s.own = None
        /\ s.alone = r.alone /\ s.last = r.last /\ s.ret = "error"
    BY <1>2, <2>1 DEF Answer, ReqFields
  <2>3. 0 \in 0 .. MaxRetries
    BY TokenConstants, SMT
  <2>4. Typed(s)
    BY <1>2, <2>2, <2>3 DEF Typed
  <2>5. Prepared(s, p) /\ Kept(s)
    BY <2>2 DEF Prepared, Kept, Going
  <2>6. Attempted(s, p)
    BY <2>2, SameAttempt DEF Going
  <2> QED BY <1>1, <2>2, <2>4, <2>5, <2>6 DEF ReqOK
<1>4. CASE r.url # Urls - 1
  <2>1. s = [r EXCEPT !.pc = "url", !.url = r.url + 1]
    BY <1>1, <1>4 DEF UrlFailed
  <2>2. /\ DOMAIN s = ReqFields /\ s.pc = "url" /\ s.body = r.body /\ s.url = r.url + 1 /\ s.i = r.i /\ s.own = r.own
        /\ s.alone = r.alone /\ s.last = r.last /\ s.ret = r.ret
    BY <1>2, <2>1 DEF ReqFields
  <2>4. Typed(s)
    BY <1>2, <1>4, <2>2, NextUrl DEF Typed, Going
  <2>5. Prepared(s, p) /\ Kept(s)
    BY <2>2 DEF Prepared, Kept, Going
  <2>6. Attempted(s, p)
    BY <2>2, SameAttempt DEF Going
  <2> QED BY <1>1, <2>2, <2>4, <2>5, <2>6 DEF ReqOK
<1> QED BY <1>3, <1>4

\* The body is encoded and the request goes on to its headers.
LEMMA EncodedOK ==
  ASSUME NEW r, NEW p, Going(r, p)
  PROVE  /\ p = None => ReqOK([Encoded(r) EXCEPT !.pc = "send"], p)
         /\ p = "oauth" => ReqOK([Encoded(r) EXCEPT !.pc = "token"], p)
         /\ p \in Kinds \ {"oauth"} => ReqOK([Encoded(r) EXCEPT !.pc = "headers", !.own = Header(p, None)], p)
<1>1. PICK e : e = Encoded(r)
  OBVIOUS
<1>2. DOMAIN r = ReqFields /\ DOMAIN r.last = LastFields /\ r.url \in 0 .. Urls - 1
  BY DEF Going, Typed
<1>3. /\ DOMAIN e = ReqFields /\ e.body = r.body /\ e.url = r.url /\ e.i = 0 /\ e.own = r.own /\ e.left = r.body
      /\ e.alone = r.alone /\ e.last = r.last /\ e.ret = r.ret
  BY <1>1, <1>2 DEF Encoded, ReqFields
<1>4. 0 \in 0 .. MaxRetries
  BY TokenConstants, SMT
<1>5. ASSUME NEW s, DOMAIN s = ReqFields, s.body = r.body, s.url = r.url, s.i = 0, s.left = r.body,
             s.alone = r.alone, s.last = r.last, s.ret = r.ret, s.pc \in {"send", "token", "headers"},
             s.pc = "token" => p = "oauth", s.pc = "headers" => p # None /\ Of(p, s.own), p = None => s.own = None
      PROVE  ReqOK(s, p)
  <2>1. Typed(s)
    BY <1>2, <1>4, <1>5 DEF Typed, Going
  <2>2. Prepared(s, p) /\ Kept(s)
    BY <1>5 DEF Prepared, Kept, Going
  <2>3. Attempted(s, p)
    BY <1>5, SameAttempt DEF Going
  <2> QED BY <2>1, <2>2, <2>3 DEF ReqOK
<1>6. ASSUME p = None PROVE ReqOK([e EXCEPT !.pc = "send"], p)
  <2>1. PICK s : s = [e EXCEPT !.pc = "send"]
    OBVIOUS
  <2>2. /\ DOMAIN s = ReqFields /\ s.body = r.body /\ s.url = r.url /\ s.i = 0 /\ s.left = r.body
        /\ s.alone = r.alone /\ s.last = r.last /\ s.ret = r.ret /\ s.pc = "send" /\ s.own = r.own
    BY <1>3, <2>1 DEF ReqFields
  <2> QED BY <1>5, <1>6, <2>1, <2>2 DEF Going
<1>7. ASSUME p = "oauth" PROVE ReqOK([e EXCEPT !.pc = "token"], p)
  <2>1. PICK s : s = [e EXCEPT !.pc = "token"]
    OBVIOUS
  <2>2. /\ DOMAIN s = ReqFields /\ s.body = r.body /\ s.url = r.url /\ s.i = 0 /\ s.left = r.body
        /\ s.alone = r.alone /\ s.last = r.last /\ s.ret = r.ret /\ s.pc = "token" /\ s.own = r.own
    BY <1>3, <2>1 DEF ReqFields
  <2> QED BY <1>5, <1>7, <2>1, <2>2 DEF Going
<1>8. ASSUME p \in Kinds \ {"oauth"} PROVE ReqOK([e EXCEPT !.pc = "headers", !.own = Header(p, None)], p)
  <2>1. PICK s : s = [e EXCEPT !.pc = "headers", !.own = Header(p, None)]
    OBVIOUS
  <2>2. /\ DOMAIN s = ReqFields /\ s.body = r.body /\ s.url = r.url /\ s.i = 0 /\ s.left = r.body
        /\ s.alone = r.alone /\ s.last = r.last /\ s.ret = r.ret /\ s.pc = "headers" /\ s.own = Header(p, None)
    BY <1>3, <2>1 DEF ReqFields
  <2>3. p # None /\ Header(p, None) \in Headers /\ Header(p, None).kind = p
    BY <1>8, NoneIsNone DEF Header, Headers
  <2>4. Of(p, s.own)
    BY <1>8, <2>2, <2>3 DEF Of
  <2> QED BY <1>5, <2>1, <2>2, <2>3, <2>4
<1> QED BY <1>1, <1>6, <1>7, <1>8

LEMMA TokenGotOK ==
  ASSUME NEW r, ReqOK(r, "oauth"), r.pc = "token", NEW t \in Tokens
  PROVE  ReqOK([r EXCEPT !.pc = "headers", !.own = Header("oauth", t)], "oauth")
<1>1. PICK s : s = [r EXCEPT !.pc = "headers", !.own = Header("oauth", t)]
  OBVIOUS
<1>2. DOMAIN r = ReqFields
  BY DEF ReqOK, Typed
<1>3. /\ DOMAIN s = ReqFields /\ s.pc = "headers" /\ s.body = r.body /\ s.url = r.url /\ s.i = r.i
      /\ s.own = Header("oauth", t) /\ s.alone = r.alone /\ s.last = r.last /\ s.ret = r.ret /\ s.left = r.left
  BY <1>1, <1>2 DEF ReqFields
<1>4. /\ Header("oauth", t) \in Headers /\ Header("oauth", t).kind = "oauth" /\ Header("oauth", t).token # None
      /\ "oauth" # None
  BY TokenConstants, NoneIsNone DEF Header, Headers, Kinds
<1>5. Of("oauth", s.own)
  BY <1>3, <1>4 DEF Of
<1>6. Typed(s)
  BY <1>3 DEF Typed, ReqOK
<1>7. Prepared(s, "oauth") /\ Kept(s)
  BY <1>3, <1>4, <1>5 DEF Prepared, Kept, ReqOK
<1>8. Attempted(s, "oauth")
  BY <1>3, SameAttempt DEF ReqOK
<1> QED BY <1>1, <1>6, <1>7, <1>8 DEF ReqOK


LEMMA HeadersSetOK ==
  ASSUME NEW r, NEW p, ReqOK(r, p), r.pc = "headers"
  PROVE  ReqOK([r EXCEPT !.pc = "send"], p)
<1>1. PICK s : s = [r EXCEPT !.pc = "send"]
  OBVIOUS
<1>2. DOMAIN r = ReqFields
  BY DEF ReqOK, Typed
<1>3. /\ DOMAIN s = ReqFields /\ s.pc = "send" /\ s.body = r.body /\ s.url = r.url /\ s.i = r.i /\ s.own = r.own
      /\ s.alone = r.alone /\ s.last = r.last /\ s.ret = r.ret /\ s.left = r.left
  BY <1>1, <1>2 DEF ReqFields
<1>4. Typed(s)
  BY <1>3 DEF Typed, ReqOK
<1>5. Prepared(s, p) /\ Kept(s)
  BY <1>3 DEF Prepared, Kept, ReqOK
<1>6. Attempted(s, p)
  BY <1>3, SameAttempt DEF ReqOK
<1> QED BY <1>1, <1>4, <1>5, <1>6 DEF ReqOK

\* One attempt: the answer is kept, or there is another attempt.
LEMMA SentOK ==
  ASSUME NEW r, NEW p, ReqOK(r, p), r.pc = "send", Of(p, headers), r.alone => headers = r.own,
         NEW answer \in {"ok", "refused", "busy", "lost"}
  PROVE  /\ ReqOK(Sent(r, answer), p) /\ Sent(r, answer).alone = r.alone
         /\ Sent(r, answer).pc = "send" => Sent(r, answer).own = r.own
<1>1. PICK s : s = Attempt(r, answer)
  OBVIOUS
<1>2. PICK last : last = [auth |-> headers, own |-> r.own, body |-> r.left, i |-> r.i, answer |-> answer]
  OBVIOUS
<1>3. /\ DOMAIN r = ReqFields /\ r.url \in 0 .. Urls - 1 /\ r.i \in 0 .. MaxRetries /\ Going(r, p)
      /\ r.i = 0 => r.left = r.body
  BY OnTheWay DEF ReqOK, Typed, Prepared
<1>4. /\ DOMAIN last = LastFields /\ last.auth = headers /\ last.own = r.own /\ last.body = r.left /\ last.i = r.i
      /\ last.answer = answer
  BY <1>2 DEF LastFields
<1>5. /\ DOMAIN s = ReqFields /\ s.pc = "send" /\ s.body = r.body /\ s.url = r.url /\ s.i = r.i /\ s.own = r.own
      /\ s.alone = r.alone /\ s.last = last /\ s.ret = "none"
  BY <1>1, <1>2, <1>3 DEF Attempt, ReqFields, Going
<1>6. Attempted(s, p) /\ Typed(s)
  <2>1. Attempted(s, p)
    BY <1>3, <1>4, <1>5 DEF Attempted
  <2>2. Typed(s)
    BY <1>3, <1>4, <1>5 DEF Typed
  <2> QED BY <2>1, <2>2
<1>7. CASE answer = "lost"
  <2>1. Sent(r, answer) = UrlFailed(s)
    BY <1>1, <1>7 DEF Sent
  <2>2. Going(s, p)
    BY <1>3, <1>4, <1>5, <1>6, <1>7 DEF Going
  <2>3. ReqOK(UrlFailed(s), p) /\ UrlFailed(s).pc \in {"url", "done"} /\ UrlFailed(s).alone = s.alone
    BY <2>2, UrlFailedOK
  <2> QED BY <1>5, <2>1, <2>3
<1>8. CASE answer # "lost" /\ (Final(answer) \/ r.i >= MaxRetries)
  <2>1. PICK n : n = [s EXCEPT !.pc = "answered", !.resp = answer]
    OBVIOUS
  <2>2. Sent(r, answer) = n
    BY <1>1, <1>8, <2>1 DEF Sent
  <2>3. /\ DOMAIN n = ReqFields /\ n.pc = "answered" /\ n.body = r.body /\ n.url = r.url /\ n.i = r.i /\ n.own = r.own
        /\ n.alone = r.alone /\ n.last = last /\ n.ret = "none" /\ n.resp = answer
    BY <1>5, <2>1 DEF ReqFields
  <2>4. answer = "busy" => r.i = MaxRetries
    <3>1. r.i >= MaxRetries => r.i = MaxRetries
      BY <1>3, TokenConstants, SMT
    <3> QED BY <1>8, <3>1 DEF Final, isSuccess, isRetriable
  <2>5. Typed(n)
    BY <1>3, <1>4, <2>3 DEF Typed
  <2>6. Prepared(n, p) /\ Kept(n)
    BY <1>3, <1>4, <1>8, <2>3, <2>4 DEF Prepared, Kept, Going
  <2>7. Attempted(n, p)
    BY <1>5, <1>6, <2>3, SameAttempt
  <2> QED BY <2>2, <2>3, <2>5, <2>6, <2>7 DEF ReqOK
<1>9. CASE answer # "lost" /\ ~Final(answer) /\ ~(r.i >= MaxRetries)
  <2>1. PICK n : n = [s EXCEPT !.i = s.i + 1]
    OBVIOUS
  <2>2. Sent(r, answer) = n
    BY <1>1, <1>9, <2>1 DEF Sent
  <2>3. /\ DOMAIN n = ReqFields /\ n.pc = "send" /\ n.body = r.body /\ n.url = r.url /\ n.i = r.i + 1 /\ n.own = r.own
        /\ n.alone = r.alone /\ n.last = last /\ n.ret = "none"
    BY <1>5, <2>1 DEF ReqFields
  <2>4. answer = "busy"
    BY <1>9 DEF Final, isSuccess, isRetriable
  <2>5. r.i + 1 \in 0 .. MaxRetries /\ r.i + 1 # 0
    BY <1>3, <1>9, TokenConstants, SMT
  <2>6. Typed(n)
    BY <1>3, <1>4, <2>3, <2>5 DEF Typed
  <2>7. Prepared(n, p) /\ Kept(n)
    BY <1>3, <1>4, <2>3, <2>4, <2>5 DEF Prepared, Kept, Going
  <2>8. Attempted(n, p)
    BY <1>5, <1>6, <2>3, SameAttempt
  <2> QED BY <2>2, <2>3, <2>6, <2>7, <2>8 DEF ReqOK
<1> QED BY <1>7, <1>8, <1>9

\* Back in HandleRequest().
LEMMA AnsweredOK ==
  ASSUME NEW r, NEW p, ReqOK(r, p), r.pc = "answered"
  PROVE  /\ ~Settled(r) => ReqOK([r EXCEPT !.pc = "url", !.url = r.url + 1], p)
         /\ \A how \in {"error", "ok", "failure"} :
              (Settled(r) /\ (how = "ok" => isSuccess(r.resp)) /\ (how = "failure" => ~isSuccess(r.resp)))
                => ReqOK(Answer(r, how), p)
<1>1. DOMAIN r = ReqFields /\ r.url \in 0 .. Urls - 1 /\ r.i \in 0 .. MaxRetries /\ r.ret = "none"
  BY DEF ReqOK, Typed, Kept
<1>2. ASSUME ~Settled(r) PROVE ReqOK([r EXCEPT !.pc = "url", !.url = r.url + 1], p)
  <2>1. PICK s : s = [r EXCEPT !.pc = "url", !.url = r.url + 1]
    OBVIOUS
  <2>2. /\ DOMAIN s = ReqFields /\ s.pc = "url" /\ s.body = r.body /\ s.url = r.url + 1 /\ s.i = r.i /\ s.own = r.own
        /\ s.alone = r.alone /\ s.last = r.last /\ s.ret = r.ret
    BY <1>1, <2>1 DEF ReqFields
  <2>3. r.resp = "busy" /\ r.url # Urls - 1
    BY <1>2 DEF Settled, Final, isRetriable
  <2>4. Typed(s)
    BY <1>1, <2>2, <2>3, NextUrl DEF Typed, ReqOK
  <2>5. Prepared(s, p) /\ Kept(s)
    BY <1>1, <2>2, <2>3 DEF Prepared, Kept, ReqOK
  <2>6. Attempted(s, p)
    BY <2>2, SameAttempt DEF ReqOK
  <2> QED BY <2>1, <2>4, <2>5, <2>6 DEF ReqOK
<1>3. ASSUME NEW how \in {"error", "ok", "failure"}, Settled(r), how = "ok" => isSuccess(r.resp),
             how = "failure" => ~isSuccess(r.resp)
      PROVE  ReqOK(Answer(r, how), p)
  <2>1. PICK s : s = Answer(r, how)
    OBVIOUS
  <2>2. /\ DOMAIN s = ReqFields /\ s.pc = "done" /\ s.body = r.body /\ s.url = r.url /\ s.i = 0 /\ s.own = None
        /\ s.alone = r.alone /\ s.last = r.last /\ s.ret = how
    BY <1>1, <2>1 DEF Answer, ReqFields
  <2>3. 0 \in 0 .. MaxRetries
    BY TokenConstants, SMT
  <2>4. Typed(s)
    BY <1>1, <2>2, <2>3 DEF Typed, ReqOK
  <2>5. Prepared(s, p)
    BY <2>2 DEF Prepared, ReqOK
  <2>6. /\ r.resp = r.last.answer /\ r.resp \in {"ok", "refused", "busy"} /\ (r.resp = "busy" => r.last.i = MaxRetries)
    BY DEF ReqOK, Kept
  <2>7. how = "ok" => r.last.answer = "ok"
    BY <1>3, <2>6 DEF isSuccess
  <2>8. how = "failure" => \/ r.last.answer = "refused"
                           \/ /\ r.last.answer = "busy" /\ r.last.i = MaxRetries
                              /\ r.url = Urls - 1 \/ r.url >= MaxRetries
    BY <1>3, <2>6 DEF isSuccess, Settled, Final, isRetriable
  <2>9. Kept(s)
    BY <2>2, <2>7, <2>8 DEF Kept
  <2>10. Attempted(s, p)
    BY <2>2, SameAttempt DEF ReqOK
  <2> QED BY <2>1, <2>4, <2>5, <2>9, <2>10 DEF ReqOK
<1> QED BY <1>2, <1>3

-----------------------------------------------------------------------------
(* All requests.                                                            *)

\* The request of g goes on as s.
Goes(g, s) ==
  /\ Running(g)
  /\ reqs' = [reqs EXCEPT ![g] = s]
  /\ conf' = conf /\ provider' = provider
  /\ ReqOK(s, provider) /\ s.alone = reqs[g].alone /\ s.pc # "idle"
  /\ headers' = headers \/ (provider # None /\ Of(provider, headers'))
  /\ s.pc = "send" => Of(provider, headers') /\ (s.alone => headers' = s.own)

LEMMA GoesOn == ASSUME RestInv, TokenInv', NEW g \in Goroutines, NEW s, Goes(g, s) PROVE RestInv'
<1>1. /\ Running(g) /\ reqs' = [reqs EXCEPT ![g] = s] /\ conf' = conf /\ provider' = provider
      /\ ReqOK(s, provider) /\ s.alone = reqs[g].alone /\ s.pc # "idle"
      /\ headers' = headers \/ (provider # None /\ Of(provider, headers'))
      /\ s.pc = "send" => Of(provider, headers') /\ (s.alone => headers' = s.own)
  BY DEF Goes
<1>2. DOMAIN reqs = Goroutines /\ \A h \in Goroutines : ReqOK(reqs[h], provider) /\ Shared(h) /\ Alone(h)
  BY DEF RestInv, ReqsOK
<1>3. DOMAIN reqs' = Goroutines /\ reqs'[g] = s /\ \A h \in Goroutines : h # g => reqs'[h] = reqs[h]
  BY <1>1, <1>2
<1>4. \A h \in Goroutines : Running(h)' => Running(h)
  <2>1. ASSUME NEW h \in Goroutines, Running(h)' PROVE Running(h)
    <3>1. CASE h = g
      BY <1>1, <3>1
    <3>2. CASE h # g
      BY <1>3, <2>1, <3>2 DEF Running
    <3> QED BY <3>1, <3>2
  <2> QED BY <2>1
<1>5. ASSUME NEW h \in Goroutines PROVE ReqOK(reqs'[h], provider') /\ Shared(h)' /\ Alone(h)'
  <2>1. Alone(h)'
    <3>1. reqs'[h].alone = reqs[h].alone
      BY <1>1, <1>3
    <3> QED BY <1>2, <1>4, <3>1 DEF Alone
  <2>2. CASE h = g
    BY <1>1, <1>3, <2>1, <2>2 DEF Shared
  <2>3. CASE h # g
    <3>1. reqs'[h] = reqs[h]
      BY <1>3, <2>3
    <3>2. reqs[h].pc = "send" => Running(h)
      BY DEF Running
    <3>3. reqs[h].pc = "send" /\ reqs[h].alone => h = g
      BY <1>1, <1>2, <3>2 DEF Alone
    <3>4. Shared(h)'
      BY <1>1, <1>2, <2>3, <3>1, <3>3 DEF Shared
    <3> QED BY <1>1, <1>2, <2>1, <3>1, <3>4
  <2> QED BY <2>2, <2>3
<1>6. Unread'
  <2>1. conf = None
    BY <1>1 DEF RestInv, Unread, Running
  <2> QED BY <1>1, <2>1 DEF Unread
<1>7. ReqsOK'
  BY <1>3, <1>5 DEF ReqsOK
<1>8. (headers' = None \/ Of(provider', headers')) /\ (provider' = None => headers' = None)
  BY <1>1 DEF RestInv
<1> QED BY <1>1, <1>6, <1>7, <1>8 DEF RestInv

\* Nothing but the token and the clock changes.
LEMMA OnlyToken == ASSUME RestInv, TokenInv', UNCHANGED restVars PROVE RestInv'
<1>1. conf' = conf /\ provider' = provider /\ headers' = headers /\ reqs' = reqs
  BY DEF restVars
<1>2. ReqsOK'
  BY <1>1 DEF RestInv, ReqsOK, Shared, Alone, Running
<1>3. Unread'
  BY <1>1 DEF RestInv, Unread
<1> QED BY <1>1, <1>2, <1>3 DEF RestInv

LEMMA SourcesOf == ASSUME NEW c PROVE NewAuthenticationHeaderProvider(c) \in Kinds \cup {None, "error"}
<1>1. \A options : Needs(c, options, "basic") \in Kinds \cup {"error"}
  BY DEF Needs, Kinds
<1>2. \A options : Needs(c, options, "static") \in Kinds \cup {"error"}
  BY DEF Needs, Kinds
<1>3. \A options : Needs(c, options, "oauth") \in Kinds \cup {"error"}
  BY DEF Needs, Kinds
<1>4. \A options : Needs(c, options, "custom") \in Kinds \cup {"error"}
  BY DEF Needs, Kinds
<1>5. "basic" \in Kinds
  BY DEF Kinds
<1> QED BY <1>1, <1>2, <1>3, <1>4, <1>5 DEF NewAuthenticationHeaderProvider, createURLAuthHeaderProvider,
      createSASLAuthHeaderProvider, createUSERINFOAuthHeaderProvider, checkIdentityPoolIDAndLogicalCluster,
      checkBearerOAuthFields, createStaticTokenAuthHeaderProvider, createBearerOAuthHeaderProvider,
      handleCustomAuthenticationHeaderProvider

LEMMA NewRestServiceStep == ASSUME RestInv, TokenInv', NewRestService PROVE RestInv'
<1>1. conf # None /\ conf' = None /\ headers' = headers /\ reqs' = reqs
  BY DEF NewRestService
<1>2. provider' \in Kinds \cup {None, "error"}
  <2>1. PICK p : p = NewAuthenticationHeaderProvider(conf)
    OBVIOUS
  <2>2. provider' = "error" \/ provider' = p
    BY <2>1 DEF NewRestService
  <2> QED BY <2>1, <2>2, SourcesOf
<1>3. provider = None /\ headers = None /\ \A g \in Goroutines : reqs[g].pc = "idle"
  BY <1>1 DEF RestInv, Unread
<1>4. ASSUME NEW g \in Goroutines PROVE ReqOK(reqs'[g], provider') /\ Shared(g)' /\ Alone(g)'
  <2>1. ReqOK(reqs[g], None) /\ reqs[g].pc = "idle"
    BY <1>3 DEF RestInv, ReqsOK
  <2>2. reqs[g].own = None /\ reqs[g].last.answer = "none"
    BY <2>1 DEF ReqOK, Prepared
  <2>3. ReqOK(reqs[g], provider')
    BY <2>1, <2>2 DEF ReqOK, Prepared, Attempted
  <2>4. Shared(g)' /\ Alone(g)'
    BY <1>1, <2>1 DEF Shared, Alone, Running
  <2> QED BY <1>1, <2>3, <2>4
<1>5. ReqsOK'
  BY <1>1, <1>4 DEF RestInv, ReqsOK
<1>6. Unread'
  BY <1>1 DEF Unread
<1> QED BY <1>1, <1>2, <1>3, <1>5, <1>6 DEF RestInv

\* A new request has sent nothing.
Fresh(s, b, a) == s = [NoRequest EXCEPT !.pc = "url", !.body = b, !.alone = a]

LEMMA NewRequest ==
  ASSUME NEW s, NEW b, NEW a, Fresh(s, b, a), NEW p, p # "error"
  PROVE  ReqOK(s, p) /\ s.pc = "url" /\ s.alone = a
<1>1. s = [NoRequest EXCEPT !.pc = "url", !.body = b, !.alone = a]
  BY DEF Fresh
<1>2. PICK l : l = [auth |-> None, own |-> None, body |-> FALSE, i |-> 0, answer |-> "none"]
  OBVIOUS
<1>3. DOMAIN l = LastFields /\ l.answer = "none"
  BY <1>2 DEF LastFields
<1>4. /\ DOMAIN s = ReqFields /\ s.pc = "url" /\ s.url = 0 /\ s.i = 0 /\ s.own = None
      /\ s.alone = a /\ s.last = l /\ s.ret = "none"
  BY <1>1, <1>2 DEF NoRequest, ReqFields
<1>5. 0 \in 0 .. MaxRetries /\ 0 \in 0 .. Urls - 1
  BY TokenConstants, RestConstants, SMT
<1>6. Typed(s)
  BY <1>3, <1>4, <1>5 DEF Typed
<1>7. Prepared(s, p) /\ Kept(s) /\ Attempted(s, p)
  BY <1>3, <1>4 DEF Prepared, Kept, Attempted
<1> QED BY <1>1, <1>4, <1>6, <1>7 DEF ReqOK

LEMMA IdleRequest == ASSUME NEW p PROVE ReqOK(NoRequest, p) /\ NoRequest.pc = "idle"
<1>1. PICK s : s = NoRequest
  OBVIOUS
<1>2. PICK l : l = [auth |-> None, own |-> None, body |-> FALSE, i |-> 0, answer |-> "none"]
  OBVIOUS
<1>3. DOMAIN l = LastFields /\ l.answer = "none"
  BY <1>2 DEF LastFields
<1>4. /\ DOMAIN s = ReqFields /\ s.pc = "idle" /\ s.url = 0 /\ s.i = 0 /\ s.own = None /\ s.last = l /\ s.ret = "none"
  BY <1>1, <1>2 DEF NoRequest, ReqFields
<1>5. 0 \in 0 .. MaxRetries /\ 0 \in 0 .. Urls - 1
  BY TokenConstants, RestConstants, SMT
<1>6. Typed(s)
  BY <1>3, <1>4, <1>5 DEF Typed
<1>7. Prepared(s, p) /\ Kept(s) /\ Attempted(s, p)
  BY <1>3, <1>4 DEF Prepared, Kept, Attempted
<1> QED BY <1>1, <1>4, <1>6, <1>7 DEF ReqOK

\* A request that another overlaps is no longer alone.
LEMMA OverlappedOK ==
  ASSUME NEW r, NEW p, ReqOK(r, p), NEW b, (b = TRUE) => r.alone
  PROVE  /\ ReqOK([r EXCEPT !.alone = b], p) /\ [r EXCEPT !.alone = b].alone = b
         /\ [r EXCEPT !.alone = b].pc = r.pc /\ [r EXCEPT !.alone = b].own = r.own
<1>1. PICK s : s = [r EXCEPT !.alone = b]
  OBVIOUS
<1>2. /\ DOMAIN s = ReqFields /\ s.pc = r.pc /\ s.body = r.body /\ s.url = r.url /\ s.i = r.i /\ s.own = r.own
      /\ s.alone = b /\ s.last = r.last /\ s.ret = r.ret /\ s.left = r.left /\ s.resp = r.resp
  BY <1>1 DEF ReqOK, Typed, ReqFields
<1>3. Typed(s)
  BY <1>2 DEF Typed, ReqOK
<1>4. Prepared(s, p)
  BY <1>2 DEF Prepared, ReqOK
<1>5. Kept(s)
  BY <1>2 DEF Kept, ReqOK
<1>6. Attempted(s, p)
  <2>1. s.alone => r.alone
    BY <1>2
  <2> QED BY <1>2, <2>1 DEF Attempted, ReqOK
<1> QED BY <1>1, <1>2, <1>3, <1>4, <1>5, <1>6 DEF ReqOK

LEMMA HandleRequestStep ==
  ASSUME RestInv, TokenInv', NEW g \in Goroutines, NEW body, HandleRequest(g, body)
  PROVE  RestInv'
<1>0. PICK a : a = \A k \in Goroutines : ~Running(k)
  OBVIOUS
<1>1. PICK n : n = [NoRequest EXCEPT !.pc = "url", !.body = body, !.alone = a]
  OBVIOUS
<1>2. /\ conf = None /\ provider # "error" /\ conf' = conf /\ provider' = provider /\ headers' = headers
      /\ reqs[g].pc = "idle"
      /\ reqs' = [h \in Goroutines |-> IF h = g THEN n ELSE [reqs[h] EXCEPT !.alone = reqs[h].alone /\ ~Running(h)]]
  BY <1>0, <1>1 DEF HandleRequest
<1>3. ReqOK(n, provider) /\ n.pc = "url" /\ n.alone = a
  <2>1. provider # "error"
    BY <1>2
  <2>2. Fresh(n, body, a)
    BY <1>1 DEF Fresh
  <2> QED BY <2>1, <2>2, NewRequest
<1>4. DOMAIN reqs' = Goroutines /\ reqs'[g] = n
  BY <1>2
<1>5. ASSUME NEW h \in Goroutines, h # g
      PROVE  /\ ReqOK(reqs'[h], provider) /\ reqs'[h].pc = reqs[h].pc /\ reqs'[h].own = reqs[h].own
             /\ reqs'[h].alone => reqs[h].alone /\ ~Running(h)
  <2>1. PICK b : b = (reqs[h].alone /\ ~Running(h))
    OBVIOUS
  <2>2. reqs'[h] = [reqs[h] EXCEPT !.alone = b]
    BY <1>2, <1>5, <2>1
  <2>3. ReqOK(reqs[h], provider)
    BY DEF RestInv, ReqsOK
  <2>4. (b = TRUE) <=> (reqs[h].alone /\ ~Running(h))
    BY <2>1
  <2>5. (b = TRUE) => reqs[h].alone
    BY <2>4
  <2>6. /\ ReqOK(reqs'[h], provider) /\ reqs'[h].alone = b
        /\ reqs'[h].pc = reqs[h].pc /\ reqs'[h].own = reqs[h].own
    <3>1. /\ ReqOK([reqs[h] EXCEPT !.alone = b], provider) /\ [reqs[h] EXCEPT !.alone = b].alone = b
          /\ [reqs[h] EXCEPT !.alone = b].pc = reqs[h].pc /\ [reqs[h] EXCEPT !.alone = b].own = reqs[h].own
      BY ONLY <2>3, <2>5, OverlappedOK
    <3> QED BY <2>2, <3>1
  <2> QED BY <2>4, <2>6
<1>6. ASSUME NEW h \in Goroutines PROVE ReqOK(reqs'[h], provider') /\ Shared(h)' /\ Alone(h)'
  <2>1. CASE h = g
    <3>1. Shared(h)'
      BY <1>3, <1>4, <2>1 DEF Shared
    <3>2. ASSUME n.alone, NEW k \in Goroutines, Running(k)' PROVE k = g
      <4>1. ~Running(k)
        BY <1>0, <1>3, <3>2
      <4> QED BY <1>5, <3>2, <4>1 DEF Running
    <3>3. Alone(h)'
      BY <1>4, <2>1, <3>2 DEF Alone
    <3> QED BY <1>2, <1>3, <1>4, <2>1, <3>1, <3>3
  <2>2. CASE h # g
    <3>1. ~(Running(h)' /\ reqs'[h].alone)
      BY <1>5, <2>2 DEF Running
    <3>2. Alone(h)'
      BY <3>1 DEF Alone
    <3>3. Shared(h)'
      <4>1. Shared(h)
        BY DEF RestInv, ReqsOK
      <4>2. reqs'[h].pc = "send" => ~reqs'[h].alone
        BY <3>1 DEF Running
      <4> QED BY <1>2, <1>5, <2>2, <4>1, <4>2 DEF Shared
    <3> QED BY <1>2, <1>5, <2>2, <3>2, <3>3
  <2> QED BY <2>1, <2>2
<1>7. ReqsOK'
  BY <1>4, <1>6 DEF ReqsOK
<1>8. Unread'
  BY <1>2 DEF Unread
<1> QED BY <1>2, <1>7, <1>8 DEF RestInv

LEMMA OneRequest ==
  ASSUME RestInv, NEW g \in Goroutines
  PROVE  ReqOK(reqs[g], provider) /\ Shared(g) /\ provider \in Kinds \cup {None, "error"}
BY DEF RestInv, ReqsOK

LEMMA HandleHTTPRequestStep == ASSUME RestInv, TokenInv', NEW g \in Goroutines, HandleHTTPRequest(g) PROVE RestInv'
<1>1. PICK r : r = reqs[g]
  OBVIOUS
<1>2. r.pc = "url" /\ ReqOK(r, provider) /\ Running(g) /\ provider \in Kinds \cup {None}
  <2>1. reqs[g].pc = "url"
    BY DEF HandleHTTPRequest
  <2> QED BY <1>1, <2>1, OneRequest DEF Running, ReqOK, Prepared
<1>3. Going(r, provider)
  BY <1>2, OnTheWay
<1>4. CASE Set(g, UrlFailed(r))
  <2>1. ReqOK(UrlFailed(r), provider) /\ UrlFailed(r).pc \in {"url", "done"} /\ UrlFailed(r).alone = r.alone
    BY <1>3, UrlFailedOK
  <2>2. Goes(g, UrlFailed(r))
    BY <1>1, <1>2, <1>4, <2>1 DEF Goes, Set, Put
  <2> QED BY <2>2, GoesOn
<1>5. DOMAIN r = ReqFields
  BY <1>2 DEF ReqOK, Typed
<1>6. CASE provider = None /\ Set(g, [Encoded(r) EXCEPT !.pc = "send"])
  <2>1. PICK s : s = [Encoded(r) EXCEPT !.pc = "send"]
    OBVIOUS
  <2>2. ReqOK(s, provider)
    BY <1>3, <1>6, <2>1, EncodedOK
  <2>3. s.pc = "send" /\ s.alone = r.alone
    BY <1>5, <2>1 DEF Encoded, ReqFields
  <2>4. headers = None /\ s.own = None
    BY <1>6, <2>2 DEF RestInv, ReqOK, Prepared
  <2>5. Goes(g, s)
    BY <1>1, <1>2, <1>6, <2>1, <2>2, <2>3, <2>4 DEF Goes, Set, Put, Of
  <2> QED BY <2>5, GoesOn
<1>7. CASE provider = "oauth" /\ Set(g, [Encoded(r) EXCEPT !.pc = "token"])
  <2>1. PICK s : s = [Encoded(r) EXCEPT !.pc = "token"]
    OBVIOUS
  <2>2. ReqOK(s, provider)
    BY <1>3, <1>7, <2>1, EncodedOK
  <2>3. s.pc = "token" /\ s.alone = r.alone
    BY <1>5, <2>1 DEF Encoded, ReqFields
  <2>4. Goes(g, s)
    BY <1>1, <1>2, <1>7, <2>1, <2>2, <2>3 DEF Goes, Set, Put
  <2> QED BY <2>4, GoesOn
<1>8. CASE provider \in Kinds \ {"oauth"} /\ Set(g, [Encoded(r) EXCEPT !.pc = "headers", !.own = Header(provider, None)])
  <2>1. PICK s : s = [Encoded(r) EXCEPT !.pc = "headers", !.own = Header(provider, None)]
    OBVIOUS
  <2>2. ReqOK(s, provider)
    BY <1>3, <1>8, <2>1, EncodedOK
  <2>3. s.pc = "headers" /\ s.alone = r.alone
    BY <1>5, <2>1 DEF Encoded, ReqFields
  <2>4. Goes(g, s)
    BY <1>1, <1>2, <1>8, <2>1, <2>2, <2>3 DEF Goes, Set, Put
  <2> QED BY <2>4, GoesOn
<1> QED BY <1>1, <1>2, <1>4, <1>6, <1>7, <1>8, SMT DEF HandleHTTPRequest

LEMMA TokenTakenStep == ASSUME RestInv, TokenInv', NEW g \in Goroutines, TokenTaken(g) PROVE RestInv'
<1>1. PICK r : r = reqs[g]
  OBVIOUS
<1>2. r.pc = "token" /\ ReqOK(r, "oauth") /\ Running(g) /\ provider = "oauth" /\ TokenStep(g)
  <2>1. reqs[g].pc = "token" /\ TokenStep(g)
    BY DEF TokenTaken
  <2>2. provider = "oauth"
    BY <2>1, OneRequest DEF ReqOK, Prepared
  <2> QED BY <1>1, <2>1, <2>2, OneRequest DEF Running
<1>3. CASE tpc'[g] = "got"
  <2>1. got'[g].token \in Tokens
    BY <1>2, <1>3, GotToken DEF RestInv
  <2>2. PICK s : s = [r EXCEPT !.pc = "headers", !.own = Header("oauth", got'[g].token)]
    OBVIOUS
  <2>3. ReqOK(s, "oauth")
    BY <1>2, <2>1, <2>2, TokenGotOK
  <2>4. s.pc = "headers" /\ s.alone = r.alone
    BY <1>2, <2>2 DEF ReqOK, Typed, ReqFields
  <2>5. Set(g, s)
    BY <1>1, <1>3, <2>2 DEF TokenTaken
  <2>6. Goes(g, s)
    BY <1>1, <1>2, <2>3, <2>4, <2>5 DEF Goes, Set, Put
  <2> QED BY <2>6, GoesOn
<1>4. CASE tpc'[g] = "failed"
  <2>1. Going(r, "oauth")
    BY <1>2, OnTheWay
  <2>2. ReqOK(UrlFailed(r), "oauth") /\ UrlFailed(r).pc \in {"url", "done"} /\ UrlFailed(r).alone = r.alone
    BY <2>1, UrlFailedOK
  <2>3. Set(g, UrlFailed(r))
    BY <1>1, <1>4 DEF TokenTaken
  <2>4. Goes(g, UrlFailed(r))
    BY <1>1, <1>2, <2>2, <2>3 DEF Goes, Set, Put
  <2> QED BY <2>4, GoesOn
<1>5. CASE tpc'[g] # "got" /\ tpc'[g] # "failed"
  <2>1. Set(g, r)
    BY <1>1, <1>5 DEF TokenTaken
  <2>2. Goes(g, r)
    BY <1>1, <1>2, <2>1 DEF Goes, Set, Put
  <2> QED BY <2>2, GoesOn
<1> QED BY <1>3, <1>4, <1>5

LEMMA SetHeadersStep == ASSUME RestInv, TokenInv', NEW g \in Goroutines, SetAuthenticationHeaders(g) PROVE RestInv'
<1>1. PICK r : r = reqs[g]
  OBVIOUS
<1>2. r.pc = "headers" /\ ReqOK(r, provider) /\ Running(g) /\ provider # None /\ Of(provider, r.own)
  <2>1. reqs[g].pc = "headers"
    BY DEF SetAuthenticationHeaders
  <2> QED BY <1>1, <2>1, OneRequest DEF Running, ReqOK, Prepared
<1>3. conf' = conf /\ provider' = provider
  BY DEF SetAuthenticationHeaders
<1>4. CASE headers' = r.own /\ Put(g, [r EXCEPT !.pc = "send"])
  <2>1. PICK s : s = [r EXCEPT !.pc = "send"]
    OBVIOUS
  <2>2. ReqOK(s, provider)
    BY <1>2, <2>1, HeadersSetOK
  <2>3. s.pc = "send" /\ s.alone = r.alone /\ s.own = r.own
    BY <1>2, <2>1 DEF ReqOK, Typed, ReqFields
  <2>4. Goes(g, s)
    BY <1>1, <1>2, <1>3, <1>4, <2>1, <2>2, <2>3 DEF Goes, Put
  <2> QED BY <2>4, GoesOn
<1>5. CASE headers' \in {headers, r.own} /\ Put(g, UrlFailed(r))
  <2>1. ReqOK(UrlFailed(r), provider) /\ UrlFailed(r).pc \in {"url", "done"} /\ UrlFailed(r).alone = r.alone
    BY <1>2, OnTheWay, UrlFailedOK
  <2>2. Goes(g, UrlFailed(r))
    BY <1>1, <1>2, <1>3, <1>5, <2>1 DEF Goes, Put
  <2> QED BY <2>2, GoesOn
<1> QED BY <1>1, <1>4, <1>5 DEF SetAuthenticationHeaders

LEMMA DoStep ==
  ASSUME RestInv, TokenInv', NEW g \in Goroutines, NEW answer \in Traffic(provider).answers, Do(g, answer)
  PROVE  RestInv'
<1>1. PICK r : r = reqs[g]
  OBVIOUS
<1>2. /\ r.pc = "send" /\ ReqOK(r, provider) /\ Running(g) /\ provider \in Kinds \cup {None}
      /\ Of(provider, headers) /\ (r.alone => headers = r.own)
  <2>1. reqs[g].pc = "send"
    BY DEF Do
  <2> QED BY <1>1, <2>1, OneRequest DEF Running, ReqOK, Prepared, Shared
<1>3. answer \in {"ok", "refused", "busy", "lost"}
  BY <1>2, RestConstants
<1>4. PICK s : s = Sent(r, answer)
  OBVIOUS
<1>5. ReqOK(s, provider) /\ s.alone = r.alone /\ (s.pc = "send" => s.own = r.own)
  BY <1>2, <1>3, <1>4, SentOK
<1>6. s.pc # "idle"
  <2>1. PICK n : n = Attempt(r, answer)
    OBVIOUS
  <2>2. DOMAIN n = ReqFields /\ n.pc = "send"
    BY <1>2, <2>1 DEF Attempt, ReqOK, Typed, ReqFields
  <2>3. s = UrlFailed(n) \/ s = [n EXCEPT !.pc = "answered", !.resp = answer] \/ s = [n EXCEPT !.i = n.i + 1]
    BY <1>4, <2>1 DEF Sent
  <2>4. UrlFailed(n).pc # "idle"
    BY <2>2 DEF UrlFailed, Answer, ReqFields
  <2> QED BY <2>2, <2>3, <2>4 DEF ReqFields
<1>7. Set(g, s)
  BY <1>1, <1>4 DEF Do
<1>8. Goes(g, s)
  BY <1>1, <1>2, <1>5, <1>6, <1>7 DEF Goes, Set, Put
<1> QED BY <1>8, GoesOn

LEMMA AnsweredStep ==
  ASSUME RestInv, TokenInv', NEW g \in Goroutines, NEW decodes, Answered(g, decodes)
  PROVE  RestInv'
<1>1. PICK r : r = reqs[g]
  OBVIOUS
<1>2. r.pc = "answered" /\ ReqOK(r, provider) /\ Running(g) /\ DOMAIN r = ReqFields
  <2>1. reqs[g].pc = "answered"
    BY DEF Answered
  <2> QED BY <1>1, <2>1, OneRequest DEF Running, ReqOK, Typed
<1>3. CASE ~Settled(r)
  <2>1. PICK s : s = [r EXCEPT !.pc = "url", !.url = r.url + 1]
    OBVIOUS
  <2>2. ReqOK(s, provider)
    BY <1>2, <1>3, <2>1, AnsweredOK
  <2>3. s.pc = "url" /\ s.alone = r.alone
    BY <1>2, <2>1 DEF ReqFields
  <2>4. Set(g, s)
    BY <1>1, <1>3, <2>1 DEF Answered
  <2>5. Goes(g, s)
    BY <1>1, <1>2, <2>2, <2>3, <2>4 DEF Goes, Set, Put
  <2> QED BY <2>5, GoesOn
<1>4. CASE Settled(r)
  <2>1. PICK how \in {"error", "ok", "failure"} :
          /\ how = IF ~decodes THEN "error" ELSE IF isSuccess(r.resp) THEN "ok" ELSE "failure"
          /\ (how = "ok" => isSuccess(r.resp)) /\ (how = "failure" => ~isSuccess(r.resp))
    <3>1. CASE ~decodes
      BY <3>1
    <3>2. CASE decodes /\ isSuccess(r.resp)
      BY <3>2
    <3>3. CASE decodes /\ ~isSuccess(r.resp)
      BY <3>3
    <3> QED BY <3>1, <3>2, <3>3
  <2>2. PICK s : s = Answer(r, how)
    OBVIOUS
  <2>3. ReqOK(s, provider)
    BY <1>2, <1>4, <2>1, <2>2, AnsweredOK
  <2>4. s.pc = "done" /\ s.alone = r.alone
    BY <1>2, <2>2 DEF ReqFields, Answer
  <2>5. Set(g, s)
    BY <1>1, <1>4, <2>1, <2>2 DEF Answered
  <2>6. Goes(g, s)
    BY <1>1, <1>2, <2>3, <2>4, <2>5 DEF Goes, Set, Put
  <2> QED BY <2>6, GoesOn
<1> QED BY <1>3, <1>4

-----------------------------------------------------------------------------
(* The theorems.                                                            *)
LEMMA InitRestInv == Init => RestInv
<1> SUFFICES ASSUME Init PROVE RestInv
  OBVIOUS
<1>1. TokenInit /\ provider = None /\ headers = None /\ reqs = [g \in Goroutines |-> NoRequest]
  BY DEF Init
<1>2. TokenInv
  BY <1>1, InitTokenInv
<1>3. \A g \in Goroutines : ReqOK(reqs[g], provider) /\ reqs[g].pc = "idle"
  BY <1>1, IdleRequest
<1>4. ReqsOK
  BY <1>1, <1>3 DEF ReqsOK, Shared, Alone, Running
<1>5. Unread
  BY <1>1, <1>3 DEF Unread
<1> QED BY <1>1, <1>2, <1>4, <1>5 DEF RestInv

LEMMA StepRestInv == RestInv /\ [Next]_vars => RestInv'
<1> SUFFICES ASSUME RestInv, [Next]_vars PROVE RestInv'
  OBVIOUS
<1>1. TokenInv'
  BY UsesToken, StepTokenInv DEF RestInv
<1>2. CASE UNCHANGED vars
  BY <1>1, <1>2, OnlyToken DEF vars
<1>3. CASE NewRestService
  BY <1>1, <1>3, NewRestServiceStep
<1>4. ASSUME NEW g \in Goroutines, NEW body, HandleRequest(g, body) PROVE RestInv'
  BY <1>1, <1>4, HandleRequestStep
<1>5. ASSUME NEW g \in Goroutines, Step(g) PROVE RestInv'
  <2>1. ASSUME NEW answer \in Traffic(provider).answers, Do(g, answer) PROVE RestInv'
    BY <1>1, <2>1, DoStep
  <2>2. ASSUME NEW decodes, Answered(g, decodes) PROVE RestInv'
    BY <1>1, <2>2, AnsweredStep
  <2> QED BY <1>1, <1>5, <2>1, <2>2, HandleHTTPRequestStep, TokenTakenStep, SetHeadersStep DEF Step
<1>6. CASE provider = "oauth" /\ Tick /\ UNCHANGED restVars
  BY <1>1, <1>6, OnlyToken
<1> QED BY <1>2, <1>3, <1>4, <1>5, <1>6 DEF Next

LEMMA RestInvAlways == FairSpec => []RestInv
BY InitRestInv, StepRestInv, PTL DEF FairSpec

\* A REST client uses its token as GetToken()'s specification says, so what is proved
\* of the token holds of it (rest_service.go calls GetAuthenticationHeader for every
\* attempt at a URL).
THEOREM RestUsesToken == FairSpec => TokenSpec
<1>1. Init => TokenInit
  BY DEF Init
<1> QED BY <1>1, UsesToken, PTL DEF FairSpec, TokenSpec

\* A configuration names at most one source, and the provider is of its kind.
LEMMA Honoured == SourceHonoured
<1> SUFFICES ASSUME conf # None
             PROVE  LET p == NewAuthenticationHeaderProvider(conf)
                    IN /\ p = None <=> conf.basic = "" /\ conf.bearer = ""
                       /\ p \in {"static", "oauth", "custom"} => conf.basic = "" /\ (p = "custom" <=> "custom" \in conf.given)
                       /\ p = "basic" => conf.bearer = ""
  BY DEF SourceHonoured
<1>1. PICK p : p = NewAuthenticationHeaderProvider(conf)
  OBVIOUS
<1>2. None \notin {"basic", "static", "oauth", "custom", "error"}
  BY RestConstants DEF Kinds
<1>3. CASE conf.basic # "" /\ conf.bearer # ""
  BY <1>1, <1>2, <1>3 DEF NewAuthenticationHeaderProvider
<1>4. CASE conf.basic # "" /\ conf.bearer = ""
  <2>1. p \in {"basic", "error"}
    BY <1>1, <1>4 DEF NewAuthenticationHeaderProvider, createURLAuthHeaderProvider, createSASLAuthHeaderProvider,
       createUSERINFOAuthHeaderProvider, Needs
  <2> QED BY <1>1, <1>2, <1>4, <2>1
<1>5. CASE conf.basic = "" /\ conf.bearer # ""
  <2>1. CASE conf.bearer = "STATIC_TOKEN"
    <3>1. p = "error" \/ (p = "static" /\ "custom" \notin conf.given)
      BY <1>1, <1>5, <2>1 DEF NewAuthenticationHeaderProvider, createStaticTokenAuthHeaderProvider, Needs
    <3> QED BY <1>1, <1>2, <1>5, <3>1
  <2>2. CASE conf.bearer = "OAUTHBEARER"
    <3>1. p = "error" \/ (p = "oauth" /\ "custom" \notin conf.given)
      BY <1>1, <1>5, <2>2 DEF NewAuthenticationHeaderProvider, createBearerOAuthHeaderProvider, checkBearerOAuthFields,
         checkIdentityPoolIDAndLogicalCluster, Needs
    <3> QED BY <1>1, <1>2, <1>5, <3>1
  <2>3. CASE conf.bearer = "CUSTOM"
    <3>1. p = "error" \/ (p = "custom" /\ "custom" \in conf.given)
      BY <1>1, <1>5, <2>3 DEF NewAuthenticationHeaderProvider, handleCustomAuthenticationHeaderProvider, Needs
    <3> QED BY <1>1, <1>2, <1>5, <3>1
  <2>4. CASE conf.bearer \notin {"STATIC_TOKEN", "OAUTHBEARER", "CUSTOM"}
    <3>1. p = "error"
      BY <1>1, <1>5, <2>4 DEF NewAuthenticationHeaderProvider
    <3> QED BY <1>1, <1>2, <1>5, <3>1
  <2> QED BY <2>1, <2>2, <2>3, <2>4
<1>6. CASE conf.basic = "" /\ conf.bearer = ""
  <2>1. p = None
    BY <1>1, <1>6 DEF NewAuthenticationHeaderProvider
  <2> QED BY <1>1, <1>2, <1>6, <2>1
<1> QED BY <1>3, <1>4, <1>5, <1>6

\* Every attempt at every URL carries a header of the one source that is configured,
\* with a token if that source has one, and the request's own header unless another
\* request overlaps it (SetAuthenticationHeaders writes one map for all).
THEOREM EveryAttemptAuthorized == FairSpec => []Credentials
<1>1. RestInv => Credentials
  <2> SUFFICES ASSUME RestInv PROVE Credentials
    OBVIOUS
  <2>1. ASSUME NEW g \in Goroutines, Tried(g)
        PROVE  Of(provider, reqs[g].last.auth) /\ (reqs[g].alone => reqs[g].last.auth = reqs[g].last.own)
    <3>1. Attempted(reqs[g], provider)
      BY OneRequest DEF ReqOK
    <3> QED BY <2>1, <3>1 DEF Attempted, Tried
  <2>2. Authorized
    <3>1. ASSUME NEW g \in Goroutines, Tried(g)
          PROVE  IF provider = None THEN reqs[g].last.auth = None
                 ELSE /\ reqs[g].last.auth # None /\ reqs[g].last.auth.kind = provider
                      /\ provider = "oauth" => reqs[g].last.auth.token # None
      BY <2>1, <3>1, NoneIsNone DEF Of
    <3> QED BY <3>1 DEF Authorized
  <2>3. OwnHeader
    BY <2>1 DEF OwnHeader
  <2> QED BY <2>2, <2>3, Honoured DEF Credentials
<1> QED BY <1>1, RestInvAlways, PTL

\* A final answer ends the retries and is the one reported, a failure is reported only
\* when nothing is left to try, and the first attempt at each URL carries the body
\* (HandleRequest and HandleHTTPRequest).
THEOREM AnswersKept == FairSpec => [](TypeOK /\ AnswerKept /\ BodySent)
<1>1. RestInv => TypeOK /\ AnswerKept /\ BodySent
  <2> SUFFICES ASSUME RestInv PROVE TypeOK /\ AnswerKept /\ BodySent
    OBVIOUS
  <2>1. TypeOK
    <3>1. TokenTypeOK /\ provider \in {None, "error", "basic", "static", "oauth", "custom"}
      BY DEF RestInv, TokenInv, Kinds
    <3> QED BY <3>1, OneRequest DEF TypeOK, ReqOK, Typed
  <2>2. AnswerKept
    <3>1. \A g \in Goroutines : Kept(reqs[g])
      BY OneRequest DEF ReqOK
    <3> QED BY <3>1 DEF AnswerKept, Kept
  <2>3. BodySent
    <3>1. \A g \in Goroutines : Attempted(reqs[g], provider)
      BY OneRequest DEF ReqOK
    <3> QED BY <3>1 DEF BodySent, Attempted, Tried
  <2> QED BY <2>1, <2>2, <2>3
<1> QED BY <1>1, RestInvAlways, PTL
=============================================================================
