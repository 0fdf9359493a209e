---------------------------- MODULE TokenProvider ----------------------------
(***************************************************************************)
(* The OAuth token of schemaregistry/internal/                             *)
(* authentication_header_provider.go: goroutines share one token, look at  *)
(* it under the read lock, and fetch another under the write lock once     *)
(* four fifths of its life are over.  The token server is external.        *)
(***************************************************************************)
EXTENDS Integers

CONSTANTS
  Goroutines,
  MaxRetries,     \* of GenerateToken()
  Lifetimes,      \* of the tokens the server hands out, in ticks
  MaxTime,        \* bound on the clock
  None

Tokens == [issued : Int, ends : Int]

ASSUME TokenConstants ==
  /\ MaxRetries \in Nat
  /\ Lifetimes \subseteq Int
  /\ MaxTime \in Nat
  /\ None \notin Goroutines \cup Tokens

VARIABLES
  now,            \* the clock
  token, expiry,  \* p.token (the times it was issued at and ends at) and p.expiry
  tokenLock,      \* the writer that holds p.tokenLock
  tpc, tries,     \* where each goroutine is in GetToken(), and its failed fetches
  got             \* what its GetToken() returned: a token, when, and from where

tokenVars == <<now, token, expiry, tokenLock, tpc, tries, got>>

Nothing == [token |-> None, at |-> 0, cached |-> FALSE]

TokenInit ==
  /\ now = 0
  /\ token = None /\ expiry = 0
  /\ tokenLock = None
  /\ tpc = [g \in Goroutines |-> "out"]
  /\ tries = [g \in Goroutines |-> 0]
  /\ got = [g \in Goroutines |-> Nothing]

\* tokenExpiryThreshold is 0.8.
Threshold(lifetime) == (4 * lifetime) \div 5

Valid == now < expiry

\* GetToken() is called ...
GetToken(g) ==
  /\ tpc[g] \in {"out", "got", "failed"}
  /\ tpc' = [tpc EXCEPT ![g] = "look"]
  /\ UNCHANGED <<now, token, expiry, tokenLock, tries, got>>

Returns(g, t, cached) ==
  /\ tpc' = [tpc EXCEPT ![g] = "got"]
  /\ got' = [got EXCEPT ![g] = [token |-> t, at |-> now, cached |-> cached]]

\* ... and looks under the read lock, which waits for a writer.
Look(g) ==
  /\ tpc[g] = "look" /\ tokenLock = None
  /\ IF Valid
     THEN Returns(g, token, TRUE)
     ELSE tpc' = [tpc EXCEPT ![g] = "lock"] /\ UNCHANGED got
  /\ UNCHANGED <<now, token, expiry, tokenLock, tries>>

\* (LockAndFetch: there is no second look.)
LockAndFetch(g) ==
  /\ tpc[g] = "lock" /\ tokenLock = None
  /\ tokenLock' = g
  /\ tpc' = [tpc EXCEPT ![g] = "fetch"] /\ tries' = [tries EXCEPT ![g] = 0]
  /\ UNCHANGED <<now, token, expiry, got>>

\* The write lock is taken, and the token looked at again.
Lock(g) ==
  /\ tpc[g] = "lock" /\ tokenLock = None
  /\ IF Valid
     THEN Returns(g, token, TRUE) /\ UNCHANGED <<tokenLock, tries>>
     ELSE /\ tokenLock' = g
          /\ tpc' = [tpc EXCEPT ![g] = "fetch"] /\ tries' = [tries EXCEPT ![g] = 0]
          /\ UNCHANGED got
  /\ UNCHANGED <<now, token, expiry>>

\* GenerateToken() gets a token, and GetToken() returns it.
Fetch(g, lifetime) ==
  /\ tpc[g] = "fetch"
  /\ token' = [issued |-> now, ends |-> now + lifetime]
  /\ expiry' = now + Threshold(lifetime)
  /\ tokenLock' = None
  /\ Returns(g, token', FALSE)
  /\ UNCHANGED <<now, tries>>

\* Token() fails: another try after a pause, or the error is returned.
\* (FailLocked: with the lock held.)
FailLocked(g) ==
  /\ tpc[g] = "fetch"
  /\ IF tries[g] = MaxRetries
     THEN tpc' = [tpc EXCEPT ![g] = "failed"] /\ UNCHANGED <<tokenLock, tries>>
     ELSE tries' = [tries EXCEPT ![g] = @ + 1] /\ UNCHANGED <<tpc, tokenLock>>
  /\ UNCHANGED <<now, token, expiry, got>>

FetchFails(g) ==
  /\ tpc[g] = "fetch"
  /\ IF tries[g] = MaxRetries
     THEN tpc' = [tpc EXCEPT ![g] = "failed"] /\ tokenLock' = None /\ UNCHANGED tries
     ELSE tries' = [tries EXCEPT ![g] = @ + 1] /\ UNCHANGED <<tpc, tokenLock>>
  /\ UNCHANGED <<now, token, expiry, got>>

Tick ==
  /\ now < MaxTime
  /\ now' = now + 1
  /\ UNCHANGED <<token, expiry, tokenLock, tpc, tries, got>>

TokenStep(g) ==
  \/ Look(g) \/ Lock(g)
  \/ \E lifetime \in Lifetimes : Fetch(g, lifetime)
  \/ FetchFails(g)

TokenNext == Tick \/ \E g \in Goroutines : GetToken(g) \/ TokenStep(g)

TokenSpec == TokenInit /\ [][TokenNext]_tokenVars

-----------------------------------------------------------------------------
TokenTypeOK ==
  /\ now \in Nat /\ expiry \in Int
  /\ token \in Tokens \cup {None}
  /\ tokenLock \in Goroutines \cup {None}
  /\ tpc \in [Goroutines -> {"out", "look", "lock", "fetch", "got", "failed"}]
  /\ tries \in [Goroutines -> 0 .. MaxRetries]

\* At most one goroutine fetches a token, and only while there is none whose
\* life is less than four fifths over: the goroutines that waited for the write
\* lock find the new token and do not fetch again (GetToken's second look).
SingleFetch ==
  \A g \in Goroutines : tpc[g] = "fetch" =>
    /\ ~Valid
    /\ \A h \in Goroutines : tpc[h] = "fetch" => h = g

\* GetToken() never dereferences a nil token, and a token it returns without
\* fetching is one with at least a fifth of its life left at that time.
FreshToken ==
  /\ Valid => token # None
  /\ \A g \in Goroutines : (tpc[g] = "got" /\ got[g].cached) =>
       /\ got[g].token # None
       /\ 5 * (got[g].at - got[g].token.issued) < 4 * (got[g].token.ends - got[g].token.issued)
=============================================================================
