------------------------------- MODULE MCRest -------------------------------
EXTENDS RestService

Options == {"username", "password", "userinfo", "poolID", "cluster", "issuer", "clientID", "clientSecret", "token"}
Config(basic, bearer, given) == [basic |-> basic, bearer |-> bearer, given |-> given]

\* Each pair of sources with all the options or all but one, with a custom
\* provider or GSSAPI; and the ways a certificate can be configured.
MCConfigs ==
  {Config(basic, bearer, (Options \ {o}) \cup extra)
     : basic \in {"", "URL", "SASL_INHERIT", "USER_INFO", "other"},
       bearer \in {"", "STATIC_TOKEN", "OAUTHBEARER", "CUSTOM", "other"},
       o \in Options \cup {""}, extra \in {{}, {"custom"}, {"gssapi"}}}
  \cup {Config("", "", tls) : tls \in SUBSET {"certificate", "key", "pairLoads", "ca", "caLoads", "httpClient"}}

\* Requests overlap where the header may change; elsewhere all answers are tried.
MCTraffic(p) ==
  IF p = "oauth" THEN [goroutines |-> Goroutines, bodies |-> {FALSE}, answers |-> {"ok", "busy"}]
  ELSE IF p = "basic" THEN [goroutines |-> Goroutines, bodies |-> {TRUE}, answers |-> {"ok", "busy", "lost"}]
  ELSE [goroutines |-> {"g1"}, bodies |-> BOOLEAN, answers |-> {"ok", "refused", "busy", "lost"}]

MCRetryConfigs == {Config("", "", {})}
=============================================================================
