----------------------------- MODULE KmsDrivers -----------------------------
(***************************************************************************)
(* The KMS drivers of schemaregistry/rules/encryption: which credentials a *)
(* client of each KMS is made with, and which client and key serve a key   *)
(* URL.  The KMSs, their SDKs and Tink's list of clients are external.     *)
(***************************************************************************)
EXTENDS Naturals, Sequences, SequencesExt

\* A key URL is a scheme and a path; NewKMSClient() is given the options and the
\* environment variables that are set, and what it can find.
URL(kmsType, path) == [kms |-> kmsType, path |-> path]

\* A client is made with a set of sources of credentials.  For AWS, a profile
\* and the region of an ARN may not resolve.
AwsBase(conf, env) ==
  IF {"access.key.id", "secret.access.key"} \subseteq conf THEN {"static"}
  ELSE IF "profile" \notin conf THEN {"default"}
  ELSE IF "profileLoads" \in env THEN {"profile"} ELSE {"error"}
awsDriver(conf, env) ==
  LET base == AwsBase(conf, env)
  IN IF base = {"error"} \/ "role.arn" \notin conf \cup env \/ "AWS_WEB_IDENTITY_TOKEN_FILE" \in env THEN base
     ELSE IF "region" \in env THEN base \cup {"role"} ELSE {"error"}

azureDriver(conf, env) ==
  IF {"tenant.id", "client.id", "client.secret"} \subseteq conf
  THEN IF "credsValid" \in env THEN {"static"} ELSE {"error"}
  ELSE IF "defaultCreds" \in env THEN {"default"} ELSE {"error"}

gcpDriver(conf, env) ==
  IF {"client.id", "client.email", "private.key.id", "private.key"} \subseteq conf THEN {"static"} ELSE {"default"}

\* A token that is not given is set all the same; a role is logged in to at once.
hcvaultDriver(conf, env) ==
  LET token == IF "token.id" \in conf \cup env THEN {"static"} ELSE {"default"}
  IN IF ~({"approle.role.id", "approle.secret.id"} \subseteq conf \cup env) THEN token
     ELSE IF "login" \in env THEN token \cup {"role"} ELSE {"error"}

localDriver(conf, env) == IF "secret" \in conf \cup env THEN {"static"} ELSE {"error"}

KmsTypes == {"aws", "azure", "gcp", "hcvault", "local"}
NewKMSClient(kmsType, conf, env) ==
  CASE kmsType = "aws" -> awsDriver(conf, env)
    [] kmsType = "azure" -> azureDriver(conf, env)
    [] kmsType = "gcp" -> gcpDriver(conf, env)
    [] kmsType = "hcvault" -> hcvaultDriver(conf, env)
    [] kmsType = "local" -> localDriver(conf, env)

-----------------------------------------------------------------------------
\* A client made for one key URL serves the URLs that begin with it ...
Supported(client, url) == client.kms = url.kms /\ IsPrefix(client.path, url.path)

\* ... under the key the URL names; the local one has a single key.
GetAEAD(client, url) == IF client.kms = "local" THEN <<>> ELSE url.path

\* getKMSClient(): the driver, then Tink's first client for the URL, or a new one
\* that is registered for all: clients is the list in order of registration.
KMSClients(clients, url) == SelectSeq(clients, LAMBDA c : Supported(c, url))
getKMSClient(clients, url) ==
  IF KMSClients(clients, url) # <<>> THEN [client |-> KMSClients(clients, url)[1], clients |-> clients]
  ELSE [client |-> url, clients |-> Append(clients, url)]

\* getAead(): the key that a key id stands for, if its client can be made.
getAead(clients, kmsType, id) ==
  LET url == URL(kmsType, id)
      found == getKMSClient(clients, url)
  IN [key |-> GetAEAD(found.client, url), clients |-> found.clients]
=============================================================================
