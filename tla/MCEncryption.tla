---------------------------- MODULE MCEncryption ----------------------------
EXTENDS Encryption

K1 == <<1>>
K10 == <<1, 0>>

Plain == [kekName |-> "kek", expiry |-> "missing", algorithm |-> "missing", kmsType |-> "aws", kmsKeyID |-> K1]
Rotated == [Plain EXCEPT !.expiry = "1", !.algorithm = "AES256_SIV"]
OtherKek == Kek("azure", K10, None, FALSE)
Base == [client |-> "two", rule |-> Plain, kek |-> None, old |-> FALSE, conf |-> None, deletes |-> FALSE, evicts |-> FALSE,
         faults |-> {"ok"}, kms |-> {"ok"}, goroutines |-> Goroutines, values |-> {"string"}]
Alone(u) == [u EXCEPT !.goroutines = {"g1"}, !.values = {"string", "bytes", "other", "nil"}]

\* One line per use: writers that race to create and to rotate a key, with and
\* without faults, and the parameters that are refused.
MCUse(u) ==
  CASE u = "rotate" -> [Base EXCEPT !.rule = Rotated]
    [] u = "rotate shared client" -> [Base EXCEPT !.rule = Rotated, !.client = "one"]
    [] u = "rotate with faults" -> Alone([Base EXCEPT !.rule = Rotated, !.faults = Faults, !.old = TRUE])
    [] u = "rotate in registry" -> Alone([Base EXCEPT !.rule = [Rotated EXCEPT !.kmsType = None, !.kmsKeyID = None], !.kek = Kek("aws", K1, None, TRUE)])
    [] u = "rotate mock" -> Alone([Base EXCEPT !.rule = Rotated, !.client = "mock"])
    [] u = "create with faults" -> [Base EXCEPT !.faults = Faults]
    [] u = "create mock" -> Alone([Base EXCEPT !.client = "mock"])
    [] u = "deleted" -> [Base EXCEPT !.rule = Rotated, !.deletes = TRUE, !.evicts = TRUE, !.goroutines = {"g1"}]
    [] u = "evicted" -> [Base EXCEPT !.evicts = TRUE, !.client = "one"]
    [] u = "alternate keys" -> [Base EXCEPT !.kek = Kek("aws", K1, <<K10, <<>>>>, FALSE), !.kms = {"ok", "fails", "none"}]
    [] u = "configured keys" -> Alone([Base EXCEPT !.rule.kmsType = "local", !.kek = Kek("local", K1, None, FALSE), !.conf = <<K10>>, !.kms = {"ok", "fails"}])
    [] u = "no kek name" -> Alone([Base EXCEPT !.rule.kekName = "missing"])
    [] u = "empty kek name" -> Alone([Base EXCEPT !.rule.kekName = "empty"])
    [] u = "bad expiry" -> Alone([Base EXCEPT !.rule.expiry = "x"])
    [] u = "negative expiry" -> Alone([Base EXCEPT !.rule.expiry = "-1"])
    [] u = "bad algorithm" -> Alone([Base EXCEPT !.rule.algorithm = "x"])
    [] u = "bad algorithm in registry" -> Alone([Base EXCEPT !.rule.algorithm = "x", !.kek = Kek("aws", K1, None, TRUE)])
    [] u = "no kms" -> Alone([Base EXCEPT !.rule.kmsType = None])
    [] u = "other kms" -> Alone([Base EXCEPT !.kek = OtherKek])
MCUseNames == {"rotate", "rotate shared client", "rotate with faults", "rotate in registry", "rotate mock", "create with faults",
  "create mock", "deleted", "evicted", "alternate keys", "configured keys", "no kek name", "empty kek name", "bad expiry",
  "negative expiry", "bad algorithm", "bad algorithm in registry", "no kms", "other kms"}
=============================================================================
