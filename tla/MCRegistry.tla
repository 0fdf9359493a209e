----------------------------- MODULE MCRegistry -----------------------------
EXTENDS RegistryClient

MCPropsOf == [sc \in Schemas |-> {}]

Assoc(s, atype, lifecycle, frozen, schema) ==
  [subject |-> s, atype |-> atype, lifecycle |-> lifecycle, frozen |-> frozen,
   schema |-> schema]

\* Both defaults, both lifecycles, frozen or not, with a schema or without,
\* one or two in a request, of one type or of two.
MCAssocLists ==
  {<<Assoc("s1", "", "", FALSE, "")>>, <<Assoc("s1", "key", "STRONG", TRUE, "a")>>,
   <<Assoc("s1", "key", "WEAK", FALSE, "")>>, <<Assoc("s1", "value", "WEAK", FALSE, "")>>,
   <<Assoc("s1", "value", "WEAK", TRUE, "")>>,
   <<Assoc("s1", "key", "", FALSE, ""), Assoc("s2", "", "WEAK", FALSE, "")>>,
   <<Assoc("s1", "key", "", FALSE, ""), Assoc("s1", "key", "", FALSE, "")>>}
=============================================================================
