---------------------------- MODULE RegistryJSON ----------------------------
(***************************************************************************)
(* The JSON form of the requests and answers of                            *)
(* schemaregistry/schemaregistry_client.go. Every field is omitempty, so a *)
(* value travels as the fields of it that are not zero: a value is that    *)
(* set of fields here. A MarshalJSON names the fields it copies out, an    *)
(* UnmarshalJSON the fields it copies back.                                *)
(***************************************************************************)
EXTENDS Integers, Sequences

SchemaInfo == {"schema", "schemaType", "references", "metadata", "ruleSet"}
SchemaMetadata == SchemaInfo \cup {"id", "guid", "subject", "version"}
Association == {"subject", "guid", "resourceName", "resourceNamespace", "resourceId",
                "resourceType", "associationType", "lifecycle", "frozen"}
AssociationCreateRequest == {"resourceName", "resourceNamespace", "resourceId",
                             "resourceType", "associations"}
AssociationCreateInfo == {"subject", "associationType", "lifecycle", "frozen", "schema",
                          "normalize"}
AssociationResponse == AssociationCreateRequest
AssociationInfo == AssociationCreateInfo \ {"normalize"}

MarshalSchemaInfo(x) == x \cap SchemaInfo
UnmarshalSchemaInfo(w) == w \cap SchemaInfo

MarshalSchemaMetadata(x) == x \cap SchemaMetadata

UnmarshalSchemaMetadata(w) == w \cap SchemaMetadata

MarshalAssociation(x) == x \cap Association

\* The bytes are never decoded: every field is copied from a zero struct.
UnmarshalAssociation(w) == {}

MarshalCreateRequest(x) == x \cap AssociationCreateRequest
UnmarshalCreateRequest(w) == w \cap AssociationCreateRequest

\* Normalize is not a field of what is sent.
MarshalCreateInfo(x) == x \cap AssociationInfo
UnmarshalCreateInfo(w) == w \cap AssociationInfo

MarshalResponse(x) == x \cap AssociationResponse
UnmarshalResponse(w) == w \cap AssociationResponse

MarshalInfo(x) == x \cap AssociationInfo
UnmarshalInfo(w) == w \cap AssociationInfo

\* A compatibility level is an index of its names; 0 stands for none given.
compatibilityEnum ==
  <<"", "NONE", "BACKWARD", "FORWARD", "FULL", "BACKWARD_TRANSITIVE",
    "FORWARD_TRANSITIVE", "FULL_TRANSITIVE">>

String(c) == compatibilityEnum[c + 1]

\* The index of a name, -1 for an error.
ParseString(val) ==
  IF \E i \in DOMAIN compatibilityEnum : compatibilityEnum[i] = val
  THEN (CHOOSE i \in DOMAIN compatibilityEnum : compatibilityEnum[i] = val) - 1
  ELSE -1

-----------------------------------------------------------------------------
\* A value comes out on the other side with the fields it went in with; an
\* AssociationCreateInfo loses its Normalize on the way.
CodecsInverse ==
  /\ \A x \in SUBSET SchemaInfo : UnmarshalSchemaInfo(MarshalSchemaInfo(x)) = x
  /\ \A x \in SUBSET SchemaMetadata : UnmarshalSchemaMetadata(MarshalSchemaMetadata(x)) = x
  /\ \A x \in SUBSET AssociationCreateRequest :
       UnmarshalCreateRequest(MarshalCreateRequest(x)) = x
  /\ \A x \in SUBSET AssociationCreateInfo :
       UnmarshalCreateInfo(MarshalCreateInfo(x)) = x \ {"normalize"}
  /\ \A x \in SUBSET AssociationResponse : UnmarshalResponse(MarshalResponse(x)) = x
  /\ \A x \in SUBSET AssociationInfo : UnmarshalInfo(MarshalInfo(x)) = x
  /\ \A c \in 0 .. 7 : ParseString(String(c)) = c
=============================================================================
