--------------------------- MODULE MCGrantAccess ---------------------------
(***************************************************************************)
(* Grant requests for GrantAccess.  MCRequests: shared-key requests whose  *)
(* access class is any map of MCAccessClassParser, on the bucket IDs whose *)
(* URL shape matches the class's unit type (a container and a blob URL for *)
(* a container class, the account URL for a storage-account class), with  *)
(* tags and filter left off for container classes (a class that sets them *)
(* comes with a failing key retrieval, so that the parser sees every map); *)
(* plus, with one access class, every authentication type, a failing key  *)
(* retrieval, a malformed ID, a reformatted one and an ID that decodes to *)
(* empty fields.                                                          *)
(* MCDisputedRequests: requests on which the code's reply and the spec's   *)
(* disagree, and the largest period that does not overflow.               *)
(***************************************************************************)
EXTENDS GrantAccess, MCAccessClassParser

ContainerURL == [acct |-> "a1", cont |-> "c1", blob |-> ""]
ContainerIDs == {Encode(ContainerURL), Encode([ContainerURL EXCEPT !.blob = "b"])}
AccountID == Encode([acct |-> "a1", cont |-> "", blob |-> ""])
\* An ID string in another form than Encode's (line breaks in the base64,
\* say), which decodes to the container URL.
ReformattedID == [url |-> ContainerURL, form |-> "reformatted"]
\* DecodeToBucketID("null"): every field empty.
EmptyID == [url |-> [acct |-> "", cont |-> "", blob |-> ""], form |-> "reformatted"]

Sets(in, lk, text) == \E k \in DOMAIN in : ToLower(k) = lk /\ EqualFold(in[k], text)

IsAccountClass(in) == Sets(in, "bucketunittype", "storageaccount")

IDsFor(in) == IF IsAccountClass(in) THEN {AccountID} ELSE ContainerIDs

TagsOrFilter(in) == Sets(in, "enabletags", "true") \/ Sets(in, "enablefilter", "true")

PassInputs == {in \in MCInputs : IsAccountClass(in) \/ ~TagsOrFilter(in)}

ReadOnly == Tok("enableread") :> Tok("true")

KeyRequest(in, x) == [params |-> in, id |-> x, auth |-> "Key", key |-> TRUE]

MCRequests ==
    UNION {{KeyRequest(in, x) : x \in IDsFor(in)} : in \in PassInputs}
    \cup {[KeyRequest(in, AccountID) EXCEPT !.key = FALSE] : in \in MCInputs \ PassInputs}
    \cup {[params |-> ReadOnly, id |-> x, auth |-> a, key |-> k] :
            x \in ContainerIDs \cup {ReformattedID, Malformed, EmptyID},
            a \in {"Unknown", "IAM", "Key"}, k \in BOOLEAN}

NoParams == [k \in {} |-> EmptyString]

\* A storage-account class on a container bucket, the default (container)
\* class on an account bucket, tags on a container, the periods around
\* the Duration overflow, an identity request with no parameters (spec.md
\* 8), a malformed ID, an ID that decodes to "null", a failing key
\* retrieval, and the access-class keys whose arms disagree with the
\* policy (DisputedKeys), the resource-type one on an account class.
MCDisputedRequests ==
    { [params |-> NoParams, id |-> AccountID, auth |-> "IAM", key |-> TRUE],
      [params |-> ReadOnly, id |-> Malformed, auth |-> "Key", key |-> TRUE],
      [params |-> ReadOnly, id |-> AccountID, auth |-> "Key", key |-> FALSE],
      [params |-> ReadOnly, id |-> EmptyID, auth |-> "Key", key |-> TRUE],
      KeyRequest(Tok("bucketunittype") :> Caps("storageaccount"), Encode(ContainerURL)),
      KeyRequest(ReadOnly, AccountID),
      KeyRequest(Tok("enabletags") :> Tok("true"), Encode(ContainerURL)) }
    \cup {KeyRequest(in, Encode(ContainerURL)) :
            in \in SingleKey("signedprotocol") \cup SingleKey("signedipfield")}
    \cup {KeyRequest((Tok("bucketunittype") :> Tok("storageaccount"))
                     @@ (Tok("allowcontainersignedresourcetypefield") :> v), AccountID) :
            v \in ValuesOf("allowcontainersignedresourcetypefield")}
    \cup {KeyRequest(Tok("validationperiod") :> Tok(v), Encode(ContainerURL)) :
            v \in {"9223372036854", "9223372036855", "18446744073709551615"}}

MCGrantInputs == {r.params : r \in MCRequests}
MCDisputedInputs2 == {r.params : r \in MCDisputedRequests}
=============================================================================
