---------------------------- MODULE GrantAccess ----------------------------
(***************************************************************************)
(* DriverGrantBucketAccess (pkg/server/provisioner/provisioner.go) with    *)
(* CreateBucketSASURL, createContainerSASURL and createAccountSASURL       *)
(* (pkg/azureutils): the authentication-type checks, the access-class      *)
(* parser of AccessClassParser (its range loop, step by step), the decode  *)
(* of the bucket ID, the key retrieval and the SAS construction.           *)
(*                                                                         *)
(* A SAS is abstracted to what its signature grants: the scope (account,   *)
(* and container for a container SAS), the permission letters, the        *)
(* account resource types and the time window.  The SDK's string forms and *)
(* the HMAC are left out.  The window is start and its length: the code   *)
(* computes the length as an int64 Duration in nanoseconds (Word64), and  *)
(* time.Time.Add adds it to start without wrapping.                        *)
(***************************************************************************)
EXTENDS AccessClassParser, BucketIdCodec

CONSTANTS
    Requests,       \* [params, id, auth, key]: the grant requests
    Now             \* time.Now() at the SAS construction

VARIABLES
    id,     \* the bucket ID string (BucketIdCodec)
    auth,   \* the request's AuthenticationType
    keyOK,  \* whether GetStorageAccesskey succeeds for this call
    gpc,    \* the grant's step
    out     \* the SAS granted, an error [error |-> code], or NoGrant

gvars == <<id, auth, keyOK, gpc, out>>
allvars == <<vars, gvars>>

NoGrant == [scope |-> "none"]

\* The gRPC status of an error: a status.Error keeps its code, any other
\* error reaches the sidecar as codes.Unknown.
Error(code) == [error |-> code]
IsError(g) == "error" \in DOMAIN g

\* expiry - start for start.Add(time.Millisecond *
\* time.Duration(parameters.validationPeriod)), in nanoseconds
Window(period) == SignedValue(MillisToNanos(period))

\* The permission letters each SDK permission struct field stands for, mapped
\* to the BACParams flag the code assigns to it.
(* Mutant: the Add permission left out of the container SAS. *)
ContainerPermFieldNoAdd ==
       ("l" :> "enableList") @@ ("r" :> "enableRead") @@ ("w" :> "enableWrite")
    @@ ("d" :> "enableDelete") @@ ("x" :> "enablePermanentDelete")
    @@ ("f" :> "enableTags")

ContainerPermField ==
       ("l" :> "enableList") @@ ("r" :> "enableRead") @@ ("w" :> "enableWrite")
    @@ ("d" :> "enableDelete") @@ ("x" :> "enablePermanentDelete")
    @@ ("a" :> "enableAdd") @@ ("f" :> "enableTags")

AccountPermField ==
       ("l" :> "enableList") @@ ("r" :> "enableRead") @@ ("w" :> "enableWrite")
    @@ ("d" :> "enableDelete") @@ ("x" :> "enablePermanentDelete")
    @@ ("a" :> "enableAdd") @@ ("t" :> "enableTags") @@ ("f" :> "enableFilter")

ResourceTypeField ==
       ("s" :> "allowServiceSignedResourceType")
    @@ ("c" :> "allowContainerSignedResourceType")
    @@ ("o" :> "allowObjectSignedResourceType")

\* The letters whose flag is set in the parameters p.
Flags(table, p) == {l \in DOMAIN table : p[table[l]]}

\* getStorageAccountNameFromContainerURL: "" when the URL does not parse.
AccountOf(x) == x.acct

SAS(acct, cont, perms, rtypes, p) ==
    [scope |-> [acct |-> acct, cont |-> cont], perms |-> perms, rtypes |-> rtypes,
     start |-> Now, length |-> Window(p.validationPeriod)]

\* createContainerSASURL: the container of the URL, the container
\* permissions, the window.
ContainerSAS(x, p) ==
    IF x.cont = "" THEN Error("Unknown")
    ELSE SAS(x.acct, x.cont, Flags(ContainerPermField, p), {}, p)

\* createAccountSASURL: the account of the URL, the account permissions and
\* resource types; the SDK's SignWithSharedKey refuses an account SAS with
\* no permission or no resource type.
AccountSAS(x, p) ==
    LET perms == Flags(AccountPermField, p)
        rtypes == Flags(ResourceTypeField, p)
    IN IF perms = {} \/ rtypes = {} THEN Error("Unknown")
       ELSE SAS(AccountOf(x), "", perms, rtypes, p)

GrantInit ==
    \E r \in Requests :
        /\ input = r.params
        /\ todo = DOMAIN input
        /\ result = DefaultParams
        /\ pc = "loop"
        /\ id = r.id
        /\ auth = r.auth
        /\ keyOK = r.key
        /\ gpc = "check"
        /\ out = NoGrant

Fail(code) == out' = Error(code) /\ gpc' = "done"

\* DriverGrantBucketAccess: missing parameters (an empty proto3 map arrives
\* as a nil map) or an unknown type are InvalidArgument, IAM is
\* Unimplemented, Key goes on to CreateBucketSASURL.
CheckAuth ==
    /\ gpc = "check"
    /\ \/ (DOMAIN input = {} \/ auth = "Unknown") /\ Fail("InvalidArgument")
       \/ DOMAIN input # {} /\ auth = "IAM" /\ Fail("Unimplemented")
       \/ DOMAIN input # {} /\ auth = "Key" /\ gpc' = "parse" /\ UNCHANGED out
    /\ UNCHANGED <<vars, id, auth, keyOK>>

\* One step of parseBucketAccessClassParameters.
ParseStep ==
    /\ gpc = "parse"
    /\ Next
    /\ UNCHANGED gvars

\* The parser has returned: its error, a status.Error, is returned.
ParseReturned ==
    /\ gpc = "parse"
    /\ pc = "returned"
    /\ \/ result = ParseError /\ Fail("InvalidArgument")
       \/ result # ParseError /\ gpc' = "decode" /\ UNCHANGED out
    /\ UNCHANGED <<vars, id, auth, keyOK>>

\* types.DecodeToBucketID: a base64 or JSON error, returned as it is.
DecodeID ==
    /\ gpc = "decode"
    /\ \/ DecodeFails(id) /\ Fail("Unknown")
       \/ ~DecodeFails(id) /\ gpc' = "key" /\ UNCHANGED out
    /\ UNCHANGED <<vars, id, auth, keyOK>>

\* cloud.GetStorageAccesskey for the account of the URL; an account name
\* the URL does not give fails like any cloud error.
GetKey ==
    /\ gpc = "key"
    /\ \/ (~keyOK \/ AccountOf(Decode(id)) = "") /\ Fail("Unknown")
       \/ keyOK /\ AccountOf(Decode(id)) # "" /\ gpc' = "sign" /\ UNCHANGED out
    /\ UNCHANGED <<vars, id, auth, keyOK>>

\* The switch on the access class's bucketUnitType picks the kind of SAS.
Sign ==
    /\ gpc = "sign"
    /\ out' = CASE result.bucketUnitType = "Container" -> ContainerSAS(Decode(id), result)
                [] result.bucketUnitType = "StorageAccount" -> AccountSAS(Decode(id), result)
    /\ gpc' = "done"
    /\ UNCHANGED <<vars, id, auth, keyOK>>

GrantNext == CheckAuth \/ ParseStep \/ ParseReturned \/ DecodeID \/ GetKey \/ Sign

GrantSpec == GrantInit /\ [][GrantNext]_allvars

GrantTypeOK ==
    /\ TypeOK
    /\ gpc \in {"check", "parse", "decode", "key", "sign", "done"}
    /\ gpc = "done" <=> out # NoGrant
    /\ gpc \in {"decode", "key", "sign"} => result # ParseError
-----------------------------------------------------------------------------
(***************************************************************************)
(* The grant spec.md gives for a request, without the steps (4.1, 4.4,   *)
(* 7, 8): only a shared-key request is served, an identity type being     *)
(* Unimplemented and an unspecified one InvalidArgument; then the ID is   *)
(* decoded (a malformed one, or one without the schema's fields, is       *)
(* InvalidArgument), the key retrieved (a backend failure is Internal)    *)
(* and the parameters parsed (InvalidArgument); the scope comes from the  *)
(* URL (container-scoped when the path has a container segment, account-  *)
(* scoped for a bare host); the permission letters are the policy's       *)
(* flags, tag and filter each its own; the window is                      *)
(* [now, now + validityPeriodMillis); an account SAS the signing          *)
(* primitive refuses is a backend failure.                                 *)
(***************************************************************************)
PolicyPermField ==
       ("l" :> "enableList") @@ ("r" :> "enableRead") @@ ("w" :> "enableWrite")
    @@ ("d" :> "enableDelete") @@ ("x" :> "enablePermanentDelete")
    @@ ("a" :> "enableAdd") @@ ("t" :> "enableTags") @@ ("f" :> "enableFilter")

PolicySAS(x, pol) ==
    LET perms == Flags(PolicyPermField, pol)
        rtypes == IF x.cont = "" THEN Flags(ResourceTypeField, pol) ELSE {}
    IN IF x.cont = "" /\ (perms = {} \/ rtypes = {}) THEN Error("Internal")
       ELSE [scope |-> [acct |-> x.acct, cont |-> x.cont], perms |-> perms,
             rtypes |-> rtypes, start |-> Now,
             length |-> Natural(ExactNanos(pol.validationPeriod))]

GrantPolicy(r) ==
    LET pol == AccessPolicy(r.params) IN
    CASE r.auth = "IAM"                          -> Error("Unimplemented")
      [] r.auth = "Unknown"                      -> Error("InvalidArgument")
      [] DecodeFails(r.id) \/ Decode(r.id).acct = "" -> Error("InvalidArgument")
      [] ~r.key                                  -> Error("Internal")
      [] pol = ParseError                        -> Error("InvalidArgument")
      [] OTHER                                   -> PolicySAS(Decode(r.id), pol)

\* The request this behaviour serves.
Request == [params |-> input, id |-> id, auth |-> auth, key |-> keyOK]

\* A grant with the kind of an error forgotten.
Outcome(g) == IF IsError(g) THEN "error" ELSE g

\* When DriverGrantBucketAccess replies, it replies with the grant the spec
\* gives for the request: a SAS of the bucket's scope, with exactly the
\* permissions the access class enables and a window of the validity period
\* starting now, or an error exactly when the spec makes it one.
GrantMatchesPolicy == gpc = "done" => Outcome(out) = Outcome(GrantPolicy(Request))

\* When DriverGrantBucketAccess replies, its reply is the spec's grant and,
\* for an error, of the error kind the spec's taxonomy gives.
GrantAsSpecified == gpc = "done" => out = GrantPolicy(Request)
=============================================================================
