------------------------- MODULE AccessClassParser -------------------------
(***************************************************************************)
(* parseBucketAccessClassParameters (pkg/azureutils/cosi_api_ops.go).      *)
(*                                                                         *)
(* As in BucketClassParser, one step is one iteration of the range loop    *)
(* over the Go map, on any key not yet visited, and an invalid value       *)
(* returns at once.  There is no statement after the loop, so Finish only  *)
(* returns the accumulated parameters.                                     *)
(*                                                                         *)
(* Data: a key or plain value is a token [s, caps] (ToLower is s); the     *)
(* signedipfield value is [ips], the sequence of its "-"-separated parts,  *)
(* each an address token [s, ip] where ip says whether net.ParseIP        *)
(* accepts it.                                                             *)
(***************************************************************************)
EXTENDS Integers, Sequences, TLC, Word64

CONSTANTS
    Inputs,       \* the parameter maps handed to the parser
    UintText,     \* the texts strconv.ParseUint(v, 10, 64) accepts, with their uint64 word
    ParseError,   \* the error return of the parser
    NilIP         \* a net.IP that is nil

EmptyString == [s |-> "", caps |-> FALSE]
ToLower(t) == t.s
EqualFold(t, text) == t.s = text

\* The case arms of the unit type, compared with ToLower(v).
UnitTypes == ("container" :> "Container") @@ ("" :> "Container")
               @@ ("storageaccount" :> "StorageAccount")

\* sas.ProtocolHTTPS and sas.ProtocolHTTPSandHTTP.
Protocols == {"https", "https,http"}

\* Keys set from EqualFold(v, "true") / EqualFold(v, "false"), else unchanged,
\* mapped to the field their arm assigns.
TriBoolFields ==
       ("enablelist" :> "enableList") @@ ("enableread" :> "enableRead")
    @@ ("enablewrite" :> "enableWrite") @@ ("enabledelete" :> "enableDelete")
    @@ ("enablepermanentdelete" :> "enablePermanentDelete")
    @@ ("enableadd" :> "enableAdd") @@ ("enabletags" :> "enableTags")
    @@ ("enablefilter" :> "enableFilter")
    @@ ("allowservicesignedresourcetypefield" :> "allowServiceSignedResourceType")
    @@ ("allowcontainersignedresourcetypefield" :> "allowObjectSignedResourceType")
    @@ ("allowobjectsignedresourcetypefield" :> "allowObjectSignedResourceType")

StringFields == ("storageaccountname" :> "storageAccountName")
             @@ ("region" :> "region") @@ ("signedversion" :> "signedversion")

(* Mutant: the one-week default validity written in seconds. *)
DefaultParamsWeekInSeconds ==
    [bucketUnitType |-> "Container", storageAccountName |-> EmptyString,
     region |-> EmptyString, signedversion |-> EmptyString,
     signedIP |-> [start |-> NilIP, end |-> NilIP],
     validationPeriod |-> Word(604800), signedProtocol |-> "https,http",
     enableList |-> TRUE, enableRead |-> TRUE, enableWrite |-> FALSE,
     enableDelete |-> FALSE, enablePermanentDelete |-> FALSE, enableAdd |-> FALSE,
     enableTags |-> FALSE, enableFilter |-> FALSE,
     allowServiceSignedResourceType |-> TRUE,
     allowContainerSignedResourceType |-> TRUE,
     allowObjectSignedResourceType |-> TRUE]

(* The literal BACParams starts from: the defaults, every other field zero. *)
DefaultParams ==
    [bucketUnitType |-> "Container", storageAccountName |-> EmptyString,
     region |-> EmptyString, signedversion |-> EmptyString,
     signedIP |-> [start |-> NilIP, end |-> NilIP],
     validationPeriod |-> Word(604800000), signedProtocol |-> "https,http",
     enableList |-> TRUE, enableRead |-> TRUE, enableWrite |-> FALSE,
     enableDelete |-> FALSE, enablePermanentDelete |-> FALSE, enableAdd |-> FALSE,
     enableTags |-> FALSE, enableFilter |-> FALSE,
     allowServiceSignedResourceType |-> TRUE,
     allowContainerSignedResourceType |-> TRUE,
     allowObjectSignedResourceType |-> TRUE]

(* One iteration of the loop: the case arm of the lower-cased key k.  The  *)
(* signedprotocol and signedipfield arms assign the field and then return  *)
(* InvalidArgument whatever the value, so their assignments never reach    *)
(* the caller.                                                             *)
ParseKey(p, k, v) ==
    LET lk == ToLower(k) IN
    CASE lk = "bucketunittype" ->
            IF ToLower(v) \in DOMAIN UnitTypes
            THEN [p EXCEPT !.bucketUnitType = UnitTypes[ToLower(v)]]
            ELSE ParseError
      [] lk \in DOMAIN StringFields -> [p EXCEPT ![StringFields[lk]] = v]
      [] lk = "signedprotocol" -> ParseError
      [] lk = "signedipfield" -> ParseError
      [] lk = "validationperiod" ->
            IF v.s \in DOMAIN UintText
            THEN [p EXCEPT !.validationPeriod = UintText[v.s]]
            ELSE ParseError
      [] lk \in DOMAIN TriBoolFields ->
            CASE EqualFold(v, "true")  -> [p EXCEPT ![TriBoolFields[lk]] = TRUE]
              [] EqualFold(v, "false") -> [p EXCEPT ![TriBoolFields[lk]] = FALSE]
              [] OTHER                 -> p
      [] OTHER -> p

VARIABLES
    input,    \* the parameters map
    todo,     \* keys the range loop has not visited yet
    result,   \* BACParams, or ParseError once returned with an error
    pc        \* "loop" or "returned"

vars == <<input, todo, result, pc>>

Init ==
    /\ input \in Inputs
    /\ todo = DOMAIN input
    /\ result = DefaultParams
    /\ pc = "loop"

(* Mutant: an invalid value is recorded but the loop goes on. *)
IterateNoReturn(k) ==
    /\ pc = "loop"
    /\ result' = ParseKey(result, k, input[k])
    /\ todo' = todo \ {k}
    /\ UNCHANGED <<input, pc>>

Iterate(k) ==
    /\ pc = "loop"
    /\ LET r == ParseKey(result, k, input[k]) IN
       /\ result' = r
       /\ todo' = todo \ {k}
       /\ pc' = IF r = ParseError THEN "returned" ELSE "loop"
    /\ UNCHANGED input

Finish ==
    /\ pc = "loop"
    /\ todo = {}
    /\ pc' = "returned"
    /\ UNCHANGED <<input, todo, result>>

Next == Finish \/ \E k \in todo : Iterate(k)

Spec == Init /\ [][Next]_vars

TypeOK ==
    /\ todo \subseteq DOMAIN input
    /\ pc \in {"loop", "returned"}
    /\ result = ParseError \/ DOMAIN result = DOMAIN DefaultParams
    /\ pc = "loop" => result # ParseError

-----------------------------------------------------------------------------
(***************************************************************************)
(* The access policy spec.md (4.2) gives for a parameter map, without the  *)
(* loop: one-week validity, read and list enabled, both protocols and all  *)
(* resource-type scopes allowed by default; each key sets its own field;   *)
(* the unit type is a closed vocabulary and the validity period must parse *)
(* as an unsigned integer.  The protocol is one of the two the switch      *)
(* names and the IP field is "<ip>" or "<ip1>-<ip2>", as the error message *)
(* of each arm states; an address net.ParseIP rejects is left nil, as its  *)
(* warning states.  Keys of one input are assumed distinct up to case.     *)
(***************************************************************************)
\* The spec's defaults; the fields it names no default for are zero.
PolicyDefaults ==
    [DefaultParams EXCEPT !.validationPeriod = Word(7 * 24 * 3600 * 1000),
                          !.enableRead = TRUE, !.enableList = TRUE,
                          !.signedProtocol = "https,http",
                          !.allowServiceSignedResourceType = TRUE,
                          !.allowContainerSignedResourceType = TRUE,
                          !.allowObjectSignedResourceType = TRUE]

\* The field each key of the policy sets.
PolicyField ==
    [lk \in DOMAIN TriBoolFields |->
        IF lk = "allowcontainersignedresourcetypefield"
        THEN "allowContainerSignedResourceType" ELSE TriBoolFields[lk]]
    @@ StringFields
    @@ ("bucketunittype" :> "bucketUnitType") @@ ("signedprotocol" :> "signedProtocol")
    @@ ("signedipfield" :> "signedIP") @@ ("validationperiod" :> "validationPeriod")

IPOf(a) == IF a.ip THEN a.s ELSE NilIP

Invalid(lk, v) ==
    \/ lk = "bucketunittype" /\ ToLower(v) \notin DOMAIN UnitTypes
    \/ lk = "signedprotocol" /\ v.s \notin Protocols
    \/ lk = "signedipfield" /\ Len(v.ips) \notin {1, 2}
    \/ lk = "validationperiod" /\ v.s \notin DOMAIN UintText

PolicyValue(lk, v) ==
    CASE lk = "bucketunittype" -> UnitTypes[ToLower(v)]
      [] lk = "signedprotocol" -> v.s
      [] lk = "signedipfield" ->
            [start |-> IPOf(v.ips[1]),
             end |-> IF Len(v.ips) = 2 THEN IPOf(v.ips[2]) ELSE NilIP]
      [] lk = "validationperiod" -> UintText[v.s]
      [] lk \in DOMAIN TriBoolFields ->
            CASE EqualFold(v, "true")  -> TRUE
              [] EqualFold(v, "false") -> FALSE
              [] OTHER -> PolicyDefaults[PolicyField[lk]]
      [] OTHER -> v

AccessPolicy(in) ==
    LET known == {k \in DOMAIN in : ToLower(k) \in DOMAIN PolicyField} IN
    IF \E k \in known : Invalid(ToLower(k), in[k]) THEN ParseError
    ELSE [f \in DOMAIN PolicyDefaults |->
            IF \E k \in known : PolicyField[ToLower(k)] = f
            THEN LET k == CHOOSE k \in known : PolicyField[ToLower(k)] = f
                 IN PolicyValue(ToLower(k), in[k])
            ELSE PolicyDefaults[f]]

(* When the range loop returns, it returns the access policy of the input, *)
(* whatever order the Go runtime visited the keys in: each key's case arm  *)
(* sets the field the key names and only an invalid value is an error.    *)
AccessParseMatchesPolicy == pc = "returned" => result = AccessPolicy(input)
=============================================================================
