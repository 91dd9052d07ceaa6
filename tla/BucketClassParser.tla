------------------------- MODULE BucketClassParser -------------------------
(***************************************************************************)
(* parseBucketClassParameters (pkg/azureutils/cosi_api_ops.go) and        *)
(* ConvertTagsToMap (pkg/azureutils/const.go).                            *)
(*                                                                         *)
(* The parser ranges over a Go map, whose iteration order is unspecified   *)
(* and randomised at run time, and returns at the first invalid value.     *)
(* One step of the model is one iteration of the loop on a key the         *)
(* runtime may pick next; Finish is the code after the loop.               *)
(*                                                                         *)
(* Data: a key or plain value is a token [s, caps]: s is its lower-case    *)
(* text and caps says whether it is written with capitals, so ToLower is   *)
(* the token's s and EqualFold compares s.  A value the code splits on a   *)
(* delimiter is given by its parts: a tags value is [segs], segs the      *)
(* sequence of its ","-separated segments, each the sequence of its        *)
(* "="-separated parts, each part a [s, pad] whose TrimSpace is s; a       *)
(* virtual network value is [ids], the sequence of its ","-parts.          *)
(***************************************************************************)
EXTENDS Integers, Sequences, SequencesExt, FiniteSets

CONSTANTS
    Inputs,       \* the parameter maps handed to the parser
    IntText,      \* the texts strconv.Atoi accepts, mapped to their value
    ParseError,   \* the error return of the parser
    NilBool,      \* a *bool that is nil
    NilMap        \* a map[string]string that is nil

EmptyString == [s |-> "", caps |-> FALSE]
ToLower(t) == t.s
EqualFold(t, text) == t.s = text

(* The closed vocabularies of the enumerated fields (constant/bucketclass.go, *)
(* the String methods compared with ToLower(v)).                              *)
UnitTypes   == ("container" :> "Container") @@ ("" :> "Container")
                 @@ ("storageaccount" :> "StorageAccount")
AccessTiers == ("hot" :> "Hot") @@ ("cool" :> "Cool") @@ ("archive" :> "Archive")
SKUs        == ("standard_lrs" :> "Standard_LRS") @@ ("standard_grs" :> "Standard_GRS")
                 @@ ("standard_ragrs" :> "Standard_RAGRS") @@ ("premium_lrs" :> "Premium_LRS")
Kinds       == ("storagev2" :> "StorageV2") @@ ("storage" :> "Storage")
                 @@ ("blobstorage" :> "BlobStorage")
                 @@ ("blockblobstorage" :> "BlockBlobStorage")
                 @@ ("filestorage" :> "FileStorage")

(* Keys by the way their case arm treats the value, mapped to the field set. *)
EnumFields == ("bucketunittype" :> [f |-> "bucketUnitType", vocab |-> UnitTypes])
           @@ ("accesstier" :> [f |-> "accessTier", vocab |-> AccessTiers])
           @@ ("skuname" :> [f |-> "SKUName", vocab |-> SKUs])
           @@ ("kind" :> [f |-> "kind", vocab |-> Kinds])
\* if EqualFold(v, "true") then true else false
FlagFields == ("createbucket" :> "createBucket")
           @@ ("allowblobaccess" :> "allowBlobAccess")
           @@ ("allowsharedaccesskey" :> "allowSharedAccessKey")
           @@ ("enableblobversioning" :> "enableBlobVersioning")
           @@ ("enableblobdeleteretention" :> "enableBlobDeleteRetention")
           @@ ("enablecontainerdeleteretention" :> "enableContainerDeleteRetention")
\* if EqualFold(v, "true") then true, else unchanged
SetTrueFields == ("httpstrafficonly" :> "enableHTTPSTrafficOnly")
              @@ ("createprivateendpoint" :> "createPrivateEndpoint")
              @@ ("hnsenabled" :> "isHnsEnabled")
              @@ ("enablenfsv3" :> "enableNfsV3")
              @@ ("enablelargefileshares" :> "enableLargeFileShare")
StringFields == ("subscriptionid" :> "subscriptionID")
             @@ ("storageaccountname" :> "storageAccountName")
             @@ ("region" :> "region")
             @@ ("resourcegroup" :> "resourceGroup")
             @@ ("storageaccounttype" :> "storageAccountType")
IntFields == ("blobdeleteretentiondays" :> "blobDeleteRetentionDays")
          @@ ("containerdeleteretentiondays" :> "containerDeleteRetentionDays")

(* &BucketClassParameters{}: every field at its Go zero value. *)
ZeroParams ==
    [bucketUnitType |-> "Container", createBucket |-> FALSE,
     createStorageAccount |-> NilBool, subscriptionID |-> EmptyString,
     storageAccountName |-> EmptyString, region |-> EmptyString,
     accessTier |-> "Hot", SKUName |-> "Standard_LRS", resourceGroup |-> EmptyString,
     allowBlobAccess |-> FALSE, allowSharedAccessKey |-> FALSE,
     enableBlobVersioning |-> FALSE, enableBlobDeleteRetention |-> FALSE,
     blobDeleteRetentionDays |-> 0, enableContainerDeleteRetention |-> FALSE,
     containerDeleteRetentionDays |-> 0, storageAccountType |-> EmptyString,
     kind |-> "StorageV2", tags |-> NilMap, virtualNetworkResourceIDs |-> <<>>,
     enableHTTPSTrafficOnly |-> FALSE, createPrivateEndpoint |-> FALSE,
     isHnsEnabled |-> FALSE, enableNfsV3 |-> FALSE, enableLargeFileShare |-> FALSE]

(* ConvertTagsToMap: "" gives the empty map; otherwise every ","-segment     *)
(* must split into exactly two "="-parts with a non-blank key, and a later  *)
(* segment overwrites the value of an earlier one with the same key.        *)
EmptyTags == [segs |-> <<<<[s |-> "", pad |-> FALSE]>>>>]
RECURSIVE PutTags(_, _)
PutTags(segs, m) ==
    IF segs = <<>> THEN m
    ELSE LET kv == Head(segs) IN
         IF Len(kv) # 2 \/ kv[1].s = "" THEN ParseError
         ELSE PutTags(Tail(segs), (kv[1].s :> kv[2].s) @@ m)
ConvertTagsToMap(tags) ==
    IF tags = EmptyTags THEN << >> ELSE PutTags(tags.segs, << >>)

(* One iteration of the loop: the case arm of the lower-cased key k. *)
ParseKey(p, k, v) ==
    LET lk == ToLower(k) IN
    CASE lk \in DOMAIN EnumFields ->
            LET e == EnumFields[lk] IN
            IF ToLower(v) \in DOMAIN e.vocab
            THEN [p EXCEPT ![e.f] = e.vocab[ToLower(v)]]
            ELSE ParseError
      [] lk \in DOMAIN FlagFields -> [p EXCEPT ![FlagFields[lk]] = EqualFold(v, "true")]
      [] lk = "createstorageaccount" ->
            CASE EqualFold(v, "true")  -> [p EXCEPT !.createStorageAccount = TRUE]
              [] EqualFold(v, "false") -> [p EXCEPT !.createStorageAccount = FALSE]
              [] OTHER                 -> p
      [] lk \in DOMAIN StringFields -> [p EXCEPT ![StringFields[lk]] = v]
      [] lk \in DOMAIN IntFields ->
            IF v.s \in DOMAIN IntText THEN [p EXCEPT ![IntFields[lk]] = IntText[v.s]]
            ELSE ParseError
      [] lk = "tags" ->
            LET m == ConvertTagsToMap(v) IN
            IF m = ParseError THEN ParseError ELSE [p EXCEPT !.tags = m]
      [] lk = "virtualnetworkresourceids" -> [p EXCEPT !.virtualNetworkResourceIDs = v.ids]
      [] lk \in DOMAIN SetTrueFields ->
            IF EqualFold(v, "true") THEN [p EXCEPT ![SetTrueFields[lk]] = TRUE] ELSE p
      [] OTHER -> p

(* Mutant: the account default also overrides createstorageaccount=false. *)
DefaultCreateStorageAccountAlways(p) ==
    IF p.bucketUnitType = "StorageAccount"
    THEN [p EXCEPT !.createStorageAccount = TRUE]
    ELSE p

(* The statement after the loop. *)
DefaultCreateStorageAccount(p) ==
    IF p.bucketUnitType = "StorageAccount" /\ p.createStorageAccount = NilBool
    THEN [p EXCEPT !.createStorageAccount = TRUE]
    ELSE p

VARIABLES
    input,    \* the parameters map
    todo,     \* keys the range loop has not visited yet
    result,   \* BCParams, or ParseError once returned with an error
    pc        \* "loop" or "returned"

vars == <<input, todo, result, pc>>

Init ==
    /\ input \in Inputs
    /\ todo = DOMAIN input
    /\ result = ZeroParams
    /\ pc = "loop"

(* Mutant: an invalid value is recorded but the loop goes on. *)
IterateNoReturn(k) ==
    /\ pc = "loop"
    /\ result' = ParseKey(result, k, input[k])
    /\ todo' = todo \ {k}
    /\ UNCHANGED <<input, pc>>

Iterate(k) ==
    /\ pc = "loop"
    /\ LET r == ParseKey(result, k, input[k]) IN
       /\ result' = r
       /\ todo' = todo \ {k}
       /\ pc' = IF r = ParseError THEN "returned" ELSE "loop"
    /\ UNCHANGED input

Finish ==
    /\ pc = "loop"
    /\ todo = {}
    /\ result' = DefaultCreateStorageAccount(result)
    /\ pc' = "returned"
    /\ UNCHANGED <<input, todo>>

Next == Finish \/ \E k \in todo : Iterate(k)

Spec == Init /\ [][Next]_vars

TypeOK ==
    /\ todo \subseteq DOMAIN input
    /\ pc \in {"loop", "returned"}
    /\ result = ParseError \/ DOMAIN result = DOMAIN ZeroParams
    /\ pc = "loop" => result # ParseError

-----------------------------------------------------------------------------
(***************************************************************************)
(* The policy spec.md (4.2) gives for a parameter map, written without the *)
(* loop: keys match case-insensitively, unknown keys are ignored, an       *)
(* enumerated value outside its vocabulary, an integer that does not       *)
(* parse or a malformed tags string is an error, a boolean is set by       *)
(* "true"/"false" and otherwise keeps its default, and an account bucket   *)
(* creates its account unless told otherwise.  Keys of one input are       *)
(* assumed distinct up to case.                                            *)
(***************************************************************************)
Given(in, lk) == \E k \in DOMAIN in : ToLower(k) = lk
Val(in, lk) == in[CHOOSE k \in DOMAIN in : ToLower(k) = lk]

\* The tags map: the value of the last segment naming each key.
TagsMalformed(t) ==
    \E i \in 1..Len(t.segs) : Len(t.segs[i]) # 2 \/ t.segs[i][1].s = ""
TagsPolicy(t) ==
    IF t = EmptyTags THEN << >>
    ELSE [key \in {t.segs[i][1].s : i \in 1..Len(t.segs)} |->
            t.segs[SelectLastInSeq(t.segs, LAMBDA seg : seg[1].s = key)][2].s]

Invalid(in) ==
    \E k \in DOMAIN in :
        LET lk == ToLower(k) IN
        \/ lk \in DOMAIN EnumFields /\ ToLower(in[k]) \notin DOMAIN EnumFields[lk].vocab
        \/ lk \in DOMAIN IntFields /\ in[k].s \notin DOMAIN IntText
        \/ lk = "tags" /\ in[k] # EmptyTags /\ TagsMalformed(in[k])

\* The key whose case arm sets each field.
KeyOf ==
    LET arms == [lk \in DOMAIN EnumFields |-> EnumFields[lk].f] @@ FlagFields
                  @@ SetTrueFields @@ StringFields @@ IntFields
                  @@ ("createstorageaccount" :> "createStorageAccount")
                  @@ ("tags" :> "tags")
                  @@ ("virtualnetworkresourceids" :> "virtualNetworkResourceIDs")
    IN [f \in DOMAIN ZeroParams |-> CHOOSE lk \in DOMAIN arms : arms[lk] = f]

\* The value a field takes when its key is absent or not a boolean word.
FieldDefault(in, f) ==
    LET unit == IF Given(in, "bucketunittype")
                THEN UnitTypes[ToLower(Val(in, "bucketunittype"))] ELSE "Container"
    IN IF f = "createStorageAccount"
       THEN IF unit = "StorageAccount" THEN TRUE ELSE NilBool
       ELSE ZeroParams[f]

FieldPolicy(in, f) ==
    LET lk == KeyOf[f]
        v  == Val(in, lk)
    IN
    CASE ~Given(in, lk) -> FieldDefault(in, f)
      [] lk \in DOMAIN EnumFields -> EnumFields[lk].vocab[ToLower(v)]
      [] lk \in DOMAIN FlagFields \cup DOMAIN SetTrueFields
            \cup {"createstorageaccount"} ->
            CASE EqualFold(v, "true")  -> TRUE
              [] EqualFold(v, "false") -> FALSE
              [] OTHER -> FieldDefault(in, f)
      [] lk \in DOMAIN IntFields -> IntText[v.s]
      [] lk = "tags" -> TagsPolicy(v)
      [] lk = "virtualnetworkresourceids" -> v.ids
      [] OTHER -> v

BucketClassPolicy(in) ==
    IF Invalid(in) THEN ParseError
    ELSE [f \in DOMAIN ZeroParams |-> FieldPolicy(in, f)]

\* No two keys of the map are spelled alike up to case.
CaseDistinct(in) == \A k, j \in DOMAIN in : ToLower(k) = ToLower(j) => k = j

\* The map keeping, of the keys spelled like k, only k.
KeepSpelling(in, k) ==
    [j \in {j \in DOMAIN in : ToLower(j) # ToLower(k) \/ j = k} |-> in[j]]

(* When the range loop returns, what it returns is the policy of the input, *)
(* whichever order the Go runtime visited the keys in: the early return on *)
(* an invalid value, the per-key case arms and the account default after   *)
(* the loop together give the spec's order-free result.                    *)
ParseMatchesPolicy ==
    pc = "returned" /\ CaseDistinct(input) => result = BucketClassPolicy(input)

(* A map may carry one key in two spellings ("bucketUnitType" and          *)
(* "BUCKETUNITTYPE"); both reach the same case arm, and which is visited   *)
(* last depends on the runtime's random map order.  Whatever the order,    *)
(* the result is the spec's policy of the map with one of the spellings    *)
(* kept: never a blend of the two values with the account default, and    *)
(* never an error that neither spelling alone would give.                  *)
SpellingsResolve ==
    pc = "returned" /\ ~CaseDistinct(input) =>
        \E k \in DOMAIN input : result = BucketClassPolicy(KeepSpelling(input, k))
=============================================================================
