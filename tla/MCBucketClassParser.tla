----------------------- MODULE MCBucketClassParser -----------------------
(***************************************************************************)
(* Inputs for BucketClassParser: every map of one or two keys, each key    *)
(* with a few values that reach every case arm: a valid value written with *)
(* capitals, a value outside the vocabulary, each boolean word and a       *)
(* non-boolean, an integer and a non-integer, well-formed and malformed    *)
(* tags.  Keys include a capitalised spelling and keys the parser ignores; *)
(* maps of three keys carry the unit type in two spellings.               *)
(***************************************************************************)
EXTENDS BucketClassParser

Tok(s)  == [s |-> s, caps |-> FALSE]
Caps(s) == [s |-> s, caps |-> TRUE]
Part(s) == [s |-> s, pad |-> FALSE]
Pad(s)  == [s |-> s, pad |-> TRUE]

MCIntText == ("7" :> 7) @@ ("-1" :> -1)

TagValues ==
    { EmptyTags,
      [segs |-> <<<<Part("k"), Part("v")>>, <<Pad("k"), Part("w")>>>>], \* "k=v, k =w"
      [segs |-> <<<<Pad(""), Part("v")>>>>],                             \* " =v"
      [segs |-> <<<<Part("k"), Part("v")>>, <<Part("")>>>>] }            \* "k=v,"

ValuesOf(lk) ==
    CASE lk = "bucketunittype" -> {Caps("storageaccount"), Tok(""), Tok("invalid")}
      [] lk = "accesstier"     -> {Caps("cool"), Tok("frozen")}
      [] lk = "skuname"        -> {Caps("premium_lrs"), Tok("standard_zrs")}
      [] lk = "kind"           -> {Caps("blockblobstorage"), Tok("storagev3")}
      [] lk = "createstorageaccount" -> {Caps("false"), Tok("true"), Tok("maybe")}
      [] lk \in DOMAIN FlagFields \cup DOMAIN SetTrueFields -> {Caps("true"), Tok("false"), Tok("yes")}
      [] lk \in DOMAIN IntFields -> {Tok("7"), Tok("x")}
      [] lk = "tags" -> TagValues
      [] lk = "virtualnetworkresourceids" -> {[ids |-> <<"vnet1", "vnet2">>]}
      [] OTHER -> {Caps("acct")}

LowerKeys ==
    DOMAIN EnumFields \cup DOMAIN FlagFields \cup DOMAIN SetTrueFields
      \cup DOMAIN StringFields \cup DOMAIN IntFields
      \cup {"createstorageaccount", "tags", "virtualnetworkresourceids",
            "containername", "location"}

Keys == {Tok(lk) : lk \in LowerKeys} \cup {Caps("bucketunittype"), Caps("storageaccountname")}

Vals(k) == ValuesOf(ToLower(k))

\* The unit type in two spellings, with createstorageaccount: the unit
\* decides the account default, which a later spelling may undo.
DupInputs ==
    { (Tok("bucketunittype") :> u1) @@ (Caps("bucketunittype") :> u2)
        @@ (Tok("createstorageaccount") :> c) :
      u1 \in Vals(Tok("bucketunittype")), u2 \in Vals(Tok("bucketunittype")),
      c \in Vals(Tok("createstorageaccount")) }

\* Every map of one key, and of two keys distinct up to case.
MCInputs ==
    UNION {{(k :> v) : v \in Vals(k)} : k \in Keys}
    \cup UNION { {(k1 :> v1) @@ (k2 :> v2) : v1 \in Vals(k1), v2 \in Vals(k2)} :
                 <<k1, k2>> \in {ks \in Keys \X Keys : ToLower(ks[1]) # ToLower(ks[2])} }
    \cup DupInputs

=============================================================================
