----------------------- MODULE MCAccessClassParser -----------------------
(***************************************************************************)
(* Inputs for AccessClassParser.  MCInputs: every map of one or two keys   *)
(* other than the three whose arms disagree with the policy (a valid and a *)
(* capitalised value, each boolean word and a non-boolean, a period that   *)
(* parses and one that does not, keys the parser ignores).  SingleKey     *)
(* gives one key alone; MCGrantAccess uses it for the three keys.          *)
(***************************************************************************)
EXTENDS AccessClassParser

Tok(s)  == [s |-> s, caps |-> FALSE]
Caps(s) == [s |-> s, caps |-> TRUE]
Addr(s, ok) == [s |-> s, ip |-> ok]

\* Texts ParseUint accepts, with their words: a period that fits, zero, the
\* largest whose nanoseconds fit in an int64 Duration, the next one, and the
\* largest uint64.
MCUintText == ("500" :> Word(500)) @@ ("0" :> Word(0))
              @@ ("9223372036854" :> <<23286, 31696, 2147, 0>>)
              @@ ("9223372036855" :> <<23287, 31696, 2147, 0>>)
              @@ ("18446744073709551615" :> <<65535, 65535, 65535, 65535>>)

ValuesOf(lk) ==
    CASE lk = "bucketunittype"   -> {Caps("storageaccount"), Tok(""), Tok("bogus")}
      [] lk = "signedprotocol"   -> {Tok("https"), Tok("https,http")}
      [] lk = "signedipfield"    ->
            {[ips |-> <<Addr("10.0.0.1", TRUE)>>],
             [ips |-> <<Addr("10.0.0.1", TRUE), Addr("10.0.0.9", TRUE)>>],
             [ips |-> <<Addr("host", FALSE)>>]}
      [] lk = "validationperiod" -> {Tok("500"), Tok("-5")}
      [] lk \in DOMAIN TriBoolFields -> {Caps("false"), Tok("true"), Tok("maybe")}
      [] OTHER -> {Caps("acct")}

Vals(k) == ValuesOf(ToLower(k))

DisputedKeys ==
    {"signedprotocol", "signedipfield", "allowcontainersignedresourcetypefield"}

Keys ==
    {Tok(lk) : lk \in (DOMAIN TriBoolFields \cup DOMAIN StringFields
                       \cup {"bucketunittype", "validationperiod", "enablesetimmutability"})
                      \ DisputedKeys}
    \cup {Caps("enablewrite")}

\* Every map of one key, and of two keys distinct up to case.
MCInputs ==
    UNION {{(k :> v) : v \in Vals(k)} : k \in Keys}
    \cup UNION { {(k1 :> v1) @@ (k2 :> v2) : v1 \in Vals(k1), v2 \in Vals(k2)} :
                 <<k1, k2>> \in {ks \in Keys \X Keys : ToLower(ks[1]) # ToLower(ks[2])} }

SingleKey(lk) == {(Tok(lk) :> v) : v \in ValuesOf(lk)}
=============================================================================
