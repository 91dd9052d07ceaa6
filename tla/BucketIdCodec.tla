---------------------------- MODULE BucketIdCodec ----------------------------
(***************************************************************************)
(* types.BucketID.Encode and types.DecodeToBucketID (pkg/types/bucketid.go) *)
(* as seen by their callers.  A bucket ID is a string; the model keeps of  *)
(* it the class of strings DecodeToBucketID treats alike:                  *)
(*   - the string Encode returns for a URL (json.Marshal of the fixed      *)
(*     struct, then base64.StdEncoding): one string per URL;              *)
(*   - any other string that decodes to the same struct: the base64 with   *)
(*     line breaks (DecodeString skips '\r' and '\n') or non-zero padding  *)
(*     bits (not checked outside strict mode), the JSON with other         *)
(*     whitespace, key order, key case (Unmarshal matches field names      *)
(*     case-insensitively), \u escapes or extra keys.  The JSON "null" and *)
(*     "{}" decode to the struct of empty fields, whose URL is "";         *)
(*   - a string that is not base64 of a JSON object: Malformed.            *)
(* Subscription and resource group are carried unchanged and left out.    *)
(***************************************************************************)
CONSTANT Malformed   \* a bucket ID string DecodeToBucketID rejects

\* The forms of a decodable ID string.
Forms == {"canonical", "reformatted"}

\* The ID strings of the URLs in urls, and Malformed.
Tokens(urls) == [url: urls, form: Forms] \cup {Malformed}

\* id.Encode(): the one string json.Marshal and StdEncoding produce.
Encode(url) == [url |-> url, form |-> "canonical"]

\* DecodeToBucketID fails: the error of DecodeString or of Unmarshal.
DecodeFails(t) == t = Malformed

\* DecodeToBucketID succeeds: the URL of the decoded struct.
Decode(t) == t.url
=============================================================================
