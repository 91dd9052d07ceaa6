--------------------------- MODULE MCProvisioner ---------------------------
(* Instantiates Provisioner for TLC: up to two handlers, two bucket names, *)
(* one account and the parameter maps that reach every branch of the      *)
(* create path.                                                           *)
EXTENDS Provisioner, TLC

CONSTANTS a1, n1, h1, h2

\* handlers run the same code and are interchangeable
HandlerSymmetry == Permutations({h1, h2})

\* A container bucket in a named account and one with no account name (its
\* container step always fails), both with createstorageaccount unset, so
\* CreateAccount is false; a storage-account bucket on that account, whose
\* createstorageaccount the parser defaults to true (the same account: its
\* ID is shared by every name); and a map whose bucketunittype does not
\* parse.
MCParams ==
    { [unit |-> "container", acct |-> a1, create |-> FALSE],
      [unit |-> "container", acct |-> "", create |-> FALSE],
      [unit |-> "storageaccount", acct |-> a1, create |-> TRUE],
      [unit |-> "invalid", acct |-> "", create |-> FALSE] }

\* an ID whose URL names a blob inside a container
MCForeignIDs == {[acct |-> a1, cont |-> n1, blob |-> "b"]}

\* The default endpoint, and one with no address that parseEndpoint
\* rejects.
MCEndpoints ==
    { [proto |-> "unix", addr |-> "/var/lib/cosi/cosi.sock"],
      [proto |-> "unix", addr |-> ""] }

\* For the liveness runs: one container bucket and one storage-account
\* bucket on the same account, so a retried create meets a concurrent create
\* and a delete that removes its container or its account.
MCRetryParams ==
    { [unit |-> "container", acct |-> a1, create |-> FALSE],
      [unit |-> "storageaccount", acct |-> a1, create |-> TRUE] }

=============================================================================
