# TLA+ models of the Azure COSI driver

This directory holds TLA+ models of the Azure COSI driver in `../src`. The models are checked with TLC.

## The system

The driver is one Go process. It serves two gRPC services on a unix socket (`pkg/driver/run.go`, `grpcserver.go`):

- **Identity** (`pkg/server/identity`) returns the driver name. It holds no state, but its RPC is served by the same gRPC server, so it is in flight like any other.
- **Provisioner** (`pkg/server/provisioner/provisioner.go`) handles create, delete, grant and revoke requests.
  - It keeps an in-memory registry in two maps. `nameToBucketMap` maps a bucket name to its ID and parameters. `bucketIDToNameMap` maps an ID back to its name.
  - A `sync.RWMutex` guards the maps. The code only ever takes `RLock`, including around writes.
  - Every RPC runs on its own goroutine, so handlers interleave at each map access and each cloud call.
- **azureutils** turns the requests into Azure calls:
  - It parses the BucketClass and BucketAccessClass parameters.
  - It creates and deletes a storage account or a blob container through `EnsureStorageAccount`, `DeleteStorageAccount` and the blob SDK.
  - It builds the bucket ID as base64(JSON{subscriptionID, resourceGroup, url}) (`pkg/types/bucketid.go`).
  - It builds SAS URLs for grants.

How the parts interact:

- `DriverCreateBucket`:
  1. Looks the name up in the registry, then releases the lock.
  2. Calls `azureutils.CreateBucket`, which ensures the account and then, for a container bucket, creates the container.
  3. Writes both maps.
- `DriverDeleteBucket`:
  1. Calls `azureutils.DeleteBucket` first.
  2. Reads `bucketIDToNameMap` without any lock.
  3. Removes both entries.
- The registry is not persisted. A restarted process starts empty, while the Azure resources remain.
- On SIGTERM, a signal goroutine calls `GracefulStop`, which stops new RPCs and waits for the in-flight ones. It then sleeps, calls `Stop`, sleeps again and exits. `main` returns as soon as the server's `Serve` has returned.
- `DriverGrantBucketAccess` parses the access class, decodes the ID, fetches the account key and signs a SAS. It reads no registry state. `DriverRevokeBucketAccess` does nothing.

## Inventory: state, operations, hard behaviours

| Component | State | Operations | Hard behaviours |
|---|---|---|---|
| Provisioner registry | the two maps; per-handler progress | create (lookup, backend, insert name, insert ID), delete (backend, lookup, remove name, remove ID), grant, revoke | writes under a shared lock; check-then-act on the name; an unlocked read in delete; restart loses the registry |
| Storage backend | accounts and containers in Azure | ensure account, create container, delete account, delete container | account URL as the ID of every bucket on that account; deleting an account removes its containers; an "already exists" error is never recognised (`container_ops.go:189`); the account leaks when the container step fails |
| Parameter parsers | none (pure) | parseBucketClassParameters, parseBucketAccessClassParameters | `signedprotocol` and `signedipfield` always fail; the container resource-type key sets the object flag |
| Bucket ID codec | none (pure) | Encode, Decode | Decode accepts `null` and `{}`, and many strings for one ID (non-strict base64, case-insensitive JSON keys), so `encode(decode(x)) = x` fails |
| SAS construction (grant) | none (pure) | auth checks, parse, decode, key retrieval, account or container SAS | the SAS kind follows the access class, not the URL; container tags become the filter permission; expiry in int64 nanoseconds overflows; error kinds |
| Server lifecycle and bootstrap | main, server and signal goroutine | build the servers (kube and cloud config), start (endpoint, socket, listen), serve, signal, stop, exit | a failed start exits with status 0; GracefulStop waits for in-flight RPCs |

## Modules

### `Provisioner.tla` (with `MCProvisioner.tla`)

This module models `DriverCreateBucket` and `DriverDeleteBucket` for a set of concurrent `Handlers`. The Azure back end underneath them is part of the model.

State:

| Variable | Models |
|---|---|
| `nameToBucketMap`, `bucketIDToNameMap` | the two registry maps |
| `accounts`, `containers` | the Azure resources |
| `pc[h]`, `req[h]`, `bid[h]`, `found[h]` | each handler's position in its handler, its request, and the locals it keeps between steps |
| `restarts`, `sig` | the processes started so far, and the signal goroutine's position |
| `boot`, `lastExit` | how far `main` has got in starting the process, and the exit status and cause of the last process |

Data abstractions:

- A bucket's URL is a record `[acct, cont, blob]`. Its ID string is a `BucketIdCodec` token: `Encode(url)` is the string the create returns. A delete may carry that string, a `"reformatted"` string that decodes to the same URL, or `Malformed`.
- `bucketIDToNameMap` is keyed by the ID strings the creates returned. `DeleteBackend` decodes the string, while `DeleteLookup` looks the raw string up.
- `ForeignIDs` stand for the URLs of buckets this driver never created.
- The start-up environment (`BootEnv`) is reduced to which configuration sources load. `Endpoints` is the set of `--endpoint` flag values.
- Parameters are abstracted to the bucket unit type, the account name, and `create`, the `AccountOptions.CreateAccount` that `getAccountOptions` derives from `createstorageaccount` (`Params`). That flag is false when `createstorageaccount` is unset, except for a storage-account bucket, which the parser defaults to true.
- `EnsuredAccount` is the account `EnsureStorageAccount` returns:
  - a named account only when it exists or `CreateAccount` is set (otherwise the key lookup fails, as the repository's tests expect);
  - any account, existing or new, when no account is named.
- The storage accounts may exist before the driver starts (`Init` draws `accounts` from all subsets of `Accounts`). No container exists at first.

Each action is one atomic step of the code:

| Action | Code |
|---|---|
| `ReceiveCreate` | the start of `DriverCreateBucket` |
| `CreateLookup` | the name lookup under RLock and its three replies |
| `CreateEnsure` | `CreateBucket` up to `EnsureStorageAccount`: its failure, or `CreateEnsureOK`, the success, where a storage-account bucket gets its ID |
| `CreateContainer` | `createContainerBucket` and `createAzureContainer`: their failure, or `CreateContainerOK`, the success |
| `CreateInsertName`, `CreateInsertID` | the two map writes |
| `ReceiveDelete`, `DeleteBackend` | the start of `DriverDeleteBucket` and `DeleteBucket` |
| `DeleteLookup`, `DeleteRemoveName`, `DeleteRemoveID` | the unlocked read and the two deletes |
| `ReceiveStateless`, `DriverGetInfo`, `DriverRevokeBucketAccess` | an identity or revoke RPC arrives; `DriverGetInfo` answers with `DriverName` (`driver.DriverName`, never empty, so its `InvalidArgument` branch is dead); `DriverRevokeBucketAccess` answers with an empty response. Neither touches state, but `GracefulStop` waits for them |
| `Restart` | the pod is killed at any step (a crash, or SIGKILL at the end of the grace period) and `NewProcess` starts again with an empty registry, while the Azure resources are unchanged. `restarts` counts the new processes up to the bound `MaxRestarts` |
| `NewServers` | `main` up to `RunServerWithSignalHandler`: `NewProvisionerServer` (`GetKubeClient` with the fallbacks of `getKubeConfig`, and `GetAzureCloudProvider` with the secret first and then the credential file) and `NewIdentityServer`. A failure goes to `klog.Exitf`: exit status 255 (`Terminate`) |
| `StartServers` | `StartServers`: `parseEndpoint` (`EndpointOK`), then `startServer` (removing a stale socket, `net.Listen`, the `Serve` goroutine). Any error makes `RunServerWithSignalHandler` return nil, so `main` returns with status 0 (`StartServerFails`). On success RPCs are dispatched (`Serving`) |
| `Signal` | SIGTERM reaches the signal goroutine of `RunServerWithSignalHandler`, which calls `GracefulStop`. The listener closes, so `ReceiveCreate`, `ReceiveDelete` and `ReceiveStateless` are disabled from here on (`sig` is no longer `"none"`). Before the handler is registered, SIGTERM kills the process (`Restart`) |
| `GracefulStopReturns` | `GracefulStop` returns once no handler is in flight; `Serve` returns with it and releases the WaitGroup |
| `StopServer`, `Exit` | the sleep and `server.Stop()`. The process then exits: main's `Wait` returns (status 0), or `os.Exit(1)` runs after the second sleep. `NewProcess` starts again |

Cloud failures are nondeterministic. Any backend step may reply with an error instead of changing state.

### Runs

| Run | cfg | Expect | Shows |
|---|---|---|---|
| provisioner_registry | `MCProvisioner.cfg` | pass | `TypeOK` over every interleaving of two handlers, a restart, start-up and shutdown. A handler that writes the registry holds an encoded bucket ID. This run fires every action of the module |
| provisioner_writers | `MCProvisionerWriters.cfg` | violation | `WriterExclusion`: two handlers are inside the map-write section at once, because writes take RLock (`provisioner.go:105,133`) |
| provisioner_create_race | `MCProvisionerCreateRace.cfg` | violation | `InsertDoesNotOverwrite`: concurrent creates of one name both pass the lookup and the later insert overwrites the earlier record (`provisioner.go:83`) |
| provisioner_stale_delete | `MCProvisionerStaleDelete.cfg` | violation | `DeleteRemovesOwnRecord`: a delete reads the name for its ID without the lock. A create of that name that passed its lookup earlier then inserts its own record. The delete removes that new record (`provisioner.go:131`) |
| provisioner_account_delete | `MCProvisionerAccountDelete.cfg` | violation | `RegistryBucketsExist`: with one handler, a delete removes a bucket whose registry record stays, and a retried create then returns a deleted bucket's ID. This happens three ways: <br>• deleting a storage-account ID deletes the container buckets in that account (`storage_account_ops.go:35`); <br>• two storage-account buckets on one account share an ID, because the ID is the account URL (`storage_account_ops.go:51`); <br>• a delete whose ID string is another encoding of a registered ID deletes the bucket, but `bucketIDToNameMap` is looked up by the raw string and misses it (`provisioner.go:131`, `bucketid.go:27`). <br>TLC reports the shortest trace. Each cause was confirmed alone by restricting the deletes. |
| provisioner_retry | `MCProvisionerRetry.cfg` | pass | `RetriedCreateAnswered` under `FairSpec`: one handler (the sidecar sends one request at a time), no restart, and cloud calls that eventually succeed. A valid create that is retried forever, while its account stays available (it exists, or `CreateAccount` may make it), is answered infinitely often. The answer is either a record with its parameters (success) or, with AlreadyExists, a record with other parameters. A container create whose named account is absent, and not to be created, fails forever in the code too; the antecedent excludes it |
| provisioner_shutdown | `MCProvisionerShutdown.cfg` | violation | `SignalEndsProcess` under `ShutdownSpec`: after SIGTERM, the process eventually exits. TLC finds a DeleteBucket backend call in flight when the signal arrives; it never returns, and the process never exits. `GracefulStop` waits for every RPC, and the timed `Stop`/`os.Exit(1)` starts only after it returns (`run.go:58`) |
| provisioner_startup | `MCProvisionerStartup.cfg` | violation | `StartupFailureReported`: a process that could not start exits with a non-zero status. When `StartServers` fails, `RunServerWithSignalHandler` returns nil, so `main` skips `klog.Exitf` and exits with status 0 (`run.go:44`). A bad endpoint is not even logged |
| provisioner_retry_restart | `MCProvisionerRetryRestart.cfg` | violation | The same property with one restart (`MaxRestarts = 1`). In TLC's trace, `a1` exists from the start and the process crashes between the container create and the registry insert. After the restart, the container exists and the registry is empty, and every retry fails, because the "ResourceExistsError" text is never matched (`container_ops.go:189`) |

### `Registry.tla`: the abstract registry

`Registry` states what the provisioner promises its callers (spec.md 3, 4.1):

- a name maps to at most one record;
- a pending create of a name with no record may store, in one step, a record carrying the parameters of that create (`Register`);
- a pending delete of an ID may remove, in one step, the record that carries that ID (`Unregister`);
- a restart empties the registry and drops every pending call (`Reset`).

`Provisioner` instantiates it as `AbstractRegistry` with a refinement mapping:

- `registry` is `nameToBucketMap`;
- `creating` and `deleting` are the requests handlers are between receipt and reply.

`RegistryRefinement` is `AbstractRegistry!Spec`, checked as a PROPERTY in the `provisioner_retry` run, where calls are served one at a time. Each concrete step maps to one abstract step or to a stutter:

- `CreateInsertName` is `Register`;
- `DeleteRemoveName` is `Unregister`;
- receipts are `AskCreate`/`AskDelete`;
- replies are `EndCreate`/`EndDelete`.

With two handlers the refinement fails: the create race makes an insert fill a name that already has a record. That is the `InsertDoesNotOverwrite` finding, so it gets no run of its own. The refinement run has no restart, because the same run checks liveness.

### Bounds (Provisioner)

The model has:

- 2 handlers, so two requests can interleave;
- 2 names;
- 1 account;
- 4 parameter sets: a container on `a1` and a container with no account (both with `CreateAccount` false), a storage account `a1` (`CreateAccount` true), and an invalid unit;
- `a1` existing from the start or not;
- one foreign ID (a blob URL), a malformed ID, and every ID string in both forms;
- two endpoints: the default, and one without an address.

Why these bounds are enough:

- Every finding needs only two handlers or two names on one account.
- The parameter sets cover every branch of `CreateBucket`: container, account, invalid, and an empty account name.
- The passing registry run allows one restart (`MaxRestarts = 1`), so states with Azure resources but no registry entries are reached. A further restart does the same again: it empties the registry and leaves the backend as it is.
- The liveness runs use one handler, because with two the create race breaks the property before a restart matters. Its counterexample is the `InsertDoesNotOverwrite` trace, followed by a stale delete that leaves the container without a record.
- Handlers are symmetric.
- A start-up failure, like a signal, uses the restart bound: a process that can no longer be restarted only starts successfully.

The registry run has 3,230,937 distinct states and takes about 45 seconds. Its one restart is a crash, a failed start or a signalled shutdown. The retry run has 1,030 states, with strong-fairness conditions for each valid request.

Larger instances were tried and are out of reach:

- A second account, with a storage-account parameter set that names no account (so `EnsureStorageAccount` may return either), did not finish the registry run in 10 minutes.
- Two handlers in the retry run, without the refinement (which the create race breaks), did not finish in 30 minutes: each handler adds a strong-fairness condition per valid request.

### `BucketClassParser.tla` and `AccessClassParser.tla` (with their MC modules)

These modules model `parseBucketClassParameters`, `ConvertTagsToMap` and `parseBucketAccessClassParameters`.

Each parser is a small state machine:

| Model | Code |
|---|---|
| `input` | the parameters map |
| `todo` | the keys the `range` loop has not visited yet |
| `result` | the `BCParams`/`BACParams` being built, or `ParseError` after an error return |
| `Iterate(k)` | one loop iteration on any unvisited key, because Go randomises map order; an invalid value returns at once |
| `Finish` | the code after the loop (the storage-account default for BucketClass) |

Data abstractions:

- A key or value is a token `[s, caps]`: `s` is its lower-case text and `caps` says whether it was written with capitals. `strings.ToLower` gives `s`, and `EqualFold` compares `s`. The `signedprotocol` switch is case-sensitive.
- A value the code splits is given by its parts:
  - a tags value by its segments and `=`-parts, each part with its trimmed text;
  - an IP range by its `-`-parts, each flagged with whether `net.ParseIP` accepts it.
- `strconv.Atoi` and `ParseUint` are tables of the texts they accept (`IntText`, `UintText`).

Each module also defines the policy of spec.md 4.2 without the loop (`BucketClassPolicy`, `AccessPolicy`):

- Keys match case-insensitively, and unknown keys are ignored.
- Booleans follow "true"/"false" and otherwise keep the default.
- Enumerated and integer fields are errors outside their vocabulary.
- The defaults are the spec's.
- The IP-range and protocol forms are the ones the arms' own error messages name.

| Run | cfg | Expect | Shows |
|---|---|---|---|
| bucketclass_parse | `MCBucketClassParser.cfg` | pass | `ParseMatchesPolicy`: for every one- and two-key map (29 keys, including ignored keys and capitalised spellings) and every iteration order, the parser returns the spec's policy. This covers the account default after the loop and last-wins tags. `SpellingsResolve`: with the unit type in two spellings, the result is the policy of one spelling (`cosi_api_ops.go:169`) |
| grant_access | `MCGrantAccess.cfg` | pass | `AccessParseMatchesPolicy`: the same holds for access classes, except for the three keys below. The parser runs inside the grant (see `GrantAccess.tla`). |
| (in grant_disputed) | `MCGrantDisputed.cfg` | violation | The three disputed keys (`DisputedKeys`), given in grant requests, give a reply that differs from the spec's. A valid `signedprotocol` is rejected, because the arm returns InvalidArgument after its switch (`cosi_api_ops.go:362`). Any `signedipfield` is rejected (`:383`). `allowcontainersignedresourcetypefield=false` on a storage-account class clears the object scope and leaves the container scope on (`:446`). |

Why maps of two keys are enough:

- Every cross-key dependency in the code is between two keys: the unit type with `createstorageaccount`, an error with any other key, and the two resource-type keys.
- The dependency between iterations is the accumulated record, so each order of two keys is explored.

`ParseMatchesPolicy` is checked on maps whose keys are distinct up to case. The run also has three-key maps that carry the unit type in two spellings, together with `createstorageaccount`. On those maps, `SpellingsResolve` checks that whatever the map order, the result is the policy of the map with one of the two spellings kept. So the runtime's random order picks between the two values. It never blends one value with the account default the other would give, and it never gives an error that neither spelling alone would give. The spec does not say which spelling wins.

A BucketClass parse error reaches the caller as gRPC `Unknown` (`cosi_api_ops.go:84`), not the `InvalidArgument` the spec names. This is visible in one line and is not model-checked.

### `GrantAccess.tla` and `Word64.tla` (with `MCGrantAccess.tla`)

`GrantAccess` composes `DriverGrantBucketAccess` with the access-class parser: it `EXTENDS AccessClassParser` and runs the parser's `Next` as its own `ParseStep`. It models `CreateBucketSASURL`, `createContainerSASURL` and `createAccountSASURL`. A grant reads no registry state, so it is checked without the provisioner.

| Action | Code |
|---|---|
| `GrantInit` | a request: its parameters, bucket ID, authentication type, and whether the key retrieval will succeed |
| `CheckAuth` | the `parameters == nil` check (an empty proto3 map arrives as nil) and the authentication-type checks |
| `ParseStep`, `ParseReturned` | `parseBucketAccessClassParameters`, one loop iteration per step, and its error return |
| `DecodeID` | the `DecodeToBucketID` call: `Malformed` fails. An ID that decodes to `null` has empty fields, and a reformatted ID decodes like the canonical one |
| `GetKey` | `GetStorageAccesskey` for the URL's account, with nondeterministic failure |
| `Sign` | the switch on the class's `bucketUnitType`, then the container or account SAS |

Data abstractions:

- A SAS is abstracted to what it grants: the scope (account, and container for a container SAS), the set of permission letters, the account resource types, and the window (start and length). The SDK's string encoding and the HMAC are left out.
- An error is its gRPC code. A `status.Error` keeps its code, and any other Go error arrives as `Unknown`.
- `Word64` represents a uint64/int64 as four 16-bit limbs, because TLC's integers are 32-bit. `MillisToNanos` is `time.Millisecond * time.Duration(u)`: a multiplication by 15625 and then by 64, modulo 2^64. `SignedValue` reads the result as an int64. `time.Time.Add` adds the length to the start without wrapping, so the window is the start and this signed length.

The reference `GrantPolicy` is the grant of spec.md 4.1, 4.4, 7 and 8:

- the auth checks come first, then decode, key and parse, in the spec's order;
- the scope comes from the URL;
- tag and filter are separate letters;
- the length is `period * 10^6` exactly;
- the error kinds are those of the spec's taxonomy.

| Run | cfg | Expect | Shows |
|---|---|---|---|
| grant_access | `MCGrantAccess.cfg` | pass | `GrantMatchesPolicy`: on every request whose class fits its bucket, the reply is the spec's SAS, or an error exactly when the spec gives one. This holds for every access-class map of the parser run and every iteration order, every auth type, a failing key, and malformed, reformatted and `null` IDs. The error kind is not compared here. `GrantTypeOK` and `AccessParseMatchesPolicy` are checked too. |
| grant_disputed | `MCGrantDisputed.cfg` | violation | `GrantAsSpecified`, the same property with error kinds, on `MCDisputedRequests`. Each of these requests violates it except two kinds. The period 9223372036854 ms, the largest whose nanoseconds fit in an int64, agrees with the spec. So do the container resource-type key set to `true` or to a non-boolean, which leave the scopes at their defaults. The violating requests are: <br>• a storageaccount class on a container bucket, which gets an account-wide SAS (`cosi_api_ops.go:156`); <br>• the default class on an account bucket, which fails; <br>• `enabletags=true` on a container, which grants the filter letter (`container_ops.go:220`); <br>• periods 9223372036855 and 2^64-1, whose window wraps (`container_ops.go:223`; 2^64-1 ends 1 ms before the start); <br>• IAM with no parameters, which gets InvalidArgument, where spec.md 8 says Unimplemented (`provisioner.go:146`); <br>• a malformed ID, a `null` ID and a failing key, which reach the sidecar as `Unknown`, where the spec says InvalidArgument or Internal; <br>• the three disputed access-class keys (see the parser runs above). <br>TLC reports one; `tlc -continue` lists all fifteen violating requests. |

The inputs cover every parser input map, with two container IDs (with and without a blob) and the account ID. The period texts are 500, 0, and the three around the int64 boundary of `Duration`.

### Fairness

`FairSpec` in `Provisioner` assumes two kinds of fairness. The sidecar's requests and restarts are the environment and are not fair.

- **Weak fairness of every handler step (`Serve(h)`).** Each RPC runs on its own goroutine, dispatched by the gRPC server through the interceptor in `grpcserver.go`. Nothing in a handler blocks, because RLock never waits for another RLock. So a handler that can take a step eventually takes it.
- **Weak fairness of main's start-up steps** (`NewServers`, `StartServers`). With `MaxRestarts = 0` only their successes are enabled.
- **Strong fairness, for each valid create request, of the success of `EnsureStorageAccount` and of the container create.** A cloud call may fail on any attempt, but a call that keeps being possible and keeps being retried is assumed eventually to succeed. This is an assumption about Azure, not a guarantee the code gives: spec.md 5 leaves retries to the caller.
  - The fairness is per request, because a success on another bucket must not count for this one.
  - A permanent condition, such as an existing container, still disables the success and so is not excused.
  - So does a named account that is absent when `CreateAccount` is false. `RetriedCreateAnswered` excludes that case by its antecedent, because the code fails there too.

The liveness property is checked only under these assumptions.

`ShutdownSpec` is used for the shutdown run and assumes less:

- the steps of the signal goroutine and of main, start-up included, are weakly fair, because they are goroutines and their sleeps end;
- a handler's registry steps are weakly fair (`LocalStep`);
- backend calls get no fairness. The code gives them no deadline of its own, `GracefulStop` does not cancel in-flight RPCs, and spec.md 5 leaves timeouts to the caller's context. So a call may never return.

### `BucketIdCodec.tla`

`BucketIdCodec` models `BucketID.Encode` and `DecodeToBucketID` as their callers see them.

- An ID string is abstracted to the class of strings the decoder treats alike: `[url, form]` or `Malformed`.
  - `Encode(url)` is the one string `json.Marshal` and `base64.StdEncoding` produce (`form = "canonical"`).
  - A `"reformatted"` string decodes to the same struct. Examples: line breaks in the base64, which `DecodeString` skips; non-zero padding bits, which are not checked outside strict mode; other whitespace, key order or key case in the JSON (`Unmarshal` matches field names case-insensitively); extra keys.
  - `null` and `{}` decode to empty fields.
- The byte-level JSON and base64 are not modelled. Callers depend only on which strings decode, and to what.

The codec is used by `Provisioner` (create returns `Encode(url)`, delete decodes) and by `GrantAccess`. Its divergence from spec.md 3 (`encode(decode(x)) = x`) shows up in the `provisioner_account_delete` run.

## Plan (later work)

1. **The account left behind by a failed container create** (`container_ops.go:52`). The model reaches this state: `CreateEnsureOK` adds the account, then `CreateContainer` fails. spec.md 7 only asks that no registry entry is left, and the model shows that it is not. A property that no Azure resource is left would be a claim spec.md does not make, so it is not checked.
2. **Larger instances**: they need a cheaper abstraction of the accounts `EnsureStorageAccount` may return (see Bounds).

## Not modelled

- Reading the kubeconfig, the secret and the credential file: I/O. Only which sources load is modelled (`BootEnv`).
- The generated protobuf JSON code under `vendor/`.
- `parseContainerURL`'s regular expression (`container_ops.go:37`, `145-165`). A URL is the record `[acct, cont, blob]` that the regex extracts from the URLs the driver itself builds. The regex is unanchored, its `(.+)` is greedy and its dots are unescaped. So a foreign URL whose blob path contains `.blob.core.windows.net/` parses with a nonsense account name, which the Azure call then rejects (an `Internal` error, not `InvalidArgument`). Modelling this would mean matching strings character by character, for URLs that the sidecar only ever gets from this driver.
- Logging.
- The logging interceptor of `newCOSIServer`.
- The SAS query-string encoding and its HMAC, and the order of the permission letters: these are in the Azure SDK, which is not vendored here.
- The response payloads of `DriverGetInfo` and `DriverRevokeBucketAccess`: the model keeps only that the RPC is in flight and then answered.
