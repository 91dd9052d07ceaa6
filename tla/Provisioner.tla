---------------------------- MODULE Provisioner ----------------------------
(***************************************************************************)
(* The bucket provisioner of pkg/server/provisioner/provisioner.go with    *)
(* the create and delete paths of pkg/azureutils it calls, run by          *)
(* concurrent gRPC handler goroutines.                                     *)
(*                                                                         *)
(* State: the two registry maps nameToBucketMap and bucketIDToNameMap      *)
(* (in-memory, lost on restart), the storage backend (accounts and         *)
(* containers), and the program counter and locals of every handler.      *)
(*                                                                         *)
(* The registry lock is a sync.RWMutex of which only RLock is ever taken,  *)
(* for reads and for writes alike, so it never excludes anyone: a handler  *)
(* step is cut at every registry access and at every backend call.         *)
(*                                                                         *)
(* A bucket's URL is split into account, container and blob; its bucket ID *)
(* is the string Encode makes of it, and a delete may carry any string     *)
(* that decodes to it (BucketIdCodec).                                     *)
(*                                                                         *)
(* The process serves until SIGTERM; the signal goroutine of               *)
(* RunServerWithSignalHandler (pkg/driver/run.go) then stops the gRPC      *)
(* server, and the process exits and is started again with an empty        *)
(* registry; a crash restarts it at any step.                              *)
(***************************************************************************)
EXTENDS Naturals, FiniteSets, BucketIdCodec

CONSTANTS
    Handlers,     \* concurrent gRPC handler goroutines
    Names,        \* bucket names sent by the COSI sidecar
    Accounts,     \* storage account names
    Params,       \* parameter maps: [unit, acct, create] records, see ParamsOK
    NilParams,    \* a request whose parameter map is empty (nil on the wire)
    ForeignIDs,   \* delete requests for IDs this driver never returned
    NoBucket, NoName, NoID,
    MaxRestarts,  \* how many times the driver process may be restarted
    Endpoints,    \* the --endpoint flags a process may start with: [proto, addr]
    NoExit

\* A parameter map, abstracted to what the create path reads from it:
\* bucketunittype, storageaccountname, and the AccountOptions.CreateAccount
\* that getAccountOptions derives from createstorageaccount (false when it
\* is unset, except for a storage-account bucket, which the parser defaults
\* to true). Distinct records are maps that reflect.DeepEqual tells apart.
ParamsOK ==
    Params \subseteq [unit: {"container", "storageaccount", "invalid"},
                      acct: Accounts \cup {""}, create: BOOLEAN]
ASSUME ParamsOK

\* The URL of a bucket: https://<acct>.blob.core.windows.net/<cont>/<blob>
BucketIDs == [acct: Accounts, cont: Names \cup {""}, blob: {""}]
AccountURL(a) == [acct |-> a, cont |-> "", blob |-> ""]
ContainerURL(a, n) == [acct |-> a, cont |-> n, blob |-> ""]

\* The ID strings DriverCreateBucket returns: one per URL.
IDs == {Encode(x) : x \in BucketIDs}

Record == [id: IDs, params: Params]

VARIABLES
    nameToBucketMap,    \* name -> bucketDetails or NoBucket
    bucketIDToNameMap,  \* bucket ID -> name or NoName
    accounts,           \* storage accounts that exist
    containers,         \* <<account, container>> pairs that exist
    pc,                 \* handler -> step it is about to take
    req,                \* handler -> request being served
    bid,                \* handler -> bucket ID produced by the backend
    found,              \* handler -> name DeleteBucket found for the ID
    restarts,           \* restarts of the driver process so far
    sig,                \* the signal goroutine: "none" before SIGTERM, then
                        \* "graceful", "sleeping", "stopped"
    boot,               \* main: "servers" (building the servers), "start"
                        \* (StartServers), "serving"
    lastExit            \* how the last process ended: [code, failed], NoExit

registry == <<nameToBucketMap, bucketIDToNameMap>>
backend == <<accounts, containers>>
locals == <<pc, req, bid, found>>
lifecycle == <<restarts, sig, boot, lastExit>>
vars == <<registry, backend, locals, lifecycle>>

Idle == [op: {"none"}]
CreateReq == [op: {"create"}, name: Names, params: Params \cup {NilParams}]
DeleteReq == [op: {"delete"}, id: Tokens(BucketIDs \cup ForeignIDs)]
StatelessReq == [op: {"info", "revoke"}]

TypeOK ==
    /\ nameToBucketMap \in [Names -> Record \cup {NoBucket}]
    /\ bucketIDToNameMap \in [IDs -> Names \cup {NoName}]
    /\ accounts \subseteq Accounts
    /\ containers \subseteq Accounts \X Names
    /\ pc \in [Handlers -> {"idle", "create", "ensure", "container",
                            "insertName", "insertID", "delete",
                            "delLookup", "delRemoveName", "delRemoveID", "answer"}]
    /\ req \in [Handlers -> Idle \cup CreateReq \cup DeleteReq \cup StatelessReq]
    /\ \A h \in Handlers :
          pc[h] \in {"insertName", "insertID"} => bid[h] \in IDs
    /\ found \in [Handlers -> Names \cup {NoName}]
    /\ restarts \in 0..MaxRestarts
    /\ sig \in {"none", "graceful", "sleeping", "stopped"}
    /\ boot \in {"servers", "start", "serving"}
    /\ lastExit \in {NoExit} \cup [code: {0, 1, 255}, failed: BOOLEAN]

EmptyNameMap == [n \in Names |-> NoBucket]
EmptyIDMap == [x \in IDs |-> NoName]
IdleHandlers == [h \in Handlers |-> "idle"]
NoRequests == [h \in Handlers |-> [op |-> "none"]]

Init ==
    /\ nameToBucketMap = EmptyNameMap
    /\ bucketIDToNameMap = EmptyIDMap
    /\ accounts \in SUBSET Accounts
    /\ containers = {}
    /\ pc = IdleHandlers
    /\ req = NoRequests
    /\ bid = [h \in Handlers |-> NoID]
    /\ found = [h \in Handlers |-> NoName]
    /\ restarts = 0
    /\ sig = "none"
    /\ boot = "servers"
    /\ lastExit = NoExit

Goto(h, step) == pc' = [pc EXCEPT ![h] = step]

\* The handler returns its response to the sidecar.
Reply(h) ==
    /\ Goto(h, "idle")
    /\ req' = [req EXCEPT ![h] = [op |-> "none"]]

-----------------------------------------------------------------------------
(* DriverCreateBucket                                                      *)

\* The Serve goroutine accepts RPCs from StartServers on until GracefulStop
\* closes the listener.
Serving == boot = "serving" /\ sig = "none"

\* The gRPC server dispatches a DriverCreateBucketRequest to handler h.
ReceiveCreate(h) ==
    /\ pc[h] = "idle"
    /\ Serving
    /\ \E n \in Names, p \in Params \cup {NilParams} :
          req' = [req EXCEPT ![h] = [op |-> "create", name |-> n, params |-> p]]
    /\ Goto(h, "create")
    /\ UNCHANGED <<registry, backend, bid, found>>

\* Mutant: the existence test inverted, so a name with no record is refused
\* and one with a record goes on to the backend.
CreateLookupInverted(h) ==
    LET p == req[h].params
        rec == nameToBucketMap[req[h].name]
    IN /\ pc[h] = "create"
       /\ \/ p = NilParams /\ Reply(h)
          \/ p # NilParams /\ rec = NoBucket /\ Reply(h)
          \/ p # NilParams /\ rec # NoBucket /\ Goto(h, "ensure") /\ UNCHANGED req
       /\ UNCHANGED <<registry, backend, bid, found>>

\* Nil-parameter check and the idempotency lookup under RLock: an equal
\* record answers with its ID, a different one with AlreadyExists.
CreateLookup(h) ==
    LET n == req[h].name
        p == req[h].params
        rec == nameToBucketMap[n]
    IN /\ pc[h] = "create"
       /\ \/ p = NilParams /\ Reply(h)
          \/ /\ p # NilParams /\ rec # NoBucket /\ rec.params = p
             /\ Reply(h)
          \/ /\ p # NilParams /\ rec # NoBucket /\ rec.params # p
             /\ Reply(h)
          \/ /\ p # NilParams /\ rec = NoBucket
             /\ Goto(h, "ensure")
             /\ UNCHANGED req
       /\ UNCHANGED <<registry, backend, bid, found>>

\* The account EnsureStorageAccount returns: the named one when it exists or
\* CreateAccount asks for it (without CreateAccount an absent account fails
\* at the key lookup), or when no name is given any account matching the
\* options, existing or new.
EnsuredAccount(p) ==
    IF p.acct # "" THEN {p.acct} \cap (IF p.create THEN Accounts ELSE accounts)
    ELSE Accounts

\* Mutant: the storage-account branch goes on to the insert without the
\* URL of the account it ensured.
CreateEnsureNoAccountURL(h) ==
    LET p == req[h].params
    IN /\ pc[h] = "ensure"
       /\ \/ Reply(h) /\ UNCHANGED <<accounts, bid>>
          \/ \E a \in EnsuredAccount(p) :
                /\ p.unit # "invalid"
                /\ accounts' = accounts \cup {a}
                /\ \/ p.unit = "container" /\ Goto(h, "container")
                   \/ p.unit = "storageaccount" /\ Goto(h, "insertName")
                /\ UNCHANGED <<req, bid>>
       /\ UNCHANGED <<registry, containers, found>>

\* EnsureStorageAccount returns account a: an account bucket is complete
\* here, its ID the account URL; a container bucket goes on to create its
\* container.
CreateEnsureOK(h) ==
    LET p == req[h].params
    IN /\ pc[h] = "ensure"
       /\ p.unit # "invalid"
       /\ \E a \in EnsuredAccount(p) :
             /\ accounts' = accounts \cup {a}
             /\ \/ p.unit = "container" /\ Goto(h, "container")
                   /\ UNCHANGED bid
                \/ /\ p.unit = "storageaccount"
                   /\ Goto(h, "insertName")
                   /\ bid' = [bid EXCEPT ![h] = Encode(AccountURL(a))]
       /\ UNCHANGED <<registry, containers, req, found>>

\* azureutils.CreateBucket: parse the parameters (an invalid unit type is an
\* error), then EnsureStorageAccount, which may fail.
CreateEnsure(h) ==
    \/ /\ pc[h] = "ensure"
       /\ Reply(h)
       /\ UNCHANGED <<registry, backend, bid, found>>
    \/ CreateEnsureOK(h)

\* createAzureContainer succeeds: an account name and key are given, the
\* account exists and the container does not. The "ResourceExistsError"
\* comparison never matches the SDK's error text, so an existing container
\* is an error like any other.
CreateAzureContainerOK(a, n) ==
    /\ a # ""
    /\ a \in accounts
    /\ <<a, n>> \notin containers

\* createContainerBucket after EnsureStorageAccount: create the container in
\* parameters.storageAccountName (not in the account EnsureStorageAccount
\* returned), then build the ID from the container URL.
CreateContainerOK(h) ==
    LET n == req[h].name
        a == req[h].params.acct
    IN /\ pc[h] = "container"
       /\ CreateAzureContainerOK(a, n)
       /\ containers' = containers \cup {<<a, n>>}
       /\ bid' = [bid EXCEPT ![h] = Encode(ContainerURL(a, n))]
       /\ Goto(h, "insertName")
       /\ UNCHANGED <<registry, accounts, req, found>>

\* Any error of the key lookup or of the container create is returned.
CreateContainer(h) ==
    \/ /\ pc[h] = "container"
       /\ Reply(h)
       /\ UNCHANGED <<registry, backend, bid, found>>
    \/ CreateContainerOK(h)

\* First write of the insert, under RLock: nameToBucketMap[name].
CreateInsertName(h) ==
    /\ pc[h] = "insertName"
    /\ nameToBucketMap' = [nameToBucketMap EXCEPT ![req[h].name] =
                              [id |-> bid[h], params |-> req[h].params]]
    /\ Goto(h, "insertID")
    /\ UNCHANGED <<bucketIDToNameMap, backend, req, bid, found>>

\* Second write, RUnlock, and the reply with the new ID.
CreateInsertID(h) ==
    /\ pc[h] = "insertID"
    /\ bucketIDToNameMap' = [bucketIDToNameMap EXCEPT ![bid[h]] = req[h].name]
    /\ Reply(h)
    /\ bid' = [bid EXCEPT ![h] = NoID]
    /\ UNCHANGED <<nameToBucketMap, backend, found>>

-----------------------------------------------------------------------------
(* DriverDeleteBucket                                                      *)

\* The sidecar deletes a bucket ID: one this driver returned (possibly
\* again, after a lost reply), one of a bucket it never created, a blob URL
\* or a string that does not decode; in the form Encode wrote it or in
\* another form that decodes alike (the ID is an opaque string that the
\* sidecar stores in the Bucket object and sends back).
ReceiveDelete(h) ==
    /\ pc[h] = "idle"
    /\ Serving
    /\ \E x \in Tokens(BucketIDs \cup ForeignIDs) :
          req' = [req EXCEPT ![h] = [op |-> "delete", id |-> x]]
    /\ Goto(h, "delete")
    /\ UNCHANGED <<registry, backend, bid, found>>

\* DeleteStorageAccount: the ARM delete of the account named by the URL,
\* which takes the account's containers with it (deleting an absent account
\* succeeds).
DeleteStorageAccount(a) ==
    /\ accounts' = accounts \ {a}
    /\ containers' = {c \in containers : c[1] # a}

\* DeleteContainerBucket: GetStorageAccesskey needs the account, and the
\* container delete fails on an absent container.
DeleteContainerBucket(x) ==
    /\ x.acct \in accounts
    /\ <<x.acct, x.cont>> \in containers
    /\ containers' = containers \ {<<x.acct, x.cont>>}
    /\ UNCHANGED accounts

\* azureutils.DeleteBucket: decode the ID, parse its URL, reject blobs, then
\* delete the storage account or the container; any error, including a
\* failed backend call, is returned to the sidecar.
DeleteBackend(h) ==
    LET x == Decode(req[h].id)
    IN /\ pc[h] = "delete"
       /\ \/ Reply(h) /\ UNCHANGED backend
          \/ /\ ~DecodeFails(req[h].id) /\ x.blob = ""
             /\ IF x.cont = "" THEN DeleteStorageAccount(x.acct)
                               ELSE DeleteContainerBucket(x)
             /\ Goto(h, "delLookup")
             /\ UNCHANGED req
       /\ UNCHANGED <<registry, bid, found>>

\* bucketIDToNameMap[bucketID], read without the lock, keyed by the ID
\* string as the request carries it, not by the decoded URL: an absent key
\* is not ok.
DeleteLookup(h) ==
    LET x == req[h].id
        name == IF x \in DOMAIN bucketIDToNameMap THEN bucketIDToNameMap[x]
                ELSE NoName
    IN /\ pc[h] = "delLookup"
       /\ \/ name = NoName /\ Reply(h) /\ UNCHANGED found
          \/ /\ name # NoName
             /\ found' = [found EXCEPT ![h] = name]
             /\ Goto(h, "delRemoveName")
             /\ UNCHANGED req
       /\ UNCHANGED <<registry, backend, bid>>

\* delete(nameToBucketMap, bucketName) under RLock.
DeleteRemoveName(h) ==
    /\ pc[h] = "delRemoveName"
    /\ nameToBucketMap' = [nameToBucketMap EXCEPT ![found[h]] = NoBucket]
    /\ Goto(h, "delRemoveID")
    /\ UNCHANGED <<bucketIDToNameMap, backend, req, bid, found>>

\* Mutant: the ID index entry is left behind, so a later delete of the same
\* ID finds the name again.
DeleteRemoveIDKeepIndex(h) ==
    /\ pc[h] = "delRemoveID"
    /\ Reply(h)
    /\ found' = [found EXCEPT ![h] = NoName]
    /\ UNCHANGED <<registry, backend, bid>>

\* delete(bucketIDToNameMap, bucketID), RUnlock, reply.
DeleteRemoveID(h) ==
    /\ pc[h] = "delRemoveID"
    /\ bucketIDToNameMap' = [bucketIDToNameMap EXCEPT ![req[h].id] = NoName]
    /\ Reply(h)
    /\ found' = [found EXCEPT ![h] = NoName]
    /\ UNCHANGED <<nameToBucketMap, backend, bid>>

-----------------------------------------------------------------------------
(* DriverGetInfo and DriverRevokeBucketAccess                              *)

\* The name main hands to NewIdentityServer: driver.DriverName.
DriverName == "blob.cosi.azure.com"

\* The gRPC server dispatches a DriverGetInfo or a DriverRevokeBucketAccess
\* call to handler h.
ReceiveStateless(h) ==
    /\ pc[h] = "idle"
    /\ Serving
    /\ \E op \in {"info", "revoke"} : req' = [req EXCEPT ![h] = [op |-> op]]
    /\ Goto(h, "answer")
    /\ UNCHANGED <<registry, backend, bid, found>>

\* identity.DriverGetInfo: the name, or InvalidArgument for an empty one;
\* DriverName is not empty, so it always answers with the name.
DriverGetInfo(h) ==
    /\ pc[h] = "answer"
    /\ req[h].op = "info"
    /\ DriverName # ""
    /\ Reply(h)
    /\ UNCHANGED <<registry, backend, bid, found>>

\* DriverRevokeBucketAccess answers with an empty response at once.
DriverRevokeBucketAccess(h) ==
    /\ pc[h] = "answer"
    /\ req[h].op = "revoke"
    /\ Reply(h)
    /\ UNCHANGED <<registry, backend, bid, found>>

-----------------------------------------------------------------------------
(* Process lifecycle                                                       *)

\* A new driver process: main starts again with no servers built, no RPC
\* in flight and an empty registry; the backend keeps what it has.
NewProcess ==
    /\ restarts < MaxRestarts
    /\ restarts' = restarts + 1
    /\ sig' = "none"
    /\ boot' = "servers"
    /\ nameToBucketMap' = EmptyNameMap
    /\ bucketIDToNameMap' = EmptyIDMap
    /\ pc' = IdleHandlers
    /\ req' = NoRequests
    /\ bid' = [h \in Handlers |-> NoID]
    /\ found' = [h \in Handlers |-> NoName]
    /\ UNCHANGED <<backend>>

\* The process ends with an exit status, and the pod starts it again.
Terminate(code, failed) ==
    /\ lastExit' = [code |-> code, failed |-> failed]
    /\ NewProcess

\* The driver pod is killed at any step (a crash, or SIGKILL at the end of
\* the grace period, or SIGTERM before the handler is registered): in-flight
\* RPCs are lost and no exit status is returned by the code.
Restart == NewProcess /\ UNCHANGED lastExit

\* What a start finds in its environment: the --kubeconfig flag, whether
\* the in-cluster config loads, whether the kubeconfig file it falls back
\* to loads, whether the cloud-config secret gives tenant, subscription and
\* resource group, and whether the credential file opens and parses.
BootEnv == [kubeconfigFlag: {"", "path"}, inCluster: BOOLEAN, kubeconfigFile: BOOLEAN,
            secretComplete: BOOLEAN, credFile: BOOLEAN]

\* getKubeConfig: with no --kubeconfig the in-cluster config, and when that
\* fails $KUBECONFIG or ~/.kube/config; with one, that file.
KubeConfigOK(env) ==
    \/ env.kubeconfigFlag = "" /\ env.inCluster
    \/ env.kubeconfigFile

\* GetAzureCloudProvider: the secret's config when it is complete (a failed
\* read is only logged), else $AZURE_CREDENTIAL_FILE or the default file.
CloudConfigOK(env) == env.secretComplete \/ env.credFile

\* main: NewProvisionerServer (GetKubeClient, GetAzureCloudProvider, the
\* empty maps) and NewIdentityServer, which cannot fail.  An error goes to
\* klog.Exitf: exit status 255.
NewServers ==
    /\ boot = "servers"
    /\ \E env \in BootEnv :
          IF KubeConfigOK(env) /\ CloudConfigOK(env)
          THEN /\ boot' = "start"
               /\ UNCHANGED <<registry, locals, restarts, sig, lastExit>>
          ELSE Terminate(255, TRUE)
    /\ UNCHANGED backend

\* parseEndpoint: a unix:// or tcp:// prefix and a non-empty address.
EndpointOK(e) == e.proto \in {"unix", "tcp"} /\ e.addr # ""

\* StartServers returns an error: RunServerWithSignalHandler returns nil
\* and main returns, exit status 0.
StartServerFails == Terminate(0, TRUE)

\* StartServers fails on an endpoint that does not parse, or when
\* startServer cannot remove a stale unix socket or listen.  Otherwise the
\* Serve goroutine is started and the signal handler registered.
StartServers ==
    /\ boot = "start"
    /\ \E e \in Endpoints :
          \/ StartServerFails
          \/ /\ EndpointOK(e)
             /\ boot' = "serving"
             /\ UNCHANGED <<registry, locals, restarts, sig, lastExit>>
    /\ UNCHANGED backend

\* SIGTERM reaches sigChan; the signal goroutine calls GracefulStop, which
\* closes the listener, so no further RPC is dispatched.
Signal ==
    /\ Serving
    /\ restarts < MaxRestarts
    /\ sig' = "graceful"
    /\ UNCHANGED <<registry, backend, locals, restarts, boot, lastExit>>

\* GracefulStop returns once every in-flight RPC has returned; Serve returns
\* with it and its goroutine releases the WaitGroup.  The signal goroutine
\* then sleeps for waitTime.
GracefulStopReturns ==
    /\ sig = "graceful"
    /\ \A h \in Handlers : pc[h] = "idle"
    /\ sig' = "sleeping"
    /\ UNCHANGED <<registry, backend, locals, restarts, boot, lastExit>>

\* After the sleep, server.Stop(), then the second sleep.
StopServer ==
    /\ sig = "sleeping"
    /\ sig' = "stopped"
    /\ UNCHANGED <<registry, backend, locals, restarts, boot, lastExit>>

\* The process exits once GracefulStop has returned: main's Wait returns
\* and main returns (status 0), or, after Stop and the second sleep,
\* os.Exit(1).
Exit ==
    \/ sig = "sleeping" /\ Terminate(0, FALSE)
    \/ sig = "stopped" /\ \E code \in {0, 1} : Terminate(code, FALSE)

Next ==
    \/ /\ \E h \in Handlers :
             \/ ReceiveCreate(h) \/ CreateLookup(h) \/ CreateEnsure(h)
             \/ CreateContainer(h) \/ CreateInsertName(h) \/ CreateInsertID(h)
             \/ ReceiveDelete(h) \/ DeleteBackend(h) \/ DeleteLookup(h)
             \/ DeleteRemoveName(h) \/ DeleteRemoveID(h)
             \/ ReceiveStateless(h) \/ DriverGetInfo(h)
             \/ DriverRevokeBucketAccess(h)
       /\ UNCHANGED lifecycle
    \/ Restart \/ NewServers \/ StartServers
    \/ Signal \/ GracefulStopReturns \/ StopServer \/ Exit

Spec == Init /\ [][Next]_vars

\* A bucket is creatable when its parameters parse and name an account for
\* a container bucket.
ValidParams(p) == p.unit # "invalid" /\ (p.unit = "container" => p.acct # "")

ValidCreateReq == {r \in CreateReq : r.params # NilParams /\ ValidParams(r.params)}

\* Every step of handler h once its request has arrived.
Serve(h) ==
    \/ CreateLookup(h) \/ CreateEnsure(h) \/ CreateContainer(h)
    \/ CreateInsertName(h) \/ CreateInsertID(h)
    \/ DeleteBackend(h) \/ DeleteLookup(h) \/ DeleteRemoveName(h)
    \/ DeleteRemoveID(h) \/ DriverGetInfo(h) \/ DriverRevokeBucketAccess(h)

\* Each handler is its own goroutine and none of its steps blocks (RLock
\* never waits on RLock), so a handler that can step eventually does: weak
\* fairness.  A cloud call that can succeed and is retried succeeds in the
\* end, although any one attempt may fail: strong fairness of the success
\* of EnsureStorageAccount and of the container create, for each request
\* (a success for one bucket does not excuse failing another).  main's
\* start-up steps are weakly fair.  The sidecar's requests and restarts are
\* not fair: they are the environment.
Fairness ==
    /\ WF_vars(NewServers) /\ WF_vars(StartServers)
    /\ \A h \in Handlers :
        /\ WF_vars(Serve(h) /\ UNCHANGED lifecycle)
        /\ \A r \in ValidCreateReq :
              /\ SF_vars(req[h] = r /\ CreateEnsureOK(h) /\ UNCHANGED lifecycle)
              /\ SF_vars(req[h] = r /\ CreateContainerOK(h) /\ UNCHANGED lifecycle)

FairSpec == Spec /\ Fairness

\* The steps of handler h that make no backend call: registry reads and
\* writes, and the two answers that read no state.
LocalStep(h) ==
    \/ CreateLookup(h) \/ CreateInsertName(h) \/ CreateInsertID(h)
    \/ DeleteLookup(h) \/ DeleteRemoveName(h) \/ DeleteRemoveID(h)
    \/ DriverGetInfo(h) \/ DriverRevokeBucketAccess(h)

\* Scheduling during a shutdown: the signal goroutine and main are
\* goroutines and their sleeps end, so their steps are weakly fair, and so
\* are a handler's registry steps.  A backend call is not: the code sets no
\* deadline on it, GracefulStop does not cancel in-flight RPCs, and
\* spec.md 5 leaves timeouts to the caller's context.
ShutdownFairness ==
    /\ WF_vars(NewServers) /\ WF_vars(StartServers)
    /\ WF_vars(GracefulStopReturns) /\ WF_vars(StopServer) /\ WF_vars(Exit)
    /\ \A h \in Handlers : WF_vars(LocalStep(h) /\ UNCHANGED lifecycle)

ShutdownSpec == Spec /\ ShutdownFairness


-----------------------------------------------------------------------------
(* Properties                                                              *)

\* Writes to the registry are exclusive (spec 4.1, 9): at most one handler is
\* inside the two-map write section of DriverCreateBucket or
\* DriverDeleteBucket at a time. The code guards these writes with RLock.
WriterExclusion ==
    Cardinality({h \in Handlers : pc[h] \in {"insertID", "delRemoveID"}}) <= 1

\* DriverDeleteBucket looks the name up by ID without the lock and removes
\* it afterwards: the record it removes is the record of the bucket it
\* deleted, not one a concurrent create has put under that name since.
DeleteRemovesOwnRecord ==
    \A h \in Handlers :
        pc[h] = "delRemoveName" =>
            LET rec == nameToBucketMap[found[h]]
            IN rec = NoBucket \/ rec.id = req[h].id

\* The storage resource a bucket ID names exists.
Exists(x) ==
    IF x.cont = "" THEN x.acct \in accounts ELSE <<x.acct, x.cont>> \in containers

\* The registry answers repeated creates (spec 4.1): every bucket it holds
\* exists in the backend, unless a delete of that ID is between its backend
\* call and its registry removal. DeleteStorageAccount removes the account
\* with every container bucket in it, whose records stay, and with the
\* bucket of any other name whose account bucket shares its ID; and a delete whose
\* ID string is another form of the record's ID removes the bucket but
\* misses the record, which DeleteLookup looks up by the string.
RegistryBucketsExist ==
    \A n \in Names :
        LET rec == nameToBucketMap[n]
        IN /\ rec # NoBucket
           /\ ~\E h \in Handlers :
                 /\ pc[h] \in {"delLookup", "delRemoveName", "delRemoveID"}
                 /\ req[h].id = rec.id
           => Exists(Decode(rec.id))

\* Concurrent creates of one name (spec 5): the loser observes idempotent
\* success or AlreadyExists, so a create never overwrites the record of
\* another create of the same name with a different ID. DriverCreateBucket
\* checks the name before the backend calls and inserts after them, with
\* nothing held in between.
InsertDoesNotOverwrite ==
    \A h \in Handlers :
        pc[h] = "insertName" =>
            LET rec == nameToBucketMap[req[h].name]
            IN rec = NoBucket \/ rec.id = bid[h]

\* A handler is looking up a create of name n with parameters p.
Asking(n, p) ==
    \E h \in Handlers : pc[h] = "create" /\ req[h] = [op |-> "create", name |-> n, params |-> p]

\* The account a create with parameters p names is there for
\* EnsureStorageAccount: it exists, CreateAccount asks for it, or no
\* account is named.
AccountAvailable(p) == p.create \/ p.acct = "" \/ p.acct \in accounts

\* The definitive answers of DriverCreateBucket to (n, p): the ID of a
\* record with parameters p, or AlreadyExists for a record of n with other
\* parameters (spec 4.1).
Answered(n, p) == nameToBucketMap[n] # NoBucket

\* Retried creates are answered (spec 4.1, 6: CreateContainer is idempotent,
\* the registry makes creates safe to retry): when the sidecar keeps
\* retrying a valid create whose account stays available, the name is
\* registered again and again, with p or, for AlreadyExists, with other
\* parameters (restarts are bounded by MaxRestarts, so the driver
\* eventually stays up).  After a restart the registry is empty while the
\* container stays, and createAzureContainer's "ResourceExistsError" test
\* never matches, so every retry fails.
RetriedCreateAnswered ==
    \A n \in Names, p \in Params :
        ValidParams(p) =>
            ([]<>Asking(n, p) /\ <>[]AccountAvailable(p) => []<>Answered(n, p))

\* A signal ends the process (run.go: "Initially try to gracefully stop
\* the server", then Stop, then "Signal handler timed out, forcing process
\* exit"): once SIGTERM has arrived, the process eventually exits, whatever
\* the in-flight RPCs do.  The sleep-Stop-exit sequence starts only after
\* GracefulStop returns, and GracefulStop waits for every in-flight RPC.
SignalEndsProcess == sig # "none" ~> sig = "none"

\* Start-up errors are reported (spec.md 7: no error is silently swallowed;
\* main exits through klog.Exitf when RunServerWithSignalHandler returns an
\* error): a process that ends because it could not start exits with a
\* non-zero status, so the pod is seen to fail.
StartupFailureReported ==
    lastExit # NoExit /\ lastExit.failed => lastExit.code # 0

-----------------------------------------------------------------------------
\* The registry the callers see is nameToBucketMap; bucketIDToNameMap is the
\* index the delete path reads.  A create or delete is pending from its
\* receipt to its reply; calls that can never take effect (nil parameters,
\* IDs that no create returns) are left out.
CreateSteps == {"create", "ensure", "container", "insertName", "insertID"}
DeleteSteps == {"delete", "delLookup", "delRemoveName", "delRemoveID"}

AbstractRegistry ==
    INSTANCE Registry WITH
        registry <- nameToBucketMap,
        Records <- Record,
        creating <- {[name |-> req[h].name, params |-> req[h].params] :
                        h \in {h \in Handlers : pc[h] \in CreateSteps
                                               /\ req[h].params \in Params}},
        deleting <- {req[h].id :
                        h \in {h \in Handlers : pc[h] \in DeleteSteps
                                               /\ req[h].id \in IDs}}

\* Creates and deletes taken one at a time implement the one-step registry
\* of spec.md 4.1: every insert by DriverCreateBucket fills a name with no
\* record, and every removal by DriverDeleteBucket removes the record of the
\* ID it deleted.
RegistryRefinement == AbstractRegistry!Spec

=============================================================================
