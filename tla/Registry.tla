------------------------------ MODULE Registry ------------------------------
(***************************************************************************)
(* The bucket registry as the provisioner's callers see it (spec.md 3,    *)
(* 4.1): a name maps to at most one record; while a create of a name is   *)
(* pending, a name with no record may get a record with the parameters    *)
(* of that create, in one step; while a delete of a bucket ID is pending, *)
(* the record carrying that ID may be removed, in one step; a restart     *)
(* empties the registry and drops every pending call.  Provisioner, whose *)
(* creates and deletes take several steps, is checked to implement this  *)
(* specification.                                                          *)
(***************************************************************************)
CONSTANTS
    Names,      \* bucket names
    Records,    \* the records a create may store: [id, params]
    NoBucket    \* the value of a name with no record

VARIABLES
    registry,   \* name -> record or NoBucket
    creating,   \* the pending creates, as [name, params]
    deleting    \* the bucket IDs of the pending deletes

vars == <<registry, creating, deleting>>

Empty == [n \in Names |-> NoBucket]

Init == registry = Empty /\ creating = {} /\ deleting = {}

\* A caller asks for a create, or for a delete.
AskCreate(c) ==
    /\ creating' = creating \cup {c}
    /\ UNCHANGED <<registry, deleting>>

AskDelete(x) ==
    /\ deleting' = deleting \cup {x}
    /\ UNCHANGED <<registry, creating>>

\* DriverCreateBucket takes effect: a name with no record gets the record of
\* the bucket created for a pending create of that name.
Register(n, rec) ==
    /\ [name |-> n, params |-> rec.params] \in creating
    /\ registry[n] = NoBucket
    /\ registry' = [registry EXCEPT ![n] = rec]
    /\ UNCHANGED <<creating, deleting>>

\* DriverDeleteBucket takes effect: the record that carries a pending
\* delete's ID goes.
Unregister(x) ==
    /\ x \in deleting
    /\ \E n \in Names :
          /\ registry[n] # NoBucket
          /\ registry[n].id = x
          /\ registry' = [registry EXCEPT ![n] = NoBucket]
    /\ UNCHANGED <<creating, deleting>>

\* A call returns, with or without having taken effect.
EndCreate(c) ==
    /\ c \in creating
    /\ creating' = creating \ {c}
    /\ UNCHANGED <<registry, deleting>>

EndDelete(x) ==
    /\ x \in deleting
    /\ deleting' = deleting \ {x}
    /\ UNCHANGED <<registry, creating>>

\* A new process starts with an empty registry and no call in progress.
Reset == registry' = Empty /\ creating' = {} /\ deleting' = {}

Next ==
    \/ \E c \in creating : EndCreate(c)
    \/ \E x \in deleting : EndDelete(x) \/ Unregister(x)
    \/ \E n \in Names, rec \in Records : Register(n, rec)
    \/ \E c \in [name: Names, params: {rec.params : rec \in Records}] : AskCreate(c)
    \/ \E rec \in Records : AskDelete(rec.id)
    \/ Reset

Spec == Init /\ [][Next]_vars
=============================================================================
