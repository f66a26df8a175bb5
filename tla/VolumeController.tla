-------------------------- MODULE VolumeController --------------------------
(***************************************************************************)
(* The controller service of driver/controller.go against the volume API  *)
(* of the cloudscale.ch client, as the repository's test double            *)
(* (FakeVolumeServiceOperations in driver/driver_test.go) implements it.   *)
(*                                                                         *)
(* Each process of Procs is a gRPC handler goroutine serving one call at a *)
(* time.  A handler runs without interruption between two remote calls,    *)
(* and a remote call is atomic at the store, so a handler is one step per  *)
(* remote call: its local checks and its first call are one step, and a    *)
(* handler that makes a second call is suspended in pc[p] in between, with *)
(* the values it has read in local[p].  Any other handler may run there.   *)
(*                                                                         *)
(* A remote call may fail (BackendFaults): it is then either not applied,  *)
(* or applied with its answer lost to the caller's context deadline.       *)
(*                                                                         *)
(* The CSI specification asks the orchestrator to keep at most one call    *)
(* in flight per volume.  With SerializedCalls the callers obey that rule; *)
(* without it they may issue calls for one volume concurrently.            *)
(***************************************************************************)
EXTENDS CapacityNegotiator, FiniteSets

CONSTANTS
    Procs,              \* concurrent handler goroutines
    Names,              \* volume names callers use
    Ids,                \* volume UUIDs the store can hand out
    Nodes,              \* server UUIDs callers name
    Servers,            \* the servers the fake server service knows
    Zone,               \* the zone the driver runs in (d.zone)
    MaxVolumesPerNode,  \* defaultMaxVolumesPerNode of the fake Update
    CapSets,            \* requested VolumeCapabilities lists
    ZoneReqs,           \* zones named in AccessibilityRequirements.Requisite
    TypeParams,         \* values of the volume-type parameter
    CapRanges,          \* requested capacity ranges
    SerializedCalls,    \* callers keep one call in flight per volume
    BackendFaults       \* remote calls may fail or lose their answer

(* The empty string of a request field that was not given. *)
Empty == ""

(* The single supported access mode, SINGLE_NODE_WRITER. *)
SupportedMode == "SINGLE_NODE_WRITER"

Capability == [mode : {SupportedMode, "MULTI_NODE_READER"},
               access : {"block", "mount", "none"}]

ASSUME ControllerAssumption ==
    /\ Procs # {} /\ Names # {} /\ Ids # {} /\ Nodes # {}
    /\ IsFiniteSet(Ids)
    /\ Empty \notin Names \cup Ids \cup Nodes
    /\ Servers \subseteq Nodes
    /\ MaxVolumesPerNode \in Nat
    /\ CapSets \subseteq SUBSET Capability
    /\ CapRanges \subseteq {NilRange} \cup CapacityRange(Nat)
    /\ SerializedCalls \in BOOLEAN
    /\ BackendFaults \in BOOLEAN

StorageTypes == {"ssd", "bulk"}

(* A volume as the store keeps it; ServerUUIDs holds at most one server   *)
(* because the store refuses a multi-attach.                              *)
Volume == [name : Names, sizeGB : Int, type : StorageTypes,
           servers : {{}} \cup {{n} : n \in Nodes}]

Codes == {"OK", "InvalidArgument", "NotFound", "AlreadyExists",
          "ResourceExhausted", "Aborted", "Internal", "OutOfRange", "Unknown"}

Ops == {"None", "CreateVolume", "DeleteVolume", "ControllerPublishVolume",
        "ControllerUnpublishVolume", "ValidateVolumeCapabilities",
        "ListVolumes", "ControllerExpandVolume"}

(* The handler's last answer; `attached` records, for a publish, whether  *)
(* the volume was already attached to the node when the call arrived.     *)
Response == [op : Ops, code : Codes, attached : BOOLEAN]

(* Where a handler is suspended between its remote calls, or inside the   *)
(* fake's attaching Update between its count and its write.               *)
PCs == {"idle", "CreateVolume", "ControllerPublishVolumeAttach",
        "ControllerPublishVolume",
        "ControllerUnpublishVolume", "ControllerExpandVolume"}

(* A suspended handler's local variables. *)
Local == [name : Names \cup {Empty}, id : Ids \cup {Empty},
          node : Nodes \cup {Empty}, sizeGB : Int, type : StorageTypes,
          block : BOOLEAN, attached : BOOLEAN]

NoLocal == [name |-> Empty, id |-> Empty, node |-> Empty, sizeGB |-> 0,
            type |-> "ssd", block |-> FALSE, attached |-> FALSE]

(* Requests, with the fields the handlers look at. *)
CreateRequest == [name : Names \cup {Empty}, caps : CapSets,
                  zones : ZoneReqs, type : TypeParams, range : CapRanges,
                  luks : BOOLEAN]
PublishRequest == [id : Ids \cup {Empty}, node : Nodes \cup {Empty},
                   cap : BOOLEAN, readonly : BOOLEAN]
UnpublishRequest == [id : Ids \cup {Empty}, node : Nodes \cup {Empty}]
ValidateRequest == [id : Ids \cup {Empty}, caps : BOOLEAN]
ExpandRequest == [id : Ids \cup {Empty}, range : CapRanges,
                  access : {"none", "block", "mount"}]

VARIABLES
    vols,    \* the store: volume UUID -> Volume
    issued,  \* UUIDs the store has handed out (never reused)
    pc,      \* where each handler is suspended
    local,   \* the suspended handler's local variables
    resp     \* each handler's last answer

vars == <<vols, issued, pc, local, resp>>

-----------------------------------------------------------------------------
(* The store: the fake's operations on its volumes map.                   *)

(* Faults a change to the store helpers below could plausibly introduce. *)
VolumesNamedById(n) == {i \in DOMAIN vols : i = n}

(* Volumes.List with a name filter. *)
VolumesNamed(n) == {i \in DOMAIN vols : vols[i].name = n}

(* getVolumesPerServer *)
VolumesPerServer(n) == Cardinality({i \in DOMAIN vols : n \in vols[i].servers})

(* The fake's Update with one server: 404 for an unknown volume, 404 from *)
(* Servers.Get for an unknown server, the limit message when the server   *)
(* already holds MaxVolumesPerNode volumes.                               *)
AttachVerdict(i, n) ==
    IF i \notin DOMAIN vols THEN "notfound"
    ELSE IF n \notin Servers THEN "notfound"
    ELSE IF VolumesPerServer(n) >= MaxVolumesPerNode THEN "limit"
    ELSE "none"

(* The fake's Update with a size: it grows a volume, and panics otherwise. *)
ResizeAccepted(i, size) == i \in DOMAIN vols /\ vols[i].sizeGB < size

(* Outcomes of a remote call: "lost" = applied, answer lost to a timeout. *)
ReadOutcomes  == IF BackendFaults THEN {"ok", "fail"} ELSE {"ok"}
WriteOutcomes == IF BackendFaults THEN {"ok", "fail", "lost"} ELSE {"ok"}

Applied(out) == out \in {"ok", "lost"}

SetVolume(i, v) == [j \in DOMAIN vols \cup {i} |-> IF j = i THEN v ELSE vols[j]]

RemoveVolume(i) == [j \in DOMAIN vols \ {i} |-> vols[j]]

-----------------------------------------------------------------------------
(* The error translation of the handlers.                                 *)

(* reraiseNotFound: a 404 becomes NotFound, any other error Aborted. *)
reraiseNotFound(err) == IF err = "notfound" THEN "NotFound" ELSE "Aborted"

(* validateCapabilities: the violations, as a set. *)
validateCapabilities(caps) ==
    {"unsupported access mode" : c \in {c \in caps : c.mode # SupportedMode}}
    \cup {"unsupported access type" : c \in {c \in caps : c.access = "none"}}

(* validateLuksCapabilities *)
validateLuksCapabilities(caps) ==
    {"Cannot use LUKS with block volumes" :
        c \in {c \in caps : c.access = "block"}}

(* The storage type CreateVolume uses: "ssd" unless the parameter says. *)
storageTypeOf(param) == IF param = Empty THEN "ssd" ELSE param

(* Faults a change to the handler helpers below could plausibly introduce. *)
UnpublishGetAnswerReraise(err) == reraiseNotFound(err)
NeedsResizeInclusive(resizeGB, sizeGB) == resizeGB >= sizeGB
CreateVolumeCheckNoType(r) ==
    LET type == storageTypeOf(r.type) IN
    IF r.name = Empty THEN "InvalidArgument"
    ELSE IF r.caps = {} THEN "InvalidArgument"
    ELSE IF validateCapabilities(r.caps) # {} THEN "InvalidArgument"
    ELSE IF \E z \in r.zones : z # Zone THEN "ResourceExhausted"
    ELSE IF calculateStorageGB(r.range, type).err THEN "InvalidArgument"
    ELSE IF r.luks /\ validateLuksCapabilities(r.caps) # {}
         THEN "InvalidArgument"
    ELSE "none"

(* ControllerUnpublishVolume's answer to a failed existence check: a 404  *)
(* means already detached, any other error passes through (Unknown).      *)
UnpublishGetAnswer(err) == IF err = "notfound" THEN "OK" ELSE "Unknown"

(* ControllerExpandVolume resizes only to a size above the current one. *)
NeedsResize(resizeGB, sizeGB) == resizeGB > sizeGB

(* The code of CreateVolume's first failing local check, or "none". *)
CreateVolumeCheck(r) ==
    LET type == storageTypeOf(r.type) IN
    IF r.name = Empty THEN "InvalidArgument"
    ELSE IF r.caps = {} THEN "InvalidArgument"
    ELSE IF validateCapabilities(r.caps) # {} THEN "InvalidArgument"
    ELSE IF \E z \in r.zones : z # Zone THEN "ResourceExhausted"
    ELSE IF type \notin StorageTypes THEN "InvalidArgument"
    ELSE IF calculateStorageGB(r.range, type).err THEN "InvalidArgument"
    ELSE IF r.luks /\ validateLuksCapabilities(r.caps) # {}
         THEN "InvalidArgument"
    ELSE "none"

-----------------------------------------------------------------------------
(* Handlers.                                                              *)

(* Calls in flight, by the key the orchestrator serializes them on. *)
PendingNames == {local[p].name : p \in {q \in Procs : pc[q] = "CreateVolume"}}
PendingIds == {local[p].id :
                 p \in {q \in Procs : pc[q] \notin {"idle", "CreateVolume"}}}

Answer(p, op, code, attached) ==
    /\ pc' = [pc EXCEPT ![p] = "idle"]
    /\ local' = [local EXCEPT ![p] = NoLocal]
    /\ resp' = [resp EXCEPT ![p] = [op |-> op, code |-> code,
                                    attached |-> attached]]

Suspend(p, at, l) ==
    /\ pc' = [pc EXCEPT ![p] = at]
    /\ local' = [local EXCEPT ![p] = l]
    /\ UNCHANGED resp

Idle(p) == pc[p] = "idle"

(* CreateVolume's answer when Volumes.List(name) found volumes: a         *)
(* duplicate is a plain error (Unknown), one volume of another size is    *)
(* AlreadyExists, one of the requested size is the volume asked for.      *)
ExistingAnswer(found, size) ==
    IF Cardinality(found) > 1 THEN "Unknown"
    ELSE IF \E i \in found : vols[i].sizeGB # size THEN "AlreadyExists"
    ELSE "OK"

(* CreateVolume up to its Volumes.List(name) call.                         *)
CreateVolume(p, r) ==
    LET type  == storageTypeOf(r.type)
        size  == calculateStorageGB(r.range, type).sizeGB
        check == CreateVolumeCheck(r)
        found == VolumesNamed(r.name)
        Op    == "CreateVolume"
    IN
    /\ Idle(p)
    /\ SerializedCalls => r.name \notin PendingNames
    /\ UNCHANGED <<vols, issued>>
    /\ \/ check # "none" /\ Answer(p, Op, check, FALSE)
       \/ /\ check = "none"
          /\ \E out \in ReadOutcomes :
               \/ out = "fail" /\ Answer(p, Op, "Internal", FALSE)
               \/ /\ out = "ok"
                  /\ \/ found = {} /\ Suspend(p, Op, [NoLocal EXCEPT
                                           !.name = r.name, !.sizeGB = size,
                                           !.type = type])
                     \/ found # {} /\ Answer(p, Op, ExistingAnswer(found, size), FALSE)

(* CreateVolume's Volumes.Create call; the store hands out a fresh UUID.  *)
CreateVolumeCreate(p) ==
    LET l   == local[p]
        Op  == "CreateVolume"
        new == [name |-> l.name, sizeGB |-> l.sizeGB, type |-> l.type,
                servers |-> {}]
    IN
    /\ pc[p] = Op
    /\ \E out \in WriteOutcomes :
         \/ /\ ~Applied(out)
            /\ Answer(p, Op, "Internal", FALSE)
            /\ UNCHANGED <<vols, issued>>
         \/ /\ Applied(out)
            /\ \E i \in Ids \ issued :
                 /\ vols' = SetVolume(i, new)
                 /\ issued' = issued \cup {i}
            /\ Answer(p, Op, IF out = "ok" THEN "OK" ELSE "Internal", FALSE)

(* DeleteVolume: a 404 means already deleted; other errors pass through   *)
(* unchanged, which gRPC reports as Unknown.                               *)
DeleteVolume(p, id) ==
    LET Op == "DeleteVolume" IN
    /\ Idle(p)
    /\ SerializedCalls => id \notin PendingIds
    /\ UNCHANGED issued
    /\ \/ id = Empty /\ Answer(p, Op, "InvalidArgument", FALSE)
                     /\ UNCHANGED vols
       \/ /\ id # Empty
          /\ \E out \in WriteOutcomes :
               /\ vols' = IF Applied(out) /\ id \in DOMAIN vols
                          THEN RemoveVolume(id) ELSE vols
               /\ Answer(p, Op, IF out = "ok" THEN "OK" ELSE "Unknown", FALSE)

(* ControllerPublishVolume up to the check half of its attaching          *)
(* Volumes.Update: the fake looks the volume up (404), asks Servers.Get   *)
(* for the server (404) and counts the server's volumes; it refuses with  *)
(* the limit message when the server already holds MaxVolumesPerNode.     *)
(* The fake holds no lock, so its write of the server list is a step of   *)
(* its own (ControllerPublishVolumeAttach) and other handlers may run     *)
(* between the count and the write.  A call that fails here never reached *)
(* the fake, or had its refusal lost: either way nothing is written.      *)
ControllerPublishVolume(p, r) ==
    LET Op       == "ControllerPublishVolume"
        attached == r.id \in DOMAIN vols /\ r.node \in vols[r.id].servers
        verdict  == AttachVerdict(r.id, r.node)
        err(out) == IF out = "ok" THEN verdict ELSE "failure"
    IN
    /\ Idle(p)
    /\ SerializedCalls => r.id \notin PendingIds
    /\ UNCHANGED <<vols, issued>>
    /\ \/ /\ \/ r.id = Empty \/ r.node = Empty \/ ~r.cap
          /\ Answer(p, Op, "InvalidArgument", attached)
       \/ /\ r.id # Empty /\ r.node # Empty /\ r.cap /\ r.readonly
          /\ Answer(p, Op, "AlreadyExists", attached)
       \/ /\ r.id # Empty /\ r.node # Empty /\ r.cap /\ ~r.readonly
          /\ \E out \in ReadOutcomes :
               \/ err(out) = "none"
                  /\ Suspend(p, "ControllerPublishVolumeAttach",
                             [NoLocal EXCEPT !.id = r.id, !.node = r.node,
                                             !.attached = attached])
               \/ err(out) = "limit"
                  /\ Answer(p, Op, "ResourceExhausted", attached)
               \/ err(out) \in {"notfound", "failure"}
                  /\ Answer(p, Op, reraiseNotFound(err(out)), attached)

(* The write half of the fake's attaching Update: it sets the server list *)
(* of the volume it looked up, which is no longer stored if a Delete ran  *)
(* in between.  Its answer may then be lost to the deadline (Aborted).    *)
ControllerPublishVolumeAttach(p) ==
    LET l  == local[p]
        Op == "ControllerPublishVolume"
    IN
    /\ pc[p] = "ControllerPublishVolumeAttach"
    /\ UNCHANGED issued
    /\ vols' = IF l.id \in DOMAIN vols
               THEN [vols EXCEPT ![l.id].servers = {l.node}] ELSE vols
    /\ \E out \in WriteOutcomes \ {"fail"} :
         \/ out = "ok" /\ Suspend(p, Op, l)
         \/ out = "lost" /\ Answer(p, Op, "Aborted", l.attached)

(* ControllerPublishVolume's Volumes.Get of the attached volume. *)
ControllerPublishVolumeGet(p) ==
    LET id == local[p].id
        Op == "ControllerPublishVolume"
    IN
    /\ pc[p] = Op
    /\ UNCHANGED <<vols, issued>>
    /\ \E out \in ReadOutcomes :
         Answer(p, Op, IF out = "fail" THEN "Aborted"
                       ELSE IF id \notin DOMAIN vols THEN "NotFound"
                       ELSE "OK", local[p].attached)

(* ControllerUnpublishVolume up to its existence check (Volumes.Get); a    *)
(* volume that is gone counts as detached.  The node is only logged; it is *)
(* kept in local[p].node to state what the detach does to it.              *)
ControllerUnpublishVolume(p, r) ==
    LET Op == "ControllerUnpublishVolume"
        id == r.id
    IN
    /\ Idle(p)
    /\ SerializedCalls => id \notin PendingIds
    /\ UNCHANGED <<vols, issued>>
    /\ \/ id = Empty /\ Answer(p, Op, "InvalidArgument", FALSE)
       \/ /\ id # Empty
          /\ \E out \in ReadOutcomes :
               LET err == IF out = "fail" THEN "failure"
                          ELSE IF id \notin DOMAIN vols THEN "notfound"
                          ELSE "none"
               IN  \/ err # "none" /\ Answer(p, Op, UnpublishGetAnswer(err), FALSE)
                   \/ err = "none" /\ Suspend(p, Op, [NoLocal EXCEPT !.id = id,
                                                         !.node = r.node])

(* ControllerUnpublishVolume's detaching Volumes.Update. *)
ControllerUnpublishVolumeUpdate(p) ==
    LET id == local[p].id
        Op == "ControllerUnpublishVolume"
    IN
    /\ pc[p] = Op
    /\ UNCHANGED issued
    /\ \E out \in WriteOutcomes :
         /\ vols' = IF Applied(out) /\ id \in DOMAIN vols
                    THEN [vols EXCEPT ![id].servers = {}] ELSE vols
         /\ Answer(p, Op, IF out # "ok" THEN "Aborted"
                          ELSE IF id \notin DOMAIN vols THEN "NotFound"
                          ELSE "OK", FALSE)

(* ValidateVolumeCapabilities: checks the volume exists, confirms the     *)
(* supported mode whatever was asked.                                     *)
ValidateVolumeCapabilities(p, r) ==
    LET Op == "ValidateVolumeCapabilities" IN
    /\ Idle(p)
    /\ SerializedCalls => r.id \notin PendingIds
    /\ UNCHANGED <<vols, issued>>
    /\ \/ (r.id = Empty \/ ~r.caps) /\ Answer(p, Op, "InvalidArgument", FALSE)
       \/ /\ r.id # Empty /\ r.caps
          /\ \E out \in ReadOutcomes :
               Answer(p, Op, IF out = "fail" THEN "Aborted"
                             ELSE IF r.id \notin DOMAIN vols THEN "NotFound"
                             ELSE "OK", FALSE)

(* ListVolumes: a pagination token is refused, otherwise Volumes.List. *)
ListVolumes(p, token) ==
    LET Op == "ListVolumes" IN
    /\ Idle(p)
    /\ UNCHANGED <<vols, issued>>
    /\ \/ token /\ Answer(p, Op, "Aborted", FALSE)
       \/ ~token /\ \E out \in ReadOutcomes :
                      Answer(p, Op, IF out = "fail" THEN "Unknown" ELSE "OK",
                             FALSE)

(* ControllerExpandVolume up to its Volumes.Get; a size not above the      *)
(* current one is answered with the current size and no remote change.     *)
ControllerExpandVolume(p, r) ==
    LET Op     == "ControllerExpandVolume"
        vol    == vols[r.id]
        resize == calculateStorageGB(r.range, vol.type)
    IN
    /\ Idle(p)
    /\ SerializedCalls => r.id \notin PendingIds
    /\ UNCHANGED <<vols, issued>>
    /\ \/ r.id = Empty /\ Answer(p, Op, "InvalidArgument", FALSE)
       \/ /\ r.id # Empty
          /\ \E out \in ReadOutcomes :
               \/ (out = "fail" \/ r.id \notin DOMAIN vols)
                  /\ Answer(p, Op, "Internal", FALSE)
               \/ /\ out = "ok" /\ r.id \in DOMAIN vols
                  /\ \/ resize.err /\ Answer(p, Op, "OutOfRange", FALSE)
                     \/ /\ ~resize.err /\ ~NeedsResize(resize.sizeGB, vol.sizeGB)
                        /\ Answer(p, Op, "OK", FALSE)
                     \/ /\ ~resize.err /\ NeedsResize(resize.sizeGB, vol.sizeGB)
                        /\ Suspend(p, Op, [NoLocal EXCEPT !.id = r.id,
                                             !.sizeGB = resize.sizeGB,
                                             !.block = r.access = "block"])

(* ControllerExpandVolume's resizing Volumes.Update.  The store only grows *)
(* a volume; the fake panics on any other size, refused here.              *)
ControllerExpandVolumeUpdate(p) ==
    LET l     == local[p]
        Op    == "ControllerExpandVolume"
        grows == ResizeAccepted(l.id, l.sizeGB)
    IN
    /\ pc[p] = Op
    /\ UNCHANGED issued
    /\ \E out \in WriteOutcomes :
         /\ vols' = IF Applied(out) /\ grows
                    THEN [vols EXCEPT ![l.id].sizeGB = l.sizeGB] ELSE vols
         /\ Answer(p, Op, IF out = "ok" /\ grows THEN "OK" ELSE "Internal",
                   FALSE)

-----------------------------------------------------------------------------
Init ==
    /\ vols = [i \in {} |-> NoLocal]
    /\ issued = {}
    /\ pc = [p \in Procs |-> "idle"]
    /\ local = [p \in Procs |-> NoLocal]
    /\ resp = [p \in Procs |-> [op |-> "None", code |-> "OK",
                                attached |-> FALSE]]

Next ==
    \E p \in Procs :
        \/ \E r \in CreateRequest : CreateVolume(p, r)
        \/ CreateVolumeCreate(p)
        \/ \E id \in Ids \cup {Empty} : DeleteVolume(p, id)
        \/ \E r \in PublishRequest : ControllerPublishVolume(p, r)
        \/ ControllerPublishVolumeAttach(p)
        \/ ControllerPublishVolumeGet(p)
        \/ \E r \in UnpublishRequest : ControllerUnpublishVolume(p, r)
        \/ ControllerUnpublishVolumeUpdate(p)
        \/ \E r \in ValidateRequest : ValidateVolumeCapabilities(p, r)
        \/ \E token \in BOOLEAN : ListVolumes(p, token)
        \/ \E r \in ExpandRequest : ControllerExpandVolume(p, r)
        \/ ControllerExpandVolumeUpdate(p)

Spec == Init /\ [][Next]_vars

-----------------------------------------------------------------------------
TypeOK ==
    /\ issued \subseteq Ids
    /\ DOMAIN vols \subseteq issued
    /\ vols \in [DOMAIN vols -> Volume]
    /\ pc \in [Procs -> PCs]
    /\ local \in [Procs -> Local]
    /\ resp \in [Procs -> Response]

(* At most one volume in the store carries a name: CreateVolume's          *)
(* Volumes.List(name) before Volumes.Create, retried by the orchestrator   *)
(* after a lost answer, never creates a second volume for a name.          *)
UniqueNames ==
    \A i, j \in DOMAIN vols : vols[i].name = vols[j].name => i = j

(* ControllerUnpublishVolume never answers NotFound: a volume that is gone *)
(* counts as detached, so neither its existence check nor its Update can   *)
(* report a missing volume.                                                *)
UnpublishNeverNotFound ==
    \A p \in Procs :
        resp[p].op = "ControllerUnpublishVolume" => resp[p].code # "NotFound"

(* While ControllerExpandVolume waits to send its resizing Update, the     *)
(* size it computed is still above the volume's stored size: no other     *)
(* step has grown the volume to it or past it since the handler's         *)
(* Volumes.Get, so the Update it sends is one the store accepts.           *)
ExpandReadStillFresh ==
    \A p \in Procs :
        (pc[p] = "ControllerExpandVolume" /\ local[p].id \in DOMAIN vols)
            => local[p].sizeGB > vols[local[p].id].sizeGB

(* A ControllerPublishVolume of a volume to the node it is already         *)
(* attached to is never refused for the attach limit: publishing is        *)
(* idempotent (spec.md section 1), so a retry after a lost answer succeeds. *)
PublishIdempotent ==
    \A p \in Procs :
        (resp[p].op = "ControllerPublishVolume" /\ resp[p].attached)
            => resp[p].code # "ResourceExhausted"

(* No server ever holds more than MaxVolumesPerNode volumes: publishing a *)
(* volume to a node already at the attach-count ceiling fails with        *)
(* ResourceExhausted (spec.md section 8), also when publishes of two      *)
(* different volumes to one server, which the orchestrator may run at     *)
(* once, reach the fake's Update together.                                 *)
AttachLimitHeld == \A n \in Nodes : VolumesPerServer(n) <= MaxVolumesPerNode

(* A ControllerUnpublishVolume that names a node detaches the volume from  *)
(* that node only, as the comment on the handler says ("deattaches the     *)
(* given volume from the node"): its detaching Volumes.Update never takes  *)
(* the volume away from another node, even when it arrives after the      *)
(* volume was moved there.                                                 *)
UnpublishDetachesNamedNode ==
    [][\A p \in Procs :
         /\ pc[p] = "ControllerUnpublishVolume" /\ pc'[p] = "idle"
         /\ local[p].node # Empty
         => \A i \in DOMAIN vols \cap DOMAIN vols' :
                vols[i].servers \ vols'[i].servers \subseteq {local[p].node}]_vars
=============================================================================
