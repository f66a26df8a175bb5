----------------------- MODULE VolumeControllerProofs -----------------------
(***************************************************************************)
(* Proofs about VolumeController for every value of its constants: that   *)
(* the handlers keep the store and their own state well typed, and that    *)
(* with the orchestrator serializing calls per volume name, CreateVolume's *)
(* lookup-before-create keeps volume names unique.                         *)
(***************************************************************************)
EXTENDS VolumeController, TLAPS

(* TypeOK is not inductive alone: CreateVolumeCreate stores the name a     *)
(* suspended CreateVolume saved, and only that handler's first check (the  *)
(* name is given) makes the name one of Names.                             *)
CreateSuspendedNamed ==
    \A p \in Procs : pc[p] = "CreateVolume" => local[p].name \in Names

(* Likewise ControllerPublishVolumeAttach writes the node a publish saved *)
(* after the check half of the fake's Update, and only that handler's     *)
(* first check (the node is given) makes it one of Nodes.                 *)
AttachSuspendedNode ==
    \A p \in Procs :
        pc[p] = "ControllerPublishVolumeAttach" => local[p].node \in Nodes

TypeInv == TypeOK /\ CreateSuspendedNamed /\ AttachSuspendedNode

(* TypeInv split into the store's part and the handlers' part. *)
StoreTyped ==
    /\ issued \subseteq Ids
    /\ DOMAIN vols \subseteq issued
    /\ vols \in [DOMAIN vols -> Volume]

HandlersTyped ==
    /\ pc \in [Procs -> PCs]
    /\ local \in [Procs -> Local]
    /\ resp \in [Procs -> Response]
    /\ CreateSuspendedNamed
    /\ AttachSuspendedNode

(* A CreateVolume suspended before Volumes.Create found no volume of its  *)
(* name, and nothing has created one since.                               *)
PendingNameAbsent ==
    \A p \in Procs : pc[p] = "CreateVolume" => VolumesNamed(local[p].name) = {}

(* Two suspended CreateVolume calls are for different names. *)
PendingNamesDistinct ==
    \A p, q \in Procs :
        /\ pc[p] = "CreateVolume" /\ pc[q] = "CreateVolume"
        /\ local[p].name = local[q].name
        => p = q

(* A step keeps every stored volume's name and creates none. *)
StoreNamesKept ==
    /\ DOMAIN vols' \subseteq DOMAIN vols
    /\ \A i \in DOMAIN vols' : vols'[i].name = vols[i].name

(* A step of handler p that leaves p outside CreateVolume's suspension    *)
(* and every other handler as it was.                                     *)
OthersKept(p) ==
    /\ pc'[p] # "CreateVolume"
    /\ \A q \in Procs \ {p} : pc'[q] = pc[q] /\ local'[q] = local[q]

(* The inductive strengthening of UniqueNames. *)
NamesInv ==
    /\ TypeInv
    /\ UniqueNames
    /\ PendingNameAbsent
    /\ PendingNamesDistinct
-----------------------------------------------------------------------------
(* The size arithmetic of calculateStorageGB stays in the integers.       *)

(* Int64 wraps an integer to an integer. *)
LEMMA Int64Type == \A x \in Int : Int64(x) \in Int
  BY NegotiatorAssumption, SMT DEF Int64

(* Quot, Go's truncating division, of integers by a positive step. *)
LEMMA QuotType == \A a \in Int, b \in Nat \ {0} : Quot(a, b) \in Int
  BY SMT DEF Quot

(* Every storage type's allocation step is positive. *)
LEMMA StepSizeType == \A t : StepSizeGB(t) \in Nat \ {0}
  BY NegotiatorAssumption DEF StepSizeGB

(* calculateStorageGB of a requested range answers an error flag and a   *)
(* size in whole GB, for either storage type or any other string.         *)
LEMMA StorageGBType ==
    \A c \in CapRanges : \A t : /\ calculateStorageGB(c, t).err \in BOOLEAN
                               /\ calculateStorageGB(c, t).sizeGB \in Int
<1> SUFFICES ASSUME NEW c \in CapRanges, NEW t
             PROVE  /\ calculateStorageGB(c, t).err \in BOOLEAN
                    /\ calculateStorageGB(c, t).sizeGB \in Int
  OBVIOUS
<1>1. c.nil \in BOOLEAN /\ c.required \in Int /\ c.limit \in Int
  <2>1. c = NilRange \/ c \in CapacityRange(Nat)
    BY ControllerAssumption
  <2>2. CASE c = NilRange
    BY <2>2 DEF NilRange
  <2>3. CASE c \in CapacityRange(Nat)
    <3>1. c.nil \in {FALSE} /\ c.required \in Nat /\ c.limit \in Nat
      BY <2>3 DEF CapacityRange
    <3>2. c.nil = FALSE
      BY <3>1
    <3>3. c.nil \in BOOLEAN
      BY <3>2, Zenon
    <3> QED
      BY <3>1, <3>3
  <2> QED
    BY <2>1, <2>2, <2>3
<1>2. StepSizeGB(t) \in Nat \ {0}
  BY StepSizeType
<1>3. Quot(Quot(c.required, GB), StepSizeGB(t)) \in Int
  BY <1>1, <1>2, QuotType, NegotiatorAssumption
<1>4. StepsFor(c.required, StepSizeGB(t)) \in Int
  BY <1>3, Int64Type, NegotiatorAssumption DEF StepsFor
<1>5. Int64(StepsFor(c.required, StepSizeGB(t)) * StepSizeGB(t)) \in Int
  BY <1>2, <1>4, Int64Type
<1> QED
  BY <1>2, <1>5 DEF calculateStorageGB, Ok, Failed

-----------------------------------------------------------------------------
(* The handlers' bookkeeping: answering and suspending keep it typed.     *)

LEMMA TypeInvSplit == TypeInv <=> StoreTyped /\ HandlersTyped
  BY DEF TypeInv, TypeOK, StoreTyped, HandlersTyped

LEMMA NoLocalType == NoLocal \in Local
  BY DEF NoLocal, Local, StorageTypes

(* Answer leaves the handler idle with an answer of the right shape. *)
LEMMA AnswerTyped ==
    ASSUME HandlersTyped, NEW p \in Procs, NEW op \in Ops, NEW code \in Codes,
           NEW att \in BOOLEAN, Answer(p, op, code, att)
    PROVE  HandlersTyped'
<1>1. pc' \in [Procs -> PCs] /\ local' \in [Procs -> Local]
  BY NoLocalType DEF HandlersTyped, Answer, PCs
<1>2. resp' \in [Procs -> Response]
  BY DEF HandlersTyped, Answer, Response
<1>3. CreateSuspendedNamed' /\ AttachSuspendedNode'
  BY DEF HandlersTyped, Answer, CreateSuspendedNamed, AttachSuspendedNode
<1> QED
  BY <1>1, <1>2, <1>3 DEF HandlersTyped

(* Suspend saves typed locals; a suspended CreateVolume saves a name. *)
LEMMA SuspendTyped ==
    ASSUME HandlersTyped, NEW p \in Procs, NEW at \in PCs, NEW l \in Local,
           at = "CreateVolume" => l.name \in Names,
           at = "ControllerPublishVolumeAttach" => l.node \in Nodes,
           Suspend(p, at, l)
    PROVE  HandlersTyped'
  BY DEF HandlersTyped, Suspend, CreateSuspendedNamed, AttachSuspendedNode

(* A request CreateVolume's local checks accept names a volume and picks *)
(* one of the two storage types; a refused one has a gRPC code.           *)
LEMMA CreateVolumeCheckType ==
    ASSUME NEW r \in CreateRequest
    PROVE  /\ CreateVolumeCheck(r) \in Codes \cup {"none"}
           /\ CreateVolumeCheck(r) = "none" =>
                 /\ r.name \in Names
                 /\ storageTypeOf(r.type) \in StorageTypes
  BY DEF CreateVolumeCheck, CreateRequest, Codes

-----------------------------------------------------------------------------
(* The store's updates keep it typed.                                     *)

(* Volumes.Create stores a new volume under a UUID never handed out. *)
LEMMA SetVolumeTyped ==
    ASSUME StoreTyped, NEW i \in Ids \ issued, NEW v \in Volume,
           vols' = SetVolume(i, v), issued' = issued \cup {i}
    PROVE  StoreTyped'
  BY DEF StoreTyped, SetVolume

(* Volumes.Delete removes a volume. *)
LEMMA RemoveVolumeTyped ==
    ASSUME StoreTyped, NEW i, vols' = RemoveVolume(i), issued' = issued
    PROVE  StoreTyped'
  BY DEF StoreTyped, RemoveVolume

(* Volumes.Update sets the server list to at most one server. *)
LEMMA SetServersTyped ==
    ASSUME StoreTyped, NEW i \in DOMAIN vols,
           NEW S \in {{}} \cup {{n} : n \in Nodes},
           vols' = [vols EXCEPT ![i].servers = S], issued' = issued
    PROVE  StoreTyped'
  BY DEF StoreTyped, Volume

(* Volumes.Update sets the size. *)
LEMMA SetSizeTyped ==
    ASSUME StoreTyped, NEW i, NEW n \in Int,
           vols' = [vols EXCEPT ![i].sizeGB = n], issued' = issued
    PROVE  StoreTyped'
  BY DEF StoreTyped, Volume

-----------------------------------------------------------------------------
(* Each handler step keeps TypeInv.                                       *)

LEMMA CreateVolumeTyped ==
    ASSUME TypeInv, NEW p \in Procs, NEW r \in CreateRequest, CreateVolume(p, r)
    PROVE  TypeInv'
<1> DEFINE check == CreateVolumeCheck(r)
           type  == storageTypeOf(r.type)
           size  == calculateStorageGB(r.range, type).sizeGB
           saved == [NoLocal EXCEPT !.name = r.name, !.sizeGB = size,
                                    !.type = type]
<1>1. StoreTyped'
  BY DEF CreateVolume, TypeInv, TypeOK, StoreTyped
<1>2. HandlersTyped
  BY TypeInvSplit
<1> SUFFICES HandlersTyped'
  BY <1>1 DEF TypeInv, TypeOK, StoreTyped, HandlersTyped
<1>3. CASE check # "none" /\ Answer(p, "CreateVolume", check, FALSE)
  BY <1>2, <1>3, CreateVolumeCheckType, AnswerTyped DEF Ops
<1>4. ASSUME check = "none" PROVE saved \in Local
  <2>1. r.range \in CapRanges
    BY DEF CreateRequest
  <2>2. size \in Int
    BY <2>1, StorageGBType
  <2> QED
    BY <1>4, <2>2, CreateVolumeCheckType DEF NoLocal, Local
<1>5. CASE check = "none" /\ Suspend(p, "CreateVolume", saved)
  <2>1. saved \in Local /\ saved.name \in Names
    BY <1>4, <1>5, CreateVolumeCheckType DEF NoLocal
  <2>2. "CreateVolume" \in PCs
    BY DEF PCs
  <2> QED
    BY <1>2, <1>5, <2>1, <2>2, SuspendTyped
<1>6. CASE \E c \in Codes : Answer(p, "CreateVolume", c, FALSE)
  BY <1>2, <1>6, AnswerTyped DEF Ops
<1>7. \/ check # "none" /\ Answer(p, "CreateVolume", check, FALSE)
      \/ check = "none" /\ Suspend(p, "CreateVolume", saved)
      \/ \E c \in Codes : Answer(p, "CreateVolume", c, FALSE)
  <2>1. "Internal" \in Codes
    BY DEF Codes
  <2>2. ExistingAnswer(VolumesNamed(r.name), size) \in Codes
    BY DEF ExistingAnswer, Codes
  <2> QED
    BY <2>1, <2>2, Zenon DEF CreateVolume
<1> QED
  BY <1>3, <1>5, <1>6, <1>7

LEMMA CreateVolumeCreateTyped ==
    ASSUME TypeInv, NEW p \in Procs, CreateVolumeCreate(p)
    PROVE  TypeInv'
<1> DEFINE l   == local[p]
           new == [name |-> l.name, sizeGB |-> l.sizeGB, type |-> l.type,
                   servers |-> {}]
<1>1. HandlersTyped'
  <2>1. \E c \in {"Internal", "OK"} : Answer(p, "CreateVolume", c, FALSE)
    BY Zenon DEF CreateVolumeCreate
  <2> QED
    BY <2>1, TypeInvSplit, AnswerTyped DEF Codes, Ops
<1>2. new \in Volume
  BY DEF CreateVolumeCreate, TypeInv, TypeOK, CreateSuspendedNamed, Local,
         Volume
<1>3. StoreTyped'
  <2>1. CASE UNCHANGED <<vols, issued>>
    BY <2>1, TypeInvSplit DEF StoreTyped
  <2>2. CASE \E i \in Ids \ issued : /\ vols' = SetVolume(i, new)
                                     /\ issued' = issued \cup {i}
    BY <1>2, <2>2, TypeInvSplit, SetVolumeTyped
  <2> QED
    BY <2>1, <2>2, Zenon DEF CreateVolumeCreate
<1> QED
  BY <1>1, <1>3 DEF TypeInv, TypeOK, StoreTyped, HandlersTyped

LEMMA DeleteVolumeTyped ==
    ASSUME TypeInv, NEW p \in Procs, NEW id \in Ids \cup {Empty},
           DeleteVolume(p, id)
    PROVE  TypeInv'
<1>1. HandlersTyped'
  <2>1. \E c \in {"InvalidArgument", "OK", "Unknown"} :
            Answer(p, "DeleteVolume", c, FALSE)
    BY Zenon DEF DeleteVolume
  <2> QED
    BY <2>1, TypeInvSplit, AnswerTyped DEF Codes, Ops
<1>2. StoreTyped'
  <2>1. CASE UNCHANGED <<vols, issued>>
    BY <2>1, TypeInvSplit DEF StoreTyped
  <2>2. CASE vols' = RemoveVolume(id) /\ issued' = issued
    BY <2>2, TypeInvSplit, RemoveVolumeTyped
  <2> QED
    BY <2>1, <2>2 DEF DeleteVolume
<1> QED
  BY <1>1, <1>2 DEF TypeInv, TypeOK, StoreTyped, HandlersTyped

(* A step that answers without touching the store keeps TypeInv. *)
LEMMA AnswerOnlyTyped ==
    ASSUME TypeInv, NEW p \in Procs, NEW op \in Ops, NEW code \in Codes,
           NEW att \in BOOLEAN, Answer(p, op, code, att),
           UNCHANGED <<vols, issued>>
    PROVE  TypeInv'
  BY TypeInvSplit, AnswerTyped DEF TypeInv, TypeOK, StoreTyped, HandlersTyped

(* The locals a suspended ControllerPublishVolume saves. *)
LEMMA PublishLocalType ==
    ASSUME NEW l \in Local, NEW i \in Ids, NEW n \in Nodes, NEW a \in BOOLEAN
    PROVE  [l EXCEPT !.id = i, !.node = n, !.attached = a] \in Local
  BY DEF Local

LEMMA ControllerPublishVolumeTyped ==
    ASSUME TypeInv, NEW p \in Procs, NEW r \in PublishRequest,
           ControllerPublishVolume(p, r)
    PROVE  TypeInv'
<1> DEFINE Op       == "ControllerPublishVolume"
           At       == "ControllerPublishVolumeAttach"
           att      == r.id \in DOMAIN vols /\ r.node \in vols[r.id].servers
           verdict  == AttachVerdict(r.id, r.node)
           err(out) == IF out = "ok" THEN verdict ELSE "failure"
           saved    == [NoLocal EXCEPT !.id = r.id, !.node = r.node,
                                       !.attached = att]
<1>1. StoreTyped /\ HandlersTyped
  BY TypeInvSplit
<1>2. att \in BOOLEAN
  OBVIOUS
<1>3. UNCHANGED <<vols, issued>>
  BY DEF ControllerPublishVolume
<1>4. CASE \E c \in Codes : Answer(p, Op, c, att)
  BY <1>2, <1>3, <1>4, AnswerOnlyTyped DEF Ops
<1>5. CASE r.id # Empty /\ r.node # Empty /\ Suspend(p, At, saved)
  <2>1. r.id \in Ids /\ r.node \in Nodes
    BY <1>5 DEF PublishRequest
  <2>2. saved \in Local /\ saved.node \in Nodes
    BY <1>2, <2>1, NoLocalType, PublishLocalType DEF NoLocal
  <2>3. HandlersTyped'
    BY <1>1, <1>5, <2>2, SuspendTyped DEF PCs
  <2> QED
    BY <1>1, <1>3, <2>3 DEF TypeInv, TypeOK, StoreTyped, HandlersTyped
<1>6. \/ \E c \in Codes : Answer(p, Op, c, att)
      \/ r.id # Empty /\ r.node # Empty /\ Suspend(p, At, saved)
  <2>1. \A out \in ReadOutcomes : reraiseNotFound(err(out)) \in Codes
    BY DEF reraiseNotFound, Codes
  <2>2. {"InvalidArgument", "AlreadyExists", "ResourceExhausted"} \subseteq Codes
    BY DEF Codes
  <2> QED
    BY <2>1, <2>2, Zenon DEF ControllerPublishVolume
<1> QED
  BY <1>4, <1>5, <1>6

(* The write half of the fake's Update sets a saved node, or writes a     *)
(* volume that is no longer stored.                                       *)
LEMMA ControllerPublishVolumeAttachTyped ==
    ASSUME TypeInv, NEW p \in Procs, ControllerPublishVolumeAttach(p)
    PROVE  TypeInv'
<1> DEFINE l == local[p]
<1>1. StoreTyped /\ HandlersTyped
  BY TypeInvSplit
<1>2. l \in Local /\ l.node \in Nodes
  BY DEF ControllerPublishVolumeAttach, TypeInv, TypeOK, AttachSuspendedNode
<1>3. StoreTyped'
  <2>1. issued' = issued
    BY DEF ControllerPublishVolumeAttach
  <2>2. CASE l.id \in DOMAIN vols
    <3>1. vols' = [vols EXCEPT ![l.id].servers = {l.node}]
      BY <2>2 DEF ControllerPublishVolumeAttach
    <3>2. {l.node} \in {{}} \cup {{n} : n \in Nodes}
      BY <1>2
    <3> QED
      BY <1>1, <2>1, <2>2, <3>1, <3>2, SetServersTyped
  <2>3. CASE l.id \notin DOMAIN vols
    BY <1>1, <2>1, <2>3 DEF ControllerPublishVolumeAttach, StoreTyped
  <2> QED
    BY <2>2, <2>3
<1>4. HandlersTyped'
  <2>1. CASE Suspend(p, "ControllerPublishVolume", l)
    BY <1>1, <1>2, <2>1, SuspendTyped DEF PCs
  <2>2. CASE Answer(p, "ControllerPublishVolume", "Aborted", l.attached)
    BY <1>1, <1>2, <2>2, AnswerTyped DEF Local, Codes, Ops
  <2> QED
    BY <2>1, <2>2, Zenon DEF ControllerPublishVolumeAttach
<1> QED
  BY <1>3, <1>4 DEF TypeInv, TypeOK, StoreTyped, HandlersTyped

LEMMA ControllerPublishVolumeGetTyped ==
    ASSUME TypeInv, NEW p \in Procs, ControllerPublishVolumeGet(p)
    PROVE  TypeInv'
<1>1. local[p].attached \in BOOLEAN
  BY DEF TypeInv, TypeOK, Local
<1>2. \E c \in {"Aborted", "NotFound", "OK"} :
         Answer(p, "ControllerPublishVolume", c, local[p].attached)
  BY Zenon DEF ControllerPublishVolumeGet
<1>3. UNCHANGED <<vols, issued>>
  BY DEF ControllerPublishVolumeGet
<1> QED
  BY <1>1, <1>2, <1>3, AnswerOnlyTyped DEF Codes, Ops

(* The locals a suspended ControllerUnpublishVolume saves. *)
LEMMA UnpublishLocalType ==
    ASSUME NEW r \in UnpublishRequest
    PROVE  [NoLocal EXCEPT !.id = r.id, !.node = r.node] \in Local
  BY NoLocalType DEF Local, UnpublishRequest

LEMMA ControllerUnpublishVolumeTyped ==
    ASSUME TypeInv, NEW p \in Procs, NEW r \in UnpublishRequest,
           ControllerUnpublishVolume(p, r)
    PROVE  TypeInv'
<1> DEFINE Op == "ControllerUnpublishVolume"
           id == r.id
           l  == [NoLocal EXCEPT !.id = id, !.node = r.node]
<1>1. UNCHANGED <<vols, issued>>
  BY DEF ControllerUnpublishVolume
<1>2. CASE \E c \in {"InvalidArgument", "OK", "Unknown"} :
              Answer(p, Op, c, FALSE)
  BY <1>1, <1>2, AnswerOnlyTyped DEF Codes, Ops
<1>3. CASE Suspend(p, Op, l)
  <2>1. l \in Local
    BY UnpublishLocalType
  <2>2. StoreTyped /\ HandlersTyped
    BY TypeInvSplit
  <2>3. HandlersTyped'
    BY <1>3, <2>1, <2>2, SuspendTyped DEF PCs
  <2> QED
    BY <1>1, <2>2, <2>3 DEF TypeInv, TypeOK, StoreTyped, HandlersTyped
<1>4. \A e : UnpublishGetAnswer(e) \in {"OK", "Unknown"}
  BY DEF UnpublishGetAnswer
<1>5. \/ Answer(p, Op, "InvalidArgument", FALSE)
      \/ \E e : Answer(p, Op, UnpublishGetAnswer(e), FALSE)
      \/ Suspend(p, Op, l)
  BY Zenon DEF ControllerUnpublishVolume
<1> QED
  BY <1>2, <1>3, <1>4, <1>5

LEMMA ControllerUnpublishVolumeUpdateTyped ==
    ASSUME TypeInv, NEW p \in Procs, ControllerUnpublishVolumeUpdate(p)
    PROVE  TypeInv'
<1> DEFINE id == local[p].id
<1>1. StoreTyped /\ HandlersTyped
  BY TypeInvSplit
<1>2. HandlersTyped'
  <2>1. \E c \in {"Aborted", "NotFound", "OK"} :
           Answer(p, "ControllerUnpublishVolume", c, FALSE)
    BY Zenon DEF ControllerUnpublishVolumeUpdate
  <2> QED
    BY <1>1, <2>1, AnswerTyped DEF Codes, Ops
<1>3. StoreTyped'
  <2>1. PICK out \in WriteOutcomes :
           vols' = IF Applied(out) /\ id \in DOMAIN vols
                   THEN [vols EXCEPT ![id].servers = {}] ELSE vols
    BY DEF ControllerUnpublishVolumeUpdate
  <2>2. issued' = issued
    BY DEF ControllerUnpublishVolumeUpdate
  <2>3. CASE Applied(out) /\ id \in DOMAIN vols
    <3>1. {} \in {{}} \cup {{n} : n \in Nodes}
      OBVIOUS
    <3> QED
      BY <1>1, <2>1, <2>2, <2>3, <3>1, SetServersTyped
  <2>4. CASE ~(Applied(out) /\ id \in DOMAIN vols)
    BY <1>1, <2>1, <2>2, <2>4 DEF StoreTyped
  <2> QED
    BY <2>3, <2>4
<1> QED
  BY <1>2, <1>3 DEF TypeInv, TypeOK, StoreTyped, HandlersTyped

LEMMA ValidateVolumeCapabilitiesTyped ==
    ASSUME TypeInv, NEW p \in Procs, NEW r \in ValidateRequest,
           ValidateVolumeCapabilities(p, r)
    PROVE  TypeInv'
<1>1. \E c \in {"InvalidArgument", "Aborted", "NotFound", "OK"} :
         Answer(p, "ValidateVolumeCapabilities", c, FALSE)
  BY Zenon DEF ValidateVolumeCapabilities
<1>2. UNCHANGED <<vols, issued>>
  BY DEF ValidateVolumeCapabilities
<1> QED
  BY <1>1, <1>2, AnswerOnlyTyped DEF Codes, Ops

LEMMA ListVolumesTyped ==
    ASSUME TypeInv, NEW p \in Procs, NEW token \in BOOLEAN,
           ListVolumes(p, token)
    PROVE  TypeInv'
<1>1. \E c \in {"Aborted", "Unknown", "OK"} : Answer(p, "ListVolumes", c, FALSE)
  BY Zenon DEF ListVolumes
<1>2. UNCHANGED <<vols, issued>>
  BY DEF ListVolumes
<1> QED
  BY <1>1, <1>2, AnswerOnlyTyped DEF Codes, Ops

(* The locals a suspended ControllerExpandVolume saves. *)
LEMMA ExpandLocalType ==
    ASSUME NEW l \in Local, NEW i \in Ids, NEW n \in Int, NEW b \in BOOLEAN
    PROVE  [l EXCEPT !.id = i, !.sizeGB = n, !.block = b] \in Local
  BY DEF Local

LEMMA ControllerExpandVolumeTyped ==
    ASSUME TypeInv, NEW p \in Procs, NEW r \in ExpandRequest,
           ControllerExpandVolume(p, r)
    PROVE  TypeInv'
<1> DEFINE Op     == "ControllerExpandVolume"
           resize == calculateStorageGB(r.range, vols[r.id].type)
           blk    == r.access = "block"
           saved  == [NoLocal EXCEPT !.id = r.id, !.sizeGB = resize.sizeGB,
                                     !.block = blk]
<1>1. UNCHANGED <<vols, issued>>
  BY DEF ControllerExpandVolume
<1>2. CASE \E c \in {"InvalidArgument", "Internal", "OutOfRange", "OK"} :
              Answer(p, Op, c, FALSE)
  BY <1>1, <1>2, AnswerOnlyTyped DEF Codes, Ops
<1>3. CASE r.id # Empty /\ Suspend(p, Op, saved)
  <2>1. r.range \in CapRanges /\ r.id \in Ids
    BY <1>3 DEF ExpandRequest
  <2>2. resize.sizeGB \in Int
    BY <2>1, StorageGBType
  <2>3. blk \in BOOLEAN
    OBVIOUS
  <2>4. saved \in Local
    BY <2>1, <2>2, <2>3, NoLocalType, ExpandLocalType
  <2>5. StoreTyped /\ HandlersTyped
    BY TypeInvSplit
  <2>6. HandlersTyped'
    BY <1>3, <2>4, <2>5, SuspendTyped DEF PCs
  <2> QED
    BY <1>1, <2>5, <2>6 DEF TypeInv, TypeOK, StoreTyped, HandlersTyped
<1> QED
  BY <1>2, <1>3, Zenon DEF ControllerExpandVolume

LEMMA ControllerExpandVolumeUpdateTyped ==
    ASSUME TypeInv, NEW p \in Procs, ControllerExpandVolumeUpdate(p)
    PROVE  TypeInv'
<1> DEFINE l == local[p]
<1>1. StoreTyped /\ HandlersTyped
  BY TypeInvSplit
<1>2. HandlersTyped'
  <2>1. \E c \in {"OK", "Internal"} :
           Answer(p, "ControllerExpandVolume", c, FALSE)
    BY Zenon DEF ControllerExpandVolumeUpdate
  <2> QED
    BY <1>1, <2>1, AnswerTyped DEF Codes, Ops
<1>3. StoreTyped'
  <2>1. PICK out \in WriteOutcomes :
           vols' = IF Applied(out) /\ ResizeAccepted(l.id, l.sizeGB)
                   THEN [vols EXCEPT ![l.id].sizeGB = l.sizeGB] ELSE vols
    BY DEF ControllerExpandVolumeUpdate
  <2>2. issued' = issued
    BY DEF ControllerExpandVolumeUpdate
  <2>3. l.sizeGB \in Int
    BY DEF TypeInv, TypeOK, Local
  <2>4. CASE Applied(out) /\ ResizeAccepted(l.id, l.sizeGB)
    BY <1>1, <2>1, <2>2, <2>3, <2>4, SetSizeTyped
  <2>5. CASE ~(Applied(out) /\ ResizeAccepted(l.id, l.sizeGB))
    BY <1>1, <2>1, <2>2, <2>5 DEF StoreTyped
  <2> QED
    BY <2>4, <2>5
<1> QED
  BY <1>2, <1>3 DEF TypeInv, TypeOK, StoreTyped, HandlersTyped

-----------------------------------------------------------------------------
(* TypeInv holds initially and is kept by every step. *)

LEMMA InitTyped == Init => TypeInv
  BY NoLocalType DEF Init, TypeInv, TypeOK, CreateSuspendedNamed,
     AttachSuspendedNode, PCs,
     Response, Ops, Codes

LEMMA NextTyped == TypeInv /\ [Next]_vars => TypeInv'
<1> SUFFICES ASSUME TypeInv, [Next]_vars PROVE TypeInv'
  OBVIOUS
<1>1. CASE UNCHANGED vars
  BY <1>1 DEF vars, TypeInv, TypeOK, CreateSuspendedNamed, AttachSuspendedNode
<1>2. CASE Next
  BY <1>2, CreateVolumeTyped, CreateVolumeCreateTyped, DeleteVolumeTyped,
     ControllerPublishVolumeTyped, ControllerPublishVolumeAttachTyped,
     ControllerPublishVolumeGetTyped,
     ControllerUnpublishVolumeTyped, ControllerUnpublishVolumeUpdateTyped,
     ValidateVolumeCapabilitiesTyped, ListVolumesTyped,
     ControllerExpandVolumeTyped, ControllerExpandVolumeUpdateTyped
     DEF Next
<1> QED
  BY <1>1, <1>2

(* Every state the controller and the store reach is well typed: the     *)
(* store holds volumes of the Volume shape under UUIDs it has handed out, *)
(* and every handler is idle or suspended with typed locals, whatever     *)
(* order the handlers' remote calls interleave in and whichever fail.     *)
THEOREM TypeCorrect == Spec => []TypeOK
<1>1. TypeInv => TypeOK
  BY DEF TypeInv
<1> QED
  BY InitTyped, NextTyped, <1>1, PTL DEF Spec

-----------------------------------------------------------------------------
(* With per-name serialization, volume names stay unique.                 *)

LEMMA AnswerKept ==
    ASSUME NEW p \in Procs, NEW op, NEW code, NEW att, HandlersTyped,
           Answer(p, op, code, att)
    PROVE  OthersKept(p)
  BY DEF Answer, OthersKept, HandlersTyped

LEMMA SuspendKept ==
    ASSUME NEW p \in Procs, NEW at, NEW l, at # "CreateVolume", HandlersTyped,
           Suspend(p, at, l)
    PROVE  OthersKept(p)
  BY DEF Suspend, OthersKept, HandlersTyped

(* The store updates other than Volumes.Create keep every name. *)
LEMMA RemoveKept ==
    ASSUME StoreTyped, NEW i, vols' = RemoveVolume(i)
    PROVE  StoreNamesKept
  BY DEF StoreNamesKept, RemoveVolume

LEMMA ServersKept ==
    ASSUME StoreTyped, NEW i, NEW S, vols' = [vols EXCEPT ![i].servers = S]
    PROVE  StoreNamesKept
  BY DEF StoreNamesKept, StoreTyped

LEMMA SizeKept ==
    ASSUME StoreTyped, NEW i, NEW n, vols' = [vols EXCEPT ![i].sizeGB = n]
    PROVE  StoreNamesKept
  BY DEF StoreNamesKept, StoreTyped

LEMMA UnchangedKept ==
    ASSUME vols' = vols
    PROVE  StoreNamesKept
  BY DEF StoreNamesKept

(* A step that keeps all stored names and all suspended creates keeps   *)
(* NamesInv, given that it keeps TypeInv.                                *)
LEMMA KeptNames ==
    ASSUME NamesInv, TypeInv', NEW p \in Procs, OthersKept(p), StoreNamesKept
    PROVE  NamesInv'
<1>1. UniqueNames'
  BY DEF NamesInv, UniqueNames, StoreNamesKept
<1>2. \A q \in Procs : pc'[q] = "CreateVolume" =>
          pc[q] = "CreateVolume" /\ local'[q] = local[q]
  BY DEF OthersKept
<1>3. PendingNameAbsent'
  BY <1>2 DEF NamesInv, PendingNameAbsent, VolumesNamed, StoreNamesKept
<1>4. PendingNamesDistinct'
  BY <1>2 DEF NamesInv, PendingNamesDistinct
<1> QED
  BY <1>1, <1>3, <1>4 DEF NamesInv

LEMMA DeleteVolumeNames ==
    ASSUME NamesInv, NEW p \in Procs, NEW id \in Ids \cup {Empty}, DeleteVolume(p, id)
    PROVE  NamesInv'
<1>1. TypeInv'
  BY DeleteVolumeTyped DEF NamesInv
<1>2. StoreTyped /\ HandlersTyped
  BY TypeInvSplit DEF NamesInv
<1>3. OthersKept(p)
  <2>1. \/ \E c, a : Answer(p, "DeleteVolume", c, a)
        \/ \E l : Suspend(p, "DeleteVolume", l)
    BY Zenon DEF DeleteVolume
  <2> QED
    BY <1>2, <2>1, AnswerKept, SuspendKept
<1>4. StoreNamesKept
  <2>1. vols' = vols \/ vols' = RemoveVolume(id)
    BY Zenon DEF DeleteVolume
  <2> QED
    BY <1>2, <2>1, UnchangedKept, RemoveKept
<1> QED
  BY <1>1, <1>3, <1>4, KeptNames

LEMMA ControllerPublishVolumeNames ==
    ASSUME NamesInv, NEW p \in Procs, NEW r \in PublishRequest, ControllerPublishVolume(p, r)
    PROVE  NamesInv'
<1>1. TypeInv'
  BY ControllerPublishVolumeTyped DEF NamesInv
<1>2. StoreTyped /\ HandlersTyped
  BY TypeInvSplit DEF NamesInv
<1>3. OthersKept(p)
  <2>1. \/ \E c, a : Answer(p, "ControllerPublishVolume", c, a)
        \/ \E l : Suspend(p, "ControllerPublishVolumeAttach", l)
    BY Zenon DEF ControllerPublishVolume
  <2> QED
    BY <1>2, <2>1, AnswerKept, SuspendKept
<1>4. StoreNamesKept
  <2>1. vols' = vols
    BY DEF ControllerPublishVolume
  <2> QED
    BY <2>1, UnchangedKept
<1> QED
  BY <1>1, <1>3, <1>4, KeptNames

LEMMA ControllerPublishVolumeAttachNames ==
    ASSUME NamesInv, NEW p \in Procs, ControllerPublishVolumeAttach(p)
    PROVE  NamesInv'
<1>1. TypeInv'
  BY ControllerPublishVolumeAttachTyped DEF NamesInv
<1>2. StoreTyped /\ HandlersTyped
  BY TypeInvSplit DEF NamesInv
<1>3. OthersKept(p)
  <2>1. \/ \E c, a : Answer(p, "ControllerPublishVolume", c, a)
        \/ \E l : Suspend(p, "ControllerPublishVolume", l)
    BY Zenon DEF ControllerPublishVolumeAttach
  <2> QED
    BY <1>2, <2>1, AnswerKept, SuspendKept
<1>4. StoreNamesKept
  <2>1. vols' = vols \/ \E i, S : vols' = [vols EXCEPT ![i].servers = S]
    BY Zenon DEF ControllerPublishVolumeAttach
  <2> QED
    BY <1>2, <2>1, UnchangedKept, ServersKept
<1> QED
  BY <1>1, <1>3, <1>4, KeptNames

LEMMA ControllerPublishVolumeGetNames ==
    ASSUME NamesInv, NEW p \in Procs, ControllerPublishVolumeGet(p)
    PROVE  NamesInv'
<1>1. TypeInv'
  BY ControllerPublishVolumeGetTyped DEF NamesInv
<1>2. StoreTyped /\ HandlersTyped
  BY TypeInvSplit DEF NamesInv
<1>3. OthersKept(p)
  <2>1. \/ \E c, a : Answer(p, "ControllerPublishVolume", c, a)
        \/ \E l : Suspend(p, "ControllerPublishVolume", l)
    BY Zenon DEF ControllerPublishVolumeGet
  <2> QED
    BY <1>2, <2>1, AnswerKept, SuspendKept
<1>4. StoreNamesKept
  <2>1. vols' = vols
    BY Zenon DEF ControllerPublishVolumeGet
  <2> QED
    BY <1>2, <2>1, UnchangedKept
<1> QED
  BY <1>1, <1>3, <1>4, KeptNames

LEMMA ControllerUnpublishVolumeNames ==
    ASSUME NamesInv, NEW p \in Procs, NEW r \in UnpublishRequest,
           ControllerUnpublishVolume(p, r)
    PROVE  NamesInv'
<1>1. TypeInv'
  BY ControllerUnpublishVolumeTyped DEF NamesInv
<1>2. StoreTyped /\ HandlersTyped
  BY TypeInvSplit DEF NamesInv
<1>3. OthersKept(p)
  <2>1. \/ \E c, a : Answer(p, "ControllerUnpublishVolume", c, a)
        \/ \E l : Suspend(p, "ControllerUnpublishVolume", l)
    BY Zenon DEF ControllerUnpublishVolume
  <2> QED
    BY <1>2, <2>1, AnswerKept, SuspendKept
<1>4. StoreNamesKept
  <2>1. vols' = vols
    BY Zenon DEF ControllerUnpublishVolume
  <2> QED
    BY <1>2, <2>1, UnchangedKept
<1> QED
  BY <1>1, <1>3, <1>4, KeptNames

LEMMA ControllerUnpublishVolumeUpdateNames ==
    ASSUME NamesInv, NEW p \in Procs, ControllerUnpublishVolumeUpdate(p)
    PROVE  NamesInv'
<1>1. TypeInv'
  BY ControllerUnpublishVolumeUpdateTyped DEF NamesInv
<1>2. StoreTyped /\ HandlersTyped
  BY TypeInvSplit DEF NamesInv
<1>3. OthersKept(p)
  <2>1. \/ \E c, a : Answer(p, "ControllerUnpublishVolume", c, a)
        \/ \E l : Suspend(p, "ControllerUnpublishVolume", l)
    BY Zenon DEF ControllerUnpublishVolumeUpdate
  <2> QED
    BY <1>2, <2>1, AnswerKept, SuspendKept
<1>4. StoreNamesKept
  <2>1. vols' = vols \/ \E i, S : vols' = [vols EXCEPT ![i].servers = S]
    BY Zenon DEF ControllerUnpublishVolumeUpdate
  <2> QED
    BY <1>2, <2>1, UnchangedKept, ServersKept
<1> QED
  BY <1>1, <1>3, <1>4, KeptNames

LEMMA ValidateVolumeCapabilitiesNames ==
    ASSUME NamesInv, NEW p \in Procs, NEW r \in ValidateRequest, ValidateVolumeCapabilities(p, r)
    PROVE  NamesInv'
<1>1. TypeInv'
  BY ValidateVolumeCapabilitiesTyped DEF NamesInv
<1>2. StoreTyped /\ HandlersTyped
  BY TypeInvSplit DEF NamesInv
<1>3. OthersKept(p)
  <2>1. \/ \E c, a : Answer(p, "ValidateVolumeCapabilities", c, a)
        \/ \E l : Suspend(p, "ValidateVolumeCapabilities", l)
    BY Zenon DEF ValidateVolumeCapabilities
  <2> QED
    BY <1>2, <2>1, AnswerKept, SuspendKept
<1>4. StoreNamesKept
  <2>1. vols' = vols
    BY Zenon DEF ValidateVolumeCapabilities
  <2> QED
    BY <1>2, <2>1, UnchangedKept
<1> QED
  BY <1>1, <1>3, <1>4, KeptNames

LEMMA ListVolumesNames ==
    ASSUME NamesInv, NEW p \in Procs, NEW token \in BOOLEAN, ListVolumes(p, token)
    PROVE  NamesInv'
<1>1. TypeInv'
  BY ListVolumesTyped DEF NamesInv
<1>2. StoreTyped /\ HandlersTyped
  BY TypeInvSplit DEF NamesInv
<1>3. OthersKept(p)
  <2>1. \/ \E c, a : Answer(p, "ListVolumes", c, a)
        \/ \E l : Suspend(p, "ListVolumes", l)
    BY Zenon DEF ListVolumes
  <2> QED
    BY <1>2, <2>1, AnswerKept, SuspendKept
<1>4. StoreNamesKept
  <2>1. vols' = vols
    BY Zenon DEF ListVolumes
  <2> QED
    BY <1>2, <2>1, UnchangedKept
<1> QED
  BY <1>1, <1>3, <1>4, KeptNames

LEMMA ControllerExpandVolumeNames ==
    ASSUME NamesInv, NEW p \in Procs, NEW r \in ExpandRequest, ControllerExpandVolume(p, r)
    PROVE  NamesInv'
<1>1. TypeInv'
  BY ControllerExpandVolumeTyped DEF NamesInv
<1>2. StoreTyped /\ HandlersTyped
  BY TypeInvSplit DEF NamesInv
<1>3. OthersKept(p)
  <2>1. \/ \E c, a : Answer(p, "ControllerExpandVolume", c, a)
        \/ \E l : Suspend(p, "ControllerExpandVolume", l)
    BY Zenon DEF ControllerExpandVolume
  <2> QED
    BY <1>2, <2>1, AnswerKept, SuspendKept
<1>4. StoreNamesKept
  <2>1. vols' = vols
    BY Zenon DEF ControllerExpandVolume
  <2> QED
    BY <1>2, <2>1, UnchangedKept
<1> QED
  BY <1>1, <1>3, <1>4, KeptNames

LEMMA ControllerExpandVolumeUpdateNames ==
    ASSUME NamesInv, NEW p \in Procs, ControllerExpandVolumeUpdate(p)
    PROVE  NamesInv'
<1>1. TypeInv'
  BY ControllerExpandVolumeUpdateTyped DEF NamesInv
<1>2. StoreTyped /\ HandlersTyped
  BY TypeInvSplit DEF NamesInv
<1>3. OthersKept(p)
  <2>1. \/ \E c, a : Answer(p, "ControllerExpandVolume", c, a)
        \/ \E l : Suspend(p, "ControllerExpandVolume", l)
    BY Zenon DEF ControllerExpandVolumeUpdate
  <2> QED
    BY <1>2, <2>1, AnswerKept, SuspendKept
<1>4. StoreNamesKept
  <2>1. vols' = vols \/ \E i, n : vols' = [vols EXCEPT ![i].sizeGB = n]
    BY Zenon DEF ControllerExpandVolumeUpdate
  <2> QED
    BY <1>2, <2>1, UnchangedKept, SizeKept
<1> QED
  BY <1>1, <1>3, <1>4, KeptNames

(* CreateVolume suspends only for a name no volume and no other suspended *)
(* CreateVolume has: the lookup found nothing, and the orchestrator does  *)
(* not send a second call for a name in flight.                           *)
LEMMA CreateVolumeNames ==
    ASSUME NamesInv, SerializedCalls, NEW p \in Procs, NEW r \in CreateRequest,
           CreateVolume(p, r)
    PROVE  NamesInv'
<1> DEFINE Op    == "CreateVolume"
           type  == storageTypeOf(r.type)
           size  == calculateStorageGB(r.range, type).sizeGB
           saved == [NoLocal EXCEPT !.name = r.name, !.sizeGB = size,
                                    !.type = type]
<1>1. TypeInv'
  BY CreateVolumeTyped DEF NamesInv
<1>2. StoreTyped /\ HandlersTyped
  BY TypeInvSplit DEF NamesInv
<1>3. vols' = vols
  BY DEF CreateVolume
<1>4. CASE \E c, a : Answer(p, Op, c, a)
  BY <1>1, <1>2, <1>3, <1>4, AnswerKept, UnchangedKept, KeptNames
<1>5. CASE /\ Idle(p) /\ r.name \notin PendingNames
           /\ VolumesNamed(r.name) = {} /\ Suspend(p, Op, saved)
  <2>1. local'[p].name = r.name /\ pc'[p] = Op
    BY <1>2, <1>5 DEF Suspend, NoLocal, HandlersTyped
  <2>2. \A q \in Procs \ {p} : pc'[q] = pc[q] /\ local'[q] = local[q]
    BY <1>5 DEF Suspend
  <2>3. pc[p] # Op
    BY <1>5 DEF Idle
  <2>4. \A q \in Procs : pc[q] = Op => local[q].name # r.name
    BY <1>5 DEF PendingNames
  <2>5. UniqueNames'
    BY <1>3 DEF NamesInv, UniqueNames
  <2>6. PendingNameAbsent'
    BY <1>3, <1>5, <2>1, <2>2 DEF NamesInv, PendingNameAbsent, VolumesNamed
  <2>7. PendingNamesDistinct'
    BY <2>1, <2>2, <2>3, <2>4 DEF NamesInv, PendingNamesDistinct
  <2> QED
    BY <1>1, <2>5, <2>6, <2>7 DEF NamesInv
<1> QED
  BY <1>4, <1>5, Zenon DEF CreateVolume

(* Volumes.Create stores a volume under a fresh UUID with the name of a   *)
(* suspended CreateVolume: no volume had that name, and the other         *)
(* suspended creates wait on other names.                                 *)
LEMMA CreateVolumeCreateNames ==
    ASSUME NamesInv, NEW p \in Procs, CreateVolumeCreate(p)
    PROVE  NamesInv'
<1> DEFINE l   == local[p]
           new == [name |-> l.name, sizeGB |-> l.sizeGB, type |-> l.type,
                   servers |-> {}]
<1>1. TypeInv'
  BY CreateVolumeCreateTyped DEF NamesInv
<1>2. StoreTyped /\ HandlersTyped
  BY TypeInvSplit DEF NamesInv
<1>3. OthersKept(p)
  <2>1. \E c, a : Answer(p, "CreateVolume", c, a)
    BY Zenon DEF CreateVolumeCreate
  <2> QED
    BY <1>2, <2>1, AnswerKept
<1>4. CASE vols' = vols
  BY <1>1, <1>3, <1>4, UnchangedKept, KeptNames
<1>5. CASE \E i \in Ids \ issued : vols' = SetVolume(i, new)
  <2>1. PICK i \in Ids \ issued : vols' = SetVolume(i, new)
    BY <1>5
  <2>2. i \notin DOMAIN vols
    BY <1>2 DEF StoreTyped
  <2>3. pc[p] = "CreateVolume"
    BY DEF CreateVolumeCreate
  <2>4. \A j \in DOMAIN vols : vols[j].name # l.name
    BY <2>3 DEF NamesInv, PendingNameAbsent, VolumesNamed
  <2>5. DOMAIN vols' = DOMAIN vols \cup {i}
        /\ vols'[i] = new
        /\ \A j \in DOMAIN vols : vols'[j] = vols[j]
    BY <2>1, <2>2 DEF SetVolume
  <2>6. UniqueNames'
    BY <2>2, <2>4, <2>5 DEF NamesInv, UniqueNames
  <2>7. \A q \in Procs : pc'[q] = "CreateVolume" =>
            /\ q # p /\ pc[q] = "CreateVolume" /\ local'[q] = local[q]
            /\ local[q].name # l.name
    BY <1>3, <2>3 DEF OthersKept, NamesInv, PendingNamesDistinct
  <2>8. PendingNameAbsent'
    BY <2>2, <2>5, <2>7 DEF NamesInv, PendingNameAbsent, VolumesNamed
  <2>9. PendingNamesDistinct'
    BY <2>7 DEF NamesInv, PendingNamesDistinct
  <2> QED
    BY <1>1, <2>6, <2>8, <2>9 DEF NamesInv
<1> QED
  BY <1>4, <1>5, Zenon DEF CreateVolumeCreate

LEMMA InitNames == Init => NamesInv
  BY InitTyped DEF Init, NamesInv, UniqueNames, PendingNameAbsent,
     PendingNamesDistinct

LEMMA NextNames ==
    ASSUME SerializedCalls
    PROVE  NamesInv /\ [Next]_vars => NamesInv'
<1> SUFFICES ASSUME NamesInv, [Next]_vars PROVE NamesInv'
  OBVIOUS
<1>1. CASE UNCHANGED vars
  BY <1>1 DEF vars, NamesInv, TypeInv, TypeOK, CreateSuspendedNamed,
     AttachSuspendedNode,
     UniqueNames, PendingNameAbsent, PendingNamesDistinct, VolumesNamed
<1>2. CASE Next
  BY <1>2, CreateVolumeNames, CreateVolumeCreateNames, DeleteVolumeNames,
     ControllerPublishVolumeNames, ControllerPublishVolumeAttachNames,
     ControllerPublishVolumeGetNames,
     ControllerUnpublishVolumeNames, ControllerUnpublishVolumeUpdateNames,
     ValidateVolumeCapabilitiesNames, ListVolumesNames,
     ControllerExpandVolumeNames, ControllerExpandVolumeUpdateNames
     DEF Next
<1> QED
  BY <1>1, <1>2

(* When the orchestrator keeps at most one CreateVolume in flight per     *)
(* name, as CSI asks, the store never holds two volumes of one name: the  *)
(* Volumes.List lookup before Volumes.Create in CreateVolume suffices,    *)
(* for any number of handlers, names and volumes, with failed calls and   *)
(* lost answers retried.                                                  *)
THEOREM UniqueNamesHold ==
    ASSUME SerializedCalls
    PROVE  Spec => []UniqueNames
<1>1. NamesInv /\ [Next]_vars => NamesInv'
  BY NextNames
<1>2. NamesInv => UniqueNames
  BY DEF NamesInv
<1> QED
  BY InitNames, <1>1, <1>2, PTL DEF Spec
=============================================================================
