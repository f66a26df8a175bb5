---------------------- MODULE VolumeControllerIdProofs ----------------------
(***************************************************************************)
(* Proofs that, with the orchestrator keeping one call in flight per      *)
(* volume, ControllerUnpublishVolume never answers NotFound and the size   *)
(* a suspended ControllerExpandVolume read is still the volume's size when *)
(* it sends its resizing Update, for every value of the constants.         *)
(*                                                                         *)
(* Both rest on one fact about the calls in flight: a handler suspended    *)
(* between the remote calls of a publish, an unpublish or an expand        *)
(* holds the UUID of a stored volume, and no other suspended handler holds *)
(* the same UUID, so no DeleteVolume and no other resize reaches it.       *)
(***************************************************************************)
EXTENDS VolumeControllerProofs

(* Where a handler holds a volume UUID between its remote calls, or       *)
(* inside the fake's attaching Update.                                    *)
IdPCs == {"ControllerPublishVolumeAttach", "ControllerPublishVolume",
          "ControllerUnpublishVolume", "ControllerExpandVolume"}

(* A handler suspended in publish, unpublish or expand holds a stored     *)
(* volume's UUID: each suspends only after the store showed the volume.   *)
PendingStored ==
    \A p \in Procs : pc[p] \in IdPCs => local[p].id \in DOMAIN vols

(* Two handlers suspended on volume UUIDs hold different UUIDs. *)
PendingIdsDistinct ==
    \A p, q \in Procs :
        /\ pc[p] \in IdPCs /\ pc[q] \in IdPCs
        /\ local[p].id = local[q].id
        => p = q

(* The inductive strengthening of UnpublishNeverNotFound and             *)
(* ExpandReadStillFresh.                                                  *)
IdsInv ==
    /\ TypeInv
    /\ PendingStored
    /\ PendingIdsDistinct
    /\ ExpandReadStillFresh
    /\ UnpublishNeverNotFound

(* A step of handler p that leaves every other handler as it was. *)
OthersSame(p) ==
    \A q \in Procs \ {p} :
        pc'[q] = pc[q] /\ local'[q] = local[q] /\ resp'[q] = resp[q]

(* A step that keeps, for every other handler holding a UUID, the volume  *)
(* and its size.                                                          *)
VolsKeptFor(p) ==
    \A q \in Procs \ {p} :
        pc[q] \in IdPCs =>
            /\ local[q].id \in DOMAIN vols'
            /\ vols'[local[q].id].sizeGB = vols[local[q].id].sizeGB

(* No handler other than p holds UUID id. *)
HeldByNoOther(p, id) ==
    \A q \in Procs \ {p} : pc[q] \in IdPCs => local[q].id # id

(* What handler p's own state after a step must satisfy. *)
OwnIds(p) ==
    /\ pc'[p] \in IdPCs =>
          local'[p].id \in DOMAIN vols' /\ HeldByNoOther(p, local'[p].id)
    /\ pc'[p] = "ControllerExpandVolume" /\ local'[p].id \in DOMAIN vols'
          => local'[p].sizeGB > vols'[local'[p].id].sizeGB
    /\ resp'[p].op = "ControllerUnpublishVolume" => resp'[p].code # "NotFound"
-----------------------------------------------------------------------------
(* A step that keeps the others and the volumes they hold keeps IdsInv    *)
(* when the stepping handler's own state satisfies it.                    *)
LEMMA IdsStep ==
    ASSUME IdsInv, TypeInv', NEW p \in Procs, OthersSame(p), VolsKeptFor(p),
           OwnIds(p)
    PROVE  IdsInv'
<1>1. PendingStored'
  BY DEF IdsInv, PendingStored, OthersSame, VolsKeptFor, OwnIds
<1>2. PendingIdsDistinct'
  <2> SUFFICES ASSUME NEW q \in Procs, NEW q2 \in Procs,
                      pc'[q] \in IdPCs, pc'[q2] \in IdPCs,
                      local'[q].id = local'[q2].id
               PROVE  q = q2
    BY DEF PendingIdsDistinct
  <2>1. CASE q = p \/ q2 = p
    BY <2>1 DEF OwnIds, HeldByNoOther, OthersSame
  <2>2. CASE q # p /\ q2 # p
    BY <2>2 DEF IdsInv, PendingIdsDistinct, OthersSame
  <2> QED
    BY <2>1, <2>2
<1>3. ExpandReadStillFresh'
  <2> SUFFICES ASSUME NEW q \in Procs, pc'[q] = "ControllerExpandVolume",
                      local'[q].id \in DOMAIN vols'
               PROVE  local'[q].sizeGB > vols'[local'[q].id].sizeGB
    BY DEF ExpandReadStillFresh
  <2>1. CASE q = p
    BY <2>1 DEF OwnIds
  <2>2. CASE q # p
    <3>1. pc[q] = "ControllerExpandVolume" /\ local'[q] = local[q]
      BY <2>2 DEF OthersSame
    <3>2. local[q].id \in DOMAIN vols
      BY <3>1 DEF IdsInv, PendingStored, IdPCs
    <3>3. local[q].sizeGB > vols[local[q].id].sizeGB
      BY <3>1, <3>2 DEF IdsInv, ExpandReadStillFresh
    <3>4. vols'[local[q].id].sizeGB = vols[local[q].id].sizeGB
      BY <2>2, <3>1 DEF VolsKeptFor, IdPCs
    <3> QED
      BY <3>1, <3>3, <3>4
  <2> QED
    BY <2>1, <2>2
<1>4. UnpublishNeverNotFound'
  BY DEF IdsInv, UnpublishNeverNotFound, OthersSame, OwnIds
<1> QED
  BY <1>1, <1>2, <1>3, <1>4 DEF IdsInv

(* Answer and Suspend change handler p only. *)
LEMMA AnswerSame ==
    ASSUME HandlersTyped, NEW p \in Procs, NEW op, NEW code, NEW att,
           Answer(p, op, code, att)
    PROVE  /\ OthersSame(p)
           /\ pc'[p] = "idle"
           /\ resp'[p] = [op |-> op, code |-> code, attached |-> att]
  BY DEF HandlersTyped, Answer, OthersSame

LEMMA SuspendSame ==
    ASSUME HandlersTyped, NEW p \in Procs, NEW at, NEW l, Suspend(p, at, l)
    PROVE  /\ OthersSame(p)
           /\ pc'[p] = at /\ local'[p] = l /\ resp'[p] = resp[p]
  BY DEF HandlersTyped, Suspend, OthersSame

(* A handler that answers anything but NotFound to an unpublish keeps     *)
(* IdsInv.                                                                *)
LEMMA AnswerIds ==
    ASSUME IdsInv, TypeInv', NEW p \in Procs, NEW op, NEW code, NEW att,
           Answer(p, op, code, att), VolsKeptFor(p),
           op = "ControllerUnpublishVolume" => code # "NotFound"
    PROVE  IdsInv'
<1>1. HandlersTyped
  BY TypeInvSplit DEF IdsInv
<1>2. /\ OthersSame(p)
      /\ pc'[p] = "idle"
      /\ resp'[p] = [op |-> op, code |-> code, attached |-> att]
  BY <1>1, AnswerSame
<1>3. resp'[p].op = op /\ resp'[p].code = code
  BY <1>2
<1>4. OwnIds(p)
  BY <1>2, <1>3 DEF OwnIds, IdPCs
<1> QED
  BY <1>2, <1>4, IdsStep

(* A handler that suspends holding a stored UUID no other handler holds,  *)
(* and, in an expand, a size above the stored one, keeps IdsInv.          *)
LEMMA SuspendIds ==
    ASSUME IdsInv, TypeInv', NEW p \in Procs, NEW at, NEW l,
           Suspend(p, at, l), VolsKeptFor(p),
           at \in IdPCs => l.id \in DOMAIN vols' /\ HeldByNoOther(p, l.id),
           at = "ControllerExpandVolume" /\ l.id \in DOMAIN vols'
               => l.sizeGB > vols'[l.id].sizeGB
    PROVE  IdsInv'
<1>1. HandlersTyped
  BY TypeInvSplit DEF IdsInv
<1>2. OthersSame(p) /\ pc'[p] = at /\ local'[p] = l /\ resp'[p] = resp[p]
  BY <1>1, SuspendSame
<1>3. OwnIds(p)
  BY <1>2 DEF OwnIds, IdsInv, UnpublishNeverNotFound
<1> QED
  BY <1>2, <1>3, IdsStep
-----------------------------------------------------------------------------
(* The store changes keep the volumes other handlers hold.                *)

LEMMA KeptUnchanged ==
    ASSUME IdsInv, NEW p \in Procs, vols' = vols
    PROVE  VolsKeptFor(p)
  BY DEF IdsInv, PendingStored, VolsKeptFor

(* Volumes.Create adds a UUID never handed out. *)
LEMMA KeptSet ==
    ASSUME IdsInv, NEW p \in Procs, NEW i \in Ids \ issued, NEW v,
           vols' = SetVolume(i, v)
    PROVE  VolsKeptFor(p)
<1>1. i \notin DOMAIN vols
  BY DEF IdsInv, TypeInv, TypeOK
<1> QED
  BY <1>1 DEF IdsInv, PendingStored, VolsKeptFor, SetVolume

(* Volumes.Delete of a UUID no other handler holds. *)
LEMMA KeptRemove ==
    ASSUME IdsInv, NEW p \in Procs, NEW i, HeldByNoOther(p, i),
           vols' = RemoveVolume(i)
    PROVE  VolsKeptFor(p)
  BY DEF IdsInv, PendingStored, VolsKeptFor, RemoveVolume, HeldByNoOther

(* Volumes.Update of a volume's servers keeps every size. *)
LEMMA KeptServers ==
    ASSUME IdsInv, NEW p \in Procs, NEW i, NEW S,
           vols' = [vols EXCEPT ![i].servers = S]
    PROVE  VolsKeptFor(p)
<1>1. \A j \in DOMAIN vols : vols[j] \in Volume
  BY DEF IdsInv, TypeInv, TypeOK
<1> QED
  BY <1>1 DEF IdsInv, PendingStored, VolsKeptFor, Volume

(* Volumes.Update of the size of a volume no other handler holds. *)
LEMMA KeptSize ==
    ASSUME IdsInv, NEW p \in Procs, NEW i, NEW n, HeldByNoOther(p, i),
           vols' = [vols EXCEPT ![i].sizeGB = n]
    PROVE  VolsKeptFor(p)
  BY DEF IdsInv, PendingStored, VolsKeptFor, HeldByNoOther

(* The orchestrator's one-call-per-volume rule: a UUID not among the calls *)
(* in flight is held by no suspended handler.                              *)
LEMMA NotPendingHeld ==
    ASSUME TypeInv, NEW p \in Procs, NEW id, id \notin PendingIds
    PROVE  HeldByNoOther(p, id)
  BY DEF PendingIds, HeldByNoOther, IdPCs

(* A suspended handler's UUID is held by no other handler. *)
LEMMA OwnHeld ==
    ASSUME IdsInv, NEW p \in Procs, pc[p] \in IdPCs
    PROVE  HeldByNoOther(p, local[p].id)
  BY DEF IdsInv, PendingIdsDistinct, HeldByNoOther
-----------------------------------------------------------------------------
(* Each handler step keeps IdsInv.                                        *)

LEMMA CreateVolumeIds ==
    ASSUME IdsInv, NEW p \in Procs, NEW r \in CreateRequest, CreateVolume(p, r)
    PROVE  IdsInv'
<1>1. TypeInv'
  BY CreateVolumeTyped DEF IdsInv
<1>2. VolsKeptFor(p)
  BY KeptUnchanged DEF CreateVolume
<1>3. CASE \E c, a : Answer(p, "CreateVolume", c, a)
  BY <1>1, <1>2, <1>3, AnswerIds
<1>4. CASE \E l : Suspend(p, "CreateVolume", l)
  BY <1>1, <1>2, <1>4, SuspendIds DEF IdPCs
<1> QED
  BY <1>3, <1>4, Zenon DEF CreateVolume

LEMMA CreateVolumeCreateIds ==
    ASSUME IdsInv, NEW p \in Procs, CreateVolumeCreate(p)
    PROVE  IdsInv'
<1> DEFINE l   == local[p]
           new == [name |-> l.name, sizeGB |-> l.sizeGB, type |-> l.type,
                   servers |-> {}]
<1>1. TypeInv'
  BY CreateVolumeCreateTyped DEF IdsInv
<1>2. VolsKeptFor(p)
  <2>1. CASE vols' = vols
    BY <2>1, KeptUnchanged
  <2>2. CASE \E i \in Ids \ issued : vols' = SetVolume(i, new)
    BY <2>2, KeptSet
  <2> QED
    BY <2>1, <2>2, Zenon DEF CreateVolumeCreate
<1>3. \E c, a : Answer(p, "CreateVolume", c, a)
  BY Zenon DEF CreateVolumeCreate
<1> QED
  BY <1>1, <1>2, <1>3, AnswerIds

LEMMA DeleteVolumeIds ==
    ASSUME SerializedCalls, IdsInv, NEW p \in Procs,
           NEW id \in Ids \cup {Empty}, DeleteVolume(p, id)
    PROVE  IdsInv'
<1>1. TypeInv'
  BY DeleteVolumeTyped DEF IdsInv
<1>2. HeldByNoOther(p, id)
  BY NotPendingHeld DEF DeleteVolume, IdsInv
<1>3. VolsKeptFor(p)
  <2>1. CASE vols' = vols
    BY <2>1, KeptUnchanged
  <2>2. CASE vols' = RemoveVolume(id)
    BY <1>2, <2>2, KeptRemove
  <2> QED
    BY <2>1, <2>2 DEF DeleteVolume
<1>4. \E c, a : Answer(p, "DeleteVolume", c, a)
  BY Zenon DEF DeleteVolume
<1> QED
  BY <1>1, <1>3, <1>4, AnswerIds

LEMMA ControllerPublishVolumeGetIds ==
    ASSUME IdsInv, NEW p \in Procs, ControllerPublishVolumeGet(p)
    PROVE  IdsInv'
<1>1. TypeInv'
  BY ControllerPublishVolumeGetTyped DEF IdsInv
<1>2. VolsKeptFor(p)
  BY KeptUnchanged DEF ControllerPublishVolumeGet
<1>3. \E c, a : Answer(p, "ControllerPublishVolume", c, a)
  BY Zenon DEF ControllerPublishVolumeGet
<1> QED
  BY <1>1, <1>2, <1>3, AnswerIds

LEMMA ValidateVolumeCapabilitiesIds ==
    ASSUME IdsInv, NEW p \in Procs, NEW r \in ValidateRequest,
           ValidateVolumeCapabilities(p, r)
    PROVE  IdsInv'
<1>1. TypeInv'
  BY ValidateVolumeCapabilitiesTyped DEF IdsInv
<1>2. VolsKeptFor(p)
  BY KeptUnchanged DEF ValidateVolumeCapabilities
<1>3. \E c, a : Answer(p, "ValidateVolumeCapabilities", c, a)
  BY Zenon DEF ValidateVolumeCapabilities
<1> QED
  BY <1>1, <1>2, <1>3, AnswerIds

LEMMA ListVolumesIds ==
    ASSUME IdsInv, NEW p \in Procs, NEW token \in BOOLEAN, ListVolumes(p, token)
    PROVE  IdsInv'
<1>1. TypeInv'
  BY ListVolumesTyped DEF IdsInv
<1>2. VolsKeptFor(p)
  BY KeptUnchanged DEF ListVolumes
<1>3. \E c, a : Answer(p, "ListVolumes", c, a)
  BY Zenon DEF ListVolumes
<1> QED
  BY <1>1, <1>2, <1>3, AnswerIds

LEMMA ControllerPublishVolumeIds ==
    ASSUME SerializedCalls, IdsInv, NEW p \in Procs, NEW r \in PublishRequest,
           ControllerPublishVolume(p, r)
    PROVE  IdsInv'
<1> DEFINE Op       == "ControllerPublishVolume"
           att      == r.id \in DOMAIN vols /\ r.node \in vols[r.id].servers
           verdict  == AttachVerdict(r.id, r.node)
           err(out) == IF out = "ok" THEN verdict ELSE "failure"
           saved    == [NoLocal EXCEPT !.id = r.id, !.node = r.node,
                                       !.attached = att]
<1>1. TypeInv'
  BY ControllerPublishVolumeTyped DEF IdsInv
<1>2. HeldByNoOther(p, r.id)
  BY NotPendingHeld DEF ControllerPublishVolume, IdsInv
<1>3. vols' = vols
  BY DEF ControllerPublishVolume
<1>4. VolsKeptFor(p)
  BY <1>3, KeptUnchanged
<1>5. CASE \E c, a : Answer(p, Op, c, a)
  BY <1>1, <1>4, <1>5, AnswerIds
<1>6. CASE \E out \in ReadOutcomes :
             err(out) = "none" /\ Suspend(p, "ControllerPublishVolumeAttach", saved)
  <2>1. PICK out \in ReadOutcomes :
             err(out) = "none" /\ Suspend(p, "ControllerPublishVolumeAttach", saved)
    BY <1>6
  <2>2. r.id \in DOMAIN vols
    BY <2>1 DEF AttachVerdict
  <2>3. saved.id = r.id
    BY DEF NoLocal
  <2> QED
    BY <1>1, <1>2, <1>3, <1>4, <2>1, <2>2, <2>3, SuspendIds DEF IdPCs
<1> QED
  BY <1>5, <1>6, Zenon DEF ControllerPublishVolume

(* The write half of the fake's attaching Update: the volume the handler  *)
(* holds is still stored, so the write keeps it, changes no size, and     *)
(* the handler goes on holding it towards its Volumes.Get.                *)
LEMMA ControllerPublishVolumeAttachIds ==
    ASSUME IdsInv, NEW p \in Procs, ControllerPublishVolumeAttach(p)
    PROVE  IdsInv'
<1> DEFINE l == local[p]
<1>1. TypeInv'
  BY ControllerPublishVolumeAttachTyped DEF IdsInv
<1>2. pc[p] \in IdPCs
  BY DEF ControllerPublishVolumeAttach, IdPCs
<1>3. l.id \in DOMAIN vols /\ HeldByNoOther(p, l.id)
  BY <1>2, OwnHeld DEF IdsInv, PendingStored
<1>4. vols' = [vols EXCEPT ![l.id].servers = {l.node}]
  BY <1>3 DEF ControllerPublishVolumeAttach
<1>5. VolsKeptFor(p) /\ DOMAIN vols' = DOMAIN vols
  BY <1>4, KeptServers
<1>6. CASE Suspend(p, "ControllerPublishVolume", l)
  BY <1>1, <1>3, <1>5, <1>6, SuspendIds DEF IdPCs
<1>7. CASE Answer(p, "ControllerPublishVolume", "Aborted", l.attached)
  BY <1>1, <1>5, <1>7, AnswerIds
<1> QED
  BY <1>6, <1>7, Zenon DEF ControllerPublishVolumeAttach

LEMMA ControllerUnpublishVolumeIds ==
    ASSUME SerializedCalls, IdsInv, NEW p \in Procs, NEW r \in UnpublishRequest,
           ControllerUnpublishVolume(p, r)
    PROVE  IdsInv'
<1> DEFINE Op    == "ControllerUnpublishVolume"
           saved == [NoLocal EXCEPT !.id = r.id, !.node = r.node]
<1>1. TypeInv'
  BY ControllerUnpublishVolumeTyped DEF IdsInv
<1>2. HeldByNoOther(p, r.id)
  BY NotPendingHeld DEF ControllerUnpublishVolume, IdsInv
<1>3. VolsKeptFor(p)
  BY KeptUnchanged DEF ControllerUnpublishVolume
<1>4. \A e : UnpublishGetAnswer(e) # "NotFound"
  BY DEF UnpublishGetAnswer
<1>5. CASE \/ Answer(p, Op, "InvalidArgument", FALSE)
           \/ \E e : Answer(p, Op, UnpublishGetAnswer(e), FALSE)
  BY <1>1, <1>3, <1>4, <1>5, AnswerIds
<1>6. CASE r.id \in DOMAIN vols /\ Suspend(p, Op, saved)
  <2>1. saved.id = r.id /\ vols' = vols
    BY DEF NoLocal, ControllerUnpublishVolume
  <2> QED
    BY <1>1, <1>2, <1>3, <1>6, <2>1, SuspendIds DEF IdPCs
<1>7. \/ Answer(p, Op, "InvalidArgument", FALSE)
      \/ \E e : Answer(p, Op, UnpublishGetAnswer(e), FALSE)
      \/ r.id \in DOMAIN vols /\ Suspend(p, Op, saved)
  BY DEF ControllerUnpublishVolume
<1> QED
  BY <1>5, <1>6, <1>7

LEMMA ControllerUnpublishVolumeUpdateIds ==
    ASSUME IdsInv, NEW p \in Procs, ControllerUnpublishVolumeUpdate(p)
    PROVE  IdsInv'
<1> DEFINE Op == "ControllerUnpublishVolume"
           id == local[p].id
<1>1. TypeInv'
  BY ControllerUnpublishVolumeUpdateTyped DEF IdsInv
<1>2. id \in DOMAIN vols
  BY DEF ControllerUnpublishVolumeUpdate, IdsInv, PendingStored, IdPCs
<1>3. VolsKeptFor(p)
  <2>1. vols' = vols \/ vols' = [vols EXCEPT ![id].servers = {}]
    BY DEF ControllerUnpublishVolumeUpdate
  <2> QED
    BY <2>1, KeptUnchanged, KeptServers
<1>4. \E c \in {"Aborted", "OK"} : Answer(p, Op, c, FALSE)
  BY <1>2 DEF ControllerUnpublishVolumeUpdate
<1> QED
  BY <1>1, <1>3, <1>4, AnswerIds

LEMMA ControllerExpandVolumeIds ==
    ASSUME SerializedCalls, IdsInv, NEW p \in Procs, NEW r \in ExpandRequest,
           ControllerExpandVolume(p, r)
    PROVE  IdsInv'
<1> DEFINE Op     == "ControllerExpandVolume"
           resize == calculateStorageGB(r.range, vols[r.id].type)
           saved  == [NoLocal EXCEPT !.id = r.id, !.sizeGB = resize.sizeGB,
                                     !.block = r.access = "block"]
<1>1. TypeInv'
  BY ControllerExpandVolumeTyped DEF IdsInv
<1>2. HeldByNoOther(p, r.id)
  BY NotPendingHeld DEF ControllerExpandVolume, IdsInv
<1>3. VolsKeptFor(p) /\ vols' = vols
  BY KeptUnchanged DEF ControllerExpandVolume
<1>4. CASE \E c, a : Answer(p, Op, c, a)
  BY <1>1, <1>3, <1>4, AnswerIds
<1>5. CASE /\ r.id \in DOMAIN vols
           /\ NeedsResize(resize.sizeGB, vols[r.id].sizeGB)
           /\ Suspend(p, Op, saved)
  <2>1. saved.id = r.id /\ saved.sizeGB = resize.sizeGB
    BY DEF NoLocal
  <2>2. saved.sizeGB > vols'[saved.id].sizeGB
    BY <1>3, <1>5, <2>1 DEF NeedsResize
  <2> QED
    BY <1>1, <1>2, <1>3, <1>5, <2>1, <2>2, SuspendIds DEF IdPCs
<1> QED
  BY <1>4, <1>5, Zenon DEF ControllerExpandVolume

LEMMA ControllerExpandVolumeUpdateIds ==
    ASSUME IdsInv, NEW p \in Procs, ControllerExpandVolumeUpdate(p)
    PROVE  IdsInv'
<1> DEFINE l == local[p]
<1>1. TypeInv'
  BY ControllerExpandVolumeUpdateTyped DEF IdsInv
<1>2. pc[p] \in IdPCs
  BY DEF ControllerExpandVolumeUpdate, IdPCs
<1>3. HeldByNoOther(p, l.id)
  BY <1>2, OwnHeld
<1>4. VolsKeptFor(p)
  <2>1. vols' = vols \/ vols' = [vols EXCEPT ![l.id].sizeGB = l.sizeGB]
    BY DEF ControllerExpandVolumeUpdate
  <2> QED
    BY <1>3, <2>1, KeptUnchanged, KeptSize
<1>5. \E c, a : Answer(p, "ControllerExpandVolume", c, a)
  BY Zenon DEF ControllerExpandVolumeUpdate
<1> QED
  BY <1>1, <1>4, <1>5, AnswerIds
-----------------------------------------------------------------------------
(* IdsInv holds initially and, with serialized calls, is kept by every    *)
(* step.                                                                  *)

LEMMA InitIds == Init => IdsInv
  BY InitTyped DEF Init, IdsInv, PendingStored, PendingIdsDistinct,
     ExpandReadStillFresh, UnpublishNeverNotFound, IdPCs

LEMMA NextIds ==
    ASSUME SerializedCalls
    PROVE  IdsInv /\ [Next]_vars => IdsInv'
<1> SUFFICES ASSUME IdsInv, [Next]_vars PROVE IdsInv'
  OBVIOUS
<1>1. CASE UNCHANGED vars
  BY <1>1 DEF vars, IdsInv, TypeInv, TypeOK, CreateSuspendedNamed,
     AttachSuspendedNode,
     PendingStored, PendingIdsDistinct, ExpandReadStillFresh,
     UnpublishNeverNotFound
<1>2. CASE Next
  BY <1>2, CreateVolumeIds, CreateVolumeCreateIds, DeleteVolumeIds,
     ControllerPublishVolumeIds, ControllerPublishVolumeAttachIds,
     ControllerPublishVolumeGetIds,
     ControllerUnpublishVolumeIds, ControllerUnpublishVolumeUpdateIds,
     ValidateVolumeCapabilitiesIds, ListVolumesIds,
     ControllerExpandVolumeIds, ControllerExpandVolumeUpdateIds
     DEF Next
<1> QED
  BY <1>1, <1>2

(* When the orchestrator keeps at most one call in flight per volume, as  *)
(* CSI asks, ControllerUnpublishVolume never answers NotFound: its         *)
(* Volumes.Get turns a 404 into OK, and between that Get and the detaching *)
(* Volumes.Update no DeleteVolume of the volume can run, for any number of *)
(* handlers and volumes, with failed calls and lost answers.               *)
THEOREM UnpublishNeverNotFoundHolds ==
    ASSUME SerializedCalls
    PROVE  Spec => []UnpublishNeverNotFound
<1>1. IdsInv /\ [Next]_vars => IdsInv'
  BY NextIds
<1>2. IdsInv => UnpublishNeverNotFound
  BY DEF IdsInv
<1> QED
  BY InitIds, <1>1, <1>2, PTL DEF Spec

(* When the orchestrator keeps at most one call in flight per volume, the *)
(* size ControllerExpandVolume read with Volumes.Get is still the stored  *)
(* size when its resizing Volumes.Update is sent, so that Update grows    *)
(* the volume and the fake never reaches its panic on a non-growing size. *)
THEOREM ExpandReadStillFreshHolds ==
    ASSUME SerializedCalls
    PROVE  Spec => []ExpandReadStillFresh
<1>1. IdsInv /\ [Next]_vars => IdsInv'
  BY NextIds
<1>2. IdsInv => ExpandReadStillFresh
  BY DEF IdsInv
<1> QED
  BY InitIds, <1>1, <1>2, PTL DEF Spec
=============================================================================
