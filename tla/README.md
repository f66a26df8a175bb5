# TLA+ models of the csi-cloudscale controller

This directory holds TLA+ models of the CSI controller service in
`src/driver/controller.go`. The backend is the repository's test double,
`FakeVolumeServiceOperations` in `src/driver/driver_test.go`. The directory
also holds the TLC configurations that check the models and the TLAPS proofs
about them.

## The system

The controller is a gRPC service that the container orchestrator (CO) calls.
Each call runs in its own goroutine. The service keeps no state of its own: the
cloudscale volume API is the only store, and every handler reads it or writes
it through remote calls. The parts of the system are:

| Part | Code | What it does |
|---|---|---|
| Volume Lifecycle Controller | `controller.go` 75-548 | CreateVolume, DeleteVolume, ControllerPublishVolume, ControllerUnpublishVolume, ValidateVolumeCapabilities, ListVolumes, ControllerExpandVolume; the remaining RPCs answer `Unimplemented` or a constant |
| Capacity Negotiator | `calculateStorageGB`, 554-597 | turns a capacity range in bytes into whole GB, rounded to the type's step (ssd 1, bulk 100) |
| Capability Validator | `validateCapabilities`, `validateLuksCapabilities`, 627-657 | only SINGLE_NODE_WRITER with mount or block access is accepted; LUKS excludes block |
| Error Translator | `reraiseNotFound`, 659-676, and the attach-limit regex at 263 | a 404 becomes NotFound, any other error Aborted; the limit message becomes ResourceExhausted |
| Block storage client (test double) | `driver_test.go` 140-285 | an in-memory map of volumes: Create, Get, List by name, Update (attach or resize), Delete; attaching asks the server service for the server (404 if unknown) and counts the volumes per server against a limit |

Five handlers make two remote calls, and another call can run between them.
CreateVolume lists the volumes by name, then creates one. Publish attaches,
then reads the volume back; the fake's attaching Update itself counts the
server's volumes and then writes the server list, with no lock in between. Unpublish reads the volume, then detaches it.
Expand reads the volume, then resizes it. A remote call can fail. It can also
take effect while its answer is lost to the caller's deadline. In both cases
the CO retries.

## Modules

- **CapacityNegotiator.tla**: `calculateStorageGB`, with its early returns in
  the order of the code. The int64 arithmetic wraps modulo the constant
  `IntModulus`, which is 2^64 in the code. `SpecStorageGB` is spec.md section 4.4
  written in unbounded integers, and it serves as the reference.
- **MCCapacityNegotiator.tla**: enumerates every capacity range with byte counts
  up to `MaxBytes` and both storage types, and compares the code with the
  reference.
- **CapacityNegotiatorProofs.tla**: the proofs of the negotiator invariants for
  every value of the constants (see Proofs).
- **VolumeController.tla**: the handlers against the store.
  - Variables:
    - `vols`, the fake's `volumes` map from UUID to volume;
    - `issued`, the UUIDs handed out so far;
    - `pc`, where each handler goroutine is suspended between its remote
      calls (or, for a publish, inside the fake's Update);
    - `local`, the values such a handler has read;
    - `resp`, each handler's last answer.
  - Steps: each remote call is one step. A handler's local checks and its first
    call form one action (`CreateVolume`, `ControllerPublishVolume`, ...). Its
    second call is a second action (`CreateVolumeCreate`,
    `ControllerPublishVolumeGet`, `ControllerUnpublishVolumeUpdate`,
    `ControllerExpandVolumeUpdate`).
  - The fake's calls are atomic except the attaching Update. The fake holds
    no lock, and its Update counts the server's volumes
    (`getVolumesPerServer`, `driver_test.go` 233) before it writes the
    server list (243). So `ControllerPublishVolume` ends with the check
    half (`AttachVerdict`: 404 for an unknown volume or server, the limit
    message at the ceiling), and `ControllerPublishVolumeAttach` is the
    write, after which the answer may still be lost. Other handlers may run
    between the two. Every other fake call reads or writes once, and is one
    step.
  - CreateVolume's answer when the lookup finds volumes (`ExistingAnswer`):
    a duplicate name is a plain error (Unknown), a different size
    AlreadyExists, the same size OK.
  - Outcomes of a write call (`WriteOutcomes`): `ok`; `fail`, which is not
    applied; and `lost`, which is applied but answered with an error. A read
    call can only be `ok` or `fail` (`ReadOutcomes`).
  - `SerializedCalls` models the CSI rule that the CO keeps at most one call in
    flight per volume, keyed by name for CreateVolume and by id for the other
    calls.
  - `resp[p].attached` is a ghost field. For a publish, it records whether the
    volume was already attached to the node when the call arrived.
  - `Servers` is the set of servers `FakeServerServiceOperations` knows; a
    publish may name any node of `Nodes`, and one outside `Servers` is
    answered 404 by the attaching Update.
  - ControllerUnpublishVolume keeps the request's node in `local[p].node`.
    The code only logs it; the model keeps it so that a property can say
    which node a detach was for.
  - There is no fairness condition: no property of the project is a
    liveness property (see Not modelled).
- **MCVolumeController.tla**: the instances TLC checks. They have two
  handlers, one or two names, one or two UUIDs, one or two servers and an
  attach limit of 1. It also supplies curated request sets: every valid
  request plus one failing request per local check, and for the
  attach-limit run creates of both names and publishes to the known server.
- **VolumeControllerProofs.tla** and **VolumeControllerIdProofs.tla**: the
  TLAPS proofs.

## Runs

| Run | cfg | Expect | Shows |
|---|---|---|---|
| negotiator | MCCapacityNegotiator.cfg | pass | `RoundsUpRequired`: a required size rounds up to the least covering step. `RespectsLimit`: a set limit is respected. `AgreesUnlessLimitOnly`: the code returns what the spec returns, except 0 GB for a limit-only range the spec accepts. |
| negotiator_limit | MCCapacityNegotiator_limit.cfg | violation | `MatchesReference`: a limit-only range yields 0 GB, where the spec yields one step |
| negotiator_overflow | MCCapacityNegotiator_overflow.cfg | violation | `RespectsLimit`: in int64, `int64(sizeGB)*GB` wraps and a size above the limit is accepted |
| controller | MCVolumeController.cfg | pass | Calls are serialized and every remote call may fail or lose its answer. `UniqueNames`: names stay unique. `UnpublishNeverNotFound`: Unpublish never answers NotFound. `ExpandReadStillFresh`: while an Expand waits to send its Update, the size it computed is still above the stored size. `TypeOK`. |
| race | MCVolumeController_race.cfg | violation | `UniqueNames`: two unserialized creates of one name both create |
| unpublish | MCVolumeController_unpublish.cfg | violation | `UnpublishDetachesNamedNode`: an unpublish naming node s2 detaches the volume from node s1 |
| publish | MCVolumeController_publish.cfg | violation | `PublishIdempotent`: a publish took effect but its answer was lost. When it is retried at the attach limit, the retry answers ResourceExhausted, because the fake counts the volume itself. Spec section 8 (line 151) read literally allows this; sections 3 and 7 and CSI's idempotency do not. |
| attach_limit | MCVolumeController_attach.cfg | violation | `AttachLimitHeld`: two names, serialized calls, no faults. Publishes of two different volumes to the one server (limit 1), which CSI does not order, both pass the fake Update's count before either writes, and the server ends with two volumes. The production API enforces the ceiling server-side; the gap is in the test double. |

Every property of a passing run has a mutant in `PROJECT.json`. A mutant is a
plausible bug in the mapped code, and TLC finds the property violated when the
mutant replaces the definition.

### Bounds

Bytes are scaled: GB = 4, the ssd step is 1 and the bulk step is 3, in place
of 2^30, 1 and 100. With these values the bulk step is not a divisor of the
byte counts, and every rounding case of `calculateStorageGB` occurs below
`MaxBytes` = 30: exact multiples, remainders, zero, limit-only ranges, and
limits below one step.

For the overflow run, `IntModulus` = 2^8 plays the role of 2^64.

The controller instance has two handlers, which are enough for every
two-party interleaving the handlers have: create/create (the race run),
and, on different volumes under serialization, a publish's count against
another's write (the attach-limit run). Under serialization the main run
still interleaves every handler with calls on other names and volumes, and
with failed and lost calls on its own. It has two UUIDs, so a volume can be
deleted and another created. It has one known server with limit 1, so the
attach limit is reached by a single volume, and a second node the server
service does not know.

The attach-limit run has two names, because with one name and serialized
calls only one volume can exist, and a second volume is what fills the
server. It has no faults: a lost answer does not change what the store
holds, and the race needs none.

The main run narrows the publish and expand requests to the valid ones and
one refused by each local check, which keeps it under two minutes.

Symmetry is sound here, because no property names a particular handler or a
particular UUID.

## Proofs

`VolumeControllerProofs.tla` proves the following facts for every value of the
constants that satisfies `NegotiatorAssumption` and `ControllerAssumption`:

- **`TypeCorrect`**: `Spec => []TypeOK`.
  - `TypeOK` alone is not inductive. `CreateVolumeCreate` stores the name that a
    suspended CreateVolume saved, and only that handler's first check (the
    name is given) makes the name a member of `Names`.
  - Likewise `ControllerPublishVolumeAttach` writes the node a publish saved,
    and only that handler's first check makes it a member of `Nodes`.
  - The proof therefore uses
    `TypeInv == TypeOK /\ CreateSuspendedNamed /\ AttachSuspendedNode`, with
    one lemma per action.
  - It rests on lemmas about the negotiator's arithmetic: `Int64`, `Quot` and
    `calculateStorageGB` return integers.
- **`UniqueNamesHold`**: under `SerializedCalls`, `Spec => []UniqueNames`.
  - The inductive invariant `NamesInv` adds two facts:
    - `PendingNameAbsent`: a CreateVolume suspended before `Volumes.Create` has
      a name no stored volume has.
    - `PendingNamesDistinct`: two suspended CreateVolume calls have different
      names.
  - Every step other than CreateVolume's keeps every stored name and every
    suspended create (`KeptNames`).
  - `CreateVolume` suspends only for a name that its lookup found absent and
    that the CO does not have in flight.
  - `CreateVolumeCreate` uses a UUID never handed out, together with the two
    facts above.

`VolumeControllerIdProofs.tla` proves, under `SerializedCalls`:

- **`UnpublishNeverNotFoundHolds`**: `Spec => []UnpublishNeverNotFound`.
- **`ExpandReadStillFreshHolds`**: `Spec => []ExpandReadStillFresh`.
- Both rest on the inductive invariant `IdsInv`, which adds two facts about
  the handlers suspended in a publish (inside the fake's Update or before
  its Get), an unpublish or an expand:
  - `PendingStored`: each holds the UUID of a stored volume, because each
    suspends only after the store showed the volume.
  - `PendingIdsDistinct`: no two hold the same UUID, because the
    orchestrator sends no call for a UUID already in flight.
  - So no DeleteVolume and no other resize reaches a held volume, and the
    unpublish's Update finds its volume. A step that keeps the other
    handlers and the volumes they hold keeps `IdsInv` (`IdsStep`), and
    there is one lemma per action.

`CapacityNegotiatorProofs.tla` proves the three invariants of the
negotiator run for every value of `GB`, the step sizes, `IntModulus` and
`MaxBytes`. The hypothesis is `NoOverflow`: `MaxBytes` plus one step of each
type stays below `IntModulus \div 2` (2^63 in the code).
- **`RoundsUpRequiredHolds`**, **`RespectsLimitHolds`** and
  **`AgreesUnlessLimitOnlyHolds`** are each `NoOverflow => (Spec => []P)`.
- The harness keeps its input in range (`InputsInvariant`). Under
  `NoOverflow`, every `Int64` the code applies is the identity
  (`Int64Identity`), so `calculateStorageGB` reduces to four comparisons in
  unbounded integers (`CalcInRange`).
- `StepsForBounds` shows the code's `steps` covers the required bytes by less
  than one step. `RoundUpBounds` shows the same for the reference's rounding.
  `CoverUnique` shows such a cover is unique, so the two sizes are equal
  whenever required is set.
- When required is unset, `steps` is 0, which is the limit-only divergence.
- The hypothesis is needed. The run negotiator_overflow violates
  `RespectsLimit` with `MaxBytes = 127` and `IntModulus = 256`, where
  `NoOverflow` fails. The main run's constants satisfy it: 30 + 3 * 4 < 32768.

TLC checked `NamesInv` and `IdsInv` as invariants of the controller instance
before they were proved.

What stays with TLC:
- the properties that are violated: these are findings, and a violation is not
  a theorem;
- the negotiator above int64, where `NoOverflow` fails. The overflow run shows
  what happens there.

TLAPS does not prove liveness or reason about ENABLED; the project states no
liveness property (see Not modelled).

## Not modelled

- GetCapacity, the snapshot RPCs and ControllerGetVolume. They answer
  `Unimplemented` and touch no state.
- ControllerGetCapabilities. It returns a constant.
- `formatBytes`. It only formats error text.
- The node service and `fakeMounter`. The controller never calls them.
- The rest of `FakeServerServiceOperations` (Create, Update, Delete and the
  others). These panic or are never called; `Get` is modelled by `Servers`.
- The integration tests under `src/unnamed/`. They drive a real cluster.
- Negative byte counts, which the CSI spec forbids the CO to send. With a
  limit set, a negative `required_bytes` makes `calculateStorageGB` return
  0 GB or a negative size (`controller.go` 586-596).
- Liveness. The handlers' second calls run on without waiting, so each
  suspended call completes; but a property that says so holds by the shape
  of the fairness condition it needs, and what the CO must eventually see
  (a create of a fresh name succeeding) depends on a CO retry policy that is
  outside this code.
- Data races inside the fake other than the attaching Update: its Go map is
  read and written by concurrent handlers without a lock. Each of its other
  calls is one read or one write of the map, and is modelled as one step.

## Plan

- Liveness of the retry protocol, with a model of the CO's retries: with a
  CO that retries until it gets an answer other than Aborted or Unknown,
  every create of a fresh name eventually succeeds under serialized calls.
