------------------------ MODULE MCCapacityNegotiator ------------------------
(***************************************************************************)
(* Model-checks calculateStorageGB over every capacity range with byte     *)
(* counts in 0..MaxBytes and both storage types.  A state is one input and *)
(* every input is an initial state, so the invariants below are checked on *)
(* each; a step repeats the call with the same range for a volume of the   *)
(* other type, as ControllerExpandVolume does for an existing volume.      *)
(***************************************************************************)
EXTENDS CapacityNegotiator

CONSTANT MaxBytes   \* largest byte count of a requested range

ASSUME MaxBytesAssumption == MaxBytes \in Nat

VARIABLES capRange, storageType

vars == <<capRange, storageType>>

Inputs == {NilRange} \cup CapacityRange(0..MaxBytes)

Types == {"ssd", "bulk"}

Init ==
    /\ capRange \in Inputs
    /\ storageType \in Types

(* The same range asked of the other storage type. *)
Call ==
    /\ storageType' \in Types \ {storageType}
    /\ UNCHANGED capRange

Spec == Init /\ [][Call]_vars

Result    == calculateStorageGB(capRange, storageType)
Reference == SpecStorageGB(capRange, storageType)
Step      == StepSizeGB(storageType)

(* A size calculateStorageGB returns for a set required byte count is a   *)
(* multiple of the step that covers it, and the smallest such multiple:   *)
(* the rounding in steps / steps += 1 neither falls short nor overshoots. *)
RoundsUpRequired ==
    (~capRange.nil /\ capRange.required > 0 /\ ~Result.err) =>
        /\ Result.sizeGB % Step = 0
        /\ Result.sizeGB * GB >= capRange.required
        /\ (Result.sizeGB - Step) * GB < capRange.required

(* A size calculateStorageGB returns never exceeds a set limit: the three  *)
(* limit checks of the code reject every range the rounded size overruns. *)
RespectsLimit ==
    (~capRange.nil /\ capRange.limit > 0 /\ ~Result.err) =>
        Result.sizeGB * GB <= capRange.limit

(* calculateStorageGB returns what spec.md 4.4 says on every range but    *)
(* one with only limit_bytes set that the spec accepts: there the code's   *)
(* steps stay 0 and it returns a 0 GB size where the spec returns one      *)
(* step.  In particular the two fail on exactly the same ranges.           *)
AgreesUnlessLimitOnly ==
    IF ~capRange.nil /\ capRange.required = 0 /\ capRange.limit > 0
       /\ ~Reference.err
    THEN Result = Ok(0)
    ELSE Result = Reference

(* calculateStorageGB returns what spec.md 4.4 says, on every input; in    *)
(* particular a range with only a limit yields one allocation step.        *)
MatchesReference == Result = Reference
=============================================================================
