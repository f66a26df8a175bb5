------------------------- MODULE CapacityNegotiator -------------------------
(***************************************************************************)
(* calculateStorageGB of driver/controller.go: turns a CSI capacity range  *)
(* (bytes) and a storage type into a volume size in whole GB, rounded to   *)
(* the type's allocation step.  The code does its byte arithmetic in Go    *)
(* int64; here the modulus 2^width is the constant IntModulus and every    *)
(* int64 product is wrapped to it, so that a small instance (GB = 4,       *)
(* IntModulus = 2^8) shows what GB = 2^30 does near the top of int64.      *)
(*                                                                         *)
(* SpecStorageGB is the reference: the same function as spec.md section    *)
(* 4.4 describes it, in unbounded integers.                                *)
(***************************************************************************)
EXTENDS Integers

CONSTANTS
    GB,              \* bytes per GB (1 << 30 in the code)
    SSDStepSizeGB,   \* allocation step of "ssd" volumes (1 in the code)
    BulkStepSizeGB,  \* allocation step of "bulk" volumes (100 in the code)
    IntModulus       \* 2^width of the int64 arithmetic (2^64 in the code)

ASSUME NegotiatorAssumption ==
    /\ GB \in Nat \ {0}
    /\ SSDStepSizeGB \in Nat \ {0}
    /\ BulkStepSizeGB \in Nat \ {0}
    /\ IntModulus \in Nat \ {0}

(* A nil *csi.CapacityRange. *)
NilRange == [nil |-> TRUE, required |-> 0, limit |-> 0]

(* The non-nil *csi.CapacityRanges; 0 means "field not set". *)
CapacityRange(bytes) == [nil : {FALSE}, required : bytes, limit : bytes]

(* Two's complement wrap-around of a signed integer of IntModulus values. *)
Int64(x) ==
    LET m == IntModulus IN ((x + m \div 2) % m) - m \div 2

(* Go's integer division truncates toward zero; TLA+'s \div floors. *)
Quot(a, b) == IF a >= 0 THEN a \div b ELSE -((-a) \div b)

StepSizeGB(storageType) ==
    IF storageType = "bulk" THEN BulkStepSizeGB ELSE SSDStepSizeGB

Ok(size) == [err |-> FALSE, sizeGB |-> size]
Failed   == [err |-> TRUE, sizeGB |-> 0]

(* Faults a change to the helpers below could plausibly introduce. *)
StepsForTruncated(required, inc) == Quot(Quot(required, GB), inc)
BelowMinimumInclusive(limit, inc) == limit <= Int64(inc * GB)
OverrunsNever(limit, sizeGB) == FALSE

(* Whole steps covering `required`: truncate, then add one if short. *)
StepsFor(required, inc) ==
    LET steps == Quot(Quot(required, GB), inc)
    IN  IF Int64(steps * GB * inc) < required THEN steps + 1 ELSE steps

(* The limit is below the type's smallest volume. *)
BelowMinimum(limit, inc) == limit < Int64(inc * GB)

(* The limit is below the rounded size. *)
Overruns(limit, sizeGB) == limit < Int64(sizeGB * GB)

(* calculateStorageGB: the early returns in the order the code takes them. *)
calculateStorageGB(capRange, storageType) ==
    LET inc         == StepSizeGB(storageType)
        required    == capRange.required
        limit       == capRange.limit
        requiredSet == 0 < required
        limitSet    == 0 < limit
        sizeGB      == Int64(StepsFor(required, inc) * inc)
    IN  IF capRange.nil THEN Ok(inc)
        ELSE IF ~requiredSet /\ ~limitSet THEN Ok(inc)
        ELSE IF requiredSet /\ limitSet /\ limit < required THEN Failed
        ELSE IF limitSet /\ BelowMinimum(limit, inc) THEN Failed
        ELSE IF limitSet /\ Overruns(limit, sizeGB) THEN Failed
        ELSE Ok(sizeGB)

-----------------------------------------------------------------------------
(* The reference of spec.md 4.4, in unbounded integers.                    *)

(* Smallest multiple of the step whose byte size covers `required`. *)
RoundUpGB(required, inc) ==
    inc * ((required + inc * GB - 1) \div (inc * GB))

SpecStorageGB(capRange, storageType) ==
    LET inc      == StepSizeGB(storageType)
        required == capRange.required
        limit    == capRange.limit
        rounded  == RoundUpGB(required, inc)
    IN  IF capRange.nil THEN Ok(inc)
        ELSE IF required <= 0 /\ limit <= 0 THEN Ok(inc)
        ELSE IF limit <= 0 THEN Ok(rounded)
        ELSE IF required <= 0 THEN
                IF limit < inc * GB THEN Failed ELSE Ok(inc)
        ELSE IF limit < required \/ limit < inc * GB THEN Failed
        ELSE IF limit < rounded * GB THEN Failed
        ELSE Ok(rounded)
=============================================================================
