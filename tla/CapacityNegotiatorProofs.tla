---------------------- MODULE CapacityNegotiatorProofs ----------------------
(***************************************************************************)
(* Proofs, for every value of the constants, of the invariants that        *)
(* MCCapacityNegotiator.cfg checks of calculateStorageGB on byte counts up *)
(* to 30.  They hold as long as no int64 product of the code wraps: the    *)
(* hypothesis NoOverflow asks that a requested byte count plus one         *)
(* allocation step stays below 2^63 (IntModulus \div 2).  Above that bound *)
(* the run negotiator_overflow shows RespectsLimit failing, so the         *)
(* hypothesis is the exact price of the code's int64 arithmetic, not a     *)
(* convenience of the proof.                                               *)
(***************************************************************************)
EXTENDS MCCapacityNegotiator, TLAPS

(* The largest int64 value plus one. *)
Half == IntModulus \div 2

(* No byte count the code computes for an input of at most MaxBytes bytes  *)
(* leaves int64: the largest is the required bytes rounded up by less than *)
(* one step of the volume's type.                                           *)
NoOverflow ==
    \A inc \in {SSDStepSizeGB, BulkStepSizeGB} : MaxBytes + inc * GB < Half

(* The inputs the harness can hold.                                        *)
InputsOK == capRange \in Inputs /\ storageType \in Types

-----------------------------------------------------------------------------
(* Arithmetic lemmas.                                                      *)

(* Int64 leaves every value of the int64 range alone.                      *)
LEMMA Int64Identity ==
    ASSUME NEW x \in Int, -Half <= x, x < Half
    PROVE  Int64(x) = x
BY NegotiatorAssumption DEF Int64, Half

(* Floor division by a positive number, bounded from both sides.           *)
LEMMA DivBounds ==
    ASSUME NEW a \in Nat, NEW b \in Nat \ {0}
    PROVE  /\ a \div b \in Nat
           /\ (a \div b) * b <= a
           /\ a < (a \div b) * b + b
BY SMT

(* Multiplying by a natural number keeps an order.                         *)
LEMMA MulMono ==
    ASSUME NEW x \in Int, NEW y \in Int, NEW d \in Nat, x <= y
    PROVE  x * d <= y * d
BY SMT

(* Two numbers of steps of size d that both cover r by less than one step  *)
(* are equal: the covering multiple is unique.                              *)
LEMMA CoverUnique ==
    ASSUME NEW r \in Nat, NEW d \in Nat \ {0}, NEW k \in Nat, NEW c \in Nat,
           r <= k * d, k * d < r + d, r <= c * d, c * d < r + d
    PROVE  k = c
<1>1. k <= c
  <2>1. SUFFICES ASSUME c + 1 <= k PROVE FALSE
    OBVIOUS
  <2>2. (c + 1) * d <= k * d
    BY <2>1, MulMono
  <2>. QED
    BY <2>2
<1>2. c <= k
  <2>1. SUFFICES ASSUME k + 1 <= c PROVE FALSE
    OBVIOUS
  <2>2. (k + 1) * d <= c * d
    BY <2>1, MulMono
  <2>. QED
    BY <2>2
<1>. QED
  BY <1>1, <1>2

(* The number of steps the code computes (steps := required / GB / inc,    *)
(* plus one if short) covers `required` by less than one step, and none of *)
(* its int64 products wraps while required plus one step stays in int64.   *)
LEMMA StepsForBounds ==
    ASSUME NEW r \in Nat, NEW inc \in Nat \ {0}, r + inc * GB < Half
    PROVE  /\ StepsFor(r, inc) \in Nat
           /\ r <= StepsFor(r, inc) * inc * GB
           /\ StepsFor(r, inc) * inc * GB < r + inc * GB
<1> DEFINE a == r \div GB
           q == a \div inc
<1>1. a \in Nat /\ a * GB <= r /\ r < a * GB + GB
  BY NegotiatorAssumption, DivBounds
<1>2. q \in Nat /\ q * inc <= a /\ a < q * inc + inc
  BY <1>1, DivBounds
<1>3. Quot(Quot(r, GB), inc) = q
  BY <1>1 DEF Quot
<1>4. q * inc * GB <= r
  <2>1. (q * inc) * GB <= a * GB
    BY <1>1, <1>2, NegotiatorAssumption, MulMono
  <2>. QED
    BY <1>1, <1>2, <2>1, NegotiatorAssumption
<1>5. r < (q + 1) * inc * GB
  <2>1. (a + 1) * GB <= (q * inc + inc) * GB
    BY <1>1, <1>2, NegotiatorAssumption, MulMono
  <2>. QED
    BY <1>1, <1>2, <2>1, NegotiatorAssumption
<1>6. q * GB * inc = q * inc * GB /\ 0 <= q * inc * GB
  BY <1>2, NegotiatorAssumption
<1>7. Int64(q * GB * inc) = q * GB * inc
  BY <1>4, <1>6, Int64Identity, NegotiatorAssumption DEF Half
<1>8. StepsFor(r, inc) = IF q * GB * inc < r THEN q + 1 ELSE q
  BY <1>3, <1>7 DEF StepsFor
<1>9. CASE q * GB * inc < r
  <2>1. (q + 1) * inc * GB = q * inc * GB + inc * GB
    BY <1>2, NegotiatorAssumption
  <2>. QED
    BY <1>2, <1>5, <1>6, <1>8, <1>9, <2>1, NegotiatorAssumption
<1>10. CASE ~(q * GB * inc < r)
  BY <1>2, <1>4, <1>6, <1>8, <1>10, NegotiatorAssumption
<1>. QED
  BY <1>9, <1>10

(* The reference's RoundUpGB, in steps, covers `required` by less than one *)
(* step as well.                                                            *)
LEMMA RoundUpBounds ==
    ASSUME NEW r \in Nat, NEW inc \in Nat \ {0}
    PROVE  \E c \in Nat : /\ RoundUpGB(r, inc) = inc * c
                         /\ r <= c * (inc * GB)
                         /\ c * (inc * GB) < r + inc * GB
<1>1. inc * GB \in Nat \ {0}
  BY NegotiatorAssumption
<1>2. PICK c \in Nat : c = (r + inc * GB - 1) \div (inc * GB)
  BY <1>1, DivBounds
<1>3. c * (inc * GB) <= r + inc * GB - 1 /\ r + inc * GB - 1 < c * (inc * GB) + inc * GB
  BY <1>1, <1>2, DivBounds
<1>. QED
  BY <1>1, <1>2, <1>3 DEF RoundUpGB

(* A multiple of the step is divisible by it.                              *)
LEMMA MultipleMod ==
    ASSUME NEW k \in Nat, NEW inc \in Nat \ {0}
    PROVE  (k * inc) % inc = 0
BY SMT

-----------------------------------------------------------------------------
(* calculateStorageGB on a set range whose bytes stay in int64: every Int64 *)
(* of the code is the identity, and the early returns reduce to four       *)
(* comparisons in unbounded integers.                                      *)
LEMMA CalcInRange ==
    ASSUME NEW cr \in CapacityRange(Nat), NEW t \in Types,
           cr.required + StepSizeGB(t) * GB < Half, cr.limit < Half
    PROVE  LET inc == StepSizeGB(t)
               r   == cr.required
               l   == cr.limit
               k   == StepsFor(r, inc)
           IN  calculateStorageGB(cr, t) =
                 IF r = 0 /\ l = 0 THEN Ok(inc)
                 ELSE IF 0 < r /\ 0 < l /\ l < r THEN Failed
                 ELSE IF 0 < l /\ l < inc * GB THEN Failed
                 ELSE IF 0 < l /\ l < k * inc * GB THEN Failed
                 ELSE Ok(k * inc)
<1> DEFINE inc == StepSizeGB(t)
           r   == cr.required
           l   == cr.limit
           k   == StepsFor(r, inc)
<1>1. inc \in Nat \ {0}
  BY NegotiatorAssumption DEF StepSizeGB, Types
<1>2. r \in Nat /\ l \in Nat /\ cr.nil = FALSE
  BY DEF CapacityRange
<1>3. k \in Nat /\ r <= k * inc * GB /\ k * inc * GB < r + inc * GB
  BY <1>1, <1>2, StepsForBounds
<1>4. 0 <= k * inc /\ k * inc <= k * inc * GB
  <2>1. (k * inc) * 1 <= (k * inc) * GB
    BY <1>1, <1>3, NegotiatorAssumption, MulMono
  <2>. QED
    BY <1>1, <1>3, <2>1
<1>5. Int64(k * inc) = k * inc
  BY <1>1, <1>2, <1>3, <1>4, Int64Identity, NegotiatorAssumption DEF Half
<1>6. Int64(inc * GB) = inc * GB
  BY <1>1, <1>2, Int64Identity, NegotiatorAssumption DEF Half
<1>7. Int64(k * inc * GB) = k * inc * GB
  BY <1>1, <1>2, <1>3, Int64Identity, NegotiatorAssumption DEF Half
<1>. QED
  BY <1>2, <1>5, <1>6, <1>7 DEF calculateStorageGB, BelowMinimum, Overruns

(* Under NoOverflow every input of the harness is such a range.            *)
LEMMA InputInRange ==
    ASSUME NoOverflow, NEW cr \in CapacityRange(0..MaxBytes), NEW t \in Types
    PROVE  /\ cr \in CapacityRange(Nat)
           /\ cr.required + StepSizeGB(t) * GB < Half
           /\ cr.limit < Half
<1>1. StepSizeGB(t) \in {SSDStepSizeGB, BulkStepSizeGB}
  BY DEF StepSizeGB, Types
<1>2. MaxBytes + StepSizeGB(t) * GB < Half
  BY <1>1 DEF NoOverflow
<1>3. StepSizeGB(t) * GB \in Nat
  BY <1>1, NegotiatorAssumption
<1>4. cr.required \in 0..MaxBytes /\ cr.limit \in 0..MaxBytes /\ cr.nil = FALSE
  BY DEF CapacityRange
<1>5. cr = [nil |-> cr.nil, required |-> cr.required, limit |-> cr.limit]
  BY DEF CapacityRange
<1>6. cr.required \in Nat /\ cr.limit \in Nat
  BY <1>4, MaxBytesAssumption
<1>7. cr \in [nil : {FALSE}, required : Nat, limit : Nat]
  BY <1>4, <1>5, <1>6
<1>8. cr.required + StepSizeGB(t) * GB < Half /\ cr.limit < Half
  BY <1>2, <1>3, <1>4, MaxBytesAssumption, NegotiatorAssumption DEF Half
<1>. QED
  BY <1>7, <1>8 DEF CapacityRange

(* The facts about the current input that the three invariants share.      *)
LEMMA ResultFacts ==
    ASSUME NoOverflow, InputsOK, capRange # NilRange
    PROVE  LET r == capRange.required
               l == capRange.limit
               k == StepsFor(r, Step)
           IN  /\ r \in Nat /\ l \in Nat /\ ~capRange.nil
               /\ Step \in Nat \ {0}
               /\ k \in Nat /\ r <= k * Step * GB /\ k * Step * GB < r + Step * GB
               /\ Result =
                    IF r = 0 /\ l = 0 THEN Ok(Step)
                    ELSE IF 0 < r /\ 0 < l /\ l < r THEN Failed
                    ELSE IF 0 < l /\ l < Step * GB THEN Failed
                    ELSE IF 0 < l /\ l < k * Step * GB THEN Failed
                    ELSE Ok(k * Step)
<1>1. capRange \in CapacityRange(0..MaxBytes) /\ storageType \in Types
  BY DEF InputsOK, Inputs
<1>2. /\ capRange \in CapacityRange(Nat)
      /\ capRange.required + Step * GB < Half
      /\ capRange.limit < Half
  BY <1>1, InputInRange DEF Step
<1>3. Step \in Nat \ {0}
  BY <1>1, NegotiatorAssumption DEF Step, StepSizeGB, Types
<1>4. capRange.required \in Nat /\ capRange.limit \in Nat /\ ~capRange.nil
  BY <1>2 DEF CapacityRange
<1>5. LET k == StepsFor(capRange.required, Step)
      IN  k \in Nat /\ capRange.required <= k * Step * GB
                    /\ k * Step * GB < capRange.required + Step * GB
  BY <1>2, <1>3, <1>4, StepsForBounds
<1>6. Result =
        IF capRange.required = 0 /\ capRange.limit = 0 THEN Ok(Step)
        ELSE IF 0 < capRange.required /\ 0 < capRange.limit
                /\ capRange.limit < capRange.required THEN Failed
        ELSE IF 0 < capRange.limit /\ capRange.limit < Step * GB THEN Failed
        ELSE IF 0 < capRange.limit
                /\ capRange.limit < StepsFor(capRange.required, Step) * Step * GB
             THEN Failed
        ELSE Ok(StepsFor(capRange.required, Step) * Step)
  BY <1>1, <1>2, CalcInRange DEF Result, Step
<1>. QED
  BY <1>3, <1>4, <1>5, <1>6

(* RoundsUpRequired in every input the harness can hold.                   *)
LEMMA RoundsUpRequiredInputs ==
    ASSUME NoOverflow, InputsOK
    PROVE  RoundsUpRequired
<1>1. CASE capRange = NilRange
  BY <1>1 DEF RoundsUpRequired, NilRange
<1>2. CASE capRange # NilRange
  <2> DEFINE r == capRange.required
             k == StepsFor(r, Step)
  <2>1. SUFFICES ASSUME r > 0, ~Result.err
                 PROVE  /\ Result.sizeGB % Step = 0
                        /\ Result.sizeGB * GB >= r
                        /\ (Result.sizeGB - Step) * GB < r
    BY DEF RoundsUpRequired
  <2>2. /\ r \in Nat /\ Step \in Nat \ {0}
        /\ k \in Nat /\ r <= k * Step * GB /\ k * Step * GB < r + Step * GB
    BY <1>2, ResultFacts
  <2>3. Result = Ok(k * Step)
    BY <1>2, <2>1, <2>2, ResultFacts DEF Ok, Failed
  <2>4. Result.sizeGB = k * Step
    BY <2>3 DEF Ok
  <2>5. (k * Step) % Step = 0
    BY <2>2, MultipleMod
  <2>6. (k * Step - Step) * GB = k * Step * GB - Step * GB
    BY <2>2, NegotiatorAssumption
  <2>. QED
    BY <2>2, <2>4, <2>5, <2>6, NegotiatorAssumption
<1>. QED
  BY <1>1, <1>2

(* RespectsLimit in every input the harness can hold.                      *)
LEMMA RespectsLimitInputs ==
    ASSUME NoOverflow, InputsOK
    PROVE  RespectsLimit
<1>1. CASE capRange = NilRange
  BY <1>1 DEF RespectsLimit, NilRange
<1>2. CASE capRange # NilRange
  <2> DEFINE l == capRange.limit
             k == StepsFor(capRange.required, Step)
  <2>1. SUFFICES ASSUME l > 0, ~Result.err
                 PROVE  Result.sizeGB * GB <= l
    BY DEF RespectsLimit
  <2>2. l \in Nat /\ Step \in Nat \ {0} /\ k \in Nat
    BY <1>2, ResultFacts
  <2>3. Result = Ok(k * Step) /\ ~(l < k * Step * GB)
    BY <1>2, <2>1, <2>2, ResultFacts DEF Ok, Failed
  <2>. QED
    BY <2>2, <2>3, NegotiatorAssumption DEF Ok
<1>. QED
  BY <1>1, <1>2

(* AgreesUnlessLimitOnly in every input the harness can hold: for a set    *)
(* required size the code's steps and the reference's RoundUpGB are the    *)
(* same cover, and for an unset one the code's steps are 0.                *)
LEMMA AgreesUnlessLimitOnlyInputs ==
    ASSUME NoOverflow, InputsOK
    PROVE  AgreesUnlessLimitOnly
<1>1. CASE capRange = NilRange
  <2>1. Result = Ok(Step) /\ Reference = Ok(Step) /\ capRange.nil
    BY <1>1 DEF Result, Reference, calculateStorageGB, SpecStorageGB, NilRange, Step
  <2>. QED
    BY <2>1 DEF AgreesUnlessLimitOnly
<1>2. CASE capRange # NilRange
  <2> DEFINE r == capRange.required
             l == capRange.limit
             k == StepsFor(r, Step)
             d == Step * GB
  <2>1. /\ r \in Nat /\ l \in Nat /\ ~capRange.nil
        /\ Step \in Nat \ {0}
        /\ k \in Nat /\ r <= k * Step * GB /\ k * Step * GB < r + Step * GB
        /\ Result =
             IF r = 0 /\ l = 0 THEN Ok(Step)
             ELSE IF 0 < r /\ 0 < l /\ l < r THEN Failed
             ELSE IF 0 < l /\ l < Step * GB THEN Failed
             ELSE IF 0 < l /\ l < k * Step * GB THEN Failed
             ELSE Ok(k * Step)
    BY <1>2, ResultFacts
  <2>2. PICK c \in Nat : /\ RoundUpGB(r, Step) = Step * c
                         /\ r <= c * d
                         /\ c * d < r + d
    BY <2>1, RoundUpBounds
  <2>3. Reference =
          IF r <= 0 /\ l <= 0 THEN Ok(Step)
          ELSE IF l <= 0 THEN Ok(Step * c)
          ELSE IF r <= 0 THEN IF l < d THEN Failed ELSE Ok(Step)
          ELSE IF l < r \/ l < d THEN Failed
          ELSE IF l < Step * c * GB THEN Failed
          ELSE Ok(Step * c)
    BY <2>1, <2>2 DEF Reference, SpecStorageGB, Step
  <2>4. d \in Nat \ {0} /\ k * d = k * Step * GB /\ Step * c * GB = c * d
        /\ k * Step = Step * k
    BY <2>1, NegotiatorAssumption
  <2>5. CASE r > 0
    <3>1. k = c
      BY <2>1, <2>2, <2>4, CoverUnique
    <3>2. Result = Reference
      BY <2>1, <2>3, <2>4, <2>5, <3>1
    <3>. QED
      BY <2>5, <3>2 DEF AgreesUnlessLimitOnly
  <2>6. CASE r = 0
    <3>1. k = 0
      <4>1. SUFFICES ASSUME 1 <= k PROVE FALSE
        BY <2>1
      <4>2. 1 * d <= k * d
        BY <2>1, <2>4, <4>1, MulMono
      <4>. QED
        BY <2>1, <2>4, <2>6, <4>2
    <3>2. CASE l = 0
      BY <2>1, <2>3, <2>6, <3>2 DEF AgreesUnlessLimitOnly
    <3>3. CASE 0 < l /\ l < d
      <4>1. Result = Failed /\ Reference = Failed
        BY <2>1, <2>3, <2>6, <3>3
      <4>. QED
        BY <4>1 DEF AgreesUnlessLimitOnly, Failed
    <3>4. CASE d <= l
      <4>0. k * Step * GB = 0 /\ k * Step = 0 /\ 0 < l /\ ~(l < d)
        BY <2>1, <2>4, <3>1, <3>4
      <4>1. Result = Ok(0) /\ Reference = Ok(Step)
        BY <2>1, <2>3, <2>6, <4>0
      <4>2. l > 0 /\ ~Reference.err
        <5>1. Ok(Step).err = FALSE
          BY DEF Ok
        <5>. QED
          BY <4>0, <4>1, <5>1
      <4>. QED
        BY <2>1, <2>6, <4>1, <4>2 DEF AgreesUnlessLimitOnly
    <3>. QED
      BY <2>1, <2>4, <3>2, <3>3, <3>4
  <2>. QED
    BY <2>1, <2>5, <2>6
<1>. QED
  BY <1>1, <1>2

-----------------------------------------------------------------------------
(* The harness keeps a capacity range of at most MaxBytes bytes and a     *)
(* storage type in every state.                                            *)
LEMMA InputsInvariant == Spec => []InputsOK
<1>1. Init => InputsOK
  BY DEF Init, InputsOK
<1>2. InputsOK /\ [Call]_vars => InputsOK'
  BY DEF InputsOK, Call, vars
<1>. QED
  BY <1>1, <1>2, PTL DEF Spec

(* For every GB, step sizes and width, as long as no int64 product of the  *)
(* code wraps, a size calculateStorageGB returns for a set required byte   *)
(* count is the smallest multiple of the step that covers it.              *)
THEOREM RoundsUpRequiredHolds ==
    ASSUME NoOverflow
    PROVE  Spec => []RoundsUpRequired
BY InputsInvariant, RoundsUpRequiredInputs, PTL

(* Under the same hypothesis, a size calculateStorageGB returns never      *)
(* exceeds a set limit_bytes.                                              *)
THEOREM RespectsLimitHolds ==
    ASSUME NoOverflow
    PROVE  Spec => []RespectsLimit
BY InputsInvariant, RespectsLimitInputs, PTL

(* Under the same hypothesis, calculateStorageGB returns what spec.md      *)
(* section 4.4 says on every capacity range except one with only           *)
(* limit_bytes set that the spec accepts, where it returns 0 GB instead of *)
(* one step: the finding of run negotiator_limit is the only divergence.   *)
THEOREM AgreesUnlessLimitOnlyHolds ==
    ASSUME NoOverflow
    PROVE  Spec => []AgreesUnlessLimitOnly
BY InputsInvariant, AgreesUnlessLimitOnlyInputs, PTL

=============================================================================
