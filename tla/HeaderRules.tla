---------------------------- MODULE HeaderRules -----------------------------
(***************************************************************************)
(* The contextual rules of a header: the median of the last times, the     *)
(* target the chain's parameters require next (consensus header/mod.rs and *)
(* header/retarget.rs) and the versions they allow (params/rules.rs).  The *)
(* parameters are the fields of params: limit, spacing, timespan, and the  *)
(* switches min_difficulty, no_retargeting and bip94.  A chain is the list *)
(* of its headers from genesis, each with time, bits and version; the      *)
(* header at height h is its entry h + 1.                                  *)
(***************************************************************************)
EXTENDS Target, SequencesExt

CONSTANTS
    MedianSpan,                             \* MEDIAN_TIME_SPAN
    MaxTimewarp,                            \* MAX_TIMEWARP
    HeightBip34, HeightBip66, HeightBip65   \* where versions 2, 3 and 4 are due

ASSUME HeaderAssumption ==
    {MedianSpan, MaxTimewarp, HeightBip34, HeightBip66, HeightBip65} \subseteq Nat

Interval(params) == params.timespan \div params.spacing
IsRetargetBoundary(height, params) == height % Interval(params) = 0

(* The last times of a chain, and the middle of them, sorted.              *)
LastTimes(chain) ==
    LET window == SubSeq(chain, Max({1, Len(chain) - MedianSpan + 1}), Len(chain))
    IN  [i \in DOMAIN window |-> window[i].time]

MedianTimePast(chain) ==
    LET sorted == SortSeq(LastTimes(chain), <) IN sorted[Len(sorted) \div 2 + 1]

(* From the last boundary to the last header.                              *)
Period(chain, params) ==
    SubSeq(chain, Len(chain) - ((Len(chain) - 1) % Interval(params)), Len(chain))

(* The limit when the block is late, else the last target of the period    *)
(* that is not the limit, else the period's first.                         *)
MinDifficultyBits(period, time, params) ==
    LET limit == Compress(params.limit)
        real == {i \in DOMAIN period : i = 1 \/ period[i].bits # limit}
    IN  IF time - Last(period).time > 2 * params.spacing THEN limit
        ELSE period[Max(real)].bits

Clamp(n, low, high) == Max({low, Min({n, high})})

Timespan(period, params) ==
    Clamp(Last(period).time - period[1].time, params.timespan \div 4, params.timespan * 4)

CalculateNextBits(period, params) ==
    LET base == IF params.bip94 THEN period[1].bits ELSE Last(period).bits
        target == DecodeTarget(base, params.limit).target
        scaled == DivWord(CheckedMul(target, Timespan(period, params))[2], params.timespan)
        capped == IF GreaterEq(params.limit, scaled) THEN scaled ELSE params.limit
    IN  IF params.no_retargeting THEN Last(period).bits ELSE Compress(capped)

NextRequiredBits(chain, time, params) ==
    LET period == Period(chain, params) IN
    IF IsRetargetBoundary(Len(chain), params) THEN CalculateNextBits(period, params)
    ELSE IF params.min_difficulty THEN MinDifficultyBits(period, time, params)
    ELSE Last(period).bits

VersionFloorAt(height) ==
    Max({1} \cup {IF height >= HeightBip34 THEN 2 ELSE 1}
            \cup {IF height >= HeightBip66 THEN 3 ELSE 1}
            \cup {IF height >= HeightBip65 THEN 4 ELSE 1})

(* Mutant: a time just below the median is let through.                    *)
AcceptHeaderAtMedian(chain, header, params) ==
    /\ header.bits = NextRequiredBits(chain, header.time, params)
    /\ header.time >= MedianTimePast(chain) - 1
    /\ header.version >= VersionFloorAt(Len(chain))

AcceptHeader(chain, header, params) ==
    /\ header.bits = NextRequiredBits(chain, header.time, params)
    /\ header.time > MedianTimePast(chain)
    /\ params.bip94 /\ IsRetargetBoundary(Len(chain), params)
           => header.time - Last(chain).time >= -MaxTimewarp
    /\ header.version >= VersionFloorAt(Len(chain))

-----------------------------------------------------------------------------
(* The reference.                                                          *)

(* At a boundary, the first target of the period (BIP 94) or its last,     *)
(* moved by no more than a factor of four and never above the limit.       *)
StepBounded(chain, bits, params) ==
    LET period == Period(chain, params)
        from == Num(Expand(Split(IF params.bip94 THEN period[1].bits ELSE Last(period).bits)))
        to == Num(Expand(Split(bits)))
        slack == IF bits.size <= 3 THEN 1 ELSE Byte ^ (bits.size - 3)
    IN  /\ DecodeTarget(bits, params.limit).err = ""
        /\ to <= 4 * from
        /\ to + slack > Min({Num(params.limit), ((params.timespan \div 4) * from) \div params.timespan})
=============================================================================
