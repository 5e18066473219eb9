---------------------------- MODULE EstimateProofs ---------------------------
(***************************************************************************)
(* rangerestsel, for every column, constant and set of frequencies: what   *)
(* the two loops of rangerestsel_inner add to the sum, and that the        *)
(* estimate is a probability; and what the frequencies that ANALYZE stored *)
(* make the planner answer.                                                *)
(***************************************************************************)
EXTENDS AnalyzeEstimate, FreqHistProofs

-----------------------------------------------------------------------------
(* The loops of rangerestsel_inner.                                        *)


(* The loops have looked at the intervals below i.                         *)
Seen == {j \in Interval(call) : j < i}

(* The intervals to the left of the constant, when it does not end before  *)
(* the column begins.                                                      *)
LeftSeen ==
    /\ added = Seen
    /\ NoWrap /\ a <= b /\ b >= call.min => \A j \in Seen : y(j) < a

OverlapSeen ==
    /\ added = {j \in Seen : InRange(j)}
    /\ out # 0 => added # {}
    /\ out = 0 => added = {}

(* Either loop ended at its break or at the last interval.                 *)
Final ==
    /\ call.operator = Left => LeftSeen /\ (i < freq_nb_intervals1 => InRange(i))
    /\ call.operator = Overlap =>
          OverlapSeen /\ (i < freq_nb_intervals1 => ~InRange(i) /\ added # {})

(* The inductive invariant.                                                *)
LoopInv ==
    /\ CallOK(call)
    /\ i \in Nat /\ out \in Nat
    /\ pc \in {"start", "checks"} => i = 0 /\ out = 0 /\ added = {}
    /\ pc = "checks" => call.operator \in {Left, Overlap}
    /\ pc = "left" => call.operator = Left /\ LeftSeen
    /\ pc = "overlap" => call.operator = Overlap /\ OverlapSeen
    /\ pc = "sum" => Final
    /\ Estimated => Final

(* The planner's grid, whatever the column.                                *)
LEMMA PlannerShape ==
    ASSUME CallOK(call)
    PROVE  /\ freq_nb_intervals1 \in Nat \ {0}
           /\ interval_length1 \in Int
           /\ call.min \in Int /\ call.max \in Int /\ a \in Int /\ b \in Int
           /\ Interval(call) = 0 .. freq_nb_intervals1 - 1
  <1>1. call.min \in Int /\ call.max \in Int /\ a \in Int /\ b \in Int
    BY IntMaxAssumption DEF CallOK, Int32, a, b
  <1>2. freq_nb_intervals1 \in Nat \ {0} /\ Interval(call) = 0 .. freq_nb_intervals1 - 1
    BY Zenon DEF CallOK, freq_nb_intervals1, Interval
  <1>3. interval_length1 \in Int
    <2>1. freq_nb_intervals1 \in Int \ {0} /\ call.max - call.min \in Int
      BY <1>1, <1>2
    <2>2. Wrap(call.max - call.min) \in Int
      BY <2>1, WrapType, IntMaxAssumption DEF Int32
    <2>. QED  BY <2>1, <2>2, DivisionType, Zenon DEF interval_length1
  <1>. QED  BY <1>1, <1>2, <1>3, Zenon

(* The intervals of a bounded column are not empty.                        *)
LEMMA PlannerGrid ==
    ASSUME CallOK(call), NoWrap
    PROVE  /\ freq_nb_intervals1 \in Nat \ {0}
           /\ interval_length1 \in Nat \ {0}
           /\ call.min \in Int /\ a \in Int /\ b \in Int
           /\ Interval(call) = 0 .. freq_nb_intervals1 - 1
           /\ call.max - call.min \in Nat \ {0}
           /\ Wrap(call.max - call.min) = call.max - call.min
           /\ Stretch(call) = (call.max - call.min) + 1
  <1>1. /\ freq_nb_intervals1 \in Nat \ {0} /\ call.min \in Int /\ call.max \in Int
        /\ a \in Int /\ b \in Int /\ Interval(call) = 0 .. freq_nb_intervals1 - 1
    BY PlannerShape, Zenon
  <1>2. /\ call.max - call.min \in Nat \ {0} /\ call.max - call.min \in Int32
        /\ call.max - call.min + 1 \in Int32
    BY <1>1, IntMaxAssumption DEF NoWrap, Int32
  <1>3. Wrap(call.max - call.min) = call.max - call.min /\ Stretch(call) = call.max - call.min + 1
    BY <1>2, WrapIdentity, Zenon DEF Stretch
  <1>4. interval_length1 \in Nat \ {0}
    BY <1>1, <1>2, <1>3, RoundUpDivision, Zenon DEF interval_length1
  <1>. QED  BY <1>1, <1>2, <1>3, <1>4, Zenon

(* Its intervals follow one another while the arithmetic does not wrap.    *)
LEMMA PlannerIntervals ==
    ASSUME CallOK(call), NoWrap, NEW j \in 0 .. freq_nb_intervals1
    PROVE  /\ x(j) = call.min + j * interval_length1
           /\ y(j) = call.min + (j + 1) * interval_length1
  <1>. DEFINE n == freq_nb_intervals1
              len == interval_length1
  <1>1. n \in Nat \ {0} /\ len \in Nat \ {0} /\ call.min \in Int /\ j \in Nat /\ j <= n
    BY PlannerGrid
  <1>2. call.min >= -IntMax - 1 /\ call.min + (n + 1) * len <= IntMax
    BY IntMaxAssumption DEF CallOK, Int32, NoWrap
  <1>. HIDE DEF n, len
  <1>3. /\ j * len \in Nat /\ (j + 1) * len \in Nat /\ (n + 1) * len \in Nat
        /\ j * len <= (n + 1) * len /\ (j + 1) * len <= (n + 1) * len
    BY <1>1, MultipleMonotone
  <1>4. call.min + j * len \in Int32 /\ call.min + (j + 1) * len \in Int32
    BY <1>1, <1>2, <1>3, IntMaxAssumption DEF Int32
  <1>. QED  BY <1>4, WrapIdentity, Zenon DEF x, y, n, len

(* So their ends are in order.                                             *)
LEMMA PlannerOrder ==
    ASSUME CallOK(call), NoWrap,
           NEW j \in 0 .. freq_nb_intervals1, NEW h \in 0 .. freq_nb_intervals1, j <= h
    PROVE  /\ x(j) \in Int /\ y(j) \in Int /\ x(h) \in Int /\ y(h) \in Int
           /\ x(j) <= x(h) /\ y(j) <= y(h)
           /\ x(0) = call.min
           /\ j + 1 = h => x(h) = y(j)
  <1>1. /\ interval_length1 \in Nat \ {0} /\ call.min \in Int
        /\ j \in Nat /\ h \in Nat /\ 0 \in 0 .. freq_nb_intervals1
    BY PlannerGrid
  <1>2. /\ x(j) = call.min + j * interval_length1 /\ y(j) = call.min + (j + 1) * interval_length1
        /\ x(h) = call.min + h * interval_length1 /\ y(h) = call.min + (h + 1) * interval_length1
        /\ x(0) = call.min + 0 * interval_length1
    BY <1>1, PlannerIntervals, Zenon
  <1>3. /\ j * interval_length1 <= h * interval_length1
        /\ (j + 1) * interval_length1 <= (h + 1) * interval_length1
        /\ 0 * interval_length1 = 0
    BY <1>1, MultipleMonotone
  <1>. QED  BY <1>1, <1>2, <1>3

(* What the sum consists of once a loop has ended.                         *)
LEMMA FinalSums ==
    ASSUME LoopInv, Estimated
    PROVE  OverlapComplete /\ LeftPrefix
  <1>. DEFINE n == freq_nb_intervals1
  <1>1. CallOK(call) /\ Final /\ i \in Nat
    BY Zenon DEF LoopInv
  <1>2. n \in Nat \ {0} /\ Interval(call) = 0 .. n - 1 /\ a \in Int /\ b \in Int
    BY <1>1, PlannerShape, Zenon
  <1>3. ASSUME NoWrap, call.operator = Overlap, NEW j \in Interval(call), j >= i
        PROVE  ~InRange(j)
    <2>1. i \in 0 .. n /\ i < n /\ j \in 0 .. n
      BY <1>1, <1>2, <1>3
    <2>2. PICK h \in Seen : InRange(h)
      BY <1>1, <1>3, <2>1, Zenon DEF Final, OverlapSeen
    <2>3. ~InRange(i)
      BY <1>1, <1>3, <2>1, Zenon DEF Final
    <2>4. h \in 0 .. n /\ h <= i
      BY <1>1, <1>2, <2>2 DEF Seen
    <2>5. /\ x(h) \in Int /\ y(h) \in Int /\ x(i) \in Int /\ y(i) \in Int
          /\ y(h) <= y(i)
      BY <1>1, <1>3, <2>1, <2>4, PlannerOrder, Zenon
    <2>6. x(i) <= x(j) /\ x(j) \in Int
      BY <1>1, <1>3, <2>1, PlannerOrder, Zenon
    <2>. QED  BY <1>2, <2>2, <2>3, <2>5, <2>6 DEF InRange, IsInRange
  <1>4. OverlapComplete
    <2>1. SUFFICES ASSUME NoWrap, call.operator = Overlap
                   PROVE  added = {j \in Interval(call) : InRange(j)}
      BY Zenon DEF OverlapComplete
    <2>2. added = {j \in Seen : InRange(j)}
      BY <1>1, <2>1, Zenon DEF Final, OverlapSeen
    <2>3. \A j \in Interval(call) : InRange(j) => j \in Seen
      BY <1>1, <1>2, <1>3, <2>1 DEF Seen
    <2>. QED  BY <2>2, <2>3, Zenon DEF Seen
  <1>5. LeftPrefix
    <2>1. SUFFICES ASSUME NoWrap, call.operator = Left, a <= b, b >= call.min
                   PROVE  added = {j \in Interval(call) : y(j) < a}
      BY Zenon DEF LeftPrefix
    <2>2. added = Seen /\ \A j \in Seen : y(j) < a
      BY <1>1, <2>1, Zenon DEF Final, LeftSeen
    <2>3. ASSUME NEW j \in Interval(call), j >= i PROVE ~ (y(j) < a)
      <3>1. i \in 0 .. n /\ i < n /\ j \in 0 .. n
        BY <1>1, <1>2, <2>3
      <3>2. InRange(i)
        BY <1>1, <2>1, <3>1, Zenon DEF Final
      <3>3. y(i) <= y(j) /\ y(i) \in Int /\ y(j) \in Int
        BY <1>1, <2>1, <2>3, <3>1, PlannerOrder, Zenon
      <3>. QED  BY <1>2, <3>2, <3>3 DEF InRange, IsInRange
    <2>4. \A j \in Interval(call) : y(j) < a => j \in Seen
      BY <1>1, <1>2, <2>3 DEF Seen
    <2>. QED  BY <2>2, <2>4, Zenon DEF Seen
  <1>. QED  BY <1>4, <1>5, Zenon

(* A step that leaves the loop variables alone keeps what was seen.        *)
LEMMA SeenKept ==
    ASSUME call' = call, UNCHANGED locals
    PROVE  /\ LeftSeen' = LeftSeen /\ OverlapSeen' = OverlapSeen /\ Final' = Final
           /\ InRange(i)' = InRange(i)
           /\ CallOK(call') = CallOK(call)
  BY Zenon DEF locals, LeftSeen, OverlapSeen, Final, Seen, InRange, NoWrap, Interval,
         freq_nb_intervals1, interval_length1, Stretch, x, y, a, b

(* The next interval has been looked at.                                   *)
LEMMA SeenGrows ==
    ASSUME LoopInv, call' = call, i' = i + 1, i < freq_nb_intervals1
    PROVE  Seen' = Seen \cup {i} /\ i \in Interval(call) /\ i \notin Seen
  <1>1. CallOK(call) /\ i \in Nat
    BY Zenon DEF LoopInv
  <1>2. Interval(call) = 0 .. freq_nb_intervals1 - 1 /\ freq_nb_intervals1 \in Nat
    BY <1>1, PlannerShape, Zenon
  <1>3. Interval(call') = Interval(call)
    BY Zenon DEF Interval
  <1>4. PICK n \in Nat : n = i /\ i' = n + 1
    BY <1>1, Zenon
  <1>. QED  BY <1>2, <1>3, <1>4 DEF Seen

(* An interval before the constant that does not meet it lies to its left. *)
LEMMA LeftStepSeen ==
    ASSUME LoopInv, LeftStep
    PROVE  LoopInv'
  <1>1. /\ CallOK(call) /\ i \in Nat /\ out \in Nat /\ LeftSeen /\ call.operator = Left
        /\ pc = "left" /\ i < freq_nb_intervals1 /\ ~InRange(i)
        /\ pc' = pc /\ call' = call /\ out' = out /\ i' = i + 1 /\ added' = added \cup {i}
    BY Zenon DEF LoopInv, LeftStep, Add
  <1>2. Seen' = Seen \cup {i} /\ i \in Interval(call)
    BY <1>1, SeenGrows, Zenon
  <1>3. ASSUME NoWrap, a <= b, b >= call.min
        PROVE  y(i) < a
    <2>1. /\ i \in 0 .. freq_nb_intervals1 /\ freq_nb_intervals1 \in Nat
          /\ a \in Int /\ b \in Int /\ call.min \in Int
      BY <1>1, PlannerShape
    <2>2. x(i) \in Int /\ y(i) \in Int /\ x(0) = call.min
      BY <1>1, <1>3, <2>1, PlannerOrder
    <2>3. x(i) <= b
      <3>1. CASE i = 0
        BY <1>3, <2>2, <3>1, Zenon
      <3>2. CASE i # 0
        <4>1. i - 1 \in 0 .. freq_nb_intervals1 /\ i - 1 <= i /\ (i - 1) + 1 = i
          BY <1>1, <2>1, <3>2
        <4>2. x(i) = y(i - 1)
          BY <1>1, <1>3, <2>1, <4>1, PlannerOrder, Zenon
        <4>3. i - 1 \in Seen
          BY <1>1, <3>2, PlannerShape DEF Seen
        <4>. QED  BY <1>1, <1>3, <2>1, <2>2, <4>2, <4>3 DEF LeftSeen
      <3>. QED  BY <3>1, <3>2, Zenon
    <2>. QED  BY <1>1, <2>1, <2>2, <2>3 DEF InRange, IsInRange
  <1>4. LeftSeen'
    <2>1. /\ NoWrap' = NoWrap /\ a' = a /\ b' = b /\ call'.min = call.min
          /\ \A j : y(j)' = y(j)
      BY <1>1, Zenon DEF NoWrap, freq_nb_intervals1, interval_length1, Stretch, a, b, y
    <2>2. added' = Seen'
      BY <1>1, <1>2, Zenon DEF LeftSeen
    <2>3. NoWrap /\ a <= b /\ b >= call.min => \A j \in Seen' : y(j) < a
      BY <1>1, <1>2, <1>3, Zenon DEF LeftSeen
    <2>. QED  BY <2>1, <2>2, <2>3, Zenon DEF LeftSeen
  <1>. QED  BY <1>1, <1>4 DEF LoopInv, Estimated

(* An interval that meets the constant is added, one before it is not.     *)
LEMMA OverlapStepSeen ==
    ASSUME LoopInv, OverlapStep \/ OverlapSkip
    PROVE  LoopInv'
  <1>1. /\ CallOK(call) /\ i \in Nat /\ out \in Nat /\ OverlapSeen /\ call.operator = Overlap
        /\ pc = "overlap" /\ i < freq_nb_intervals1
        /\ pc' = pc /\ call' = call /\ i' = i + 1
    BY Zenon DEF LoopInv, OverlapStep, OverlapSkip, Add
  <1>2. Seen' = Seen \cup {i}
    BY <1>1, SeenGrows, Zenon
  <1>3. \A j : InRange(j)' = InRange(j)
    BY <1>1, Zenon DEF InRange, x, y, interval_length1, freq_nb_intervals1, Stretch, a, b
  <1>4. CASE OverlapStep
    <2>1. added' = added \cup {i} /\ out' = out + 1 /\ InRange(i)
      BY <1>4, Zenon DEF OverlapStep, Add
    <2>2. out' \in Nat /\ out' # 0
      BY <1>1, <2>1
    <2>3. OverlapSeen'
      BY <1>1, <1>2, <1>3, <2>1, <2>2, Zenon DEF OverlapSeen
    <2>. QED  BY <1>1, <2>2, <2>3 DEF LoopInv, Estimated
  <1>5. CASE OverlapSkip
    <2>1. added' = added /\ out' = out /\ ~InRange(i)
      BY <1>5, Zenon DEF OverlapSkip
    <2>2. OverlapSeen'
      BY <1>1, <1>2, <1>3, <2>1, Zenon DEF OverlapSeen
    <2>. QED  BY <1>1, <2>1, <2>2 DEF LoopInv, Estimated
  <1>. QED  BY <1>4, <1>5, Zenon

(* Every step keeps the invariant.                                         *)
LEMMA LoopStep ==
    ASSUME LoopInv, [Next \/ Ended]_vars
    PROVE  LoopInv'
  <1>1. CASE LeftStep  BY <1>1, LeftStepSeen, Zenon
  <1>2. CASE OverlapStep \/ OverlapSkip  BY <1>2, OverlapStepSeen, Zenon
  <1>3. ASSUME call' = call, UNCHANGED locals
        PROVE  /\ LeftSeen' = LeftSeen /\ OverlapSeen' = OverlapSeen /\ Final' = Final
               /\ i' = i /\ out' = out /\ added' = added
    BY <1>3, SeenKept, Zenon DEF locals
  <1>4. CASE \/ WrongOperator \/ NoVariable
             \/ NotUsable \/ EmptyConstant \/ Insecure \/ NoHistograms
    <2>1. pc' = "returned" /\ call' = call /\ UNCHANGED locals /\ ~Estimated'
      BY <1>4, Zenon DEF WrongOperator, NoVariable, NotUsable, EmptyConstant, Insecure,
                  NoHistograms, ReturnReleased, ReturnPinned, Estimated
    <2>. QED  BY <1>3, <2>1, Zenon DEF LoopInv
  <1>5. CASE RestrictionVariable
    <2>1. /\ pc = "start" /\ pc' = "checks" /\ call' = call /\ UNCHANGED locals
          /\ call.operator \in {Left, Overlap}
      BY <1>5, Zenon DEF RestrictionVariable
    <2>. QED  BY <1>3, <2>1, Zenon DEF LoopInv, Estimated
  <1>6. CASE Estimate
    <2>1. /\ pc = "checks" /\ call' = call /\ UNCHANGED locals
          /\ pc' = IF call.operator = Left THEN "left" ELSE "overlap"
      BY <1>6, Zenon DEF Estimate
    <2>2. i = 0 /\ out = 0 /\ added = {} /\ CallOK(call) /\ call.operator \in {Left, Overlap}
      BY <2>1, Zenon DEF LoopInv
    <2>3. Seen = {}
      BY <2>2, PlannerShape DEF Seen
    <2>4. LeftSeen /\ OverlapSeen
      BY <2>2, <2>3, Zenon DEF LeftSeen, OverlapSeen
    <2>. QED  BY <1>3, <2>1, <2>2, <2>4, Zenon DEF LoopInv, Estimated
  <1>7. CASE LeftDone
    <2>1. /\ pc = "left" /\ pc' = "sum" /\ call' = call /\ UNCHANGED locals
          /\ i >= freq_nb_intervals1 \/ InRange(i)
      BY <1>7, Zenon DEF LeftDone
    <2>2. LeftSeen /\ call.operator = Left /\ CallOK(call) /\ i \in Nat
      BY <2>1, Zenon DEF LoopInv
    <2>3. i < freq_nb_intervals1 => InRange(i)
      BY <2>1, <2>2, PlannerShape
    <2>4. Final
      BY <2>2, <2>3, Zenon DEF Final, Left, Overlap
    <2>. QED  BY <1>3, <2>1, <2>4, Zenon DEF LoopInv, Estimated
  <1>8. CASE OverlapDone
    <2>1. /\ pc = "overlap" /\ pc' = "sum" /\ call' = call /\ UNCHANGED locals
          /\ i >= freq_nb_intervals1 \/ (~InRange(i) /\ out # 0)
      BY <1>8, Zenon DEF OverlapDone
    <2>2. OverlapSeen /\ call.operator = Overlap /\ CallOK(call) /\ i \in Nat
      BY <2>1, Zenon DEF LoopInv
    <2>3. i < freq_nb_intervals1 => ~InRange(i) /\ added # {}
      BY <2>1, <2>2, PlannerShape DEF OverlapSeen
    <2>4. Final
      BY <2>2, <2>3, Zenon DEF Final, Left, Overlap
    <2>. QED  BY <1>3, <2>1, <2>4, Zenon DEF LoopInv, Estimated
  <1>9. CASE Sum
    <2>1. pc = "sum" /\ pc' = "returned" /\ call' = call /\ UNCHANGED locals
      BY <1>9, Zenon DEF Sum, ReturnReleased
    <2>. QED  BY <1>3, <2>1, Zenon DEF LoopInv
  <1>10. CASE Ended \/ UNCHANGED vars
    <2>1. pc' = pc /\ call' = call /\ UNCHANGED locals
      BY <1>10, Zenon DEF Ended, vars, locals
    <2>. QED  BY <1>3, <2>1, Zenon DEF LoopInv, Estimated
  <1>. QED  BY <1>1, <1>2, <1>4, <1>5, <1>6, <1>7, <1>8, <1>9, <1>10, Zenon DEF Next

(* rangerestsel enters with nothing summed.                                *)
LEMMA LoopInit == Init => LoopInv
  BY CallsAssumption DEF Init, LoopInv, Estimated

(* On a bounded column the sum for && is over every interval that meets    *)
(* the constant, and the early break of the loop loses none.               *)
THEOREM OverlapSumComplete == Spec => []OverlapComplete
  <1>1. LoopInv => OverlapComplete
    BY FinalSums, Zenon DEF OverlapComplete
  <1>. QED  BY <1>1, LoopInit, LoopStep, PTL DEF Spec

(* On a bounded column the sum for << is over the intervals that end       *)
(* before the constant, unless the constant ends before the column begins. *)
THEOREM LeftSumPrefix == Spec => []LeftPrefix
  <1>1. LoopInv => LeftPrefix
    BY FinalSums, Zenon DEF LeftPrefix
  <1>. QED  BY <1>1, LoopInit, LoopStep, PTL DEF Spec

-----------------------------------------------------------------------------
(* The estimate of rangerestsel is a probability.                          *)

(* The frequencies that were added up.                                     *)
LEMMA TermsOfSum ==
    ASSUME CallOK(call), added \subseteq Interval(call)
    PROVE  /\ SumFunctionOnSet(call.freq, added) \in Int
           /\ (\A j \in added : call.freq[j] \in Nat) =>
                 /\ SumFunctionOnSet(call.freq, added) \in Nat
                 /\ \A j \in added : call.freq[j] <= SumFunctionOnSet(call.freq, added)
  <1>. DEFINE g == [j \in added |-> call.freq[j]]
  <1>1. Interval(call) = 0 .. freq_nb_intervals1 - 1 /\ freq_nb_intervals1 \in Nat \ {0}
    BY PlannerShape, Zenon
  <1>2. IsFiniteSet(added)
    <2>1. 0 \in Int /\ freq_nb_intervals1 - 1 \in Int
      BY <1>1
    <2>2. IsFiniteSet(Interval(call))
      BY <1>1, <2>1, FS_Interval, Zenon
    <2>. QED  BY <2>2, FS_Subset, Zenon
  <1>3. g \in [added -> Int] /\ \A j \in added : call.freq[j] = g[j]
    BY Zenon DEF CallOK
  <1>. HIDE DEF g
  <1>4. PICK f : Summation(f, added, g) /\ SumFunctionOnSet(call.freq, added) = f[added]
    BY <1>2, <1>3, SumIs, Zenon
  <1>5. f[added] \in Int
    BY <1>4, Zenon DEF Summation
  <1>6. ASSUME \A j \in added : call.freq[j] \in Nat
        PROVE  f[added] \in Nat /\ \A j \in added : call.freq[j] <= f[added]
    <2>1. \A m \in Nat : m >= 0
      OBVIOUS
    <2>2. \A j \in added : g[j] >= 0
      BY <1>3, <1>6, <2>1, Zenon
    <2>. QED  BY <1>3, <1>4, <2>2, SumAtLeast, Zenon
  <1>. QED  BY <1>4, <1>5, <1>6, Zenon

(* The sum is a fraction; it is finite when its terms are.                 *)
LEMMA SumType ==
    ASSUME CallOK(call), added \subseteq Interval(call)
    PROVE  /\ sum.num \in Int /\ sum.den \in Nat
           /\ call.nonfinite = {} => /\ sum.num = SumFunctionOnSet(call.freq, added)
                                     /\ sum.den = call.unit /\ sum.den # 0
  <1>. DEFINE odd == added \cap call.nonfinite
              total == SumFunctionOnSet(call.freq, added)
              Sign(n) == \A j \in odd : n * call.freq[j] > 0
              sign == IF Sign(1) THEN 1 ELSE IF Sign(-1) THEN -1 ELSE 0
  <1>1. total \in Int /\ call.unit \in Nat /\ call.unit # 0
    BY TermsOfSum, Zenon DEF CallOK
  <1>2. sum = IF odd = {} THEN Fraction(total, call.unit) ELSE Fraction(sign, 0)
    BY Zenon DEF sum
  <1>3. sign \in {1, -1, 0}
    BY Zenon
  <1>4. call.nonfinite = {} => odd = {}
    BY Zenon
  <1>. HIDE DEF odd, total, sign
  <1>5. sign \in Int /\ 0 \in Nat
    BY <1>3
  <1>6. CASE odd = {}
    BY <1>1, <1>2, <1>6, Zenon DEF Fraction, total
  <1>7. CASE odd # {}
    BY <1>2, <1>4, <1>5, <1>7, Zenon DEF Fraction
  <1>. QED  BY <1>6, <1>7, Zenon

(* Products of fractions.                                                  *)
IsFraction(s) == s = Fraction(s.num, s.den) /\ s.num \in Int /\ s.den \in Nat

(* The product of two fractions is one, and finite when both are.          *)
LEMMA TimesFraction ==
    ASSUME NEW s, NEW t, s.num \in Int, s.den \in Nat, t.num \in Int, t.den \in Nat
    PROVE  /\ IsFraction(Times(s, t))
           /\ Times(s, t).num = s.num * t.num /\ Times(s, t).den = s.den * t.den
           /\ s.den # 0 /\ t.den # 0 => Times(s, t).den # 0
  <1>1. Times(s, t).num = s.num * t.num /\ Times(s, t).den = s.den * t.den
    BY Zenon DEF Times, Fraction
  <1>2. \A m, n \in Int : m * n \in Int
    OBVIOUS
  <1>3. \A m, n \in Nat : m * n \in Nat /\ (m # 0 /\ n # 0 => m * n # 0)
    OBVIOUS
  <1>4. Times(s, t) = Fraction(Times(s, t).num, Times(s, t).den)
    BY Zenon DEF Times, Fraction
  <1>5. s.num * t.num \in Int
    BY <1>2, Zenon
  <1>6. s.den * t.den \in Nat /\ (s.den # 0 /\ t.den # 0 => s.den * t.den # 0)
    BY <1>3, Zenon
  <1>7. Times(s, t).num \in Int /\ Times(s, t).den \in Nat
    BY <1>1, <1>5, <1>6, Zenon
  <1>8. IsFraction(Times(s, t))
    BY <1>4, <1>7, Zenon DEF IsFraction
  <1>9. s.den # 0 /\ t.den # 0 => Times(s, t).den # 0
    BY <1>1, <1>6, Zenon
  <1>. QED  BY <1>1, <1>8, <1>9, Zenon

(* The share of the rows is a fraction; it is finite when the frequencies  *)
(* are and the planner's intervals have a length.                          *)
LEMMA ShareType ==
    ASSUME CallOK(call), added \subseteq Interval(call)
    PROVE  /\ IsFraction(Share)
           /\ Share.den = 0 => call.nonfinite # {} \/ interval_length1 = 0
  <1>. DEFINE whole == Fraction(1, call.rows)
              first == freq_values1(0)
              part == Quotient(a, interval_length1)
              Few == call.operator = Left /\ sum.num < sum.den
  <1>1. sum.num \in Int /\ sum.den \in Nat /\ (call.nonfinite = {} => sum.den # 0)
    BY SumType, Zenon
  <1>2. whole.num \in Int /\ whole.den \in Nat /\ whole.den # 0
    <2>1. whole.num = 1 /\ whole.den = call.rows
      BY Zenon DEF Fraction
    <2>2. call.rows \in Nat \ {0}
      BY Zenon DEF CallOK
    <2>. QED  BY <2>1, <2>2
  <1>3. first.num \in Int /\ first.den \in Nat /\ (call.nonfinite = {} => first.den # 0)
    <2>1. 0 \in Interval(call)
      BY PlannerShape
    <2>2. call.freq[0] \in Int /\ call.unit \in Nat /\ call.unit # 0 /\ 0 \in Nat
      BY <2>1, Zenon DEF CallOK
    <2>3. /\ first.num = call.freq[0]
          /\ first.den = IF 0 \in call.nonfinite THEN 0 ELSE call.unit
      BY Zenon DEF freq_values1, Fraction
    <2>. QED  BY <2>2, <2>3, Zenon
  <1>4. part.num \in Int /\ part.den \in Nat /\ (interval_length1 # 0 => part.den # 0)
    <2>1. PICK n \in Int, d \in Int : n = a /\ d = interval_length1
      BY PlannerShape, Zenon
    <2>2. CASE d < 0
      BY <2>1, <2>2 DEF Quotient, Fraction
    <2>3. CASE ~ (d < 0)
      BY <2>1, <2>3 DEF Quotient, Fraction
    <2>. QED  BY <2>2, <2>3, Zenon
  <1>5. Share = IF Few THEN Times(Times(first, part), whole) ELSE Times(sum, whole)
    BY Zenon DEF Share
  <1>. HIDE DEF whole, first, part, Few
  <1>6. CASE Few
    <2>. DEFINE product == Times(first, part)
    <2>1. /\ product.num \in Int /\ product.den \in Nat
          /\ first.den # 0 /\ part.den # 0 => product.den # 0
      BY <1>3, <1>4, TimesFraction, Zenon DEF IsFraction
    <2>2. Share = Times(product, whole)
      BY <1>5, <1>6, Zenon
    <2>. HIDE DEF product
    <2>. QED  BY <1>2, <1>3, <1>4, <2>1, <2>2, TimesFraction, Zenon
  <1>7. CASE ~Few
    BY <1>1, <1>2, <1>5, <1>7, TimesFraction, Zenon
  <1>. QED  BY <1>6, <1>7, Zenon

(* A fraction between zero and one, or NaN.                                *)
IsProbability(s) ==
    s \in [num : Int, den : Nat] /\ 0 <= s.num /\ s.num <= s.den

(* CLAMP_PROBABILITY returns one of the two, and NaN only for NaN.         *)
LEMMA ClampProbability ==
    ASSUME NEW s, IsFraction(s)
    PROVE  /\ IsProbability(Clamp(s))
           /\ Clamp(s).den = 0 => s.den = 0
  <1>. USE DEF IsFraction
  <1>1. CASE s.num < 0
    BY <1>1 DEF Clamp, IsProbability, Fraction
  <1>2. CASE ~ (s.num < 0) /\ s.num > s.den
    BY <1>2 DEF Clamp, IsProbability, Fraction
  <1>3. CASE ~ (s.num < 0) /\ ~ (s.num > s.den)
    BY <1>3 DEF Clamp, IsProbability, Fraction
  <1>. QED  BY <1>1, <1>2, <1>3, Zenon

(* The results that do not come from the statistics.                       *)
LEMMA DefaultProbability ==
    /\ IsProbability(Default) /\ Default.den # 0
    /\ IsProbability(Fraction(0, 1)) /\ Fraction(0, 1).den # 0
    /\ \A op : /\ IsProbability(default_range_selectivity(op))
               /\ default_range_selectivity(op).den # 0
  BY DEF IsProbability, Default, Fraction, default_range_selectivity

(* Every step keeps the types, and returns a probability.                  *)
LEMMA RestStep ==
    ASSUME TypeOK, Probability, [Next \/ Ended]_vars
    PROVE  TypeOK' /\ Probability'
  <1>1. ASSUME NEW s, IsProbability(s), ReturnReleased(s) \/ ReturnPinned(s),
               s.den = 0 => call.nonfinite # {} \/ interval_length1 = 0
        PROVE  TypeOK' /\ Probability'
    <2>1. /\ pc' = "returned" /\ selec' = s /\ pinned' \in BOOLEAN /\ call' = call
          /\ i' = i /\ out' = out /\ added' = added
      BY <1>1, Zenon DEF ReturnReleased, ReturnPinned, locals, TypeOK
    <2>2. interval_length1' = interval_length1
      BY <2>1, Zenon DEF interval_length1, freq_nb_intervals1, Stretch
    <2>. QED  BY <1>1, <2>1, <2>2, Zenon DEF TypeOK, Probability, IsProbability
  <1>2. CASE \/ WrongOperator \/ NoVariable
             \/ NotUsable \/ EmptyConstant \/ Insecure \/ NoHistograms
    <2>1. \E s : IsProbability(s) /\ s.den # 0 /\ (ReturnReleased(s) \/ ReturnPinned(s))
      BY <1>2, DefaultProbability, Zenon DEF WrongOperator, NoVariable, NotUsable,
         EmptyConstant, Insecure, NoHistograms
    <2>. QED  BY <1>1, <2>1, Zenon
  <1>3. CASE RestrictionVariable
    <2>1. /\ pc' = "checks" /\ pinned' \in BOOLEAN /\ call' = call /\ selec' = selec
          /\ i' = i /\ out' = out /\ added' = added
      BY <1>3, Zenon DEF RestrictionVariable, locals, TypeOK, CallOK
    <2>. QED  BY <2>1, Zenon DEF TypeOK, Probability
  <1>4. CASE Estimate \/ LeftDone \/ OverlapDone
    <2>1. /\ pc' \in {"left", "overlap", "sum"} /\ pinned' = pinned /\ call' = call /\ selec' = selec
          /\ i' = i /\ out' = out /\ added' = added
      BY <1>4, Zenon DEF Estimate, LeftDone, OverlapDone, locals
    <2>. QED  BY <2>1, Zenon DEF TypeOK, Probability
  <1>5. CASE LeftStep \/ OverlapStep \/ OverlapSkip
    <2>1. /\ pc' = pc /\ pc \in {"left", "overlap"} /\ pinned' = pinned /\ call' = call /\ selec' = selec
          /\ i' = i + 1 /\ out' \in {out, out + 1} /\ added' \in {added, added \cup {i}}
          /\ i < freq_nb_intervals1
      BY <1>5, Zenon DEF LeftStep, OverlapStep, OverlapSkip, Add
    <2>2. i \in Nat /\ out \in Nat /\ CallOK(call) /\ added \subseteq Interval(call)
      BY Zenon DEF TypeOK
    <2>3. i' \in Nat /\ out' \in Nat
      BY <2>1, <2>2
    <2>4. i \in Interval(call)
      BY <2>1, <2>2, PlannerShape
    <2>5. added' \subseteq Interval(call')
      BY <2>1, <2>2, <2>4, Zenon
    <2>. QED  BY <2>1, <2>2, <2>3, <2>5, Zenon DEF TypeOK, Probability
  <1>6. CASE Sum
    <2>1. IsFraction(Share) /\ (Share.den = 0 => call.nonfinite # {} \/ interval_length1 = 0)
      BY ShareType, Zenon DEF TypeOK
    <2>2. IsProbability(Clamp(Share)) /\ (Clamp(Share).den = 0 => Share.den = 0)
      BY <2>1, ClampProbability, Zenon
    <2>. QED  BY <1>1, <1>6, <2>1, <2>2, Zenon DEF Sum
  <1>7. CASE Ended \/ UNCHANGED vars
    <2>1. /\ pc' = pc /\ pinned' = pinned /\ call' = call /\ selec' = selec
          /\ i' = i /\ out' = out /\ added' = added
      BY <1>7, Zenon DEF Ended, vars
    <2>2. interval_length1' = interval_length1
      BY <2>1, Zenon DEF interval_length1, freq_nb_intervals1, Stretch
    <2>. QED  BY <2>1, <2>2, Zenon DEF TypeOK, Probability
  <1>. QED  BY <1>2, <1>3, <1>4, <1>5, <1>6, <1>7, Zenon DEF Next

(* Before the first call the types and the estimate are right.             *)
LEMMA RestInit == Init => TypeOK /\ Probability
  <1>1. Default \in [num : Int, den : Nat]
    BY DefaultProbability, Zenon DEF IsProbability
  <1>2. 0 \in Nat
    OBVIOUS
  <1>. QED  BY <1>1, <1>2, CallsAssumption, Zenon DEF Init, TypeOK, Probability

(* rangerestsel: the locals keep their types, and the sum never takes an   *)
(* interval that the histogram does not have.                              *)
THEOREM RestTypeCorrect == Spec => []TypeOK
  BY RestInit, RestStep, PTL DEF Spec

(* rangerestsel returns a number between 0 and 1 on every path, whatever   *)
(* the statistics, the bounds of the column and the constant, or NaN: so   *)
(* restriction_selectivity in plancat.c never raises its error.  NaN only  *)
(* comes from a frequency that is not finite or from intervals of length   *)
(* zero, which a bounded column has not (AnalyzedEstimateIsNumber).        *)
THEOREM EstimateIsProbability == Spec => []Probability
  BY RestInit, RestStep, PTL DEF Spec

-----------------------------------------------------------------------------
(* From ANALYZE to the planner.                                            *)

(* The recursion that multiplies the row lengths has a solution.           *)
Products(f, n) == f = [m \in 0 .. n |-> IF m = 0 THEN 1 ELSE f[m - 1] * Width(m - 1)]

(* There is such a function for every number of rows.                      *)
LEMMA ProductsExist ==
    ASSUME NEW n \in Nat
    PROVE  \E f : Products(f, n)
  <1>. DEFINE Bad == {m \in Nat : ~ \E f : Products(f, m)}
  <1>1. SUFFICES ASSUME Bad # {} PROVE FALSE
    BY Zenon
  <1>2. PICK m \in Bad : \A p \in Bad : m <= p
    BY <1>1, NaturalsWellOrdered, Zenon
  <1>3. m # 0
    <2>1. \E f : Products(f, 0)
      <3>. DEFINE f == [p \in 0 .. 0 |-> 1]
      <3>1. f = [p \in 0 .. 0 |-> IF p = 0 THEN 1 ELSE f[p - 1] * Width(p - 1)]
        OBVIOUS
      <3>. QED  BY <3>1, Zenon DEF Products
    <2>. QED  BY <1>2, <2>1, Zenon
  <1>4. PICK p \in Nat : m = p + 1 /\ ~ (m <= p)
    BY <1>2, <1>3
  <1>5. PICK f : Products(f, p)
    BY <1>2, <1>4, Zenon
  <1>. DEFINE h == [c \in 0 .. p + 1 |-> IF c = 0 THEN 1 ELSE f[c - 1] * Width(c - 1)]
  <1>6. \A c \in 0 .. p : h[c] = f[c]
    <2>1. \A c \in 0 .. p : c \in 0 .. p + 1
      OBVIOUS
    <2>2. \A c \in 0 .. p : f[c] = IF c = 0 THEN 1 ELSE f[c - 1] * Width(c - 1)
      BY <1>5, Zenon DEF Products
    <2>. QED  BY <2>1, <2>2, Zenon
  <1>7. \A c \in 0 .. p + 1 : c # 0 => c - 1 \in 0 .. p
    OBVIOUS
  <1>8. Products(h, p + 1)
    <2>1. \A c \in 0 .. p + 1 : (IF c = 0 THEN 1 ELSE f[c - 1] * Width(c - 1))
                                  = (IF c = 0 THEN 1 ELSE h[c - 1] * Width(c - 1))
      BY <1>6, <1>7, Zenon
    <2>. QED  BY <2>1, Zenon DEF Products
  <1>. QED  BY <1>2, <1>4, <1>8, Zenon

(* The quotient of a multiple is exact.                                    *)
LEMMA DivideMultiple == \A q \in Nat, w \in Nat \ {0} : (q * w) \div w = q
  OBVIOUS

(* The common denominator is a multiple of every row length.               *)
LEMMA UnitFacts ==
    ASSUME FreqTypeOK, Ordered
    PROVE  /\ Unit \in Nat \ {0}
           /\ \A r \in Rows : /\ Width(r) \in Nat \ {0}
                              /\ Unit \div Width(r) \in Nat \ {0}
                              /\ Width(r) * (Unit \div Width(r)) = Unit
  <1>1. rows \in Nat \ {0} /\ Rows = 0 .. rows - 1
    BY Zenon DEF FreqTypeOK, Rows
  <1>2. \A r \in Rows : Width(r) \in Nat \ {0}
    BY IntMaxAssumption DEF FreqTypeOK, Ordered, Width, Int32
  <1>3. PICK f : Products(f, rows)
    BY <1>1, ProductsExist
  <1>4. PICK h : Products(h, rows) /\ Unit = h[rows]
    BY <1>3, Zenon DEF Unit, Products
  <1>. DEFINE P(m) == /\ h[m] \in Nat \ {0}
                      /\ \A r \in 0 .. m - 1 : \E q \in Nat \ {0} : h[m] = q * Width(r)
              Bad == {m \in 0 .. rows : ~P(m)}
  <1>5. P(0)
    <2>1. 0 \in 0 .. rows /\ 0 .. 0 - 1 = {}
      BY <1>1
    <2>2. h[0] = 1
      BY <1>4, <2>1, Zenon DEF Products
    <2>. QED  BY <2>1, <2>2
  <1>6. ASSUME NEW m \in Rows, P(m) PROVE P(m + 1)
    <2>1. m + 1 \in 0 .. rows /\ m + 1 # 0 /\ (m + 1) - 1 = m
      BY <1>1
    <2>2. h[m + 1] = h[m] * Width(m)
      <3>1. h[m + 1] = h[(m + 1) - 1] * Width((m + 1) - 1)
        BY <1>4, <2>1, Zenon DEF Products
      <3>. QED  BY <2>1, <3>1, Zenon
    <2>3. PICK c \in Nat \ {0}, w \in Nat \ {0} : c = h[m] /\ w = Width(m)
      BY <1>2, <1>6, Zenon
    <2>4. h[m + 1] = c * w /\ c * w \in Nat \ {0}
      BY <2>2, <2>3, PositiveProduct, Zenon
    <2>5. ASSUME NEW r \in 0 .. (m + 1) - 1 PROVE \E q \in Nat \ {0} : h[m + 1] = q * Width(r)
      <3>1. CASE r = m
        BY <2>3, <2>4, <3>1, Zenon
      <3>2. CASE r # m
        <4>1. r \in 0 .. m - 1 /\ r \in Rows
          BY <1>1, <2>1, <2>5, <3>2
        <4>2. PICK q \in Nat \ {0} : c = q * Width(r)
          BY <1>6, <2>3, <4>1, Zenon
        <4>3. PICK v \in Nat \ {0} : v = Width(r)
          BY <1>2, <4>1, Zenon
        <4>4. (q * v) * w = (q * w) * v /\ q * w \in Nat \ {0}
          BY PositiveProduct
        <4>. QED  BY <2>4, <4>2, <4>3, <4>4, Zenon
      <3>. QED  BY <3>1, <3>2, Zenon
    <2>. QED  BY <2>4, <2>5, Zenon
  <1>. HIDE DEF P
  <1>7. Bad = {}
    <2>1. SUFFICES ASSUME Bad # {} PROVE FALSE
      BY Zenon
    <2>2. PICK m \in Bad : \A n \in Bad : m <= n
      <3>1. Bad \in SUBSET Nat
        BY <1>1
      <3>. QED  BY <2>1, <3>1, NaturalsWellOrdered, Zenon
    <2>3. m # 0
      BY <1>5, <2>2, Zenon
    <2>4. PICK n \in Rows : m = n + 1 /\ ~ (m <= n) /\ n \in 0 .. rows
      <3>1. m - 1 \in Rows /\ m = (m - 1) + 1 /\ ~ (m <= m - 1) /\ m - 1 \in 0 .. rows
        BY <1>1, <2>2, <2>3
      <3>. QED  BY <3>1, Zenon
    <2>. QED  BY <1>6, <2>2, <2>4, Zenon
  <1>8. P(rows)
    <2>1. rows \in 0 .. rows
      BY <1>1
    <2>. QED  BY <1>7, <2>1, Zenon
  <1>9. Unit \in Nat \ {0} /\ \A r \in Rows : \E q \in Nat \ {0} : Unit = q * Width(r)
    BY <1>1, <1>4, <1>8, Zenon DEF P
  <1>10. ASSUME NEW r \in Rows
         PROVE  Unit \div Width(r) \in Nat \ {0} /\ Width(r) * (Unit \div Width(r)) = Unit
    <2>1. PICK q \in Nat \ {0}, w \in Nat \ {0} : w = Width(r) /\ Unit = q * w
      BY <1>2, <1>9, <1>10, Zenon
    <2>2. (q * w) \div w = q /\ w * q = q * w
      BY DivideMultiple
    <2>. QED  BY <2>1, <2>2, Zenon
  <1>. QED  BY <1>2, <1>9, <1>10, Zenon

(* What a finished sweep leaves for pg_statistic.                          *)
LEMMA Swept ==
    ASSUME FreqTypeOK, SweepInv, Ordered, FreqNoWrap, fpc = "done"
    PROVE  /\ GridChosen /\ nb_of_intervals \in Nat \ {0}
           /\ DOMAIN freq = 0 .. nb_of_intervals - 1
           /\ IsFiniteSet(Rows) /\ Cardinality(Rows) = rows
           /\ \A j \in DOMAIN freq, r \in Rows :
                 freq[j][r] \in Nat /\ Shared(r, Sup(j)) \in Nat /\ Shared(r, Sup(j)) <= freq[j][r]
  <1>1. GridChosen /\ AtInterval /\ fi = nb_of_intervals
    BY Zenon DEF SweepInv
  <1>2. DOMAIN freq = 0 .. nb_of_intervals - 1 /\ nb_of_intervals \in Nat \ {0}
    BY <1>1, CallFacts, Zenon DEF AtInterval, GridChosen
  <1>3. IsFiniteSet(Rows) /\ Cardinality(Rows) = rows
    <2>1. rows \in Nat \ {0} /\ 0 \in Int /\ rows - 1 \in Int /\ ~ (0 > rows - 1) /\ (rows - 1) - 0 + 1 = rows
      BY DEF FreqTypeOK
    <2>. QED  BY <2>1, FS_Interval, Zenon DEF Rows
  <1>4. ASSUME NEW j \in DOMAIN freq, NEW r \in Rows
        PROVE  /\ freq[j][r] \in Nat /\ Shared(r, Sup(j)) \in Nat
               /\ Shared(r, Sup(j)) <= freq[j][r]
    <2>1. freq[j][r] \in Int
      <3>1. freq \in [0 .. fi - 1 -> [Rows -> Int]]
        BY DEF FreqTypeOK
      <3>. QED  BY <1>4, <3>1, Zenon
    <2>2. freq[j][r] >= Shared(r, Sup(j))
      BY <1>4, Zenon DEF SweepInv, CountOK
    <2>3. Shared(r, Sup(j)) \in Nat
      BY <1>1, <1>2, <1>4, MassStep, Zenon
    <2>. QED  BY <2>1, <2>2, <2>3
  <1>. QED  BY <1>1, <1>2, <1>3, <1>4, Zenon

(* The part of each row in a stored frequency.                             *)
Part(j) == [r \in Rows |-> freq[j][r] * (Unit \div Width(r))]

(* A stored frequency is the sum of the parts of the rows, and no less     *)
(* than any of them.                                                       *)
LEMMA StoredFacts ==
    ASSUME FreqTypeOK, SweepInv, Ordered, FreqNoWrap, fpc = "done", NEW j \in DOMAIN freq
    PROVE  /\ Stored(j) \in Nat
           /\ \A r \in Rows : Part(j)[r] \in Nat /\ Part(j)[r] <= Stored(j)
           /\ \E f : Summation(f, Rows, Part(j)) /\ Stored(j) = f[Rows]
  <1>1. \A r \in Rows : freq[j][r] \in Nat /\ Unit \div Width(r) \in Nat
    BY Swept, UnitFacts, Zenon
  <1>2. \A r \in Rows : Part(j)[r] = freq[j][r] * (Unit \div Width(r))
    BY Zenon DEF Part
  <1>3. \A m, n \in Nat : m * n \in Nat /\ m * n \in Int /\ m * n >= 0
    OBVIOUS
  <1>4. \A r \in Rows : Part(j)[r] \in Nat /\ Part(j)[r] \in Int /\ Part(j)[r] >= 0
    BY <1>1, <1>2, <1>3, Zenon
  <1>5. Part(j) \in [Rows -> Int] /\ DOMAIN Part(j) = Rows
    BY <1>2, <1>4, Zenon DEF Part
  <1>6. Stored(j) = SumFunctionOnSet(Part(j), Rows)
    BY <1>5, Zenon DEF Stored, Part, SumFunction
  <1>7. IsFiniteSet(Rows) /\ \A r \in Rows : Part(j)[r] = Part(j)[r]
    BY Swept, Zenon
  <1>8. PICK f : Summation(f, Rows, Part(j)) /\ SumFunctionOnSet(Part(j), Rows) = f[Rows]
    BY <1>5, <1>7, SumIs, Zenon
  <1>9. f[Rows] \in Nat /\ \A r \in Rows : Part(j)[r] <= f[Rows]
    BY <1>4, <1>8, SumAtLeast, Zenon
  <1>. QED  BY <1>4, <1>6, <1>8, <1>9, Zenon

(* The values of each row before the end of m intervals.                   *)
Weighted(m) == [r \in Rows |-> Before(r, m) * (Unit \div Width(r))]

(* Interval m adds at least the values of a row that lie in it.            *)
LEMMA WeightedStep ==
    ASSUME FreqTypeOK, SweepInv, Ordered, FreqNoWrap, fpc = "done", NEW m \in DOMAIN freq
    PROVE  /\ Weighted(m) \in [Rows -> Int]
           /\ \A r \in Rows : Weighted(m + 1)[r] <= Weighted(m)[r] + Part(m)[r]
  <1>1. ASSUME NEW r \in Rows
        PROVE  /\ Before(r, m) * (Unit \div Width(r)) \in Int
               /\ Weighted(m + 1)[r] <= Weighted(m)[r] + Part(m)[r]
    <2>1. /\ GridChosen /\ m \in 0 .. nb_of_intervals - 1 /\ freq[m][r] \in Nat
          /\ Shared(r, Sup(m)) \in Nat /\ Shared(r, Sup(m)) <= freq[m][r]
      BY <1>1, Swept, Zenon
    <2>2. Before(r, m) \in Int /\ Before(r, m + 1) = Before(r, m) + Shared(r, Sup(m))
      BY <1>1, <2>1, MassStep, Zenon
    <2>3. PICK c \in Nat : c = Unit \div Width(r)
      BY <1>1, UnitFacts, Zenon
    <2>4. PICK p \in Int, s \in Nat, q \in Nat :
             p = Before(r, m) /\ s = Shared(r, Sup(m)) /\ q = freq[m][r] /\ s <= q
      BY <2>1, <2>2, Zenon
    <2>5. s * c <= q * c
      BY <2>4, MultipleMonotone, Zenon
    <2>6. (p + s) * c <= p * c + q * c /\ p * c \in Int
      BY <2>5
    <2>. QED  BY <1>1, <2>2, <2>3, <2>4, <2>6, Zenon DEF Weighted, Part
  <1>. QED  BY <1>1, Zenon DEF Weighted

(* The intervals together hold every row: the stored frequencies add up to *)
(* the number of rows, at least.                                           *)
LEMMA StoredTotal ==
    ASSUME FreqTypeOK, SweepInv, Ordered, FreqNoWrap, fpc = "done",
           NEW q, \A j \in DOMAIN freq : q[j] = Stored(j)
    PROVE  SumFunctionOnSet(q, DOMAIN freq) >= rows * Unit
  <1>. DEFINE D == 0 .. nb_of_intervals - 1
              g == [j \in D |-> Stored(j)]
  <1>1. GridChosen /\ nb_of_intervals \in Nat \ {0} /\ DOMAIN freq = D /\ IsFiniteSet(Rows) /\ Cardinality(Rows) = rows
    BY Swept, Zenon
  <1>2. g \in [D -> Int] /\ \A j \in D : q[j] = g[j] /\ g[j] = Stored(j)
    <2>1. \A n \in Nat : n \in Int
      OBVIOUS
    <2>. QED  BY <1>1, <2>1, StoredFacts, Zenon
  <1>3. IsFiniteSet(D)
    <2>1. 0 \in Int /\ nb_of_intervals - 1 \in Int
      BY <1>1
    <2>. QED  BY <2>1, FS_Interval, Zenon
  <1>. HIDE DEF g
  <1>4. PICK f : Summation(f, D, g) /\ SumFunctionOnSet(q, D) = f[D]
    <2>. HIDE DEF D
    <2>1. \A j \in D : q[j] = g[j]
      BY <1>2, Zenon
    <2>. QED  BY <1>2, <1>3, <2>1, SumIs, Zenon
  <1>. DEFINE P(m) == \A h : Summation(h, Rows, Weighted(m)) => h[Rows] <= f[0 .. m - 1]
              Bad == {m \in 0 .. nb_of_intervals : ~P(m)}
  <1>5. P(0)
    <2>1. SUFFICES ASSUME NEW h, Summation(h, Rows, Weighted(0)) PROVE h[Rows] <= f[0 .. 0 - 1]
      BY Zenon
    <2>2. \A r \in Rows : Unit \div Width(r) \in Nat /\ Before(r, 0) = 0
      BY <1>1, UnitFacts, BeforeEnds, Zenon
    <2>3. \A n \in Nat : 0 * n = 0
      OBVIOUS
    <2>4. \A r \in Rows : Weighted(0)[r] = 0
      BY <2>2, <2>3, Zenon DEF Weighted
    <2>5. h[Rows] = Cardinality(Rows) * 0
      BY <2>1, <2>4, SumConstant
    <2>6. f[{}] = 0 /\ 0 .. 0 - 1 = {}
      <3>1. {} \in SUBSET D
        BY Zenon
      <3>2. f[{}] = 0
        BY <1>4, <3>1, SumOfSubset
      <3>. QED  BY <3>2
    <2>7. rows * 0 <= 0
      BY DEF FreqTypeOK
    <2>. QED  BY <1>1, <2>5, <2>6, <2>7, Zenon
  <1>6. ASSUME NEW m \in D, P(m) PROVE P(m + 1)
    <2>1. SUFFICES ASSUME NEW h, Summation(h, Rows, Weighted(m + 1)) PROVE h[Rows] <= f[0 .. m]
      BY <1>1
    <2>2. /\ Weighted(m) \in [Rows -> Int]
          /\ \A r \in Rows : Weighted(m + 1)[r] <= Weighted(m)[r] + Part(m)[r]
      BY <1>1, <1>6, WeightedStep, Zenon
    <2>3. PICK s : Summation(s, Rows, Weighted(m))
      BY <1>1, <2>2, SumExists, Zenon
    <2>4. PICK t : Summation(t, Rows, Part(m)) /\ Stored(m) = t[Rows]
      BY <1>1, <1>6, StoredFacts, Zenon
    <2>5. h[Rows] <= s[Rows] + t[Rows]
      BY <2>1, <2>2, <2>3, <2>4, SumCompare, Zenon
    <2>6. s[Rows] <= f[0 .. m - 1]
      BY <1>6, <2>3, Zenon
    <2>7. f[0 .. m] = g[m] + f[0 .. m - 1]
      BY <1>1, <1>4, PrefixSum
    <2>8. h[Rows] \in Int /\ s[Rows] \in Int /\ t[Rows] \in Int
      BY <2>1, <2>3, <2>4, Zenon DEF Summation
    <2>9. g[m] = t[Rows]
      BY <1>2, <1>6, <2>4, Zenon
    <2>10. f[0 .. m - 1] \in Int
      <3>1. 0 .. m - 1 \in SUBSET D
        BY <1>1
      <3>. QED  BY <1>4, <3>1, Zenon DEF Summation
    <2>. QED  BY <2>5, <2>6, <2>7, <2>8, <2>9, <2>10
  <1>. HIDE DEF P
  <1>7. Bad = {}
    <2>1. SUFFICES ASSUME Bad # {} PROVE FALSE
      BY Zenon
    <2>2. PICK m \in Bad : \A n \in Bad : m <= n
      <3>1. Bad \in SUBSET Nat
        BY <1>1
      <3>. QED  BY <2>1, <3>1, NaturalsWellOrdered, Zenon
    <2>3. m # 0
      BY <1>5, <2>2, Zenon
    <2>4. PICK n \in D : m = n + 1 /\ ~ (m <= n) /\ n \in 0 .. nb_of_intervals
      <3>1. m - 1 \in D /\ m = (m - 1) + 1 /\ ~ (m <= m - 1) /\ m - 1 \in 0 .. nb_of_intervals
        BY <1>1, <2>2, <2>3
      <3>. QED  BY <3>1, Zenon
    <2>. QED  BY <1>6, <2>2, <2>4, Zenon
  <1>8. \A r \in Rows : Weighted(nb_of_intervals)[r] = Unit
    BY <1>1, UnitFacts, BeforeEnds, Zenon DEF Weighted, Width
  <1>9. Unit \in Int
    <2>1. Unit \in Nat
      BY UnitFacts, Zenon
    <2>. QED  BY <2>1
  <1>10. Weighted(nb_of_intervals) \in [Rows -> Int]
    BY <1>8, <1>9, Zenon DEF Weighted
  <1>11. PICK h : Summation(h, Rows, Weighted(nb_of_intervals))
    BY <1>1, <1>10, SumExists, Zenon
  <1>12. h[Rows] = rows * Unit
    BY <1>1, <1>8, <1>9, <1>11, SumConstant
  <1>13. h[Rows] <= f[D]
    <2>1. nb_of_intervals \in 0 .. nb_of_intervals
      BY <1>1
    <2>. QED  BY <1>7, <1>11, <2>1, Zenon DEF P
  <1>14. f[D] \in Int /\ rows * Unit \in Int
    <2>1. rows * Unit \in Int
      BY <1>9 DEF FreqTypeOK
    <2>. QED  BY <1>4, <2>1, Zenon DEF Summation
  <1>15. SumFunctionOnSet(q, DOMAIN freq) = f[D]
    BY <1>1, <1>4, Zenon
  <1>. QED  BY <1>12, <1>13, <1>14, <1>15

(* The call Plan makes for the analyzed column.                            *)
PlannedCall ==
    /\ call.min = min /\ call.max = max /\ call.rows = rows /\ call.unit = Unit
    /\ call.freq = [j \in DOMAIN freq |-> Stored(j)] /\ call.nonfinite = {}
    /\ call.lower <= call.upper

(* The inductive invariant of the two programs together.                   *)
EstimateInv ==
    /\ FreqTypeOK /\ SweepInv
    /\ pc = "idle" => i = 0 /\ out = 0 /\ added = {}
    /\ pc # "idle" => fpc = "done"
    /\ pc # "idle" /\ Ordered /\ FreqNoWrap =>
          LoopInv /\ PlannedCall /\ (Estimated => selec = Clamp(Share))

(* The sweep has ended when the planner runs.                              *)
LEMMA SweepRuns == FreqNext => fpc # "done"
  BY Zenon DEF FreqNext, Geometry, NextInterval, CarryRow, CarryDone,
         EnterRow, EnterDone, RetireRow, RetireDone, Finish

(* A step of rangerestsel neither begins nor ends in idle, and keeps its   *)
(* arguments.                                                              *)
LEMMA PlannerRuns == Next => pc # "idle" /\ pc' # "idle" /\ call' = call
  BY Zenon DEF Next, WrongOperator, NoVariable, RestrictionVariable, NotUsable, EmptyConstant,
         Insecure, NoHistograms, Estimate, LeftStep, LeftDone, OverlapStep, OverlapSkip,
         OverlapDone, Sum, ReturnPinned, ReturnReleased, Add

(* The planner leaves the statistics alone.                                *)
LEMMA StatisticsKept ==
    ASSUME UNCHANGED freqVars
    PROVE  /\ fpc' = fpc /\ FreqTypeOK' = FreqTypeOK /\ SweepInv' = SweepInv
           /\ Ordered' = Ordered /\ FreqNoWrap' = FreqNoWrap
           /\ min' = min /\ max' = max /\ rows' = rows /\ Unit' = Unit
           /\ [j \in DOMAIN freq |-> Stored(j)]' = [j \in DOMAIN freq |-> Stored(j)]
  <1>1. /\ fpc' = fpc /\ rows' = rows /\ lowers' = lowers /\ uppers' = uppers
        /\ nb_of_intervals' = nb_of_intervals /\ interval_length' = interval_length
        /\ fi' = fi /\ l' = l /\ u' = u /\ k' = k /\ sup' = sup /\ count' = count /\ freq' = freq
    BY Zenon DEF freqVars
  <1>2. min' = min /\ max' = max /\ Rows' = Rows
    BY <1>1, Zenon DEF min, max, Rows
  <1>3. FreqTypeOK' = FreqTypeOK /\ Ordered' = Ordered
    BY <1>1, <1>2, Zenon DEF FreqTypeOK, Ordered
  <1>4. Length' = Length /\ FreqNoWrap' = FreqNoWrap
    BY <1>2, Zenon DEF FreqNoWrap, Length
  <1>5. SweepInv' = SweepInv
    <2>1. /\ \A j : Sup(j)' = Sup(j)
          /\ \A r, s, c : CountOK(r, s, c)' = CountOK(r, s, c)
      BY <1>1, <1>2, Zenon DEF Sup, CountOK, Shared, UpperCounted
    <2>2. GridChosen' = GridChosen /\ AtGeometry' = AtGeometry
      BY <1>1, <1>4, Zenon DEF GridChosen, AtGeometry
    <2>3. \A s : LowerCursor(s)' = LowerCursor(s) /\ UpperCursor(s)' = UpperCursor(s)
      BY <1>1, <1>2, Zenon DEF LowerCursor, UpperCursor
    <2>4. InInterval' = InInterval
      BY <1>1, <2>1, Zenon DEF InInterval
    <2>5. AtInterval' = AtInterval
      BY <1>1, <1>2, Zenon DEF AtInterval, Sup, LowerCursor, UpperCursor
    <2>6. AtCarry' = AtCarry
      BY <1>1, <1>2, <2>4, Zenon DEF AtCarry, LowerCursor, UpperCursor, CountOK, Shared, UpperCounted
    <2>7. AtEnter' = AtEnter
      BY <1>1, <1>2, <2>4, Zenon DEF AtEnter, UpperCursor, CountOK, Shared, UpperCounted
    <2>8. AtRetire' = AtRetire
      BY <1>1, <1>2, <2>4, Zenon DEF AtRetire, LowerCursor
    <2>9. (\A j \in DOMAIN freq, r \in Rows : CountOK(r, Sup(j), freq[j][r]))'
             = \A j \in DOMAIN freq, r \in Rows : CountOK(r, Sup(j), freq[j][r])
      BY <1>1, <1>2, Zenon DEF CountOK, Sup, Shared, UpperCounted
    <2>. QED  BY <1>1, <1>3, <1>4, <2>2, <2>5, <2>6, <2>7, <2>8, <2>9, Zenon DEF SweepInv
  <1>6. Unit' = Unit
    BY <1>1, Zenon DEF Unit, Width
  <1>7. [j \in DOMAIN freq |-> Stored(j)]' = [j \in DOMAIN freq |-> Stored(j)]
    BY <1>1, <1>2, <1>6, Zenon DEF Stored, Width
  <1>. QED  BY <1>1, <1>2, <1>3, <1>4, <1>5, <1>6, <1>7, Zenon

(* What Plan passes is a call rangerestsel can get.                        *)
LEMMA PlanStep ==
    ASSUME EstimateInv, Plan, Ordered, FreqNoWrap
    PROVE  LoopInv' /\ PlannedCall' /\ ~Estimated'
  <1>1. /\ fpc = "done" /\ pc = "idle" /\ pc' = "start" /\ UNCHANGED freqVars
        /\ i' = i /\ out' = out /\ added' = added
    BY Zenon DEF Plan
  <1>2. FreqTypeOK /\ SweepInv /\ i = 0 /\ out = 0 /\ added = {}
    BY <1>1, Zenon DEF EstimateInv
  <1>3. PICK op \in {Left, Overlap}, c \in Constants :
          call' = [operator |-> op, variable |-> TRUE, usable |-> TRUE, empty |-> FALSE,
                   tuple |-> TRUE, histograms |-> TRUE, secure |-> TRUE,
                   lower |-> c[1], upper |-> c[2], min |-> lowers[0], max |-> uppers[rows - 1],
                   rows |-> rows, unit |-> Unit,
                   freq |-> [j \in DOMAIN freq |-> Stored(j)], nonfinite |-> {}]
    BY Zenon DEF Plan
  <1>4. /\ call'.operator = op /\ call'.variable = TRUE /\ call'.usable = TRUE /\ call'.empty = FALSE
        /\ call'.tuple = TRUE /\ call'.histograms = TRUE /\ call'.secure = TRUE
        /\ call'.lower = c[1] /\ call'.upper = c[2]
        /\ call'.min = lowers[0] /\ call'.max = uppers[rows - 1]
        /\ call'.rows = rows /\ call'.unit = Unit
        /\ call'.freq = [j \in DOMAIN freq |-> Stored(j)] /\ call'.nonfinite = {}
    BY <1>3, Zenon
  <1>5. call'.min = min /\ call'.max = max
    BY <1>4, Zenon DEF min, max
  <1>6. PlannedCall'
    BY <1>1, <1>4, <1>5, StatisticsKept, ConstantsAssumption, Zenon DEF PlannedCall
  <1>7. CallOK(call')
    <2>1. /\ min \in Int32 /\ max \in Int32 /\ max - min + 1 = Length
      BY <1>2, CallFacts, Zenon DEF Length
    <2>2. Stretch(call') = Length
      <3>1. Length \in Int32
        BY <1>2, CallFacts, IntMaxAssumption DEF Int32
      <3>. QED  BY <1>5, <2>1, <3>1, WrapIdentity, Zenon DEF Stretch
    <2>3. Interval(call') = DOMAIN freq
      <3>1. DOMAIN freq = 0 .. nb_of_intervals - 1 /\ nb_of_intervals = NbOfIntervals(Length)
        BY <1>1, <1>2, Swept, Zenon DEF GridChosen
      <3>. QED  BY <2>2, <3>1, Zenon DEF Interval
    <2>4. call'.freq \in [Interval(call') -> Int]
      <3>1. \A n \in Nat : n \in Int
        OBVIOUS
      <3>. QED  BY <1>1, <1>2, <1>4, <2>3, <3>1, StoredFacts, Zenon
    <2>5. rows \in Nat \ {0} /\ Unit \in Nat \ {0}
      BY <1>2, UnitFacts, Zenon DEF FreqTypeOK
    <2>6. WeightDivider(Stretch(call')) # 0 /\ NbOfIntervals(Stretch(call')) \in Nat \ {0}
      BY <1>2, <2>2, CallFacts, Zenon
    <2>. QED  BY <1>3, <1>4, <1>5, <2>1, <2>4, <2>5, <2>6, ConstantsAssumption, Zenon DEF CallOK
  <1>8. i' \in Nat /\ out' \in Nat
    BY <1>1, <1>2
  <1>9. ~Estimated'
    BY <1>1, Zenon DEF Estimated
  <1>10. LoopInv'
    BY <1>1, <1>2, <1>7, <1>8, <1>9, Zenon DEF LoopInv
  <1>. QED  BY <1>6, <1>9, <1>10, Zenon

(* The share depends on the call and on what was added.                    *)
LEMMA ShareKept ==
    ASSUME call' = call, added' = added
    PROVE  Clamp(Share)' = Clamp(Share)
  <1>1. sum' = sum /\ a' = a /\ freq_values1(0)' = freq_values1(0)
    BY Zenon DEF sum, a, freq_values1, Fraction
  <1>2. interval_length1' = interval_length1
    BY Zenon DEF interval_length1, freq_nb_intervals1, Stretch
  <1>3. Share' = Share
    BY <1>1, <1>2, Zenon DEF Share, Times, Quotient, Fraction
  <1>. QED  BY <1>3, Zenon DEF Clamp, Fraction

(* A step of rangerestsel: what is returned after the loops is the clamped *)
(* share.                                                                  *)
LEMMA ShareReturned ==
    ASSUME Estimated => selec = Clamp(Share), [Next \/ Ended]_vars
    PROVE  Estimated' => selec' = Clamp(Share)'
  <1>1. CASE Sum
    <2>1. selec' = Clamp(Share) /\ call' = call /\ added' = added
      BY <1>1, Zenon DEF Sum, ReturnReleased, locals
    <2>2. Clamp(Share)' = Clamp(Share)
      BY <2>1, ShareKept, Zenon
    <2>. QED  BY <2>1, <2>2, Zenon
  <1>2. CASE \/ WrongOperator \/ NoVariable
             \/ NotUsable \/ EmptyConstant \/ Insecure \/ NoHistograms
    <2>1. ~Estimated'
      BY <1>2, Zenon DEF WrongOperator, NoVariable, NotUsable, EmptyConstant, Insecure,
                  NoHistograms, ReturnReleased, ReturnPinned, Estimated
    <2>. QED  BY <2>1, Zenon
  <1>3. CASE \/ RestrictionVariable \/ Estimate \/ LeftStep \/ LeftDone
             \/ OverlapStep \/ OverlapSkip \/ OverlapDone
    <2>1. pc' # "returned"
      BY <1>3, Zenon DEF RestrictionVariable, Estimate, LeftStep, LeftDone,
             OverlapStep, OverlapSkip, OverlapDone
    <2>. QED  BY <2>1, Zenon DEF Estimated
  <1>4. CASE Ended \/ UNCHANGED vars
    <2>1. pc' = pc /\ call' = call /\ added' = added /\ selec' = selec
      BY <1>4, Zenon DEF Ended, vars
    <2>2. Clamp(Share)' = Clamp(Share)
      BY <2>1, ShareKept, Zenon
    <2>3. Estimated' = Estimated
      BY <2>1, Zenon DEF Estimated
    <2>. QED  BY <2>1, <2>2, <2>3, Zenon
  <1>. QED  BY <1>1, <1>2, <1>3, <1>4, Zenon DEF Next

(* The invariant holds before ANALYZE has begun.                           *)
LEMMA EstimateInvInit == EstimateInit => EstimateInv
  <1>1. EstimateInit => FreqTypeOK /\ SweepInv
    BY FreqTypeInit, SweepInit, Zenon DEF EstimateInit
  <1>. QED  BY <1>1, Zenon DEF EstimateInit, EstimateInv

(* Every step of ANALYZE and of the planner keeps the invariant.           *)
LEMMA EstimateInvStep ==
    ASSUME EstimateInv, [EstimateNext \/ EstimateEnded]_<<freqVars, vars>>
    PROVE  EstimateInv'
  <1>1. CASE AnalyzeStep
    <2>1. FreqNext /\ fpc # "done" /\ pc' = pc /\ i' = i /\ out' = out /\ added' = added
      BY <1>1, SweepRuns, Zenon DEF AnalyzeStep, vars
    <2>2. FreqTypeOK /\ SweepInv /\ pc = "idle" /\ i = 0 /\ out = 0 /\ added = {}
      BY <2>1, Zenon DEF EstimateInv
    <2>3. FreqTypeOK'
      BY <2>1, <2>2, FreqTypeStep, Zenon
    <2>4. SweepInv'
      BY <2>1, <2>2, <2>3, SweepStep, Zenon
    <2>. QED  BY <2>1, <2>2, <2>3, <2>4, Zenon DEF EstimateInv
  <1>2. CASE Plan
    <2>1. fpc = "done" /\ pc = "idle" /\ pc' = "start" /\ UNCHANGED freqVars
      BY <1>2, Zenon DEF Plan
    <2>2. Ordered /\ FreqNoWrap => LoopInv' /\ PlannedCall' /\ ~Estimated'
      BY <1>2, PlanStep, Zenon
    <2>3. FreqTypeOK /\ SweepInv
      BY Zenon DEF EstimateInv
    <2>4. /\ fpc' = fpc /\ FreqTypeOK' = FreqTypeOK /\ SweepInv' = SweepInv
          /\ Ordered' = Ordered /\ FreqNoWrap' = FreqNoWrap
      BY <2>1, StatisticsKept, Zenon
    <2>5. FreqTypeOK' /\ SweepInv' /\ fpc' = "done"
      BY <2>1, <2>3, <2>4, Zenon
    <2>6. Ordered' /\ FreqNoWrap' => Ordered /\ FreqNoWrap
      BY <2>4, Zenon
    <2>. QED  BY <2>1, <2>2, <2>5, <2>6, Zenon DEF EstimateInv
  <1>3. ASSUME Next \/ Ended \/ UNCHANGED vars, UNCHANGED freqVars, pc # "idle", pc' # "idle", call' = call
        PROVE  EstimateInv'
    <2>1. FreqTypeOK /\ SweepInv /\ fpc = "done"
      BY <1>3, Zenon DEF EstimateInv
    <2>2. ASSUME Ordered, FreqNoWrap
          PROVE  LoopInv' /\ PlannedCall' /\ (Estimated' => selec' = Clamp(Share)')
      <3>1. LoopInv /\ PlannedCall /\ (Estimated => selec = Clamp(Share))
        BY <1>3, <2>2, Zenon DEF EstimateInv
      <3>2. LoopInv'
        BY <1>3, <3>1, LoopStep, Zenon
      <3>3. Estimated' => selec' = Clamp(Share)'
        BY <1>3, <3>1, ShareReturned, Zenon
      <3>4. PlannedCall'
        BY <1>3, <3>1, StatisticsKept, Zenon DEF PlannedCall
      <3>. QED  BY <3>2, <3>3, <3>4, Zenon
    <2>4. /\ fpc' = fpc /\ FreqTypeOK' = FreqTypeOK /\ SweepInv' = SweepInv
          /\ Ordered' = Ordered /\ FreqNoWrap' = FreqNoWrap
      BY <1>3, StatisticsKept, Zenon
    <2>5. FreqTypeOK' /\ SweepInv' /\ fpc' = "done"
      BY <2>1, <2>4, Zenon
    <2>6. Ordered' /\ FreqNoWrap' => Ordered /\ FreqNoWrap
      BY <2>4, Zenon
    <2>. QED  BY <1>3, <2>2, <2>5, <2>6, Zenon DEF EstimateInv
  <1>4. CASE EstimateStep
    BY <1>3, <1>4, PlannerRuns, Zenon DEF EstimateStep
  <1>5. CASE EstimateEnded \/ UNCHANGED <<freqVars, vars>>
    <2>1. UNCHANGED freqVars /\ UNCHANGED vars /\ pc' = pc /\ call' = call
          /\ i' = i /\ out' = out /\ added' = added
      BY <1>5, Zenon DEF EstimateEnded, vars
    <2>2. CASE pc # "idle"
      BY <1>3, <2>1, <2>2, Zenon
    <2>3. CASE pc = "idle"
      BY <2>1, <2>3, StatisticsKept, Zenon DEF EstimateInv
    <2>. QED  BY <2>2, <2>3, Zenon
  <1>. QED  BY <1>1, <1>2, <1>4, <1>5, Zenon DEF EstimateNext

(* What is known of an answer.                                             *)
LEMMA AnsweredFacts ==
    ASSUME EstimateInv, Answered
    PROVE  /\ FreqTypeOK /\ SweepInv /\ Ordered /\ FreqNoWrap /\ fpc = "done"
           /\ NoWrap /\ CallOK(call) /\ PlannedCall /\ OverlapComplete /\ LeftPrefix
           /\ added \subseteq Interval(call)
           /\ Interval(call) = DOMAIN freq /\ freq_nb_intervals1 = nb_of_intervals
           /\ selec = Clamp(Share) /\ call.operator \in {Left, Overlap}
           /\ \A j \in DOMAIN freq : call.freq[j] = Stored(j)
           /\ call.unit * call.rows = rows * Unit
           /\ call.nonfinite = {} /\ \A j \in added : call.freq[j] \in Nat
           /\ interval_length1 \in Nat \ {0}
  <1>1. /\ Estimated /\ Ordered /\ FreqNoWrap /\ NoWrap /\ pc # "idle"
        /\ call.operator \in {Left, Overlap}
    BY Zenon DEF Answered, Estimated
  <1>2. /\ FreqTypeOK /\ SweepInv /\ fpc = "done" /\ LoopInv /\ PlannedCall /\ selec = Clamp(Share)
    BY <1>1, Zenon DEF EstimateInv
  <1>3. CallOK(call) /\ Final
    BY <1>1, <1>2, Zenon DEF LoopInv
  <1>4. OverlapComplete /\ LeftPrefix
    BY <1>1, <1>2, FinalSums, Zenon
  <1>5. added \subseteq Interval(call)
    BY <1>1, <1>3, Zenon DEF Final, LeftSeen, OverlapSeen, Seen
  <1>6. freq_nb_intervals1 = nb_of_intervals /\ Interval(call) = DOMAIN freq
    <2>1. nb_of_intervals = NbOfIntervals(max - min + 1) /\ DOMAIN freq = 0 .. nb_of_intervals - 1
      BY <1>1, <1>2, Swept, Zenon DEF GridChosen, Length
    <2>2. Stretch(call) = max - min + 1
      BY <1>1, <1>2, <1>3, PlannerGrid, Zenon DEF PlannedCall
    <2>. QED  BY <2>1, <2>2, Zenon DEF Interval, freq_nb_intervals1
  <1>7. \A j \in DOMAIN freq : call.freq[j] = Stored(j)
    BY <1>2, Zenon DEF PlannedCall
  <1>8. call.unit * call.rows = rows * Unit
    <2>1. call.unit = Unit /\ call.rows = rows
      BY <1>2, Zenon DEF PlannedCall
    <2>2. Unit \in Int /\ rows \in Int
      BY <1>1, <1>2, UnitFacts DEF FreqTypeOK
    <2>3. Unit * rows = rows * Unit
      BY <2>2
    <2>. QED  BY <2>1, <2>3, Zenon
  <1>9. call.nonfinite = {} /\ \A j \in added : call.freq[j] \in Nat
    BY <1>1, <1>2, <1>5, <1>6, <1>7, StoredFacts, Zenon DEF PlannedCall
  <1>10. interval_length1 \in Nat \ {0}
    BY <1>1, <1>3, PlannerGrid, Zenon
  <1>. QED  BY <1>1, <1>2, <1>3, <1>4, <1>5, <1>6, <1>7, <1>8, <1>9, <1>10, Zenon

(* The sum of what ANALYZE stored.                                         *)
LEMMA AnsweredSum ==
    ASSUME EstimateInv, Answered
    PROVE  /\ sum.num = SumFunctionOnSet(call.freq, added) /\ sum.den = call.unit
           /\ sum.num \in Nat /\ \A j \in added : call.freq[j] <= sum.num
           /\ ~ (call.operator = Left /\ sum.num < call.unit) =>
                 Share = Fraction(sum.num, call.unit * call.rows)
  <1>1. /\ CallOK(call) /\ added \subseteq Interval(call) /\ call.nonfinite = {}
        /\ \A j \in added : call.freq[j] \in Nat
    BY AnsweredFacts, Zenon
  <1>2. sum.num = SumFunctionOnSet(call.freq, added) /\ sum.den = call.unit
    BY <1>1, SumType, Zenon
  <1>3. sum.num \in Nat /\ \A j \in added : call.freq[j] <= sum.num
    BY <1>1, <1>2, TermsOfSum, Zenon
  <1>4. ASSUME ~ (call.operator = Left /\ sum.num < call.unit)
        PROVE  Share = Fraction(sum.num, call.unit * call.rows)
    <2>1. Share = Times(sum, Fraction(1, call.rows))
      BY <1>2, <1>4, Zenon DEF Share
    <2>2. sum.num * 1 = sum.num
      BY <1>3
    <2>3. Share = Fraction(sum.num * 1, call.unit * call.rows)
      BY <1>2, <2>1 DEF Times, Fraction
    <2>. QED  BY <2>2, <2>3, Zenon
  <1>. QED  BY <1>2, <1>3, <1>4, Zenon

(* When every interval is in the sum the estimate is one.                  *)
LEMMA EverythingAdded ==
    ASSUME EstimateInv, Answered, added = Interval(call)
    PROVE  selec.num = selec.den /\ selec.den # 0
  <1>. DEFINE total == sum.num
  <1>1. /\ FreqTypeOK /\ SweepInv /\ Ordered /\ FreqNoWrap /\ fpc = "done" /\ CallOK(call)
        /\ Interval(call) = DOMAIN freq /\ selec = Clamp(Share)
        /\ \A j \in DOMAIN freq : call.freq[j] = Stored(j)
        /\ call.unit * call.rows = rows * Unit
    BY AnsweredFacts, Zenon
  <1>2. total >= call.unit * call.rows
    <2>1. SumFunctionOnSet(call.freq, DOMAIN freq) >= rows * Unit
      BY <1>1, StoredTotal, Zenon
    <2>. QED  BY <1>1, <2>1, AnsweredSum, Zenon
  <1>3. total \in Nat
    BY AnsweredSum, Zenon
  <1>4. PICK n \in Nat \ {0}, d \in Nat \ {0} : n = call.unit /\ d = call.rows
    BY <1>1, Zenon DEF CallOK
  <1>5. n * d \in Nat \ {0} /\ n <= n * d
    <2>1. 1 <= d /\ 1 * n <= d * n /\ d * n = n * d /\ 1 * n = n
      BY MultipleMonotone
    <2>. QED  BY <2>1, PositiveProduct
  <1>. HIDE DEF total
  <1>6. ~ (total < call.unit)
    BY <1>2, <1>3, <1>4, <1>5
  <1>7. Share = Fraction(total, n * d)
    BY <1>4, <1>6, AnsweredSum, Zenon DEF total
  <1>8. total >= n * d
    BY <1>2, <1>4, Zenon
  <1>9. Share.num = total /\ Share.den = n * d
    BY <1>7 DEF Fraction
  <1>10. CASE total > n * d
    <2>1. selec = Fraction(1, 1)
      <3>1. ~ (total < 0)
        BY <1>3
      <3>. QED  BY <1>1, <1>9, <1>10, <3>1, Zenon DEF Clamp
    <2>. QED  BY <2>1 DEF Fraction
  <1>11. CASE ~ (total > n * d)
    <2>1. ~ (total < 0) /\ total = n * d /\ n * d # 0
      BY <1>3, <1>5, <1>8, <1>11
    <2>2. selec = Share
      BY <1>1, <1>9, <1>11, <2>1, Zenon DEF Clamp
    <2>. QED  BY <1>9, <2>1, <2>2, Zenon
  <1>. QED  BY <1>10, <1>11, Zenon

(* The planner's last interval begins inside the column.                   *)
LEMMA LastIntervalInside ==
    ASSUME NEW span \in Nat \ {0}
    PROVE  (NbOfIntervals(span + 1) - 1) * roundUpDivision(span, NbOfIntervals(span + 1)) <= span
  <1>1. span + 1 \in Nat \ {0}
    OBVIOUS
  <1>2. PICK d \in Nat \ {0} : d = WeightDivider(span + 1)
    BY <1>1, WeightDividerPositive, Zenon
  <1>3. PICK n \in Nat \ {0} : /\ n = NbOfIntervals(span + 1)
                               /\ n * d >= span + 1 /\ (n - 1) * d < span + 1
    BY <1>1, <1>2, RoundUpDivision, Zenon DEF NbOfIntervals
  <1>4. PICK m \in Nat \ {0} : /\ m = roundUpDivision(span, n)
                               /\ (m - 1) * n < span
    BY <1>3, RoundUpDivision, Zenon
  <1>5. m <= d
    <2>1. SUFFICES ASSUME d <= m - 1 PROVE FALSE
      OBVIOUS
    <2>2. m - 1 \in Nat
      OBVIOUS
    <2>3. d * n <= (m - 1) * n
      BY <2>1, <2>2, MultipleMonotone
    <2>4. d * n = n * d
      OBVIOUS
    <2>. QED  BY <1>3, <1>4, <2>3, <2>4
  <1>6. (n - 1) * m <= (n - 1) * d
    <2>1. n - 1 \in Nat /\ m * (n - 1) <= d * (n - 1)
      BY <1>5, MultipleMonotone
    <2>2. m * (n - 1) = (n - 1) * m /\ d * (n - 1) = (n - 1) * d
      OBVIOUS
    <2>. QED  BY <2>1, <2>2, Zenon
  <1>7. (n - 1) * m <= span
    BY <1>3, <1>6
  <1>. QED  BY <1>3, <1>4, <1>7, Zenon

(* A constant around the column meets every interval of the planner.       *)
LEMMA AroundMeetsAll ==
    ASSUME CallOK(call), NoWrap, call.lower <= call.min, call.max <= call.upper,
           NEW j \in Interval(call)
    PROVE  InRange(j)
  <1>1. /\ freq_nb_intervals1 \in Nat \ {0} /\ interval_length1 \in Nat \ {0}
        /\ call.min \in Int /\ a \in Int /\ b \in Int
        /\ Interval(call) = 0 .. freq_nb_intervals1 - 1
    BY PlannerGrid, Zenon
  <1>2. /\ j \in 0 .. freq_nb_intervals1 /\ j \in Nat /\ j <= freq_nb_intervals1 - 1
        /\ freq_nb_intervals1 - 1 \in Nat
    BY <1>1
  <1>3. x(j) = call.min + j * interval_length1 /\ y(j) = call.min + (j + 1) * interval_length1
    BY <1>2, PlannerIntervals, Zenon
  <1>4. (freq_nb_intervals1 - 1) * interval_length1 <= call.max - call.min
    <2>1. /\ call.max - call.min \in Nat \ {0} /\ Wrap(call.max - call.min) = call.max - call.min
          /\ Stretch(call) = (call.max - call.min) + 1
      BY PlannerGrid, Zenon
    <2>. QED  BY <2>1, LastIntervalInside, Zenon DEF freq_nb_intervals1, interval_length1
  <1>5. j * interval_length1 <= (freq_nb_intervals1 - 1) * interval_length1
    BY <1>1, <1>2, MultipleMonotone
  <1>6. 0 <= (j + 1) * interval_length1
    BY <1>1, <1>2
  <1>7. /\ j * interval_length1 \in Int /\ (freq_nb_intervals1 - 1) * interval_length1 \in Int
        /\ (j + 1) * interval_length1 \in Int /\ call.max \in Int
    BY <1>1, <1>2, IntMaxAssumption DEF CallOK, Int32
  <1>8. ~ (x(j) > b)
    <2>1. PICK p \in Int, q \in Int : /\ p = j * interval_length1 /\ p <= q
                                     /\ q <= call.max - call.min
      BY <1>4, <1>5, <1>7, Zenon
    <2>2. PICK m \in Int, n \in Int, t \in Int : /\ m = call.max /\ n = call.min /\ t = call.upper
                                              /\ m <= t /\ b = t
      BY <1>1, <1>7, Zenon DEF b
    <2>3. n + p <= t
      BY <2>1, <2>2
    <2>4. x(j) = n + p
      BY <1>3, <2>1, <2>2, Zenon
    <2>. QED  BY <2>2, <2>3, <2>4
  <1>9. ~ (y(j) < a)
    BY <1>1, <1>3, <1>6, <1>7 DEF a
  <1>. QED  BY <1>8, <1>9, Zenon DEF InRange, IsInRange

(* A constant beyond the last interval has them all on its left.           *)
LEMMA BeyondLeavesAll ==
    ASSUME CallOK(call), NoWrap, call.lower > y(freq_nb_intervals1 - 1), call.lower <= call.upper
    PROVE  call.upper >= call.min /\ \A j \in Interval(call) : y(j) < call.lower
  <1>1. /\ freq_nb_intervals1 \in Nat \ {0} /\ interval_length1 \in Nat \ {0}
        /\ call.min \in Int /\ a \in Int /\ b \in Int
        /\ Interval(call) = 0 .. freq_nb_intervals1 - 1
    BY PlannerGrid, Zenon
  <1>2. PICK n \in 0 .. freq_nb_intervals1 : n = freq_nb_intervals1 - 1
    BY <1>1
  <1>3. ASSUME NEW j \in Interval(call) PROVE y(j) < call.lower
    <2>1. j \in 0 .. freq_nb_intervals1 /\ j <= n
      BY <1>1, <1>2, <1>3
    <2>2. y(j) \in Int /\ y(n) \in Int /\ y(j) <= y(n)
      BY <2>1, PlannerOrder, Zenon
    <2>. QED  BY <1>1, <1>2, <2>2 DEF a
  <1>4. call.upper >= call.min
    <2>1. y(n) = call.min + (n + 1) * interval_length1
      BY PlannerIntervals, Zenon
    <2>2. (n + 1) * interval_length1 \in Nat
      BY <1>1, <1>2
    <2>. QED  BY <1>1, <1>2, <2>1, <2>2 DEF a, b
  <1>. QED  BY <1>3, <1>4, Zenon

(* ANALYZE and rangerestsel together: a clause that is true of every row   *)
(* of the column gets the estimate one, whatever the column and the        *)
(* constant.                                                               *)
THEOREM CertainClausesEstimatedOne == EstimateSpec => []CertainClauses
  <1>1. EstimateInv => CertainClauses
    <2>1. SUFFICES ASSUME EstimateInv, Answered,
                          \/ /\ call.operator = Overlap
                             /\ call.lower <= call.min /\ call.max <= call.upper
                          \/ call.operator = Left /\ call.lower > y(nb_of_intervals - 1)
                   PROVE  selec.num = selec.den /\ selec.den # 0
      BY Zenon DEF CertainClauses
    <2>2. /\ Estimated /\ NoWrap /\ CallOK(call) /\ PlannedCall /\ OverlapComplete /\ LeftPrefix
          /\ freq_nb_intervals1 = nb_of_intervals
      BY <2>1, AnsweredFacts, Zenon DEF Answered
    <2>3. call.lower <= call.upper /\ a = call.lower /\ b = call.upper
      BY <2>2, Zenon DEF PlannedCall, a, b
    <2>4. CASE call.operator = Overlap /\ call.lower <= call.min /\ call.max <= call.upper
      <3>1. \A j \in Interval(call) : InRange(j)
        BY <2>2, <2>4, AroundMeetsAll, Zenon
      <3>2. added = {j \in Interval(call) : InRange(j)}
        BY <2>2, <2>3, <2>4, Zenon DEF OverlapComplete
      <3>3. added = Interval(call)
        BY <3>1, <3>2, Zenon
      <3>. QED  BY <2>1, <3>3, EverythingAdded, Zenon
    <2>5. CASE call.operator = Left /\ call.lower > y(nb_of_intervals - 1)
      <3>1. call.lower > y(freq_nb_intervals1 - 1)
        BY <2>2, <2>5, Zenon
      <3>2. call.upper >= call.min /\ \A j \in Interval(call) : y(j) < a
        BY <2>2, <2>3, <3>1, BeyondLeavesAll, Zenon
      <3>3. added = {j \in Interval(call) : y(j) < a}
        BY <2>2, <2>3, <2>5, <3>2, Zenon DEF LeftPrefix
      <3>4. added = Interval(call)
        BY <3>2, <3>3, Zenon
      <3>. QED  BY <2>1, <3>4, EverythingAdded, Zenon
    <2>. QED  BY <2>1, <2>4, <2>5, Zenon
  <1>. QED  BY <1>1, EstimateInvInit, EstimateInvStep, PTL DEF EstimateSpec

(* The interval a value falls into.                                        *)
LEMMA IntervalOfValue ==
    ASSUME NEW v \in Nat, NEW len \in Nat \ {0}, NEW n \in Nat, v < n * len
    PROVE  \E j \in 0 .. n - 1 : j * len <= v /\ v < (j + 1) * len
  <1>1. PICK j \in Nat : j = v \div len
    OBVIOUS
  <1>2. j * len <= v /\ v < (j + 1) * len
    BY <1>1
  <1>3. j < n
    <2>1. SUFFICES ASSUME n <= j PROVE FALSE
      OBVIOUS
    <2>2. n * len <= j * len
      BY <2>1, MultipleMonotone
    <2>3. n * len \in Nat /\ j * len \in Nat
      OBVIOUS
    <2>. QED  BY <1>2, <2>2, <2>3
  <1>4. j \in 0 .. n - 1
    BY <1>3
  <1>. QED  BY <1>2, <1>4, Zenon

(* A row that overlaps the constant has a value in common with it, and the *)
(* interval of that value is in the sum with something of the row.         *)
LEMMA CommonInterval ==
    ASSUME EstimateInv, Answered, call.operator = Overlap, SameGrid,
           NEW r \in Rows, lowers[r] < call.upper, call.lower < uppers[r]
    PROVE  \E j \in added : call.freq[j] \in Nat \ {0}
  <1>1. /\ FreqTypeOK /\ SweepInv /\ Ordered /\ FreqNoWrap /\ fpc = "done"
        /\ NoWrap /\ CallOK(call) /\ PlannedCall /\ OverlapComplete
        /\ Interval(call) = DOMAIN freq /\ freq_nb_intervals1 = nb_of_intervals
        /\ \A j \in DOMAIN freq : call.freq[j] = Stored(j)
    BY AnsweredFacts, Zenon
  <1>2. /\ lowers[r] \in Int /\ uppers[r] \in Int /\ min <= lowers[r] /\ lowers[r] < uppers[r]
        /\ uppers[r] <= max /\ min \in Int /\ max \in Int
    BY <1>1, CallFacts, IntMaxAssumption DEF Int32
  <1>3. call.lower \in Int /\ call.upper \in Int /\ call.lower <= call.upper /\ call.min = min
    BY <1>1, IntMaxAssumption DEF CallOK, Int32, PlannedCall
  <1>4. PICK v \in Int : /\ lowers[r] <= v /\ v < uppers[r]
                         /\ call.lower <= v /\ v <= call.upper
    <2>1. CASE call.lower <= lowers[r]
      BY <1>2, <1>3, <2>1
    <2>2. CASE ~ (call.lower <= lowers[r])
      BY <1>2, <1>3, <2>2
    <2>. QED  BY <2>1, <2>2, Zenon
  <1>5. PICK len \in Nat \ {0}, n \in Nat \ {0} :
          /\ len = interval_length /\ len = interval_length1 /\ n = nb_of_intervals
          /\ n * len >= max - min + 1 /\ DOMAIN freq = 0 .. n - 1
    <2>1. /\ nb_of_intervals \in Nat \ {0} /\ DOMAIN freq = 0 .. nb_of_intervals - 1
          /\ nb_of_intervals = NbOfIntervals(Length) /\ interval_length = IntervalLength(Length)
      BY <1>1, Swept, Zenon DEF GridChosen
    <2>2. nb_of_intervals * interval_length >= max - min + 1
      BY <1>1, <2>1, CallFacts, Zenon DEF Length
    <2>3. interval_length1 \in Nat \ {0} /\ interval_length1 = interval_length
      BY <1>1, PlannerGrid, Zenon DEF SameGrid
    <2>. QED  BY <2>1, <2>2, <2>3, Zenon
  <1>6. PICK j \in 0 .. n - 1 : j * len <= v - min /\ v - min < (j + 1) * len
    <2>1. v - min \in Nat /\ v - min < n * len
      <3>1. n * len \in Nat
        BY <1>5
      <3>. QED  BY <1>2, <1>4, <1>5, <3>1
    <2>2. n \in Nat
      BY <1>5
    <2>. QED  BY <1>5, <2>1, <2>2, IntervalOfValue, Zenon
  <1>7. j \in Nat /\ j * len \in Int /\ (j + 1) * len \in Int /\ (j + 1) * len = j * len + len
    BY <1>5, <1>6
  <1>8. j \in DOMAIN freq /\ j \in Interval(call) /\ j \in 0 .. freq_nb_intervals1
    <2>1. j \in 0 .. n
      BY <1>5, <1>6
    <2>. QED  BY <1>1, <1>5, <1>6, <2>1, Zenon
  <1>9. InRange(j)
    <2>1. x(j) = min + j * len /\ y(j) = min + (j + 1) * len
      BY <1>1, <1>3, <1>5, <1>8, PlannerIntervals, Zenon
    <2>2. ~ (y(j) < call.lower) /\ ~ (x(j) > call.upper)
      BY <1>2, <1>3, <1>4, <1>6, <1>7, <2>1
    <2>. QED  BY <2>2, Zenon DEF InRange, IsInRange, a, b
  <1>10. j \in added
    <2>1. added = {m \in Interval(call) : InRange(m)}
      BY <1>1, <1>3, Zenon DEF OverlapComplete, Answered, a, b
    <2>. QED  BY <1>8, <1>9, <2>1, Zenon
  <1>11. Shared(r, Sup(j)) >= 1
    <2>1. Sup(j) = min - 1 + (j + 1) * len
      BY <1>5, Zenon DEF Sup
    <2>2. PICK s \in Int : s = Sup(j)
      BY <1>2, <1>7, <2>1
    <2>3. s - len + 1 <= v /\ v <= s
      BY <1>2, <1>4, <1>6, <1>7, <2>1, <2>2
    <2>4. PICK t \in Int, w \in Int : t = lowers[r] /\ w = uppers[r] /\ t <= v /\ v < w
      BY <1>2, <1>4
    <2>5. PICK g \in Int, h \in Int : g = Least(w, s + 1) /\ g > v
                                    /\ h = Greatest(t, s - len + 1) /\ h <= v
      BY <2>2, <2>3, <2>4 DEF Greatest, Least
    <2>6. Greatest(0, g - h) >= 1
      BY <2>5 DEF Greatest
    <2>. QED  BY <1>5, <2>2, <2>4, <2>5, <2>6, Zenon DEF Shared
  <1>12. Stored(j) \in Nat \ {0}
    <2>1. /\ freq[j][r] \in Nat /\ Shared(r, Sup(j)) \in Nat /\ Shared(r, Sup(j)) <= freq[j][r]
      BY <1>1, <1>8, Swept, Zenon
    <2>2. freq[j][r] \in Nat \ {0}
      BY <1>11, <2>1
    <2>3. Unit \div Width(r) \in Nat \ {0}
      BY <1>1, UnitFacts, Zenon
    <2>4. freq[j][r] * (Unit \div Width(r)) \in Nat \ {0}
      BY <2>2, <2>3, PositiveProduct, Zenon
    <2>5. Part(j)[r] = freq[j][r] * (Unit \div Width(r))
      BY Zenon DEF Part
    <2>6. Stored(j) \in Nat /\ Part(j)[r] <= Stored(j)
      BY <1>1, <1>8, StoredFacts, Zenon
    <2>7. PICK c \in Nat \ {0} : c = Part(j)[r]
      BY <2>4, <2>5, Zenon
    <2>. QED  BY <2>6, <2>7
  <1>. QED  BY <1>1, <1>8, <1>10, <1>12, Zenon

(* ANALYZE and rangerestsel together: where the two grids agree, && is     *)
(* never estimated to select nothing of a column one of whose ranges does  *)
(* overlap the constant.                                                   *)
THEOREM OverlapNeverFalseZero == EstimateSpec => []NoFalseZero
  <1>1. EstimateInv => NoFalseZero
    <2>1. SUFFICES ASSUME EstimateInv, Answered, call.operator = Overlap, SameGrid,
                          NEW r \in Rows, lowers[r] < call.upper, call.lower < uppers[r]
                   PROVE  selec.num > 0
      BY Zenon DEF NoFalseZero
    <2>2. PICK j \in added : call.freq[j] \in Nat \ {0}
      BY <2>1, CommonInterval, Zenon
    <2>3. selec = Clamp(Share)
      BY <2>1, AnsweredFacts, Zenon
    <2>4. sum.num \in Nat /\ call.freq[j] <= sum.num
      BY <2>1, <2>2, AnsweredSum, Zenon
    <2>5. sum.num > 0 /\ ~ (sum.num < 0)
      <3>1. PICK c \in Nat \ {0} : c = call.freq[j]
        BY <2>2, Zenon
      <3>. QED  BY <2>4, <3>1
    <2>6. Share = Fraction(sum.num, call.unit * call.rows)
      BY <2>1, AnsweredSum, Zenon DEF Left, Overlap
    <2>7. Share.num = sum.num
      BY <2>6 DEF Fraction
    <2>8. selec = Fraction(1, 1) \/ selec = Share
      BY <2>3, <2>5, <2>7, Zenon DEF Clamp
    <2>9. Fraction(1, 1).num > 0
      BY DEF Fraction
    <2>. QED  BY <2>5, <2>7, <2>8, <2>9, Zenon
  <1>. QED  BY <1>1, EstimateInvInit, EstimateInvStep, PTL DEF EstimateSpec

(* ANALYZE and rangerestsel together: the estimate of a clause on a        *)
(* bounded column is a number between 0 and 1, never NaN.                  *)
THEOREM AnalyzedEstimateIsNumber ==
    EstimateSpec => [](Answered => selec.den # 0 /\ 0 <= selec.num /\ selec.num <= selec.den)
  <1>1. ASSUME EstimateInv, Answered
        PROVE  selec.den # 0 /\ 0 <= selec.num /\ selec.num <= selec.den
    <2>1. /\ CallOK(call) /\ added \subseteq Interval(call) /\ selec = Clamp(Share)
          /\ call.nonfinite = {} /\ interval_length1 # 0
      BY <1>1, AnsweredFacts, Zenon
    <2>2. IsFraction(Share) /\ Share.den # 0
      BY <2>1, ShareType, Zenon
    <2>3. IsProbability(Clamp(Share)) /\ Clamp(Share).den # 0
      BY <2>2, ClampProbability, Zenon
    <2>. QED  BY <2>1, <2>3, Zenon DEF IsProbability
  <1>. QED  BY <1>1, EstimateInvInit, EstimateInvStep, PTL DEF EstimateSpec
=============================================================================
