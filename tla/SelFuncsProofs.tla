--------------------------- MODULE SelFuncsProofs ----------------------------
(***************************************************************************)
(* rangeoverlapsjoinsel_inner, for every pair of columns: the LOW loop     *)
(* finds an overlap, the intervals left to computeSelectivity exist, equal *)
(* grids are summed along the diagonal, and the sides may be exchanged.    *)
(*                                                                         *)
(* Why it works: the bounds of the columns overlap, so only the column     *)
(* that begins first has intervals to skip in the LOW loop and only the    *)
(* one that ends last in the HIGH loop; the skipped intervals end before   *)
(* the other column begins, or begin after it ends.                        *)
(*                                                                         *)
(* Then the binary searches of the histograms: they are correct on every   *)
(* sorted histogram, and the interpolated selectivity is monotone.         *)
(***************************************************************************)
EXTENDS JoinSelSwapped, HistSearch, BasicsProofs

(* The state of the LOW and of the HIGH loop.                              *)
LowInv(s) ==
    /\ low[s] < freq_nb_intervals(s)
    /\ min_val[s] = min(s) + low[s] * interval_length(s)
    /\ low[s] # 0 => low[Other(s)] = 0 /\ min_val[s] < min(Other(s))

HighInv(s) ==
    /\ high[s] \in 0 .. freq_nb_intervals(s) - 1
    /\ max_val[s] = max(s) - (freq_nb_intervals(s) - 1 - high[s]) * interval_length(s)
    /\ high[s] # freq_nb_intervals(s) - 1 =>
          high[Other(s)] = freq_nb_intervals(Other(s)) - 1 /\ max_val[s] > max(Other(s))

Visits == (0 .. freq_nb_intervals(1) - 1) \X (0 .. freq_nb_intervals(2) - 1)

(* The inductive invariant.                                                *)
JoinInv ==
    ProperColumns =>
        /\ pc \in {"low", "high", "sum"} =>
              /\ \A s \in Side : min(s) <= max(Other(s))
              /\ \A s \in Side : LowInv(s) /\ HighInv(s)
        /\ pc # "lowerror"
        /\ visited \subseteq Visits
-----------------------------------------------------------------------------
(* There are two sides.                                                    *)
LEMMA Sides ==
    ASSUME NEW s \in Side
    PROVE  Other(s) \in Side /\ Other(Other(s)) = s /\ s # Other(s) /\ Side = {s, Other(s)}
  BY DEF Side, Other

(* The statistics of a call are ints, and their grid exists.               *)
LEMMA CallTypes ==
    ASSUME call \in Calls, NEW s \in Side
    PROVE  /\ min(s) \in Int32 /\ max(s) \in Int32 /\ length(s) \in Int32
           /\ freq_nb_intervals(s) \in Int /\ interval_length(s) \in Int
  <1>1. min(s) \in Int32 /\ max(s) \in Int32 /\ GridExists(min(s), max(s))
    BY CallsAssumption, Zenon DEF min, max
  <1>2. max(s) - min(s) + 1 \in Int
    BY <1>1, IntMaxAssumption DEF Int32
  <1>3. length(s) \in Int32 /\ length(s) \in Int
    BY <1>2, WrapType, IntMaxAssumption DEF length, Int32
  <1>4. WeightDivider(length(s)) # 0 /\ NbOfIntervals(length(s)) # 0
    BY <1>1, Zenon DEF GridExists, length
  <1>5. interval_length(s) = IntervalLength(length(s))
    BY Zenon DEF interval_length, IntervalLength, freq_nb_intervals
  <1>. QED  BY <1>1, <1>3, <1>4, <1>5, GridType, Zenon DEF freq_nb_intervals

(* The grid of a proper column covers it, without wrapping.                *)
LEMMA ProperGrid ==
    ASSUME call \in Calls, NEW s \in Side, Proper(s)
    PROVE  /\ freq_nb_intervals(s) \in Nat \ {0} /\ interval_length(s) \in Nat \ {0}
           /\ min(s) \in Int /\ max(s) \in Int /\ min(s) < max(s)
           /\ min(s) >= -IntMax - 1 /\ max(s) <= IntMax
           /\ freq_nb_intervals(s) * interval_length(s) >= max(s) - min(s) + 1
           /\ min(s) + freq_nb_intervals(s) * interval_length(s) <= IntMax
           /\ max(s) - freq_nb_intervals(s) * interval_length(s) >= -IntMax - 1
  <1>1. min(s) \in Int32 /\ max(s) \in Int32
    BY CallTypes, Zenon
  <1>2. /\ min(s) \in Int /\ max(s) \in Int /\ min(s) < max(s)
        /\ min(s) >= -IntMax - 1 /\ max(s) <= IntMax
        /\ max(s) - min(s) + 1 \in Nat \ {0} /\ max(s) - min(s) + 1 \in Int32
    BY <1>1, IntMaxAssumption DEF Int32, Proper
  <1>3. length(s) = max(s) - min(s) + 1
    BY <1>2, WrapIdentity, Zenon DEF length
  <1>4. interval_length(s) = IntervalLength(length(s))
    BY Zenon DEF interval_length, IntervalLength, freq_nb_intervals
  <1>5. /\ NbOfIntervals(length(s)) \in 1 .. WeightInv
        /\ IntervalLength(length(s)) \in 1 .. length(s)
        /\ NbOfIntervals(length(s)) * IntervalLength(length(s)) >= length(s)
    BY <1>2, <1>3, GridOfLength, Zenon
  <1>6. /\ freq_nb_intervals(s) \in Nat \ {0} /\ interval_length(s) \in Nat \ {0}
        /\ freq_nb_intervals(s) * interval_length(s) >= max(s) - min(s) + 1
    BY <1>2, <1>3, <1>4, <1>5, WeightInvAssumption DEF freq_nb_intervals
  <1>. QED  BY <1>2, <1>6, Zenon DEF Proper
-----------------------------------------------------------------------------
(* Type correctness.                                                       *)
LEMMA TypeStep ==
    ASSUME TypeOK, [Next \/ Ended]_vars
    PROVE  TypeOK'
  <1>1. ASSUME NEW s \in Side
        PROVE  /\ min(s) \in Int32 /\ max(s) \in Int32
               /\ freq_nb_intervals(s) \in Int /\ interval_length(s) \in Int
    BY <1>1, CallTypes, Zenon DEF TypeOK
  <1>2. \A v \in Int32 : v \in Int
    BY IntMaxAssumption DEF Int32
  <1>3. CASE JoinVariables
    BY <1>3, Zenon DEF JoinVariables, locals, TypeOK
  <1>4. CASE WrongOperator \/ Insecure
    BY <1>4, Zenon DEF WrongOperator, Insecure, locals, TypeOK
  <1>5. CASE NoHistograms \/ Disjoint \/ SumDone
    BY <1>5, Zenon DEF NoHistograms, Disjoint, SumDone, locals, TypeOK
  <1>6. CASE Estimate
    BY <1>1, <1>6 DEF Estimate, TypeOK
  <1>7. ASSUME NEW s \in Side, LowStep(s)
        PROVE  TypeOK'
    <2>1. Wrap(min_val[s] + interval_length(s)) \in Int32
      BY <1>1, <1>2, WrapType DEF TypeOK
    <2>2. /\ low' = low \/ low' = [low EXCEPT ![s] = @ + 1]
          /\ min_val' = min_val \/ min_val' = [min_val EXCEPT ![s] = Wrap(@ + interval_length(s))]
          /\ pc' \in {"low", "lowerror"}
          /\ UNCHANGED <<call, pins, high, max_val, idx, at, visited>>
      BY <1>7, Zenon DEF LowStep, LowSkip
    <2>. QED  BY <2>1, <2>2 DEF TypeOK
  <1>8. ASSUME NEW s \in Side, HighStep(s)
        PROVE  TypeOK'
    <2>1. Wrap(max_val[s] - interval_length(s)) \in Int32
      BY <1>1, <1>2, WrapType DEF TypeOK
    <2>2. /\ high' = high \/ high' = [high EXCEPT ![s] = @ - 1]
          /\ max_val' = max_val \/ max_val' = [max_val EXCEPT ![s] = Wrap(@ - interval_length(s))]
          /\ pc' \in {"high", "higherror"}
          /\ UNCHANGED <<call, pins, low, min_val, idx, at, visited>>
      BY <1>8, Zenon DEF HighStep, HighSkip
    <2>. QED  BY <2>1, <2>2 DEF TypeOK
  <1>9. CASE LowDone
    BY <1>9, Zenon DEF LowDone, locals, TypeOK
  <1>10. CASE HighDone
    BY <1>10, Zenon DEF HighDone, TypeOK
  <1>11. CASE SumPair
    <2>1. \A s \in Side : Wrap(at[s] + interval_length(s)) \in Int32
      BY <1>1, <1>2, WrapType DEF TypeOK
    <2>2. at' \in [Side -> Int32] /\ idx' \in [Side -> Nat]
      BY <1>11, <2>1 DEF SumPair, MoveOn, TypeOK
    <2>3. low[1] + idx[1] \in Nat /\ low[2] + idx[2] \in Nat
      BY DEF TypeOK, Side
    <2>4. visited' \subseteq Nat \X Nat
      BY <1>11, <2>3 DEF SumPair, TypeOK
    <2>. QED  BY <1>11, <2>2, <2>4, Zenon DEF SumPair, TypeOK
  <1>12. CASE Ended \/ UNCHANGED vars
    BY <1>12, Zenon DEF Ended, vars, TypeOK
  <1>. QED
    BY <1>3, <1>4, <1>5, <1>6, <1>7, <1>8, <1>9, <1>10, <1>11, <1>12, Zenon DEF Next

(* rangeoverlapsjoinsel enters with well-typed locals.                     *)
LEMMA TypeInit == Init => TypeOK
  BY IntMaxAssumption DEF Init, TypeOK, Int32

(* The locals of rangeoverlapsjoinsel keep their types.                    *)
THEOREM JoinTypeCorrect == Spec => []TypeOK
  BY TypeInit, TypeStep, PTL DEF Spec
-----------------------------------------------------------------------------
(* The intervals a column has from low on lie between its ends.            *)
LEMMA LowWithin ==
    ASSUME call \in Calls, NEW s \in Side, Proper(s), low[s] \in Nat, LowInv(s)
    PROVE  /\ min_val[s] \in Int
           /\ min_val[s] >= min(s)
           /\ (low[s] + 1) * interval_length(s) = low[s] * interval_length(s) + interval_length(s)
           /\ (low[s] + 1) * interval_length(s) <= freq_nb_intervals(s) * interval_length(s)
           /\ Wrap(min_val[s] + interval_length(s)) = min_val[s] + interval_length(s)
  <1>. DEFINE n == freq_nb_intervals(s)
              len == interval_length(s)
              m == min(s)
              k == low[s]
  <1>1. /\ n \in Nat \ {0} /\ len \in Nat \ {0} /\ m \in Int /\ k \in Nat
        /\ m >= -IntMax - 1 /\ m + n * len <= IntMax
    BY ProperGrid, Zenon
  <1>2. k < n /\ min_val[s] = m + k * len
    BY Zenon DEF LowInv
  <1>. HIDE DEF n, len, m, k
  <1>3. /\ k * len \in Nat /\ n * len \in Nat
        /\ (k + 1) * len = k * len + len /\ (k + 1) * len <= n * len
    BY <1>1, <1>2, MultipleMonotone
  <1>4. m + k * len + len \in Int32
    BY <1>1, <1>2, <1>3, IntMaxAssumption DEF Int32
  <1>5. Wrap(min_val[s] + len) = min_val[s] + len
    BY <1>2, <1>4, WrapIdentity, Zenon
  <1>6. min_val[s] \in Int /\ min_val[s] >= m
    BY <1>1, <1>2, <1>3
  <1>. QED  BY <1>3, <1>5, <1>6, Zenon DEF n, len, m, k

(* The LOW loop moves the column that begins first, and its next interval  *)
(* still begins before the other column does: it is never the last one.    *)
LEMMA LowStepInv ==
    ASSUME TypeOK, JoinInv, NEW s \in Side, LowStep(s)
    PROVE  JoinInv'
  <1>. DEFINE o == Other(s)
  <1>1. SUFFICES ASSUME ProperColumns PROVE JoinInv'
    BY Zenon DEF JoinInv, ProperColumns, Proper, freq_nb_intervals, interval_length, length, min, max,
           LowStep
  <1>2. o \in Side /\ Other(o) = s /\ s # o /\ Side = {s, o}
    BY Sides, Zenon
  <1>3. /\ call \in Calls /\ pc = "low" /\ ~LowMeet
        /\ low[s] \in Nat /\ low[o] \in Nat /\ low \in [Side -> Nat]
        /\ min_val \in [Side -> Int32]
        /\ LowInv(s) /\ LowInv(o) /\ HighInv(s) /\ HighInv(o)
        /\ min(s) <= max(o) /\ min(o) <= max(s) /\ visited \subseteq Visits
    BY <1>1, <1>2, Zenon DEF TypeOK, JoinInv, LowStep
  <1>4. Proper(s) /\ Proper(o)
    BY <1>1, <1>2, Zenon DEF ProperColumns
  <1>5. /\ min_val[s] \in Int /\ min_val[o] \in Int
        /\ min_val[s] >= min(s) /\ min_val[o] >= min(o)
        /\ Wrap(min_val[s] + interval_length(s)) = min_val[s] + interval_length(s)
        /\ Wrap(min_val[o] + interval_length(o)) = min_val[o] + interval_length(o)
    BY <1>2, <1>3, <1>4, LowWithin, Zenon
  <1>6. /\ interval_length(s) \in Nat \ {0} /\ interval_length(o) \in Nat \ {0}
        /\ freq_nb_intervals(s) \in Nat \ {0} /\ freq_nb_intervals(o) \in Nat \ {0}
        /\ min(s) \in Int /\ max(s) \in Int /\ min(o) \in Int /\ max(o) \in Int
        /\ freq_nb_intervals(s) * interval_length(s) >= max(s) - min(s) + 1
    BY <1>2, <1>3, <1>4, ProperGrid, Zenon
  <1>7. \/ min_val[s] + interval_length(s) < min_val[o]
        \/ min_val[o] + interval_length(o) < min_val[s]
    BY <1>2, <1>3, <1>5, <1>6, Zenon DEF LowMeet, IsInRange, Side
  <1>8. min_val[s] < min_val[o] /\ LowSkip(s) /\ UNCHANGED <<call, pins, high, max_val, visited>>
    BY <1>3, <1>5, <1>6, <1>7 DEF LowStep
  <1>9. low[o] = 0 /\ min_val[o] = min(o)
    <2>1. low[o] = 0
      BY <1>2, <1>3, <1>5, <1>6, <1>8 DEF LowInv
    <2>2. \A d \in Int : 0 * d = 0
      OBVIOUS
    <2>. QED  BY <1>3, <1>6, <2>1, <2>2 DEF LowInv
  <1>10. min_val[s] + interval_length(s) < min(o)
    BY <1>5, <1>6, <1>7, <1>8, <1>9
  <1>11. /\ (low[s] + 1) * interval_length(s) = low[s] * interval_length(s) + interval_length(s)
         /\ min_val[s] + interval_length(s) = min(s) + (low[s] + 1) * interval_length(s)
    <2>1. (low[s] + 1) * interval_length(s) = low[s] * interval_length(s) + interval_length(s)
      BY <1>3, <1>4, LowWithin, Zenon
    <2>2. min_val[s] = min(s) + low[s] * interval_length(s)
      BY <1>3, Zenon DEF LowInv
    <2>. QED  BY <1>3, <1>6, <2>1, <2>2
  <1>12. low[s] + 1 < freq_nb_intervals(s)
    <2>1. SUFFICES ASSUME low[s] + 1 >= freq_nb_intervals(s) PROVE FALSE
      BY <1>3, <1>6
    <2>2. low[s] + 1 = freq_nb_intervals(s)
      BY <1>3, <1>6, <2>1 DEF LowInv
    <2>. QED  BY <1>3, <1>6, <1>10, <1>11, <2>2
  <1>13. /\ low'[s] = low[s] + 1 /\ low'[o] = 0
         /\ min_val'[s] = min_val[s] + interval_length(s) /\ min_val'[o] = min_val[o]
         /\ pc' = "low"
    <2>1. /\ low' = [low EXCEPT ![s] = low[s] + 1]
          /\ min_val' = [min_val EXCEPT ![s] = min_val[s] + interval_length(s)]
          /\ pc' = IF \E t \in Side : low'[t] = freq_nb_intervals(t) THEN "lowerror" ELSE "low"
      BY <1>5, <1>8, Zenon DEF LowSkip
    <2>2. /\ low'[s] = low[s] + 1 /\ low'[o] = 0
          /\ min_val'[s] = min_val[s] + interval_length(s) /\ min_val'[o] = min_val[o]
      BY <1>2, <1>3, <1>9, <2>1, Zenon
    <2>. QED  BY <1>2, <1>3, <1>6, <1>12, <2>1, <2>2
  <1>14. /\ \A t \in Side : /\ min(t)' = min(t) /\ max(t)' = max(t)
                            /\ freq_nb_intervals(t)' = freq_nb_intervals(t)
                            /\ interval_length(t)' = interval_length(t)
         /\ Visits' = Visits
    BY <1>8, Zenon DEF min, max, freq_nb_intervals, interval_length, length, Visits
  <1>15. LowInv(s)' /\ LowInv(o)'
    <2>1. PICK ll \in Nat : ll = low[s] + 1
      BY <1>3
    <2>2. LowInv(s)'
      BY <1>2, <1>3, <1>10, <1>11, <1>12, <1>13, <1>14, <2>1, Zenon DEF LowInv
    <2>3. LowInv(o)'
      BY <1>2, <1>3, <1>9, <1>13, <1>14, Zenon DEF LowInv
    <2>. QED  BY <2>2, <2>3, Zenon
  <1>16. HighInv(s)' /\ HighInv(o)'
    BY <1>2, <1>3, <1>8, <1>14, Zenon DEF HighInv
  <1>. QED  BY <1>2, <1>3, <1>8, <1>13, <1>14, <1>15, <1>16, Zenon DEF JoinInv
-----------------------------------------------------------------------------
(* Likewise for the intervals up to high.                                  *)
LEMMA HighWithin ==
    ASSUME call \in Calls, NEW s \in Side, Proper(s), HighInv(s)
    PROVE  /\ max_val[s] \in Int /\ max_val[s] <= max(s)
           /\ Wrap(max_val[s] - interval_length(s)) = max_val[s] - interval_length(s)
           /\ max_val[s] - interval_length(s)
                = max(s) - (freq_nb_intervals(s) - 1 - (high[s] - 1)) * interval_length(s)
           /\ high[s] = 0 => max_val[s] - interval_length(s) < min(s)
  <1>. DEFINE n == freq_nb_intervals(s)
              len == interval_length(s)
              m == max(s)
              k == n - 1 - high[s]
  <1>1. /\ n \in Nat \ {0} /\ len \in Nat \ {0} /\ m \in Int /\ m <= IntMax /\ min(s) \in Int
        /\ m - n * len >= -IntMax - 1 /\ n * len >= m - min(s) + 1
    BY ProperGrid, Zenon
  <1>2. high[s] \in 0 .. n - 1 /\ max_val[s] = m - k * len
    BY Zenon DEF HighInv
  <1>. HIDE DEF len, m, n
  <1>3. k \in Nat /\ k < n /\ (high[s] = 0 => k + 1 = n) /\ n - 1 - (high[s] - 1) = k + 1
    BY <1>1, <1>2
  <1>. HIDE DEF k
  <1>4. /\ k * len \in Nat /\ n * len \in Nat
        /\ (k + 1) * len = k * len + len /\ (k + 1) * len <= n * len
    BY <1>1, <1>3, MultipleMonotone
  <1>5. m - k * len - len \in Int32
    BY <1>1, <1>3, <1>4, IntMaxAssumption DEF Int32
  <1>6. Wrap(max_val[s] - len) = max_val[s] - len
    BY <1>2, <1>5, WrapIdentity, Zenon
  <1>7. max_val[s] \in Int /\ max_val[s] <= m
    BY <1>1, <1>2, <1>4
  <1>8. max_val[s] - len = m - (k + 1) * len
    BY <1>1, <1>2, <1>3, <1>4
  <1>9. high[s] = 0 => max_val[s] - len < min(s)
    BY <1>1, <1>3, <1>4, <1>8
  <1>10. (n - 1 - (high[s] - 1)) * len = (k + 1) * len
    BY <1>3, Zenon
  <1>. QED  BY <1>6, <1>7, <1>8, <1>9, <1>10, Zenon DEF n, len, m

(* The HIGH loop moves the column that ends last, and only an interval     *)
(* that begins after the end of the other column is skipped.               *)
LEMMA HighStepInv ==
    ASSUME TypeOK, JoinInv, NEW s \in Side, HighStep(s)
    PROVE  JoinInv'
  <1>. DEFINE o == Other(s)
  <1>1. SUFFICES ASSUME ProperColumns PROVE JoinInv'
    BY Zenon DEF JoinInv, ProperColumns, Proper, freq_nb_intervals, interval_length, length, min, max,
           HighStep
  <1>2. o \in Side /\ Other(o) = s /\ s # o /\ Side = {s, o}
    BY Sides, Zenon
  <1>3. /\ call \in Calls /\ pc = "high" /\ ~HighMeet
        /\ high \in [Side -> Int] /\ max_val \in [Side -> Int32]
        /\ LowInv(s) /\ LowInv(o) /\ HighInv(s) /\ HighInv(o)
        /\ min(s) <= max(o) /\ min(o) <= max(s) /\ visited \subseteq Visits
    BY <1>1, <1>2, Zenon DEF TypeOK, JoinInv, HighStep
  <1>4. Proper(s) /\ Proper(o)
    BY <1>1, <1>2, Zenon DEF ProperColumns
  <1>5. /\ max_val[s] \in Int /\ max_val[o] \in Int
        /\ max_val[s] <= max(s) /\ max_val[o] <= max(o)
        /\ Wrap(max_val[s] - interval_length(s)) = max_val[s] - interval_length(s)
        /\ Wrap(max_val[o] - interval_length(o)) = max_val[o] - interval_length(o)
        /\ high[s] = 0 => max_val[s] - interval_length(s) < min(s)
        /\ max_val[s] - interval_length(s)
             = max(s) - (freq_nb_intervals(s) - 1 - (high[s] - 1)) * interval_length(s)
    BY <1>2, <1>3, <1>4, HighWithin, Zenon
  <1>6. /\ interval_length(s) \in Nat \ {0} /\ interval_length(o) \in Nat \ {0}
        /\ freq_nb_intervals(s) \in Nat \ {0} /\ freq_nb_intervals(o) \in Nat \ {0}
        /\ min(s) \in Int /\ max(s) \in Int /\ min(o) \in Int /\ max(o) \in Int
    BY <1>2, <1>3, <1>4, ProperGrid, Zenon
  <1>7. \/ max_val[s] < max_val[o] - interval_length(o)
        \/ max_val[o] < max_val[s] - interval_length(s)
    BY <1>2, <1>3, <1>5, <1>6, Zenon DEF HighMeet, IsInRange, Side
  <1>8. max_val[s] > max_val[o] /\ HighSkip(s) /\ UNCHANGED <<call, pins, low, min_val, visited>>
    BY <1>3, <1>5, <1>6, <1>7 DEF HighStep
  <1>9. high[o] = freq_nb_intervals(o) - 1 /\ max_val[o] = max(o)
    <2>1. high[o] = freq_nb_intervals(o) - 1
      BY <1>2, <1>3, <1>5, <1>6, <1>8 DEF HighInv
    <2>2. freq_nb_intervals(o) - 1 - high[o] = 0
      BY <1>6, <2>1
    <2>3. \A d \in Int : 0 * d = 0
      OBVIOUS
    <2>4. max_val[o] = max(o) - 0 * interval_length(o)
      BY <1>3, <2>2, Zenon DEF HighInv
    <2>. QED  BY <1>6, <2>1, <2>3, <2>4
  <1>10. max_val[s] - interval_length(s) > max(o)
    BY <1>5, <1>6, <1>7, <1>8, <1>9
  <1>11. high[s] - 1 \in 0 .. freq_nb_intervals(s) - 1
    <2>1. high[s] # 0
      BY <1>3, <1>5, <1>6, <1>10
    <2>2. high[s] \in 0 .. freq_nb_intervals(s) - 1
      BY <1>3, Zenon DEF HighInv
    <2>. QED  BY <1>6, <2>1, <2>2
  <1>12. /\ high'[s] = high[s] - 1 /\ high'[o] = high[o]
         /\ max_val'[s] = max_val[s] - interval_length(s) /\ max_val'[o] = max_val[o]
         /\ pc' \in {"high", "higherror"}
    <2>1. /\ high' = [high EXCEPT ![s] = high[s] - 1]
          /\ max_val' = [max_val EXCEPT ![s] = max_val[s] - interval_length(s)]
          /\ pc' \in {"high", "higherror"}
      BY <1>5, <1>8, Zenon DEF HighSkip
    <2>. QED  BY <1>2, <1>3, <2>1, Zenon
  <1>13. /\ \A t \in Side : /\ min(t)' = min(t) /\ max(t)' = max(t)
                            /\ freq_nb_intervals(t)' = freq_nb_intervals(t)
                            /\ interval_length(t)' = interval_length(t)
         /\ Visits' = Visits
    BY <1>8, Zenon DEF min, max, freq_nb_intervals, interval_length, length, Visits
  <1>14. HighInv(s)' /\ HighInv(o)'
    <2>1. PICK hh \in Int : hh = high[s] - 1
      BY <1>3
    <2>2. HighInv(s)'
      BY <1>2, <1>5, <1>9, <1>10, <1>11, <1>12, <1>13, <2>1, Zenon DEF HighInv
    <2>3. HighInv(o)'
      BY <1>2, <1>3, <1>9, <1>12, <1>13, Zenon DEF HighInv
    <2>. QED  BY <2>2, <2>3, Zenon
  <1>15. LowInv(s)' /\ LowInv(o)'
    BY <1>2, <1>3, <1>8, <1>13, Zenon DEF LowInv
  <1>. QED  BY <1>2, <1>3, <1>8, <1>12, <1>13, <1>14, <1>15, Zenon DEF JoinInv

(* The two loops leave an interval on either side: what LOW skipped ends   *)
(* before the other column begins, what HIGH skipped begins after it ends. *)
LEMMA IntervalsLeft ==
    ASSUME TypeOK, JoinInv, ProperColumns, pc = "sum", NEW s \in Side
    PROVE  low[s] <= high[s] /\ high[s] \in 0 .. freq_nb_intervals(s) - 1
  <1>. DEFINE o == Other(s)
              n == freq_nb_intervals(s)
              len == interval_length(s)
              k == n - 1 - high[s]
  <1>1. /\ call \in Calls /\ low[s] \in Nat
        /\ LowInv(s) /\ HighInv(s) /\ o \in Side /\ min(o) <= max(s)
    BY Sides, Zenon DEF TypeOK, JoinInv
  <1>2. Proper(s) /\ Proper(o)
    BY <1>1, Zenon DEF ProperColumns
  <1>3. /\ n \in Nat \ {0} /\ len \in Nat \ {0} /\ min(s) \in Int /\ max(s) \in Int
        /\ n * len >= max(s) - min(s) + 1
        /\ min(o) \in Int /\ max(o) \in Int /\ min(o) < max(o)
    BY <1>1, <1>2, ProperGrid, Zenon
  <1>4. high[s] \in 0 .. n - 1 /\ low[s] < n
    BY <1>1, Zenon DEF LowInv, HighInv
  <1>5. CASE low[s] = 0 \/ high[s] = n - 1
    BY <1>1, <1>3, <1>4, <1>5
  <1>6. CASE low[s] # 0 /\ high[s] # n - 1
    <2>1. /\ min_val[s] = min(s) + low[s] * len /\ min_val[s] < min(o)
          /\ max_val[s] = max(s) - k * len /\ max_val[s] > max(o)
      BY <1>1, <1>6, Zenon DEF LowInv, HighInv
    <2>2. k \in Nat
      BY <1>3, <1>4
    <2>3. ASSUME low[s] > high[s] PROVE FALSE
      <3>1. low[s] + k >= n
        BY <1>1, <1>3, <1>4, <2>3
      <3>. HIDE DEF n, len, k
      <3>2. PICK lo \in Nat : lo = low[s]
        BY <1>1, Zenon
      <3>3. /\ n * len <= (lo + k) * len /\ (lo + k) * len = lo * len + k * len
            /\ lo * len \in Nat /\ k * len \in Nat /\ n * len \in Nat
        <4>1. n \in Nat /\ len \in Nat /\ lo + k \in Nat /\ n <= lo + k
          BY <1>3, <2>2, <3>1, <3>2
        <4>2. n * len <= (lo + k) * len
          BY <4>1, MultipleMonotone, Zenon
        <4>. QED  BY <2>2, <4>1, <4>2
      <3>. QED  BY <1>1, <1>3, <2>1, <3>2, <3>3
    <2>. QED  BY <1>1, <1>4, <2>3
  <1>. QED  BY <1>5, <1>6, Zenon
-----------------------------------------------------------------------------
(* Entering rangeoverlapsjoinsel_inner: nothing is skipped yet.            *)
LEMMA EstimateInv ==
    ASSUME TypeOK, JoinInv, Estimate
    PROVE  JoinInv'
  <1>1. /\ call' = call /\ visited' = visited /\ pc' = "low" /\ call \in Calls
        /\ IsInRange(min(1), max(1), min(2), max(2))
        /\ low' = [s \in Side |-> 0] /\ high' = [s \in Side |-> freq_nb_intervals(s) - 1]
        /\ min_val' = [s \in Side |-> min(s)] /\ max_val' = [s \in Side |-> max(s)]
    BY Zenon DEF Estimate, TypeOK
  <1>2. /\ \A t \in Side : /\ min(t)' = min(t) /\ max(t)' = max(t)
                           /\ freq_nb_intervals(t)' = freq_nb_intervals(t)
                           /\ interval_length(t)' = interval_length(t)
        /\ Visits' = Visits /\ ProperColumns' = ProperColumns
    BY <1>1, Zenon DEF min, max, freq_nb_intervals, interval_length, length, Visits,
                ProperColumns, Proper
  <1>3. SUFFICES ASSUME ProperColumns
                 PROVE  /\ \A s \in Side : min(s) <= max(Other(s))
                        /\ \A s \in Side : LowInv(s)' /\ HighInv(s)'
    <2>1. \A s \in Side : Other(s) \in Side
      BY Sides, Zenon
    <2>2. ProperColumns => visited \subseteq Visits
      BY Zenon DEF JoinInv
    <2>. QED  BY <1>1, <1>2, <2>1, <2>2, Zenon DEF JoinInv
  <1>4. ASSUME NEW s \in Side
        PROVE  /\ freq_nb_intervals(s) \in Nat \ {0} /\ interval_length(s) \in Nat \ {0}
               /\ min(s) \in Int /\ max(s) \in Int
    BY <1>1, <1>3, ProperGrid, Zenon DEF ProperColumns
  <1>5. ASSUME NEW s \in Side
        PROVE  min(s) <= max(Other(s))
    <2>1. /\ min(1) \in Int /\ max(1) \in Int /\ min(2) \in Int /\ max(2) \in Int
          /\ s = 1 \/ s = 2
      BY <1>4, Zenon DEF Side
    <2>2. min(1) <= max(2) /\ min(2) <= max(1)
      BY <1>1, <2>1 DEF IsInRange
    <2>3. (s = 1 => Other(s) = 2) /\ (s = 2 => Other(s) = 1)
      BY DEF Other
    <2>. QED  BY <2>1, <2>2, <2>3, Zenon
  <1>6. ASSUME NEW s \in Side
        PROVE  LowInv(s)' /\ HighInv(s)'
    <2>. DEFINE n == freq_nb_intervals(s)
                len == interval_length(s)
    <2>1. n \in Nat \ {0} /\ len \in Nat \ {0} /\ min(s) \in Int /\ max(s) \in Int
      BY <1>4, Zenon
    <2>2. /\ low'[s] = 0 /\ high'[s] = n - 1 /\ min_val'[s] = min(s) /\ max_val'[s] = max(s)
          /\ n' = n /\ len' = len /\ min(s)' = min(s) /\ max(s)' = max(s)
      BY <1>1, <1>2, Zenon
    <2>. HIDE DEF n, len
    <2>3. /\ 0 < n /\ min(s) = min(s) + 0 * len
          /\ n - 1 \in 0 .. n - 1 /\ max(s) = max(s) - (n - 1 - (n - 1)) * len
      <3>1. 0 * len = 0 /\ (n - 1 - (n - 1)) * len = 0
        BY <2>1
      <3>. QED  BY <2>1, <3>1
    <2>. QED  BY <2>2, <2>3, Zenon DEF LowInv, HighInv, n, len
  <1>. QED  BY <1>5, <1>6, Zenon

(* computeSelectivity only reads frequencies that are there.               *)
LEMMA SumPairInv ==
    ASSUME TypeOK, JoinInv, SumPair
    PROVE  JoinInv'
  <1>1. /\ pc = "sum" /\ pc' = pc /\ call' = call /\ low' = low /\ high' = high
        /\ min_val' = min_val /\ max_val' = max_val
        /\ visited' = visited \cup {<<low[1] + idx[1], low[2] + idx[2]>>}
        /\ \A s \in Side : idx[s] < size(s)
    BY Zenon DEF SumPair
  <1>2. /\ \A t \in Side : LowInv(t)' = LowInv(t) /\ HighInv(t)' = HighInv(t)
        /\ \A t \in Side : min(t)' = min(t) /\ max(t)' = max(t)
        /\ Visits' = Visits /\ ProperColumns' = ProperColumns
    BY <1>1 DEF min, max, freq_nb_intervals, interval_length, length, Visits,
                ProperColumns, Proper, LowInv, HighInv
  <1>3. ASSUME ProperColumns, NEW s \in Side
        PROVE  low[s] + idx[s] \in 0 .. freq_nb_intervals(s) - 1
    <2>1. low[s] <= high[s] /\ high[s] \in 0 .. freq_nb_intervals(s) - 1
      BY <1>1, <1>3, IntervalsLeft, Zenon
    <2>2. /\ low[s] \in Nat /\ idx[s] \in Nat /\ idx[s] < high[s] - low[s] + 1
          /\ freq_nb_intervals(s) \in Int
      BY <1>1, CallTypes, Zenon DEF TypeOK, size
    <2>. QED  BY <2>1, <2>2
  <1>4. ProperColumns => visited' \subseteq Visits
    <2>1. SUFFICES ASSUME ProperColumns PROVE visited' \subseteq Visits
      BY Zenon
    <2>2. 1 \in Side /\ 2 \in Side
      BY Zenon DEF Side
    <2>3. <<low[1] + idx[1], low[2] + idx[2]>> \in Visits
      BY <1>3, <2>1, <2>2, Zenon DEF Visits
    <2>. QED  BY <1>1, <2>1, <2>3, Zenon DEF JoinInv
  <1>5. \A s \in Side : Other(s) \in Side
    BY Sides, Zenon
  <1>. QED  BY <1>1, <1>2, <1>4, <1>5, Zenon DEF JoinInv

(* Every step keeps the invariant.                                         *)
LEMMA JoinStep ==
    ASSUME TypeOK, JoinInv, [Next \/ Ended]_vars
    PROVE  JoinInv'
  <1>1. CASE \E s \in Side : LowStep(s)
    BY <1>1, LowStepInv, Zenon
  <1>2. CASE \E s \in Side : HighStep(s)
    BY <1>2, HighStepInv, Zenon
  <1>3. CASE Estimate
    BY <1>3, EstimateInv, Zenon
  <1>4. CASE SumPair
    BY <1>4, SumPairInv, Zenon
  <1>5. ASSUME call' = call, low' = low, high' = high, min_val' = min_val, max_val' = max_val,
               visited' = visited,
               \/ pc' \notin {"low", "high", "sum", "lowerror"}
               \/ pc' = pc
               \/ pc \in {"low", "high"} /\ pc' \in {"high", "sum"}
        PROVE  JoinInv'
    <2>1. /\ \A t \in Side : LowInv(t)' = LowInv(t) /\ HighInv(t)' = HighInv(t)
          /\ \A t \in Side : min(t)' = min(t) /\ max(t)' = max(t)
          /\ Visits' = Visits /\ ProperColumns' = ProperColumns
      BY <1>5 DEF min, max, freq_nb_intervals, interval_length, length, Visits,
                  ProperColumns, Proper, LowInv, HighInv
    <2>2. \A s \in Side : Other(s) \in Side
      BY Sides, Zenon
    <2>. QED  BY <1>5, <2>1, <2>2, Zenon DEF JoinInv
  <1>6. CASE JoinVariables \/ WrongOperator \/ Insecure \/ NoHistograms \/ Disjoint
    BY <1>5, <1>6, Zenon DEF JoinVariables, WrongOperator, Insecure, NoHistograms, Disjoint, locals
  <1>7. CASE LowDone \/ HighDone \/ SumDone
    BY <1>5, <1>7, Zenon DEF LowDone, HighDone, SumDone, locals
  <1>8. CASE Ended \/ UNCHANGED vars
    BY <1>5, <1>8, Zenon DEF Ended, vars
  <1>. QED  BY <1>1, <1>2, <1>3, <1>4, <1>6, <1>7, <1>8, Zenon DEF Next

(* Nothing is summed at the start.                                         *)
LEMMA JoinInit == Init => JoinInv
  BY Zenon DEF Init, JoinInv

(* The LOW loop of rangeoverlapsjoinsel_inner never raises its errors.     *)
THEOREM LowLoopFindsOverlap == Spec => []LowFindsOverlap
  <1>1. JoinInv => LowFindsOverlap
    BY Zenon DEF JoinInv, LowFindsOverlap
  <1>. QED  BY <1>1, TypeInit, TypeStep, JoinInit, JoinStep, PTL DEF Spec

(* computeSelectivity gets at least one interval of either column and only *)
(* reads frequencies that are there.                                       *)
THEOREM SumHasIntervals == Spec => []SumOverIntervals
  <1>1. TypeOK /\ JoinInv => SumOverIntervals
    <2>1. SUFFICES ASSUME TypeOK, JoinInv, ProperColumns
                   PROVE  /\ pc = "sum" => \A s \in Side : /\ 0 <= low[s] /\ low[s] <= high[s]
                                                           /\ high[s] < freq_nb_intervals(s)
                          /\ visited \subseteq Visits
      BY Zenon DEF SumOverIntervals, Visits
    <2>2. ASSUME pc = "sum", NEW s \in Side
          PROVE  0 <= low[s] /\ low[s] <= high[s] /\ high[s] < freq_nb_intervals(s)
      <3>1. low[s] <= high[s] /\ high[s] \in 0 .. freq_nb_intervals(s) - 1
        BY <2>1, <2>2, IntervalsLeft, Zenon
      <3>2. low[s] \in Nat /\ freq_nb_intervals(s) \in Int
        BY <2>1, CallTypes, Zenon DEF TypeOK
      <3>. QED  BY <3>1, <3>2
    <2>. QED  BY <2>1, <2>2, Zenon DEF JoinInv
  <1>. QED  BY <1>1, TypeInit, TypeStep, JoinInit, JoinStep, PTL DEF Spec
-----------------------------------------------------------------------------
(* Two columns with the same bounds: no loop skips anything, and the two   *)
(* cursors of computeSelectivity move together.                            *)
SameGrid == ProperColumns /\ min(1) = min(2) /\ max(1) = max(2)

Diagonal(n) == {<<j, j>> : j \in 0 .. n - 1}

DiagonalInv ==
    SameGrid =>
        /\ pc \in {"variables", "checks", "low", "high"} => visited = {}
        /\ pc \in {"low", "high", "sum"} =>
              \A s \in Side : /\ low[s] = 0 /\ high[s] = freq_nb_intervals(1) - 1
                              /\ min_val[s] = min(1) /\ max_val[s] = max(1)
        /\ pc = "sum" => /\ idx[1] = idx[2] /\ at[1] = at[2]
                         /\ idx[1] <= freq_nb_intervals(1)
                         /\ visited = Diagonal(idx[1])
        /\ pc = "returned" /\ call.overlap_op /\ Secure /\ HaveHistograms =>
              visited = Diagonal(freq_nb_intervals(1))

(* The grids are the same, and two equal intervals meet.                   *)
LEMMA SameGridMeets ==
    ASSUME TypeOK, SameGrid
    PROVE  /\ freq_nb_intervals(2) = freq_nb_intervals(1)
           /\ interval_length(2) = interval_length(1)
           /\ freq_nb_intervals(1) \in Nat \ {0}
           /\ IsInRange(min(1), max(1), min(2), max(2))
           /\ (\A s \in Side : min_val[s] = min(1)) => LowMeet
           /\ (\A s \in Side : max_val[s] = max(1)) => HighMeet
  <1>1. freq_nb_intervals(2) = freq_nb_intervals(1) /\ interval_length(2) = interval_length(1)
    BY Zenon DEF SameGrid, freq_nb_intervals, interval_length, length
  <1>2. PICK n, l, a, b : /\ n = freq_nb_intervals(1) /\ l = interval_length(1)
                          /\ a = min(1) /\ b = max(1)
    BY Zenon
  <1>3. /\ n \in Nat \ {0} /\ l \in Nat \ {0} /\ a \in Int /\ b \in Int /\ a < b
        /\ a >= -IntMax - 1 /\ b <= IntMax
        /\ a + n * l <= IntMax /\ b - n * l >= -IntMax - 1
    <2>1. 1 \in Side /\ Proper(1) /\ call \in Calls
      BY Zenon DEF SameGrid, ProperColumns, Side, TypeOK
    <2>. QED  BY <1>2, <2>1, ProperGrid, Zenon
  <1>4. n * l \in Nat /\ l <= n * l
    <2>1. 1 * l <= n * l /\ n * l \in Nat /\ 1 * l = l
      BY <1>3, MultipleMonotone
    <2>. QED  BY <2>1, Zenon
  <1>5. a + l \in Int32 /\ b - l \in Int32
    BY <1>3, <1>4, IntMaxAssumption DEF Int32
  <1>6. Wrap(a + l) = a + l /\ Wrap(b - l) = b - l
    BY <1>5, WrapIdentity, Zenon
  <1>7. IsInRange(a, b, a, b) /\ IsInRange(a, a + l, a, a + l) /\ IsInRange(b - l, b, b - l, b)
    BY <1>3 DEF IsInRange
  <1>8. ASSUME \A s \in Side : min_val[s] = min(1)  PROVE LowMeet
    <2>1. min_val[1] = a /\ min_val[2] = a
      BY <1>2, <1>8, Zenon DEF Side
    <2>. QED  BY <1>1, <1>2, <1>6, <1>7, <2>1, Zenon DEF LowMeet
  <1>9. ASSUME \A s \in Side : max_val[s] = max(1)  PROVE HighMeet
    <2>1. max_val[1] = b /\ max_val[2] = b
      BY <1>2, <1>9, Zenon DEF Side
    <2>. QED  BY <1>1, <1>2, <1>6, <1>7, <2>1, Zenon DEF HighMeet
  <1>. QED  BY <1>1, <1>2, <1>3, <1>7, <1>8, <1>9, Zenon DEF SameGrid

(* Both cursors move on, and the pair before them is in the sum.           *)
LEMMA DiagonalSum ==
    ASSUME TypeOK, SameGrid, DiagonalInv, SumPair
    PROVE  /\ idx'[1] = idx[1] + 1 /\ idx'[2] = idx[1] + 1 /\ at'[1] = at'[2]
           /\ idx[1] < freq_nb_intervals(1)
           /\ visited' = Diagonal(idx[1] + 1)
  <1>1. pc = "sum" /\ \A s \in Side : idx[s] < size(s)
    BY Zenon DEF SumPair
  <1>2. /\ idx[1] = idx[2] /\ at[1] = at[2] /\ visited = Diagonal(idx[1])
        /\ low[1] = 0 /\ low[2] = 0 /\ high[1] = freq_nb_intervals(1) - 1
    BY <1>1, Zenon DEF DiagonalInv, Side
  <1>3. /\ freq_nb_intervals(1) \in Nat \ {0} /\ interval_length(2) = interval_length(1)
    BY SameGridMeets, Zenon
  <1>4. idx[1] \in Nat /\ idx[1] < freq_nb_intervals(1)
    BY <1>1, <1>2, <1>3 DEF size, Side, TypeOK
  <1>5. {s \in Side : at[s] <= at[Other(s)]} = Side
    <2>1. at[1] \in Int
      BY IntMaxAssumption DEF TypeOK, Side, Int32
    <2>2. \A s \in Side : at[s] <= at[Other(s)]
      BY <1>2, <2>1 DEF Side, Other
    <2>. QED  BY <2>2, Zenon
  <1>6. MoveOn(Side)
    BY <1>5, Zenon DEF SumPair
  <1>7. idx'[1] = idx[1] + 1 /\ idx'[2] = idx[2] + 1
    BY <1>6, Zenon DEF MoveOn, Side
  <1>8. at'[1] = at'[2]
    BY <1>2, <1>3, <1>6, Zenon DEF MoveOn, Side
  <1>9. visited' = visited \cup {<<idx[1], idx[1]>>}
    <2>1. low[1] + idx[1] = idx[1] /\ low[2] + idx[2] = idx[1]
      BY <1>2, <1>4
    <2>. QED  BY <2>1, Zenon DEF SumPair
  <1>10. visited' = Diagonal(idx[1] + 1)
    <2>1. PICK k \in Nat : k = idx[1]
      BY <1>4, Zenon
    <2>2. 0 .. (k + 1) - 1 = (0 .. k - 1) \cup {k}
      OBVIOUS
    <2>3. Diagonal(k + 1) = Diagonal(k) \cup {<<k, k>>}
      BY <2>2, Zenon DEF Diagonal
    <2>. QED  BY <1>2, <1>9, <2>1, <2>3, Zenon
  <1>. QED  BY <1>2, <1>4, <1>7, <1>8, <1>10, Zenon

(* Every step keeps to the diagonal.                                       *)
LEMMA DiagonalStep ==
    ASSUME TypeOK, DiagonalInv, [Next \/ Ended]_vars
    PROVE  DiagonalInv'
  <1>1. call' = call
    BY Zenon DEF Next, Ended, vars, JoinVariables, WrongOperator, Insecure, NoHistograms, Disjoint,
       Estimate, LowStep, LowDone, HighStep, HighDone, SumPair, SumDone
  <1>2. /\ SameGrid' <=> SameGrid
        /\ freq_nb_intervals(1)' = freq_nb_intervals(1) /\ min(1)' = min(1) /\ max(1)' = max(1)
        /\ call'.overlap_op = call.overlap_op /\ Secure' = Secure /\ HaveHistograms' = HaveHistograms
    BY <1>1, Zenon DEF SameGrid, ProperColumns, Proper, min, max, length, freq_nb_intervals,
       interval_length, Secure, HaveHistograms
  <1>3. SUFFICES ASSUME SameGrid  PROVE DiagonalInv'
    BY <1>2, Zenon DEF DiagonalInv
  <1>4. DiagonalInv!2
    BY <1>3, Zenon DEF DiagonalInv
  <1>5. /\ freq_nb_intervals(2) = freq_nb_intervals(1) /\ freq_nb_intervals(1) \in Nat \ {0}
        /\ IsInRange(min(1), max(1), min(2), max(2))
        /\ pc = "low" => LowMeet
        /\ pc = "high" => HighMeet
    BY <1>3, <1>4, SameGridMeets, Zenon
  <1>6. CASE JoinVariables
    BY <1>4, <1>6, Zenon DEF JoinVariables, locals, DiagonalInv
  <1>7. CASE WrongOperator
    BY <1>2, <1>7, Zenon DEF WrongOperator, locals, DiagonalInv
  <1>8. CASE Insecure
    BY <1>2, <1>8, Zenon DEF Insecure, locals, DiagonalInv
  <1>9. CASE NoHistograms
    BY <1>2, <1>9, Zenon DEF NoHistograms, locals, DiagonalInv
  <1>10. CASE Disjoint
    BY <1>5, <1>10, Zenon DEF Disjoint
  <1>11. CASE Estimate
    <2>1. /\ pc' = "low" /\ visited' = {}
          /\ low' = [s \in Side |-> 0]
          /\ high' = [s \in Side |-> freq_nb_intervals(s) - 1]
          /\ min_val' = [s \in Side |-> min(s)]
          /\ max_val' = [s \in Side |-> max(s)]
      BY <1>4, <1>11, Zenon DEF Estimate
    <2>2. \A s \in Side : /\ freq_nb_intervals(s) = freq_nb_intervals(1)
                          /\ min(s) = min(1) /\ max(s) = max(1)
      BY <1>3, <1>5, Zenon DEF Side, SameGrid
    <2>. QED  BY <1>2, <2>1, <2>2, Zenon DEF DiagonalInv
  <1>12. CASE \E s \in Side : LowStep(s) \/ HighStep(s)
    BY <1>5, <1>12, Zenon DEF LowStep, HighStep
  <1>13. CASE LowDone
    BY <1>2, <1>4, <1>13, Zenon DEF LowDone, locals, DiagonalInv
  <1>14. CASE HighDone
    <2>1. /\ pc = "high" /\ pc' = "sum" /\ idx' = [s \in Side |-> 0] /\ at' = min_val
          /\ UNCHANGED <<low, high, min_val, max_val, visited>>
      BY <1>14, Zenon DEF HighDone
    <2>2. idx'[1] = 0 /\ idx'[2] = 0 /\ at'[1] = at'[2]
      BY <1>4, <2>1, Zenon DEF Side
    <2>3. visited' = Diagonal(0)
      BY <1>4, <2>1 DEF Diagonal
    <2>. QED  BY <1>2, <1>4, <1>5, <2>1, <2>2, <2>3 DEF DiagonalInv
  <1>15. CASE SumPair
    <2>1. /\ idx'[1] = idx[1] + 1 /\ idx'[2] = idx[1] + 1 /\ at'[1] = at'[2]
          /\ idx[1] < freq_nb_intervals(1) /\ visited' = Diagonal(idx[1] + 1)
      BY <1>3, <1>15, DiagonalSum, Zenon
    <2>2. pc = "sum" /\ pc' = "sum" /\ UNCHANGED <<low, high, min_val, max_val>>
      BY <1>15, Zenon DEF SumPair
    <2>3. idx[1] \in Nat
      BY Zenon DEF TypeOK, Side
    <2>. QED  BY <1>2, <1>4, <1>5, <2>1, <2>2, <2>3 DEF DiagonalInv
  <1>16. CASE SumDone
    <2>1. pc = "sum" /\ pc' = "returned" /\ visited' = visited /\ \E s \in Side : idx[s] >= size(s)
      BY <1>16, Zenon DEF SumDone, locals
    <2>2. idx[1] = freq_nb_intervals(1)
      BY <1>4, <1>5, <2>1 DEF size, Side, TypeOK
    <2>. QED  BY <1>2, <1>4, <2>1, <2>2, Zenon DEF DiagonalInv
  <1>17. CASE Ended \/ UNCHANGED vars
    BY <1>2, <1>4, <1>17, Zenon DEF Ended, vars, DiagonalInv
  <1>. QED  BY <1>6, <1>7, <1>8, <1>9, <1>10, <1>11, <1>12, <1>13, <1>14, <1>15, <1>16, <1>17, Zenon
            DEF Next

(* For a column joined with one of the same bounds, computeSelectivity     *)
(* multiplies each frequency with its counterpart, all of them and no      *)
(* others.                                                                 *)
THEOREM SameGridSumsDiagonal == Spec => []SameGridDiagonal
  <1>1. Init => DiagonalInv
    BY Zenon DEF Init, DiagonalInv
  <1>2. DiagonalInv => SameGridDiagonal
    BY Zenon DEF DiagonalInv, SameGridDiagonal, SameGrid, Diagonal
  <1>. QED  BY <1>1, <1>2, TypeInit, TypeStep, DiagonalStep, PTL DEF Spec
-----------------------------------------------------------------------------
(* The two sides exchanged: each action, seen through the exchange, is the *)
(* same action of the other side.                                          *)

(* What does not depend on the sides is the same.                          *)
LEMMA ExchangedConstants ==
    /\ Swapped!Side = Side
    /\ \A s : Swapped!Other(s) = Other(s)
    /\ \A x : Swapped!Wrap(x) = Wrap(x)
    /\ \A x : Swapped!NbOfIntervals(x) = NbOfIntervals(x)
    /\ \A x, y : Swapped!roundUpDivision(x, y) = roundUpDivision(x, y)
    /\ \A a, b, c, d : Swapped!IsInRange(a, b, c, d) <=> IsInRange(a, b, c, d)
  <1>1. /\ Swapped!Side = Side
        /\ \A s : Swapped!Other(s) = Other(s)
        /\ \A x : Swapped!Wrap(x) = Wrap(x)
        /\ \A a, b, c, d : Swapped!IsInRange(a, b, c, d) <=> IsInRange(a, b, c, d)
    BY Zenon DEF Swapped!Side, Side, Swapped!Other, Other, Swapped!Wrap, Wrap,
       Swapped!IsInRange, IsInRange
  <1>2. \A x, y : Swapped!CDiv(x, y) = CDiv(x, y)
    BY Zenon DEF Swapped!CDiv, CDiv, Swapped!Abs, Abs
  <1>3. \A x, y : Swapped!roundUpDivision(x, y) = roundUpDivision(x, y)
    BY <1>2, Zenon DEF Swapped!roundUpDivision, roundUpDivision, Swapped!CMod, CMod
  <1>4. \A x : Swapped!NbOfIntervals(x) = NbOfIntervals(x)
    BY <1>2, <1>3, Zenon DEF Swapped!NbOfIntervals, NbOfIntervals,
       Swapped!WeightDivider, WeightDivider
  <1>. QED  BY <1>1, <1>3, <1>4, Zenon

(* An exchanged function, and an update of one.                            *)
Put(f, s, v) == [f EXCEPT ![s] = v]

LEMMA ExchangedUpdate ==
    ASSUME NEW S, NEW f \in [Side -> S], NEW s \in Side, NEW v
    PROVE  /\ Exchanged(f)[s] = f[Other(s)]
           /\ Exchanged(f)[Other(s)] = f[s]
           /\ Exchanged(Put(f, s, v)) = Put(Exchanged(f), Other(s), v)
  <1>1. \A t \in Side : Other(t) \in Side /\ Other(Other(t)) = t
    BY Sides, Zenon
  <1>2. \A t \in Side : Exchanged(f)[t] = f[Other(t)]
    BY Zenon DEF Exchanged
  <1>3. ASSUME NEW t \in Side
        PROVE  Put(f, s, v)[Other(t)] = Put(Exchanged(f), Other(s), v)[t]
    <2>1. CASE t = Other(s)
      <3>1. Put(f, s, v)[s] = v
        BY Zenon DEF Put
      <3>2. Put(Exchanged(f), Other(s), v)[Other(s)] = v
        BY <1>1, Zenon DEF Put, Exchanged
      <3>. QED  BY <1>1, <2>1, <3>1, <3>2, Zenon
    <2>2. CASE t # Other(s)
      <3>1. Other(t) # s /\ Other(t) \in Side
        BY <1>1, <2>2, Zenon
      <3>2. Put(f, s, v)[Other(t)] = f[Other(t)]
        BY <3>1, Zenon DEF Put
      <3>3. Put(Exchanged(f), Other(s), v)[t] = Exchanged(f)[t]
        BY <2>2, Zenon DEF Put, Exchanged
      <3>. QED  BY <1>2, <3>2, <3>3, Zenon
    <2>. QED  BY <2>1, <2>2, Zenon
  <1>4. Put(Exchanged(f), Other(s), v) = [t \in Side |-> Put(Exchanged(f), Other(s), v)[t]]
    <2>1. PICK g, r, x : g = Exchanged(f) /\ r = Other(s) /\ x = Put(g, r, v)
      BY Zenon
    <2>2. g = [t \in Side |-> g[t]]
      BY <2>1, Zenon DEF Exchanged
    <2>. QED  BY <2>1, <2>2, Zenon DEF Put
  <1>5. Exchanged(Put(f, s, v)) = [t \in Side |-> Put(f, s, v)[Other(t)]]
    BY Zenon DEF Exchanged
  <1>6. [t \in Side |-> Put(f, s, v)[Other(t)]] = [t \in Side |-> Put(Exchanged(f), Other(s), v)[t]]
    BY <1>3, Zenon
  <1>. QED  BY <1>1, <1>2, <1>4, <1>5, <1>6, Zenon

(* The statistics of a side are those of the other side.                   *)
LEMMA ExchangedStats ==
    ASSUME call \in Calls, NEW s \in Side
    PROVE  /\ Swapped!min(s) = min(Other(s)) /\ Swapped!max(s) = max(Other(s))
           /\ Swapped!freq_nb_intervals(s) = freq_nb_intervals(Other(s))
           /\ Swapped!interval_length(s) = interval_length(Other(s))
           /\ [call EXCEPT !.stats = Exchanged(@)].stats[s] = call.stats[Other(s)]
  <1>1. [call EXCEPT !.stats = Exchanged(@)].stats = Exchanged(call.stats)
    BY CallsAssumption, Zenon
  <1>2. [call EXCEPT !.stats = Exchanged(@)].stats[s] = call.stats[Other(s)]
    BY <1>1, Zenon DEF Exchanged
  <1>3. Swapped!min(s) = min(Other(s)) /\ Swapped!max(s) = max(Other(s))
    BY <1>2, Zenon DEF Swapped!min, Swapped!max, min, max
  <1>4. Swapped!length(s) = length(Other(s))
    BY <1>3, ExchangedConstants, Zenon DEF Swapped!length, length
  <1>5. Swapped!freq_nb_intervals(s) = freq_nb_intervals(Other(s))
    BY <1>4, ExchangedConstants, Zenon DEF Swapped!freq_nb_intervals, freq_nb_intervals
  <1>6. Swapped!interval_length(s) = interval_length(Other(s))
    BY <1>4, <1>5, ExchangedConstants, Zenon DEF Swapped!interval_length, interval_length
  <1>. QED  BY <1>2, <1>3, <1>5, <1>6, Zenon

(* The checks and the conditions of the two loops do not tell the sides    *)
(* apart.                                                                  *)
LEMMA ExchangedConditions ==
    ASSUME TypeOK
    PROVE  /\ [call EXCEPT !.stats = Exchanged(@)].overlap_op = call.overlap_op
           /\ Swapped!Secure <=> Secure
           /\ Swapped!HaveHistograms <=> HaveHistograms
           /\ Swapped!IsInRange(Swapped!min(1), Swapped!max(1), Swapped!min(2), Swapped!max(2))
                <=> IsInRange(min(1), max(1), min(2), max(2))
           /\ Swapped!LowMeet <=> LowMeet
           /\ Swapped!HighMeet <=> HighMeet
  <1>0. call \in Calls /\ 1 \in Side /\ 2 \in Side /\ Other(1) = 2 /\ Other(2) = 1
    BY DEF TypeOK, Side, Other
  <1>1. [call EXCEPT !.stats = Exchanged(@)].overlap_op = call.overlap_op
    BY <1>0, CallsAssumption, Zenon
  <1>2. \A s \in Side : [call EXCEPT !.stats = Exchanged(@)].stats[s] = call.stats[Other(s)]
    BY <1>0, ExchangedStats, Zenon
  <1>3. \A s \in Side : Other(s) \in Side /\ Other(Other(s)) = s
    BY Sides, Zenon
  <1>4. Swapped!Secure <=> Secure
    BY <1>2, <1>3, ExchangedConstants, Zenon DEF Swapped!Secure, Secure
  <1>5. Swapped!HaveHistograms <=> HaveHistograms
    BY <1>2, <1>3, ExchangedConstants, Zenon DEF Swapped!HaveHistograms, HaveHistograms
  <1>6. \A a, b, c, d \in Int : IsInRange(a, b, c, d) <=> IsInRange(c, d, a, b)
    BY Zenon DEF IsInRange
  <1>7. \A s \in Side : /\ min(s) \in Int /\ max(s) \in Int
                        /\ interval_length(s) \in Int
                        /\ min_val[s] \in Int /\ max_val[s] \in Int
    BY <1>0, CallTypes, IntMaxAssumption DEF TypeOK, Int32
  <1>8. Swapped!IsInRange(Swapped!min(1), Swapped!max(1), Swapped!min(2), Swapped!max(2))
          <=> IsInRange(min(1), max(1), min(2), max(2))
    <2>1. /\ Swapped!min(1) = min(2) /\ Swapped!max(1) = max(2)
          /\ Swapped!min(2) = min(1) /\ Swapped!max(2) = max(1)
      BY <1>0, ExchangedStats, Zenon
    <2>. QED  BY <1>0, <1>6, <1>7, <2>1, ExchangedConstants, Zenon
  <1>9. /\ Swapped!interval_length(1) = interval_length(2)
        /\ Swapped!interval_length(2) = interval_length(1)
        /\ Exchanged(min_val)[1] = min_val[2] /\ Exchanged(min_val)[2] = min_val[1]
        /\ Exchanged(max_val)[1] = max_val[2] /\ Exchanged(max_val)[2] = max_val[1]
    BY <1>0, ExchangedStats, Zenon DEF Exchanged
  <1>10. \A x \in Int : Wrap(x) \in Int
    BY WrapType, IntMaxAssumption DEF Int32
  <1>11. Swapped!LowMeet <=> LowMeet
    <2>0. Wrap(min_val[1] + interval_length(1)) \in Int /\ Wrap(min_val[2] + interval_length(2)) \in Int
      <3>1. min_val[1] + interval_length(1) \in Int /\ min_val[2] + interval_length(2) \in Int
        BY <1>0, <1>7
      <3>. QED  BY <1>10, <3>1, Zenon
    <2>1. PICK a, b, c, d \in Int : /\ a = min_val[1] /\ b = Wrap(min_val[1] + interval_length(1))
                                    /\ c = min_val[2] /\ d = Wrap(min_val[2] + interval_length(2))
      BY <1>0, <1>7, <2>0, Zenon
    <2>2. LowMeet <=> IsInRange(a, b, c, d)
      BY <2>1, Zenon DEF LowMeet
    <2>3. Swapped!LowMeet <=> IsInRange(c, d, a, b)
      BY <1>9, <2>1, ExchangedConstants, Zenon DEF Swapped!LowMeet
    <2>. QED  BY <1>6, <2>2, <2>3, Zenon
  <1>12. Swapped!HighMeet <=> HighMeet
    <2>0. Wrap(max_val[1] - interval_length(1)) \in Int /\ Wrap(max_val[2] - interval_length(2)) \in Int
      <3>1. max_val[1] - interval_length(1) \in Int /\ max_val[2] - interval_length(2) \in Int
        BY <1>0, <1>7
      <3>. QED  BY <1>10, <3>1, Zenon
    <2>1. PICK a, b, c, d \in Int : /\ a = Wrap(max_val[1] - interval_length(1)) /\ b = max_val[1]
                                    /\ c = Wrap(max_val[2] - interval_length(2)) /\ d = max_val[2]
      BY <1>0, <1>7, <2>0, Zenon
    <2>2. HighMeet <=> IsInRange(a, b, c, d)
      BY <2>1, Zenon DEF HighMeet
    <2>3. Swapped!HighMeet <=> IsInRange(c, d, a, b)
      BY <1>9, <2>1, ExchangedConstants, Zenon DEF Swapped!HighMeet
    <2>. QED  BY <1>6, <2>2, <2>3, Zenon
  <1>. QED  BY <1>1, <1>4, <1>5, <1>8, <1>11, <1>12, Zenon

(* The actions before the loops, and the ends of the loops.                *)
LEMMA ExchangedChecks ==
    ASSUME TypeOK
    PROVE  /\ JoinVariables => Swapped!JoinVariables
           /\ WrongOperator => Swapped!WrongOperator
           /\ Insecure => Swapped!Insecure
           /\ NoHistograms => Swapped!NoHistograms
           /\ Disjoint => Swapped!Disjoint
           /\ LowDone => Swapped!LowDone
  <1>1. JoinVariables => Swapped!JoinVariables
    <2>1. SUFFICES ASSUME JoinVariables  PROVE Swapped!JoinVariables
      BY Zenon
    <2>2. pc = "variables" /\ pins' = {s \in Side : call.stats[s].tuple} /\ pc' = "checks"
          /\ UNCHANGED <<call, locals>>
      BY <2>1, Zenon DEF JoinVariables
    <2>3. \A s \in Side : [call EXCEPT !.stats = Exchanged(@)].stats[s] = call.stats[Other(s)]
      BY ExchangedStats, Zenon DEF TypeOK
    <2>4. {Other(s) : s \in pins'} =
             {s \in Side : [call EXCEPT !.stats = Exchanged(@)].stats[s].tuple}
      <3>1. \A s \in Side : Other(s) \in Side /\ Other(Other(s)) = s
        BY Sides, Zenon
      <3>2. \A s \in Side : s \in {Other(t) : t \in pins'} <=> call.stats[Other(s)].tuple
        BY <2>2, <3>1, Zenon
      <3>3. {Other(t) : t \in pins'} \subseteq Side
        BY <2>2, <3>1, Zenon
      <3>. QED  BY <2>3, <3>2, <3>3, Zenon
    <2>. QED  BY <2>2, <2>4, ExchangedConstants, Zenon DEF Swapped!JoinVariables, Swapped!locals, locals
  <1>2. WrongOperator => Swapped!WrongOperator
    BY ExchangedConditions, Zenon DEF WrongOperator, Swapped!WrongOperator, locals, Swapped!locals
  <1>3. Insecure => Swapped!Insecure
    BY ExchangedConditions, Zenon DEF Insecure, Swapped!Insecure, locals, Swapped!locals
  <1>4. ASSUME pins' = {}  PROVE {Other(s) : s \in pins'} = {}
    BY <1>4, Zenon
  <1>5. NoHistograms => Swapped!NoHistograms
    BY <1>4, ExchangedConditions, Zenon DEF NoHistograms, Swapped!NoHistograms, locals, Swapped!locals
  <1>6. Disjoint => Swapped!Disjoint
    BY <1>4, ExchangedConditions, Zenon DEF Disjoint, Swapped!Disjoint, locals, Swapped!locals
  <1>7. LowDone => Swapped!LowDone
    BY ExchangedConditions, Zenon DEF LowDone, Swapped!LowDone, locals, Swapped!locals
  <1>. QED  BY <1>1, <1>2, <1>3, <1>5, <1>6, <1>7, Zenon

(* The entry of rangeoverlapsjoinsel_inner.                                *)
LEMMA ExchangedEstimate ==
    ASSUME TypeOK, Estimate
    PROVE  Swapped!Estimate
  <1>1. \A s \in Side : /\ Other(s) \in Side /\ Swapped!min(s) = min(Other(s))
                        /\ Swapped!max(s) = max(Other(s))
                        /\ Swapped!freq_nb_intervals(s) = freq_nb_intervals(Other(s))
    BY Sides, ExchangedStats, Zenon DEF TypeOK
  <1>2. /\ Exchanged(low') = [s \in Side |-> 0]
        /\ Exchanged(high') = [s \in Side |-> Swapped!freq_nb_intervals(s) - 1]
        /\ Exchanged(min_val') = [s \in Side |-> Swapped!min(s)]
        /\ Exchanged(max_val') = [s \in Side |-> Swapped!max(s)]
    BY <1>1, Zenon DEF Estimate, Exchanged
  <1>3. /\ pc = "checks" /\ pc' = "low" /\ UNCHANGED <<call, pins, idx, at, visited>>
        /\ call.overlap_op /\ Secure /\ HaveHistograms
        /\ IsInRange(min(1), max(1), min(2), max(2))
    BY Zenon DEF Estimate
  <1>. QED  BY <1>2, <1>3, ExchangedConditions, ExchangedConstants, Zenon DEF Swapped!Estimate

(* The LOW loop.                                                           *)
LEMMA ExchangedLowStep ==
    ASSUME TypeOK, NEW s \in Side, LowStep(s)
    PROVE  Swapped!LowStep(Other(s))
  <1>1. /\ Other(s) \in Swapped!Side /\ Other(s) \in Side /\ Swapped!Other(Other(s)) = s
        /\ Other(Other(s)) = s /\ Swapped!Side = Side
    BY Sides, ExchangedConstants, Zenon
  <1>2. /\ Exchanged(min_val)[Other(s)] = min_val[s] /\ Exchanged(min_val)[s] = min_val[Other(s)]
        /\ Exchanged(low)[Other(s)] = low[s]
    BY ExchangedUpdate, Zenon DEF TypeOK
  <1>3. pc = "low" /\ ~Swapped!LowMeet
    BY ExchangedConditions, Zenon DEF LowStep
  <1>4. /\ UNCHANGED <<call, pins, high, max_val, idx, at, visited>>
        /\ \/ min_val[s] < min_val[Other(s)] /\ LowSkip(s)
           \/ min_val[s] = min_val[Other(s)] /\ pc' = "lowerror" /\ UNCHANGED <<low, min_val>>
    BY Zenon DEF LowStep
  <1>5. ASSUME LowSkip(s)  PROVE Swapped!LowSkip(Other(s))
    <2>1. Swapped!interval_length(Other(s)) = interval_length(s)
      BY <1>1, ExchangedStats, Zenon DEF TypeOK
    <2>2. \A t \in Side : Swapped!freq_nb_intervals(t) = freq_nb_intervals(Other(t))
      BY ExchangedStats, Zenon DEF TypeOK
    <2>3. PICK v, w : v = Wrap(min_val[s] + interval_length(s)) /\ w = low[s] + 1
      BY Zenon
    <2>4. min_val' = [min_val EXCEPT ![s] = v] /\ low' = [low EXCEPT ![s] = w]
      BY <1>5, <2>3, Zenon DEF LowSkip
    <2>5. /\ Exchanged(min_val') = [Exchanged(min_val) EXCEPT ![Other(s)] = v]
          /\ Exchanged(low') = [Exchanged(low) EXCEPT ![Other(s)] = w]
      <3>1. min_val \in [Side -> Int32] /\ low \in [Side -> Nat]
        BY Zenon DEF TypeOK
      <3>2. /\ Exchanged(Put(min_val, s, v)) = Put(Exchanged(min_val), Other(s), v)
            /\ Exchanged(Put(low, s, w)) = Put(Exchanged(low), Other(s), w)
        BY <3>1, ExchangedUpdate, Zenon
      <3>. QED  BY <2>4, <3>2, Zenon DEF Put
    <2>6. /\ v = Swapped!Wrap(Exchanged(min_val)[Other(s)] + Swapped!interval_length(Other(s)))
          /\ w = Exchanged(low)[Other(s)] + 1
      BY <1>2, <2>1, <2>3, ExchangedConstants, Zenon
    <2>7. (\E t \in Side : Exchanged(low')[t] = Swapped!freq_nb_intervals(t)) <=> (\E t \in Side : low'[t] = freq_nb_intervals(t))
      <3>1. \A t \in Side : /\ Other(t) \in Side /\ Other(Other(t)) = t
                            /\ Exchanged(low')[t] = low'[Other(t)]
        BY Sides, Zenon DEF Exchanged
      <3>2. \A t \in Side : Swapped!freq_nb_intervals(Other(t)) = freq_nb_intervals(t)
        BY <2>2, <3>1, Zenon
      <3>3. \A t \in Side : Exchanged(low')[Other(t)] = low'[t]
        BY <3>1, Zenon
      <3>4. ASSUME NEW t \in Side, Exchanged(low')[t] = Swapped!freq_nb_intervals(t)
            PROVE  \E u \in Side : low'[u] = freq_nb_intervals(u)
        <4>1. low'[Other(t)] = freq_nb_intervals(Other(t)) /\ Other(t) \in Side
          BY <2>2, <3>1, <3>4, Zenon
        <4>. QED  BY <4>1, Zenon
      <3>5. ASSUME NEW t \in Side, low'[t] = freq_nb_intervals(t)
            PROVE  \E u \in Side : Exchanged(low')[u] = Swapped!freq_nb_intervals(u)
        <4>1. Exchanged(low')[Other(t)] = Swapped!freq_nb_intervals(Other(t)) /\ Other(t) \in Side
          BY <3>1, <3>2, <3>3, <3>5, Zenon
        <4>. QED  BY <4>1, Zenon
      <3>. QED  BY <3>4, <3>5, Zenon
    <2>8. pc' = IF \E t \in Side : low'[t] = freq_nb_intervals(t) THEN "lowerror" ELSE "low"
      BY <1>5, Zenon DEF LowSkip
    <2>9. pc' = IF \E t \in Swapped!Side : Exchanged(low')[t] = Swapped!freq_nb_intervals(t) THEN "lowerror" ELSE "low"
      BY <1>1, <2>7, <2>8, Zenon
    <2>. QED  BY <2>5, <2>6, <2>9, Zenon DEF Swapped!LowSkip
  <1>6. CASE min_val[s] < min_val[Other(s)] /\ LowSkip(s)
    <2>1. Exchanged(min_val)[Other(s)] < Exchanged(min_val)[Swapped!Other(Other(s))]
      BY <1>1, <1>2, <1>6, Zenon
    <2>. QED  BY <1>3, <1>4, <1>5, <1>6, <2>1, Zenon DEF Swapped!LowStep
  <1>7. CASE min_val[s] = min_val[Other(s)] /\ pc' = "lowerror" /\ UNCHANGED <<low, min_val>>
    <2>1. Exchanged(min_val)[Other(s)] = Exchanged(min_val)[Swapped!Other(Other(s))]
      BY <1>1, <1>2, <1>7, Zenon
    <2>. QED  BY <1>3, <1>4, <1>7, <2>1, Zenon DEF Swapped!LowStep
  <1>. QED  BY <1>4, <1>6, <1>7, Zenon

(* The HIGH loop.                                                          *)
LEMMA ExchangedHighStep ==
    ASSUME TypeOK, NEW s \in Side, HighStep(s)
    PROVE  Swapped!HighStep(Other(s))
  <1>1. /\ Other(s) \in Swapped!Side /\ Other(s) \in Side /\ Swapped!Other(Other(s)) = s
        /\ Other(Other(s)) = s /\ Swapped!Side = Side
    BY Sides, ExchangedConstants, Zenon
  <1>2. /\ Exchanged(max_val)[Other(s)] = max_val[s] /\ Exchanged(max_val)[s] = max_val[Other(s)]
        /\ Exchanged(high)[Other(s)] = high[s]
    BY ExchangedUpdate, Zenon DEF TypeOK
  <1>3. pc = "high" /\ ~Swapped!HighMeet
    BY ExchangedConditions, Zenon DEF HighStep
  <1>4. /\ UNCHANGED <<call, pins, low, min_val, idx, at, visited>>
        /\ \/ max_val[s] > max_val[Other(s)] /\ HighSkip(s)
           \/ max_val[s] = max_val[Other(s)] /\ pc' = "higherror" /\ UNCHANGED <<high, max_val>>
    BY Zenon DEF HighStep
  <1>5. ASSUME HighSkip(s)  PROVE Swapped!HighSkip(Other(s))
    <2>1. Swapped!interval_length(Other(s)) = interval_length(s)
      BY <1>1, ExchangedStats, Zenon DEF TypeOK
    <2>2. \A t \in Side : Swapped!freq_nb_intervals(t) = freq_nb_intervals(Other(t))
      BY ExchangedStats, Zenon DEF TypeOK
    <2>3. PICK v, w : v = Wrap(max_val[s] - interval_length(s)) /\ w = high[s] - 1
      BY Zenon
    <2>4. max_val' = [max_val EXCEPT ![s] = v] /\ high' = [high EXCEPT ![s] = w]
      BY <1>5, <2>3, Zenon DEF HighSkip
    <2>5. /\ Exchanged(max_val') = [Exchanged(max_val) EXCEPT ![Other(s)] = v]
          /\ Exchanged(high') = [Exchanged(high) EXCEPT ![Other(s)] = w]
      <3>1. max_val \in [Side -> Int32] /\ high \in [Side -> Int]
        BY Zenon DEF TypeOK
      <3>2. /\ Exchanged(Put(max_val, s, v)) = Put(Exchanged(max_val), Other(s), v)
            /\ Exchanged(Put(high, s, w)) = Put(Exchanged(high), Other(s), w)
        BY <3>1, ExchangedUpdate, Zenon
      <3>. QED  BY <2>4, <3>2, Zenon DEF Put
    <2>6. /\ v = Swapped!Wrap(Exchanged(max_val)[Other(s)] - Swapped!interval_length(Other(s)))
          /\ w = Exchanged(high)[Other(s)] - 1
      BY <1>2, <2>1, <2>3, ExchangedConstants, Zenon
    <2>7. (\E t \in Side : Exchanged(high')[t] = 0) <=> (\E t \in Side : high'[t] = 0)
      <3>1. \A t \in Side : /\ Other(t) \in Side /\ Other(Other(t)) = t
                            /\ Exchanged(high')[t] = high'[Other(t)]
        BY Sides, Zenon DEF Exchanged
      <3>. QED  BY <2>2, <3>1, Zenon
    <2>8. pc' = IF \E t \in Side : high'[t] = 0 THEN "higherror" ELSE "high"
      BY <1>5, Zenon DEF HighSkip
    <2>9. pc' = IF \E t \in Swapped!Side : Exchanged(high')[t] = 0 THEN "higherror" ELSE "high"
      BY <1>1, <2>7, <2>8, Zenon
    <2>. QED  BY <2>5, <2>6, <2>9, Zenon DEF Swapped!HighSkip
  <1>6. CASE max_val[s] > max_val[Other(s)] /\ HighSkip(s)
    <2>1. Exchanged(max_val)[Other(s)] > Exchanged(max_val)[Swapped!Other(Other(s))]
      BY <1>1, <1>2, <1>6, Zenon
    <2>. QED  BY <1>3, <1>4, <1>5, <1>6, <2>1, Zenon DEF Swapped!HighStep
  <1>7. CASE max_val[s] = max_val[Other(s)] /\ pc' = "higherror" /\ UNCHANGED <<high, max_val>>
    <2>1. Exchanged(max_val)[Other(s)] = Exchanged(max_val)[Swapped!Other(Other(s))]
      BY <1>1, <1>2, <1>7, Zenon
    <2>. QED  BY <1>3, <1>4, <1>7, <2>1, Zenon DEF Swapped!HighStep
  <1>. QED  BY <1>4, <1>6, <1>7, Zenon

(* computeSelectivity.                                                     *)
LEMMA ExchangedSum ==
    ASSUME TypeOK
    PROVE  /\ HighDone => Swapped!HighDone
           /\ SumPair => Swapped!SumPair
           /\ SumDone => Swapped!SumDone
  <1>0. \A s \in Side : Other(s) \in Side /\ Other(Other(s)) = s
    BY Sides, Zenon
  <1>1. ASSUME HighDone  PROVE Swapped!HighDone
    <2>1. Exchanged(idx') = [s \in Side |-> 0]
      BY <1>0, <1>1, Zenon DEF HighDone, Exchanged
    <2>. QED  BY <1>1, <2>1, ExchangedConditions, ExchangedConstants, Zenon DEF HighDone, Swapped!HighDone
  <1>2. \A s \in Side : /\ Exchanged(idx)[s] = idx[Other(s)] /\ Exchanged(at)[s] = at[Other(s)]
                        /\ Exchanged(low)[s] = low[Other(s)] /\ Swapped!size(s) = size(Other(s))
    BY Zenon DEF Exchanged, size, Swapped!size
  <1>3. ASSUME SumPair  PROVE Swapped!SumPair
    <2>1. pc = "sum" /\ UNCHANGED <<pc, call, pins, low, high, min_val, max_val>>
      BY <1>3, Zenon DEF SumPair
    <2>2. \A s \in Side : Exchanged(idx)[s] < Swapped!size(s)
      BY <1>0, <1>2, <1>3, Zenon DEF SumPair
    <2>3. PICK x, y : x = low[1] + idx[1] /\ y = low[2] + idx[2]
      BY Zenon
    <2>4. visited' = visited \cup {<<x, y>>}
      BY <1>3, <2>3, Zenon DEF SumPair
    <2>5. {<<p[2], p[1]>> : p \in visited'} = {<<p[2], p[1]>> : p \in visited} \cup {<<y, x>>}
      <3>1. <<x, y>>[1] = x /\ <<x, y>>[2] = y
        BY Zenon
      <3>. QED  BY <2>4, <3>1, Zenon
    <2>6. y = Exchanged(low)[1] + Exchanged(idx)[1] /\ x = Exchanged(low)[2] + Exchanged(idx)[2]
      <3>1. 1 \in Side /\ 2 \in Side /\ Other(1) = 2 /\ Other(2) = 1
        BY DEF Side, Other
      <3>. QED  BY <1>2, <2>3, <3>1, Zenon
    <2>7. PICK S : S = {s \in Side : at[s] <= at[Other(s)]}
      BY Zenon
    <2>8. PICK T : T = {s \in Side : Exchanged(at)[s] <= Exchanged(at)[Other(s)]}
      BY Zenon
    <2>9. \A s \in Side : s \in T <=> Other(s) \in S
      BY <1>0, <1>2, <2>7, <2>8, Zenon
    <2>10. MoveOn(S)
      BY <1>3, <2>7, Zenon DEF SumPair
    <2>11. \A s \in Side : Swapped!interval_length(s) = interval_length(Other(s))
      BY ExchangedStats, Zenon DEF TypeOK
    <2>12. Exchanged(idx') = [s \in Side |-> Exchanged(idx)[s] + (IF s \in T THEN 1 ELSE 0)]
      <3>1. \A s \in Side : idx'[Other(s)] = Exchanged(idx)[s] + (IF s \in T THEN 1 ELSE 0)
        BY <1>0, <1>2, <2>9, <2>10, Zenon DEF MoveOn
      <3>. QED  BY <3>1, Zenon DEF Exchanged
    <2>13. Exchanged(at') = [s \in Side |-> IF s \in T
                                 THEN Swapped!Wrap(Exchanged(at)[s] + Swapped!interval_length(s))
                                 ELSE Exchanged(at)[s]]
      <3>1. \A s \in Side : Swapped!Wrap(Exchanged(at)[s] + Swapped!interval_length(s))
                              = Wrap(at[Other(s)] + interval_length(Other(s)))
        BY <1>2, <2>11, ExchangedConstants, Zenon
      <3>2. \A s \in Side : at'[s] = IF s \in S THEN Wrap(at[s] + interval_length(s)) ELSE at[s]
        BY <2>10, Zenon DEF MoveOn
      <3>3. \A s \in Side : at'[Other(s)] = IF s \in T
                                 THEN Swapped!Wrap(Exchanged(at)[s] + Swapped!interval_length(s))
                                 ELSE Exchanged(at)[s]
        BY <1>0, <1>2, <2>9, <3>1, <3>2, Zenon
      <3>. QED  BY <3>3, Zenon DEF Exchanged
    <2>14. Swapped!MoveOn(T)
      BY <2>12, <2>13, ExchangedConstants, Zenon DEF Swapped!MoveOn
    <2>15. T = {s \in Swapped!Side : Exchanged(at)[s] <= Exchanged(at)[Swapped!Other(s)]}
      BY <2>8, ExchangedConstants, Zenon
    <2>16. Swapped!MoveOn({s \in Swapped!Side : Exchanged(at)[s] <= Exchanged(at)[Swapped!Other(s)]})
      BY <2>14, <2>15, Zenon
    <2>. QED  BY <2>1, <2>2, <2>5, <2>6, <2>16, ExchangedConstants, Zenon DEF Swapped!SumPair
  <1>4. ASSUME SumDone  PROVE Swapped!SumDone
    <2>1. \E s \in Swapped!Side : Exchanged(idx)[s] >= Swapped!size(s)
      BY <1>0, <1>2, <1>4, ExchangedConstants, Zenon DEF SumDone
    <2>2. {Other(s) : s \in pins'} = {}
      BY <1>4, Zenon DEF SumDone
    <2>. QED  BY <1>4, <2>1, <2>2, ExchangedConstants, Zenon DEF SumDone, Swapped!SumDone, locals, Swapped!locals
  <1>. QED  BY <1>1, <1>3, <1>4, Zenon

(* Initially too the exchanged state is one of the exchanged calls.        *)
LEMMA ExchangedInit == Init => Swapped!Init
  <1>1. SUFFICES ASSUME Init  PROVE Swapped!Init
    BY Zenon
  <1>2. Exchanged([s \in Side |-> 0]) = [s \in Side |-> 0]
    BY DEF Exchanged, Side, Other
  <1>3. {Other(s) : s \in pins} = {} /\ {<<p[2], p[1]>> : p \in visited} = {}
    BY <1>1, Zenon DEF Init
  <1>4. [call EXCEPT !.stats = Exchanged(@)] \in {[c EXCEPT !.stats = Exchanged(@)] : c \in Calls}
    BY <1>1, Zenon DEF Init
  <1>. QED  BY <1>1, <1>2, <1>3, <1>4, ExchangedConstants, Zenon DEF Init, Swapped!Init

(* r1.a && r2.b and r2.b && r1.a are estimated alike: every behaviour of   *)
(* rangeoverlapsjoinsel is one with the two sides exchanged.               *)
THEOREM JoinSidesExchangeable == Spec => SidesExchangeable
  <1>1. ASSUME TypeOK, [Next \/ Ended]_vars
        PROVE  [Swapped!Next \/ Swapped!Ended]_(Swapped!vars)
    <2>1. CASE \E s \in Side : LowStep(s) \/ HighStep(s)
      <3>1. PICK s \in Side : LowStep(s) \/ HighStep(s)
        BY <2>1, Zenon
      <3>2. Other(s) \in Swapped!Side /\ (Swapped!LowStep(Other(s)) \/ Swapped!HighStep(Other(s)))
        BY <1>1, <3>1, Sides, ExchangedConstants, ExchangedLowStep, ExchangedHighStep, Zenon
      <3>. QED  BY <3>2, Zenon DEF Swapped!Next
    <2>2. CASE JoinVariables \/ WrongOperator \/ Insecure \/ NoHistograms \/ Disjoint \/ LowDone
      BY <1>1, <2>2, ExchangedChecks, Zenon DEF Swapped!Next
    <2>3. CASE Estimate \/ HighDone \/ SumPair \/ SumDone
      BY <1>1, <2>3, ExchangedEstimate, ExchangedSum, Zenon DEF Swapped!Next
    <2>4. CASE Ended \/ UNCHANGED vars
      BY <2>4, Zenon DEF Ended, vars, Swapped!vars
    <2>. QED  BY <1>1, <2>1, <2>2, <2>3, <2>4, Zenon DEF Next
  <1>. QED  BY <1>1, ExchangedInit, TypeInit, TypeStep, PTL DEF Spec, SidesExchangeable

-----------------------------------------------------------------------------
(* The binary searches.                                                    *)


(* The inductive invariant: the answer lies between lower and upper.       *)
SearchInv ==
    /\ lower <= upper
    /\ \A j \in Index : j <= lower => Below(j, search.value)
    /\ \A j \in Index : j > upper => ~Below(j, search.value)
    /\ phase # "search" => lower = upper
    /\ phase = "found" => search.kind = "bounds"

(* What a call consists of.                                                *)
LEMMA SearchFacts ==
    ASSUME search \in Searches
    PROVE  /\ search.kind \in {"bounds", "lengths"} /\ search.equal \in BOOLEAN
           /\ hist_length \in Nat \ {0, 1}
           /\ \A j \in Index : search.hist[j] \in Entry(search.kind)
           /\ \A j, h \in Index : j <= h => Cmp(search.kind, search.hist[j], search.hist[h]) <= 0
           /\ search.value \in Entry(search.kind)
  BY SearchesAssumption, Zenon DEF hist_length, Index, Sorted

(* An entry at or below another one that is below a third is below it.     *)
LEMMA CmpMixed ==
    ASSUME NEW kind \in {"bounds", "lengths"},
           NEW p \in Entry(kind), NEW q \in Entry(kind), NEW r \in Entry(kind),
           Cmp(kind, p, q) <= 0
    PROVE  /\ Cmp(kind, q, r) \in {-1, 0, 1} /\ Cmp(kind, p, r) \in {-1, 0, 1}
           /\ Cmp(kind, q, r) < 0 => Cmp(kind, p, r) < 0
           /\ Cmp(kind, q, r) <= 0 => Cmp(kind, p, r) <= 0
  <1>1. CASE kind = "lengths"
    BY <1>1 DEF Cmp, CmpVal, Entry
  <1>2. CASE kind = "bounds"
    <2>1. /\ p \in RangeBound /\ q \in RangeBound /\ r \in RangeBound
          /\ range_cmp_bounds(p, q) <= 0
      BY <1>2, Zenon DEF Entry, Cmp
    <2>2. /\ range_cmp_bounds(q, r) \in {-1, 0, 1} /\ range_cmp_bounds(p, r) \in {-1, 0, 1}
          /\ range_cmp_bounds(r, q) = -range_cmp_bounds(q, r)
          /\ range_cmp_bounds(r, p) = -range_cmp_bounds(p, r)
      BY <2>1, CmpBoundsType, CmpBoundsAntisymmetric, Zenon
    <2>3. range_cmp_bounds(q, r) <= 0 => range_cmp_bounds(p, r) <= 0
      BY <2>1, CmpBoundsTransitive, Zenon
    <2>4. ASSUME range_cmp_bounds(q, r) < 0, ~ (range_cmp_bounds(p, r) < 0)
          PROVE  FALSE
      <3>1. range_cmp_bounds(r, p) <= 0
        BY <2>2, <2>4
      <3>2. range_cmp_bounds(r, q) <= 0
        BY <2>1, <3>1, CmpBoundsTransitive, Zenon
      <3>. QED  BY <2>2, <2>4, <3>2
    <2>. QED  BY <1>2, <2>2, <2>3, <2>4, Zenon DEF Cmp
  <1>. QED  BY <1>1, <1>2, Zenon

(* In a sorted histogram the entries below a value come first.             *)
LEMMA BelowPrefixAny ==
    ASSUME search \in Searches, NEW v \in Entry(search.kind),
           NEW j \in Index, NEW h \in Index, j <= h, Below(h, v)
    PROVE  Below(j, v)
  <1>1. /\ search.kind \in {"bounds", "lengths"}
        /\ search.hist[j] \in Entry(search.kind) /\ search.hist[h] \in Entry(search.kind)
        /\ Cmp(search.kind, search.hist[j], search.hist[h]) <= 0
    BY SearchFacts, Zenon
  <1>2. /\ Cmp(search.kind, search.hist[h], v) \in {-1, 0, 1}
        /\ Cmp(search.kind, search.hist[j], v) \in {-1, 0, 1}
        /\ Cmp(search.kind, search.hist[h], v) < 0 => Cmp(search.kind, search.hist[j], v) < 0
        /\ Cmp(search.kind, search.hist[h], v) <= 0 => Cmp(search.kind, search.hist[j], v) <= 0
    BY <1>1, CmpMixed
  <1>. QED  BY <1>2 DEF Below

(* In particular those below the value searched for.                       *)
LEMMA BelowPrefix ==
    ASSUME search \in Searches, NEW j \in Index, NEW h \in Index, j <= h, Below(h, search.value)
    PROVE  Below(j, search.value)
  BY SearchFacts, BelowPrefixAny, Zenon

(* The middle is strictly above lower and at most upper.                   *)
LEMMA MiddleBetween ==
    ASSUME SearchTypeOK, lower < upper
    PROVE  /\ middle \in Index /\ lower < middle /\ middle <= upper
           /\ lower \in Int /\ upper \in Int /\ hist_length \in Nat
  <1>1. hist_length \in Nat
    BY SearchFacts, Zenon DEF SearchTypeOK
  <1>. QED  BY <1>1 DEF SearchTypeOK, middle, Index

(* The interpolated selectivity is a fraction.                             *)
LEMMA ScalarType ==
    ASSUME SearchTypeOK, search.kind = "bounds"
    PROVE  Scalar(lower, search.value) \in [num : Int, den : Int]
  <1>1. hist_length \in Nat /\ lower \in Int /\ lower >= -1
    BY SearchFacts DEF SearchTypeOK
  <1>2. CASE lower >= 0 /\ lower < hist_length - 1
    <2>1. lower \in Index /\ lower + 1 \in Index
      BY <1>1, <1>2 DEF Index
    <2>2. /\ search.hist[lower] \in RangeBound /\ search.hist[lower + 1] \in RangeBound
          /\ search.value \in RangeBound
      BY <2>1, SearchFacts, Zenon DEF SearchTypeOK, Entry
    <2>3. \A v, g, h \in RangeBound : get_position(v, g, h) \in [num : Int, den : Int]
      BY DEF get_position, Ratio, RangeBound
    <2>4. PICK part \in [num : Int, den : Int] :
              part = get_position(search.value, search.hist[lower], search.hist[lower + 1])
      BY <2>2, <2>3, Zenon
    <2>5. /\ part.num \in Int /\ part.den \in Int
          /\ lower * part.den + part.num \in Int /\ (hist_length - 1) * part.den \in Int
      BY <1>1, <2>4
    <2>. QED  BY <1>2, <2>4, <2>5, Zenon DEF Scalar, Ratio
  <1>3. CASE ~ (lower >= 0 /\ lower < hist_length - 1)
    BY <1>1, <1>3 DEF Scalar, Ratio
  <1>. QED  BY <1>2, <1>3, Zenon

(* Every step keeps the types and the invariant.                           *)
LEMMA SearchKeeps ==
    ASSUME SearchTypeOK, SearchInv, [SearchNext \/ SearchReturned]_searchVars
    PROVE  SearchTypeOK' /\ SearchInv'
  <1>1. ASSUME search' = search
        PROVE  /\ hist_length' = hist_length /\ Index' = Index
               /\ \A j : Below(j, search.value)' = Below(j, search.value)
    BY <1>1, Zenon DEF hist_length, Index, Below
  <1>2. CASE MoveLower
    <2>1. /\ phase = "search" /\ lower < upper /\ Below(middle, search.value)
          /\ lower' = middle /\ phase' = phase /\ search' = search /\ upper' = upper /\ hist_selec' = hist_selec
      BY <1>2, Zenon DEF MoveLower
    <2>2. PICK m \in Index : m = middle /\ lower < m /\ m <= upper
      BY <2>1, MiddleBetween, Zenon
    <2>3. hist_length \in Nat /\ upper \in Int
      BY <2>1, MiddleBetween, Zenon
    <2>4. \A j \in Index : j <= m => Below(j, search.value)
      BY <2>1, <2>2, BelowPrefix, Zenon DEF SearchTypeOK
    <2>5. SearchInv'
      BY <1>1, <2>1, <2>2, <2>4, Zenon DEF SearchInv
    <2>. QED  BY <1>1, <2>1, <2>2, <2>3, <2>5 DEF SearchTypeOK, Index
  <1>3. CASE MoveUpper
    <2>1. /\ phase = "search" /\ lower < upper /\ ~Below(middle, search.value)
          /\ upper' = middle - 1 /\ phase' = phase /\ search' = search /\ lower' = lower /\ hist_selec' = hist_selec
      BY <1>3, Zenon DEF MoveUpper
    <2>2. PICK m \in Index : m = middle /\ lower < m /\ m <= upper
      BY <2>1, MiddleBetween, Zenon
    <2>3. hist_length \in Nat /\ lower \in Int
      BY <2>1, MiddleBetween, Zenon
    <2>4. PICK n \in Int : n = m - 1
      BY <2>2, <2>3 DEF Index
    <2>5. /\ \A j \in Index : j > n => ~Below(j, search.value)
          /\ lower <= n /\ n \in -1 .. hist_length - 1
      <3>1. \A j \in Index : j > n => m <= j
        BY <2>2, <2>3, <2>4 DEF Index
      <3>2. \A j \in Index : m <= j => ~Below(j, search.value)
        BY <2>1, <2>2, BelowPrefix, Zenon DEF SearchTypeOK
      <3>3. lower <= n /\ n \in -1 .. hist_length - 1
        BY <2>2, <2>3, <2>4 DEF Index
      <3>. QED  BY <3>1, <3>2, <3>3, Zenon
    <2>6. upper' = n
      BY <2>1, <2>2, <2>4, Zenon
    <2>7. SearchInv'
      BY <1>1, <2>1, <2>5, <2>6, Zenon DEF SearchInv
    <2>. QED  BY <1>1, <2>1, <2>5, <2>6, <2>7, Zenon DEF SearchTypeOK
  <1>4. CASE Found
    <2>1. /\ phase = "search" /\ lower >= upper /\ phase' \in {"found", "done"}
          /\ phase' = "found" => search.kind = "bounds"
          /\ search' = search /\ lower' = lower /\ upper' = upper /\ hist_selec' = hist_selec
      BY <1>4, Zenon DEF Found
    <2>2. lower = upper
      BY <2>1, SearchFacts DEF SearchInv, SearchTypeOK
    <2>. QED  BY <1>1, <2>1, <2>2, Zenon DEF SearchInv, SearchTypeOK
  <1>5. CASE Interpolate
    <2>1. /\ phase = "found" /\ phase' = "done" /\ hist_selec' = Scalar(lower, search.value)
          /\ search' = search /\ lower' = lower /\ upper' = upper
      BY <1>5, Zenon DEF Interpolate
    <2>2. hist_selec' \in [num : Int, den : Int]
      BY <2>1, ScalarType, Zenon DEF SearchInv
    <2>. QED  BY <1>1, <2>1, <2>2, Zenon DEF SearchInv, SearchTypeOK
  <1>6. CASE SearchReturned \/ UNCHANGED searchVars
    BY <1>1, <1>6, Zenon DEF SearchReturned, searchVars, SearchInv, SearchTypeOK
  <1>. QED  BY <1>2, <1>3, <1>4, <1>5, <1>6, Zenon DEF SearchNext

(* The searches start with the whole histogram.                            *)
LEMMA SearchStarts == SearchInit => SearchTypeOK /\ SearchInv
  <1>1. SUFFICES ASSUME SearchInit PROVE SearchTypeOK /\ SearchInv
    BY Zenon
  <1>2. search \in Searches /\ hist_length \in Nat \ {0, 1}
    BY <1>1, SearchFacts, Zenon DEF SearchInit
  <1>. QED  BY <1>1, <1>2 DEF SearchInit, SearchTypeOK, SearchInv, Index, Ratio, hist_length

(* The index never leaves the histogram and the estimate is a fraction.    *)
THEOREM SearchTypeCorrect == SearchSpec => []SearchTypeOK
  BY SearchStarts, SearchKeeps, PTL DEF SearchSpec

(* rbound_bsearch and length_hist_bsearch return what the comment on them  *)
(* says, on every sorted histogram: the order of bounds is transitive over *)
(* infinite, inclusive, exclusive, lower and upper bounds alike.           *)
THEOREM SearchFindsGreatest == SearchSpec => []GreatestIndex
  <1>1. SearchTypeOK /\ SearchInv => GreatestIndex
    <2>1. SUFFICES ASSUME SearchTypeOK, SearchInv, phase # "search", NEW j \in Index
                   PROVE  j <= lower <=> IF search.equal
                                         THEN Cmp(search.kind, search.hist[j], search.value) <= 0
                                         ELSE Cmp(search.kind, search.hist[j], search.value) < 0
      BY Zenon DEF GreatestIndex
    <2>2. /\ search.kind \in {"bounds", "lengths"} /\ search.equal \in BOOLEAN
          /\ search.hist[j] \in Entry(search.kind) /\ search.value \in Entry(search.kind)
          /\ Cmp(search.kind, search.hist[j], search.hist[j]) <= 0 /\ hist_length \in Nat
      BY <2>1, SearchFacts DEF SearchTypeOK, Index
    <2>3. Cmp(search.kind, search.hist[j], search.value) \in {-1, 0, 1}
      BY <2>2, CmpMixed
    <2>4. j <= lower <=> Below(j, search.value)
      <3>1. lower = upper /\ lower \in Int /\ j \in Int
        BY <2>1, <2>2 DEF SearchInv, SearchTypeOK, Index
      <3>. QED  BY <2>1, <3>1 DEF SearchInv
    <2>. QED  BY <2>2, <2>3, <2>4 DEF Below
  <1>. QED  BY <1>1, SearchStarts, SearchKeeps, PTL DEF SearchSpec
-----------------------------------------------------------------------------
(* The selectivity that calc_hist_selectivity_scalar interpolates.         *)

(* What is below a value is below every greater one.                       *)
LEMMA BelowUpward ==
    ASSUME search \in Searches, search.kind = "bounds", NEW v \in RangeBound, NEW w \in RangeBound,
           range_cmp_bounds(v, w) <= 0, NEW j \in Index, Below(j, v)
    PROVE  Below(j, w)
  <1>1. /\ search.hist[j] \in RangeBound /\ search.equal \in BOOLEAN
    BY SearchFacts, Zenon DEF Entry
  <1>. DEFINE h == search.hist[j]
  <1>2. /\ range_cmp_bounds(h, v) \in {-1, 0, 1} /\ range_cmp_bounds(h, w) \in {-1, 0, 1}
        /\ range_cmp_bounds(v, h) = -range_cmp_bounds(h, v)
        /\ range_cmp_bounds(w, h) = -range_cmp_bounds(h, w)
    BY <1>1, CmpBoundsType, CmpBoundsAntisymmetric, Zenon
  <1>3. range_cmp_bounds(h, v) < 0 \/ (search.equal /\ range_cmp_bounds(h, v) = 0)
    BY Zenon DEF Below, Cmp
  <1>4. range_cmp_bounds(h, v) <= 0
    BY <1>2, <1>3
  <1>5. range_cmp_bounds(h, w) <= 0
    BY <1>1, <1>4, CmpBoundsTransitive, Zenon
  <1>6. range_cmp_bounds(w, h) <= 0 => range_cmp_bounds(v, h) <= 0
    BY <1>1, CmpBoundsTransitive, Zenon
  <1>7. range_cmp_bounds(h, w) < 0 \/ (search.equal /\ range_cmp_bounds(h, w) = 0)
    BY <1>2, <1>3, <1>5, <1>6
  <1>. QED  BY <1>7, Zenon DEF Below, Cmp

(* There is a greatest index to look up.                                   *)
LEMMA LookupFacts ==
    ASSUME search \in Searches, NEW v \in Entry(search.kind)
    PROVE  /\ Lookup(v) \in -1 .. hist_length - 1
           /\ \A j \in Index : j <= Lookup(v) <=> Below(j, v)
  <1>1. hist_length \in Nat \ {0, 1}
    BY SearchFacts, Zenon
  <1>. DEFINE S == {j \in Index : ~Below(j, v)}
  <1>2. S \in SUBSET Nat
    BY <1>1 DEF Index
  <1>3. \E n \in -1 .. hist_length - 1 : \A j \in Index : j <= n <=> Below(j, v)
    <2>1. CASE S = {}
      <3>1. \A j \in Index : Below(j, v)
        BY <2>1, Zenon
      <3>2. hist_length - 1 \in -1 .. hist_length - 1 /\ \A j \in Index : j <= hist_length - 1
        BY <1>1 DEF Index
      <3>. QED  BY <3>1, <3>2, Zenon
    <2>2. CASE S # {}
      <3>1. PICK m \in S : \A n \in S : m <= n
        BY <1>2, <2>2, NaturalsWellOrdered, Zenon
      <3>2. m - 1 \in -1 .. hist_length - 1 /\ \A j \in Index : (j <= m - 1 <=> ~(m <= j))
        BY <1>1, <3>1 DEF Index
      <3>3. \A j \in Index : m <= j => ~Below(j, v)
        BY <3>1, BelowPrefixAny, Zenon
      <3>4. \A j \in Index : ~(m <= j) => Below(j, v)
        BY <3>1, Zenon
      <3>. QED  BY <3>2, <3>3, <3>4, Zenon
    <2>. QED  BY <2>1, <2>2, Zenon
  <1>. QED  BY <1>3, Zenon DEF Lookup

(* Inside a bin the position is a fraction between 0 and 1, and a greater  *)
(* value has no smaller one.                                               *)
LEMMA PositionFraction ==
    ASSUME NEW v \in RangeBound, NEW g \in RangeBound, NEW h \in RangeBound
    PROVE  /\ get_position(v, g, h).num \in Nat
           /\ get_position(v, g, h).den \in Nat \ {0}
           /\ get_position(v, g, h).num <= get_position(v, g, h).den
  BY DEF get_position, Ratio, RangeBound

(* A value between two finite ones is finite.                              *)
LEMMA FiniteBetween ==
    ASSUME NEW v \in RangeBound, NEW g \in RangeBound, NEW h \in RangeBound,
           ~g.infinite, ~h.infinite, range_cmp_bounds(g, v) <= 0, ~ (range_cmp_bounds(h, v) < 0)
    PROVE  ~v.infinite
  BY DEF range_cmp_bounds, CmpInfinite, RangeBound

(* get_position: of two bounds between the same two entries the later one  *)
(* lies no farther to the left.                                            *)
LEMMA PositionMonotone ==
    ASSUME NEW v \in RangeBound, NEW w \in RangeBound, NEW g \in RangeBound, NEW h \in RangeBound,
           range_cmp_bounds(v, w) <= 0,
           range_cmp_bounds(g, v) <= 0, ~ (range_cmp_bounds(h, v) < 0),
           range_cmp_bounds(g, w) <= 0, ~ (range_cmp_bounds(h, w) < 0)
    PROVE  get_position(v, g, h).num * get_position(w, g, h).den
              <= get_position(w, g, h).num * get_position(v, g, h).den
  <1>1. CASE ~g.infinite /\ ~h.infinite
    <2>1. ~v.infinite /\ ~w.infinite
      BY <1>1, FiniteBetween, Zenon
    <2>2. v.val \in Int /\ w.val \in Int /\ g.val \in Int /\ h.val \in Int
      BY DEF RangeBound
    <2>3. v.val <= w.val
      BY <2>1, <2>2 DEF range_cmp_bounds, CmpVal
    <2>4. CASE ~search.has_subdiff \/ h.val - g.val <= 0
      <3>1. get_position(v, g, h) = Ratio(1, 2) /\ get_position(w, g, h) = Ratio(1, 2)
        BY <1>1, <2>1, <2>4, Zenon DEF get_position
      <3>. QED  BY <3>1 DEF Ratio
    <2>5. CASE ~ (~search.has_subdiff \/ h.val - g.val <= 0)
      <3>. DEFINE d == h.val - g.val
                  Clip(c) == IF c < 0 THEN 0 ELSE IF c > d THEN d ELSE c
      <3>1. /\ get_position(v, g, h) = Ratio(Clip(v.val - g.val), d)
            /\ get_position(w, g, h) = Ratio(Clip(w.val - g.val), d)
        BY <1>1, <2>1, <2>5, Zenon DEF get_position
      <3>2. PICK n, m, e \in Nat : n = Clip(v.val - g.val) /\ m = Clip(w.val - g.val) /\ e = d /\ n <= m
        BY <2>2, <2>3, <2>5
      <3>3. n * e <= m * e
        BY <3>2, MultipleMonotone, Zenon
      <3>4. get_position(v, g, h) = Ratio(n, e) /\ get_position(w, g, h) = Ratio(m, e)
        BY <3>1, <3>2, Zenon
      <3>5. /\ get_position(v, g, h).num = n /\ get_position(v, g, h).den = e
            /\ get_position(w, g, h).num = m /\ get_position(w, g, h).den = e
        BY <3>4 DEF Ratio
      <3>. QED  BY <3>3, <3>5, Zenon
    <2>. QED  BY <2>4, <2>5, Zenon
  <1>2. CASE g.infinite \/ h.infinite
    BY <1>2 DEF get_position, Ratio, RangeBound, range_cmp_bounds, CmpInfinite
  <1>. QED  BY <1>1, <1>2, Zenon

(* A product with a positive factor decides an inequality.                 *)
LEMMA CancelFactor ==
    ASSUME NEW p \in Int, NEW z \in Int, NEW c \in Nat \ {0}, p * c <= z * c
    PROVE  p <= z
  <1>1. SUFFICES ASSUME p > z PROVE FALSE
    OBVIOUS
  <1>2. p - z \in Nat /\ 1 <= p - z
    BY <1>1
  <1>3. 1 * c <= (p - z) * c
    BY <1>2, MultipleMonotone
  <1>4. (p - z) * c = p * c - z * c
    OBVIOUS
  <1>. QED  BY <1>3, <1>4

(* Scalar(n, v) is a fraction of the bins: at least n of them and at most  *)
(* n + 1.                                                                  *)
LEMMA ScalarBetween ==
    ASSUME search \in Searches, search.kind = "bounds", NEW v \in RangeBound,
           NEW n \in -1 .. hist_length - 1
    PROVE  \E num \in Nat, den \in Nat \ {0} :
              /\ Scalar(n, v) = Ratio(num, den)
              /\ num * (hist_length - 1) <= (n + 1) * den
              /\ n * den <= num * (hist_length - 1)
  <1>1. PICK bins \in Nat \ {0} : bins = hist_length - 1
    BY SearchFacts
  <1>2. CASE n < 0
    <2>1. n = -1 /\ Scalar(n, v) = Ratio(0, bins)
      BY <1>1, <1>2 DEF Scalar
    <2>2. 0 \in Nat /\ 0 * bins <= (n + 1) * bins /\ n * bins <= 0 * bins
      BY <1>1, <2>1
    <2>. QED  BY <1>1, <2>1, <2>2, Zenon
  <1>3. CASE n >= bins
    <2>1. n = bins /\ Scalar(n, v) = Ratio(bins, bins)
      BY <1>1, <1>3, SearchFacts DEF Scalar
    <2>2. bins \in Nat /\ bins * bins <= (bins + 1) * bins /\ bins * bins <= bins * bins
      BY <1>1
    <2>. QED  BY <1>1, <2>1, <2>2, Zenon
  <1>4. CASE n >= 0 /\ n < bins
    <2>1. n \in Nat /\ n \in Index /\ n + 1 \in Index
      BY <1>1, <1>4, SearchFacts DEF Index
    <2>2. search.hist[n] \in RangeBound /\ search.hist[n + 1] \in RangeBound
      BY <2>1, SearchFacts, Zenon DEF Entry
    <2>3. PICK q \in Nat, d \in Nat \ {0} :
             /\ q = get_position(v, search.hist[n], search.hist[n + 1]).num
             /\ d = get_position(v, search.hist[n], search.hist[n + 1]).den
             /\ q <= d
      <3>. DEFINE part == get_position(v, search.hist[n], search.hist[n + 1])
      <3>1. part.num \in Nat /\ part.den \in Nat \ {0} /\ part.num <= part.den
        BY <2>2, PositionFraction, Zenon
      <3>. HIDE DEF part
      <3>2. \E q \in Nat, d \in Nat \ {0} : q = part.num /\ d = part.den /\ q <= d
        BY <3>1, Zenon
      <3>. QED  BY <3>2, Zenon DEF part
    <2>4. Scalar(n, v) = Ratio(n * d + q, bins * d)
      BY <1>1, <1>4, <2>3, Zenon DEF Scalar
    <2>5. n * d + q \in Nat /\ bins * d \in Nat \ {0}
      <3>1. n * d + q \in Nat
        BY <2>1, <2>3
      <3>. QED  BY <1>1, <2>3, <3>1, PositiveProduct, Zenon
    <2>6. n * d <= n * d + q /\ n * d + q <= (n + 1) * d
      BY <2>1, <2>3
    <2>7. (n * d) * bins <= (n * d + q) * bins /\ (n * d + q) * bins <= ((n + 1) * d) * bins
      BY <2>1, <2>3, <2>5, <2>6, MultipleMonotone
    <2>8. (n * d) * bins = n * (bins * d) /\ ((n + 1) * d) * bins = (n + 1) * (bins * d)
      BY <1>1, <2>1, <2>3
    <2>. QED  BY <1>1, <2>4, <2>5, <2>7, <2>8, Zenon
  <1>5. n < 0 \/ n >= bins \/ (n >= 0 /\ n < bins)
    BY <1>1, SearchFacts
  <1>. QED  BY <1>2, <1>3, <1>4, <1>5, Zenon

(* Fractions on the two sides of a whole number of bins.                   *)
LEMMA BetweenBins ==
    ASSUME NEW n1 \in Nat, NEW d1 \in Nat \ {0}, NEW n2 \in Nat, NEW d2 \in Nat \ {0},
           NEW bins \in Nat \ {0}, NEW s \in Nat, NEW t \in Nat, s <= t,
           n1 * bins <= s * d1, t * d2 <= n2 * bins
    PROVE  n1 * d2 <= n2 * d1
  <1>1. (n1 * bins) * d2 <= (s * d1) * d2
    BY MultipleMonotone
  <1>2. s * (d1 * d2) <= t * (d1 * d2)
    BY MultipleMonotone
  <1>3. (t * d2) * d1 <= (n2 * bins) * d1
    BY MultipleMonotone
  <1>4. /\ (n1 * bins) * d2 = (n1 * d2) * bins /\ (n2 * bins) * d1 = (n2 * d1) * bins
        /\ (s * d1) * d2 = s * (d1 * d2) /\ (t * d2) * d1 = t * (d1 * d2)
        /\ n1 * d2 \in Int /\ n2 * d1 \in Int
    OBVIOUS
  <1>5. (n1 * d2) * bins <= (n2 * d1) * bins
    BY <1>1, <1>2, <1>3, <1>4
  <1>. QED  BY <1>4, <1>5, CancelFactor

(* Fractions in the same bin.                                              *)
LEMMA SameBin ==
    ASSUME NEW n \in Nat, NEW bins \in Nat \ {0}, NEW q \in Nat, NEW d \in Nat \ {0},
           NEW r \in Nat, NEW e \in Nat \ {0}, q * e <= r * d
    PROVE  (n * d + q) * (bins * e) <= (n * e + r) * (bins * d)
  <1>1. (q * e) * bins <= (r * d) * bins
    BY MultipleMonotone
  <1>2. /\ (n * d + q) * (bins * e) = (n * d) * (bins * e) + q * (bins * e)
        /\ (n * e + r) * (bins * d) = (n * e) * (bins * d) + r * (bins * d)
    OBVIOUS
  <1>3. /\ (n * d) * (bins * e) = (n * e) * (bins * d)
        /\ q * (bins * e) = (q * e) * bins /\ r * (bins * d) = (r * d) * bins
    OBVIOUS
  <1>. QED  BY <1>1, <1>2, <1>3

(* Across bins and inside one, a greater value has no smaller fraction.    *)
LEMMA ScalarMonotone ==
    ASSUME search \in Searches, search.kind = "bounds", NEW v \in RangeBound, NEW w \in RangeBound,
           range_cmp_bounds(v, w) <= 0,
           NEW n \in -1 .. hist_length - 1, \A j \in Index : j <= n <=> Below(j, v),
           NEW m \in -1 .. hist_length - 1, \A j \in Index : j <= m <=> Below(j, w)
    PROVE  Scalar(n, v).num * Scalar(m, w).den <= Scalar(m, w).num * Scalar(n, v).den
  <1>1. PICK bins \in Nat \ {0} : bins = hist_length - 1
    BY SearchFacts
  <1>2. n <= m
    <2>1. SUFFICES ASSUME m < n PROVE FALSE
      BY <1>1, SearchFacts
    <2>2. n \in Index /\ n <= n /\ ~ (n <= m)
      BY <1>1, <2>1, SearchFacts DEF Index
    <2>. QED  BY <2>2, BelowUpward, Zenon
  <1>3. PICK n1 \in Nat, d1 \in Nat \ {0} :
           /\ Scalar(n, v) = Ratio(n1, d1)
           /\ n1 * bins <= (n + 1) * d1
           /\ n * d1 <= n1 * bins
    BY <1>1, ScalarBetween, Zenon
  <1>4. PICK n2 \in Nat, d2 \in Nat \ {0} :
           /\ Scalar(m, w) = Ratio(n2, d2)
           /\ n2 * bins <= (m + 1) * d2
           /\ m * d2 <= n2 * bins
    BY <1>1, ScalarBetween, Zenon
  <1>5. SUFFICES n1 * d2 <= n2 * d1
    BY <1>3, <1>4 DEF Ratio
  <1>6. CASE n < m
    <2>1. PICK s \in Nat, t \in Nat : s = n + 1 /\ t = m /\ s <= t
      BY <1>1, <1>6, SearchFacts
    <2>2. n1 * bins <= s * d1 /\ t * d2 <= n2 * bins /\ s <= t
      BY <1>3, <1>4, <2>1, Zenon
    <2>. QED  BY <2>2, BetweenBins, Zenon
  <1>7. CASE n = m /\ ~ (n >= 0 /\ n < bins)
    <2>1. Scalar(n, v) = Scalar(m, w)
      BY <1>1, <1>7, Zenon DEF Scalar
    <2>2. n1 = n2 /\ d1 = d2
      BY <1>3, <1>4, <2>1 DEF Ratio
    <2>3. n1 * d1 <= n1 * d1
      BY <1>3
    <2>. QED  BY <2>2, <2>3, Zenon
  <1>8. CASE n = m /\ n >= 0 /\ n < bins
    <2>. DEFINE g == search.hist[n]
                h == search.hist[n + 1]
    <2>1. n \in Nat /\ n \in Index /\ n + 1 \in Index /\ n <= n /\ ~ (n + 1 <= n)
      BY <1>1, <1>8, SearchFacts DEF Index
    <2>2. g \in RangeBound /\ h \in RangeBound /\ search.equal \in BOOLEAN
      BY <2>1, SearchFacts, Zenon DEF Entry
    <2>3. Below(n, v) /\ Below(n, w) /\ ~Below(n + 1, v) /\ ~Below(n + 1, w)
      BY <1>8, <2>1, Zenon
    <2>4. /\ range_cmp_bounds(g, v) < 0 \/ range_cmp_bounds(g, v) = 0
          /\ range_cmp_bounds(g, w) < 0 \/ range_cmp_bounds(g, w) = 0
          /\ ~ (range_cmp_bounds(h, v) < 0) /\ ~ (range_cmp_bounds(h, w) < 0)
      BY <2>3, Zenon DEF Below, Cmp
    <2>5. range_cmp_bounds(g, v) \in {-1, 0, 1} /\ range_cmp_bounds(g, w) \in {-1, 0, 1}
      BY <2>2, CmpBoundsType, Zenon
    <2>6. range_cmp_bounds(g, v) <= 0 /\ range_cmp_bounds(g, w) <= 0
      BY <2>4, <2>5
    <2>. HIDE DEF g, h
    <2>7. /\ get_position(v, g, h).num * get_position(w, g, h).den
                 <= get_position(w, g, h).num * get_position(v, g, h).den
      BY <2>2, <2>4, <2>6, PositionMonotone, Zenon
    <2>8. PICK q \in Nat, d \in Nat \ {0}, r \in Nat, e \in Nat \ {0} :
             /\ q = get_position(v, g, h).num /\ d = get_position(v, g, h).den
             /\ r = get_position(w, g, h).num /\ e = get_position(w, g, h).den
      BY <2>2, PositionFraction, Zenon
    <2>9. /\ Scalar(n, v) = Ratio(n * d + q, bins * d)
          /\ Scalar(m, w) = Ratio(n * e + r, bins * e)
      BY <1>1, <1>8, <2>8, Zenon DEF Scalar, g, h
    <2>10. q * e <= r * d
      BY <2>7, <2>8, Zenon
    <2>11. (n * d + q) * (bins * e) <= (n * e + r) * (bins * d)
      BY <2>1, <2>10, SameBin, Zenon
    <2>12. n1 = n * d + q /\ d1 = bins * d /\ n2 = n * e + r /\ d2 = bins * e
      BY <1>3, <1>4, <2>9 DEF Ratio
    <2>. QED  BY <2>11, <2>12, Zenon
  <1>. QED  BY <1>1, <1>2, <1>6, <1>7, <1>8, SearchFacts

(* The interpolated selectivity, once it is there.                         *)
Interpolated == phase = "done" /\ search.kind = "bounds" => hist_selec = Scalar(lower, search.value)

(* Every step of the search keeps the interpolated selectivity.            *)
LEMMA InterpolatedKept ==
    ASSUME SearchInv, Interpolated, [SearchNext \/ SearchReturned]_searchVars
    PROVE  Interpolated'
  <1>2. CASE MoveLower \/ MoveUpper
    BY <1>2, Zenon DEF MoveLower, MoveUpper, Interpolated
  <1>3. CASE Found
    BY <1>3, Zenon DEF Found, Interpolated
  <1>4. CASE Interpolate
    <2>1. /\ search' = search /\ lower' = lower /\ hist_selec' = Scalar(lower, search.value)
      BY <1>4, Zenon DEF Interpolate
    <2>2. Scalar(lower, search.value)' = Scalar(lower, search.value)
      BY <2>1, Zenon DEF Scalar, get_position, hist_length
    <2>. QED  BY <2>1, <2>2, Zenon DEF Interpolated
  <1>5. CASE SearchReturned \/ UNCHANGED searchVars
    <2>1. /\ phase' = phase /\ search' = search /\ lower' = lower /\ hist_selec' = hist_selec
      BY <1>5, Zenon DEF SearchReturned, searchVars
    <2>2. Scalar(lower, search.value)' = Scalar(lower, search.value)
      BY <2>1, Zenon DEF Scalar, get_position, hist_length
    <2>. QED  BY <2>1, <2>2, Zenon DEF Interpolated
  <1>. QED  BY <1>2, <1>3, <1>4, <1>5, Zenon DEF SearchNext

(* calc_hist_selectivity_scalar: the selectivity never falls as the bound  *)
(* that is looked up rises, for every sorted histogram and every two       *)
(* bounds.                                                                 *)
THEOREM SelectivityMonotone == SearchSpec => []Monotone
  <1>1. SearchTypeOK /\ SearchInv /\ Interpolated => Monotone
    <2>1. SUFFICES ASSUME SearchTypeOK, SearchInv, Interpolated, phase = "done", search.kind = "bounds",
                          NEW w \in Values, range_cmp_bounds(search.value, w) <= 0
                   PROVE  Scalar(lower, search.value).num * Scalar(Lookup(w), w).den
                             <= Scalar(Lookup(w), w).num * Scalar(lower, search.value).den
      BY Zenon DEF Monotone, Interpolated
    <2>2. search \in Searches /\ lower \in -1 .. hist_length - 1
      BY <2>1, Zenon DEF SearchTypeOK
    <2>3. search.value \in RangeBound /\ w \in RangeBound /\ w \in Entry(search.kind)
      BY <2>1, <2>2, SearchesAssumption, Zenon DEF Values, Entry
    <2>4. \A j \in Index : j <= lower <=> Below(j, search.value)
      <3>1. lower = upper
        BY <2>1, Zenon DEF SearchInv
      <3>2. \A j \in Index : j <= lower \/ j > lower
        BY <2>2, SearchFacts DEF Index
      <3>. QED  BY <2>1, <3>1, <3>2, Zenon DEF SearchInv
    <2>5. PICK m \in -1 .. hist_length - 1 : m = Lookup(w) /\ \A j \in Index : j <= m <=> Below(j, w)
      BY <2>2, <2>3, LookupFacts, Zenon
    <2>. QED  BY <2>1, <2>2, <2>3, <2>4, <2>5, ScalarMonotone, Zenon
  <1>2. SearchInit => Interpolated
    BY Zenon DEF SearchInit, Interpolated
  <1>. QED  BY <1>1, <1>2, SearchStarts, SearchKeeps, InterpolatedKept, PTL DEF SearchSpec
=============================================================================
