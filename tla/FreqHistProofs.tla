--------------------------- MODULE FreqHistProofs ----------------------------
(***************************************************************************)
(* The sweep of count_frequencies is right for every call: any number of   *)
(* rows, any bound values, any WEIGHT.  Then sums over finite sets, and    *)
(* what a row adds to all the intervals together.                          *)
(***************************************************************************)
EXTENDS FreqHist, BasicsProofs, FiniteSetTheorems

(* The fraction a row adds has an integer numerator.                       *)
LEMMA MultType ==
    ASSUME FreqTypeOK, NEW r \in Rows
    PROVE  CarriedMult(r) \in Int /\ EnteredMult(r) \in Int
  <1>1. /\ lowers[r] \in Int /\ uppers[r] \in Int
        /\ sup \in Int /\ interval_length \in Int
    BY IntMaxAssumption DEF FreqTypeOK, Int32
  <1>2. \A n \in Int : Wrap(n) \in Int
    BY WrapType, IntMaxAssumption DEF Int32
  <1>. QED  BY <1>1, <1>2 DEF CarriedMult, EnteredMult

(* Every step keeps the types.                                             *)
LEMMA FreqTypeStep ==
    ASSUME FreqTypeOK, [FreqNext \/ Returned]_freqVars
    PROVE  FreqTypeOK'
  <1>. USE DEF FreqTypeOK, Rows, params, geometry
  <1>1. CASE Geometry
    <2>1. max - min + 1 \in Int /\ min - 1 \in Int
      BY DEF max, min, Int32
    <2>3. Wrap(max - min + 1) \in Int /\ Wrap(min - 1) \in Int32
      BY <2>1, WrapType, IntMaxAssumption DEF Int32
    <2>. QED  BY <1>1, <2>3, GridType, Zenon DEF Geometry, ChooseGrid
  <1>2. CASE NextInterval
    <2>1. Wrap(sup + interval_length) \in Int32
      <3>1. sup + interval_length \in Int
        BY IntMaxAssumption DEF Int32
      <3>. QED  BY <3>1, WrapType, Zenon
    <2>. QED  BY <1>2, <2>1 DEF NextInterval
  <1>3. CASE CarryRow
    <2>1. k \in Rows /\ CarriedMult(k) \in Int
      BY <1>3, MultType DEF CarryRow
    <2>. QED  BY <1>3, <2>1 DEF CarryRow
  <1>4. CASE CarryDone
    BY <1>4, Zenon DEF CarryDone
  <1>5. CASE EnterRow
    <2>1. l \in Rows /\ EnteredMult(l) \in Int
      BY <1>5, MultType DEF EnterRow
    <2>. QED  BY <1>5, <2>1 DEF EnterRow
  <1>6. CASE EnterDone
    BY <1>6 DEF EnterDone
  <1>7. CASE RetireRow
    BY <1>7 DEF RetireRow
  <1>8. CASE RetireDone
    BY <1>8 DEF RetireDone
  <1>9. CASE Finish
    BY <1>9, Zenon DEF Finish
  <1>10. CASE Returned \/ UNCHANGED freqVars
    BY <1>10, Zenon DEF Returned, freqVars
  <1>. QED
    BY <1>1, <1>2, <1>3, <1>4, <1>5, <1>6, <1>7, <1>8, <1>9, <1>10, Zenon DEF FreqNext

(* So do the arguments of a call.                                          *)
LEMMA FreqTypeInit == FreqInit => FreqTypeOK
  BY InputsAssumption, IntMaxAssumption DEF FreqInit, FreqTypeOK, Rows, Int32

(* The cursors, the counts and sup keep their types at every step.         *)
THEOREM TypeCorrect == FreqSpec => []FreqTypeOK
  BY FreqTypeInit, FreqTypeStep, PTL DEF FreqSpec
-----------------------------------------------------------------------------
(* What Ordered and NoWrap say of the call: every row lies between min and *)
(* max, and the grid of GridOfLength covers them.                          *)
LEMMA CallFacts ==
    ASSUME FreqTypeOK, Ordered, FreqNoWrap
    PROVE  /\ min \in Int32 /\ max \in Int32 /\ min > -IntMax - 1
           /\ \A r \in Rows : /\ lowers[r] \in Int /\ uppers[r] \in Int
                              /\ min <= lowers[r] /\ lowers[r] < uppers[r] /\ uppers[r] <= max
           /\ Length \in 1 .. IntMax
           /\ WeightDivider(Length) # 0
           /\ NbOfIntervals(Length) \in Nat \ {0}
           /\ IntervalLength(Length) \in 1 .. Length
           /\ NbOfIntervals(Length) * IntervalLength(Length) >= Length
           /\ min - 1 + NbOfIntervals(Length) * IntervalLength(Length) < IntMax
  <1>1. 0 \in Rows /\ rows - 1 \in Rows
    BY DEF FreqTypeOK, Rows
  <1>2. \A r \in Rows : 0 <= r /\ r <= rows - 1
    BY DEF FreqTypeOK, Rows
  <1>3. \A r \in Rows : lowers[r] \in Int32 /\ uppers[r] \in Int32
    BY Zenon DEF FreqTypeOK
  <1>4. min \in Int32 /\ max \in Int32
    BY <1>1, <1>3, Zenon DEF min, max
  <1>5. \A r \in Rows : min <= lowers[r] /\ lowers[r] < uppers[r] /\ uppers[r] <= max
    BY <1>1, <1>2, Zenon DEF Ordered, min, max
  <1>6. \A r \in Rows : lowers[r] \in Int /\ uppers[r] \in Int
    BY <1>3, IntMaxAssumption DEF Int32
  <1>7. Length \in 1 .. IntMax
    BY <1>1, <1>4, <1>5, <1>6, IntMaxAssumption DEF Length, FreqNoWrap, Int32
  <1>8. /\ WeightDivider(Length) # 0
        /\ NbOfIntervals(Length) \in 1 .. WeightInv
        /\ IntervalLength(Length) \in 1 .. Length
        /\ NbOfIntervals(Length) * IntervalLength(Length) >= Length
    BY <1>7, GridOfLength, IntMaxAssumption
  <1>. QED  BY <1>4, <1>5, <1>6, <1>7, <1>8, WeightInvAssumption DEF FreqNoWrap

(* The ends of the intervals: each is interval_length after the previous   *)
(* one, none wraps, and the last is not before max.                        *)
LEMMA SupFacts ==
    ASSUME FreqTypeOK, Ordered, FreqNoWrap, GridChosen, NEW j \in 0 .. nb_of_intervals - 1
    PROVE  /\ Sup(j) = Sup(j - 1) + interval_length
           /\ Sup(j) \in Int /\ Sup(j - 1) \in Int
           /\ min - 1 <= Sup(j - 1) /\ Sup(j) < IntMax
           /\ Sup(nb_of_intervals - 1) >= max
           /\ interval_length \in 1 .. IntMax
  <1>1. /\ nb_of_intervals \in Nat /\ interval_length \in Nat \ {0} /\ min \in Int /\ max \in Int
        /\ interval_length <= IntMax
        /\ nb_of_intervals * interval_length >= max - min + 1
        /\ min - 1 + nb_of_intervals * interval_length < IntMax
    BY CallFacts, IntMaxAssumption DEF GridChosen, Int32, Length
  <1>2. j \in Nat /\ j + 1 <= nb_of_intervals
    BY <1>1
  <1>3. (j + 1) * interval_length <= nb_of_intervals * interval_length /\ j * interval_length >= 0
    BY <1>1, <1>2, MultipleMonotone
  <1>4. (j + 1) * interval_length = j * interval_length + interval_length
    BY <1>1, <1>2
  <1>5. Sup(j - 1) = min - 1 + j * interval_length /\ Sup(j) = min - 1 + (j + 1) * interval_length
    BY <1>1, <1>2 DEF Sup
  <1>6. Sup(nb_of_intervals - 1) = min - 1 + nb_of_intervals * interval_length
    BY <1>1 DEF Sup
  <1>7. j * interval_length \in Int /\ nb_of_intervals * interval_length \in Int
    BY <1>1, <1>2
  <1>. QED  BY <1>1, <1>3, <1>4, <1>5, <1>6, <1>7, IntMaxAssumption

(* The branches of the loop over carried rows: a row that began before the *)
(* interval and was not retired gets its count.                            *)
LEMMA CarriedCount ==
    ASSUME FreqTypeOK, Ordered, FreqNoWrap, GridChosen, InInterval,
           NEW r \in Rows, lowers[r] <= sup - interval_length,
           uppers[r] > sup - interval_length + 1
    PROVE  CountOK(r, sup, CarriedMult(r))
  <1>1. /\ sup \in Int /\ interval_length \in Nat \ {0} /\ interval_length <= IntMax
        /\ min - 1 <= sup - interval_length /\ sup < IntMax
    BY SupFacts, IntMaxAssumption DEF InInterval, FreqTypeOK
  <1>2. /\ min \in Int /\ lowers[r] \in Int /\ uppers[r] \in Int /\ max \in Int
        /\ min <= lowers[r] /\ lowers[r] < uppers[r] /\ uppers[r] <= max
        /\ max - min + 1 <= IntMax
    BY CallFacts, IntMaxAssumption DEF Int32, Length
  <1>3. LET n == uppers[r] - (sup - interval_length + 1) IN Wrap(n) = n
    BY <1>1, <1>2, WrapIdentity, IntMaxAssumption DEF Int32
  <1>. QED
    BY <1>1, <1>2, <1>3
       DEF CountOK, CarriedMult, DatumLT, Shared, UpperCounted, Least, Greatest

(* The branches of the loop over the rows that begin in the interval.      *)
LEMMA EnteredCount ==
    ASSUME FreqTypeOK, Ordered, FreqNoWrap, GridChosen, InInterval,
           NEW r \in Rows, lowers[r] > sup - interval_length, lowers[r] <= sup
    PROVE  CountOK(r, sup, EnteredMult(r))
  <1>1. /\ sup \in Int /\ interval_length \in Nat \ {0} /\ interval_length <= IntMax
        /\ min - 1 <= sup - interval_length /\ sup < IntMax
    BY SupFacts, IntMaxAssumption DEF InInterval, FreqTypeOK
  <1>2. /\ min \in Int /\ lowers[r] \in Int /\ uppers[r] \in Int /\ max \in Int
        /\ min <= lowers[r] /\ lowers[r] < uppers[r] /\ uppers[r] <= max
        /\ max - min + 1 <= IntMax
    BY CallFacts, IntMaxAssumption DEF Int32, Length
  <1>3. /\ Wrap(1 + sup - lowers[r]) = 1 + sup - lowers[r]
        /\ Wrap(uppers[r] - lowers[r]) = uppers[r] - lowers[r]
    BY <1>1, <1>2, WrapIdentity, IntMaxAssumption DEF Int32
  <1>. QED
    BY <1>1, <1>2, <1>3
       DEF CountOK, EnteredMult, DatumLT, DatumLE, Shared, UpperCounted, Least, Greatest

(* Rows the sweep leaves out of an interval have no value in it.           *)
LEMMA SkippedCount ==
    ASSUME FreqTypeOK, Ordered, FreqNoWrap, GridChosen, InInterval, NEW r \in Rows,
           uppers[r] <= sup - interval_length + 1 \/ lowers[r] > sup
    PROVE  CountOK(r, sup, 0)
  <1>1. sup \in Int /\ interval_length \in Nat \ {0}
    BY SupFacts, IntMaxAssumption DEF InInterval, FreqTypeOK
  <1>2. lowers[r] \in Int /\ uppers[r] \in Int /\ lowers[r] < uppers[r] /\ min \in Int
    BY CallFacts, IntMaxAssumption DEF Int32
  <1>. QED
    BY <1>1, <1>2 DEF CountOK, Shared, UpperCounted, Least, Greatest
(* One past the end of an interval is still an int.                        *)
LEMMA NextSupFits ==
    ASSUME FreqTypeOK, Ordered, FreqNoWrap, GridChosen, InInterval
    PROVE  Wrap(sup + 1) = sup + 1
  <1>1. fi \in 0 .. nb_of_intervals - 1
    BY DEF InInterval, FreqTypeOK
  <1>2. sup \in Int32 /\ sup < IntMax
    BY <1>1, SupFacts, Zenon DEF InInterval, FreqTypeOK
  <1>3. sup + 1 \in Int32
    BY <1>2, IntMaxAssumption DEF Int32
  <1>. QED  BY <1>3, WrapIdentity, Zenon

(* No step changes the arguments of the call.                              *)
LEMMA ParamsFixed ==
    ASSUME [FreqNext \/ Returned]_freqVars
    PROVE  /\ rows' = rows /\ lowers' = lowers /\ uppers' = uppers
           /\ Ordered' = Ordered /\ FreqNoWrap' = FreqNoWrap
  <1>1. rows' = rows /\ lowers' = lowers /\ uppers' = uppers
    BY Zenon DEF FreqNext, Returned, freqVars, params, Geometry, NextInterval, CarryRow, CarryDone,
           EnterRow, EnterDone, RetireRow, RetireDone, Finish
  <1>. QED  BY <1>1, Zenon DEF Ordered, FreqNoWrap, Rows, Length, min, max

(* It holds when the sweep begins.                                         *)
LEMMA SweepInit == FreqInit => SweepInv
  BY DEF FreqInit, SweepInv, AtGeometry

(* SweepInv is inductive.                                                  *)
LEMMA SweepStep ==
    ASSUME FreqTypeOK, FreqTypeOK', SweepInv, [FreqNext \/ Returned]_freqVars
    PROVE  SweepInv'
  <1>. SUFFICES ASSUME Ordered', FreqNoWrap' PROVE SweepInv'
    BY Zenon DEF SweepInv
  <1>1. Ordered /\ FreqNoWrap /\ rows' = rows /\ lowers' = lowers /\ uppers' = uppers
    BY ParamsFixed, Zenon
  <1>2. min' = min /\ max' = max /\ Length' = Length /\ Rows' = Rows
    BY <1>1, Zenon DEF min, max, Length, Rows
  <1>3. CASE Geometry
    <2>1. /\ fpc = "geometry" /\ AtGeometry /\ UNCHANGED <<fi, l, u, freq>>
      BY <1>1, <1>3, Zenon DEF Geometry, SweepInv
    <2>2. Wrap(max - min + 1) = Length /\ Wrap(min - 1) = min - 1
      BY <1>1, CallFacts, WrapIdentity, IntMaxAssumption DEF Length, Int32
    <2>3. /\ fpc' = "interval" /\ GridChosen' /\ sup' = min - 1
      <3>1. WeightDivider(Length) # 0 /\ NbOfIntervals(Length) # 0
        BY <1>1, CallFacts, Zenon
      <3>. QED  BY <1>2, <1>3, <2>2, <3>1, Zenon DEF Geometry, ChooseGrid, GridChosen
    <2>4. AtInterval'
      <3>1. sup' = Sup(fi - 1)'
        BY <1>1, <1>2, <2>1, <2>3, CallFacts, IntMaxAssumption
           DEF Sup, AtGeometry, GridChosen, Int32
      <3>2. LowerCursor(sup)' /\ UpperCursor(sup)'
        <4>1. min \in Int
          BY <1>1, CallFacts, IntMaxAssumption DEF Int32
        <4>2. \A r \in Rows : /\ lowers[r] \in Int /\ uppers[r] \in Int
                              /\ min <= lowers[r] /\ lowers[r] < uppers[r]
          BY <1>1, CallFacts, Zenon
        <4>3. \A r \in Rows : r \in Nat
          BY DEF Rows
        <4>4. sup' = min - 1 /\ l' = 0 /\ u' = 0
          BY <2>1, <2>3, Zenon DEF AtGeometry
        <4>. QED  BY <1>1, <1>2, <4>1, <4>2, <4>3, <4>4 DEF LowerCursor, UpperCursor
      <3>3. fi' <= nb_of_intervals' /\ DOMAIN freq' = 0 .. fi' - 1
        BY <1>1, <1>2, <2>1, <2>3, CallFacts DEF AtGeometry, GridChosen
      <3>. QED  BY <3>1, <3>2, <3>3, Zenon DEF AtInterval
    <2>. QED  BY <2>1, <2>3, <2>4, Zenon DEF SweepInv, AtGeometry
  <1>4. CASE fpc # "geometry" /\ FreqNext
    <2>1. GridChosen /\ GridChosen' /\ UNCHANGED geometry
      <3>1. UNCHANGED geometry
        BY <1>4, Zenon DEF FreqNext, Geometry, geometry, NextInterval, CarryRow, CarryDone,
               EnterRow, EnterDone, RetireRow, RetireDone, Finish
      <3>. QED  BY <1>1, <1>2, <1>4, <3>1, Zenon DEF SweepInv, GridChosen, geometry
    <2>2. \A j : Sup(j)' = Sup(j)
      BY <1>2, <2>1, Zenon DEF Sup, geometry
    <2>3. \A r, s, c : CountOK(r, s, c)' = CountOK(r, s, c)
      BY <1>1, <1>2, <2>1 DEF CountOK, Shared, UpperCounted, geometry
    <2>4. /\ \A r \in Rows : r \in Nat /\ r < rows /\ lowers[r] \in Int /\ uppers[r] \in Int
          /\ rows \in Nat /\ sup \in Int /\ fi \in Nat
          /\ nb_of_intervals \in Nat \ {0} /\ interval_length \in Nat \ {0}
      <3>1. \A r \in Rows : r \in Nat /\ r < rows
        BY DEF Rows, FreqTypeOK
      <3>2. \A r \in Rows : lowers[r] \in Int /\ uppers[r] \in Int
        BY <1>1, CallFacts, Zenon
      <3>3. rows \in Nat /\ sup \in Int /\ fi \in Nat
        BY IntMaxAssumption DEF FreqTypeOK, Int32
      <3>4. nb_of_intervals \in Nat \ {0} /\ interval_length \in Nat \ {0}
        BY <1>1, <2>1, CallFacts DEF GridChosen
      <3>. QED  BY <3>1, <3>2, <3>3, <3>4, Zenon
    <2>5. \A j \in 0 .. nb_of_intervals - 1 : Sup(j) = Sup(j - 1) + interval_length /\ Sup(j) \in Int /\ Sup(j) \in Int32
      BY <1>1, <2>1, <2>4, SupFacts, CallFacts, IntMaxAssumption DEF Int32
    <2>6. CASE NextInterval
      <3>1. AtInterval /\ fi < nb_of_intervals /\ UNCHANGED <<fi, l, u, freq>>
        BY <1>1, <2>6, Zenon DEF NextInterval, SweepInv
      <3>2. fi \in 0 .. nb_of_intervals - 1
        BY <2>4, <3>1
      <3>3. sup' = Sup(fi) /\ sup' - interval_length = sup /\ sup' \in Int
        BY <2>4, <2>5, <2>6, <3>1, <3>2, WrapIdentity DEF NextInterval, AtInterval
      <3>4. k' = u /\ fpc' = "carry" /\ count' = [r \in Rows |-> 0]
        BY <2>6, Zenon DEF NextInterval
      <3>5. u <= l
        <4>1. CASE u = 0
          BY <4>1 DEF FreqTypeOK
        <4>2. CASE u # 0
          <5>1. u - 1 \in Rows /\ u \in Nat /\ l \in Nat /\ u - 1 < u
            BY <4>2 DEF FreqTypeOK, Rows
          <5>2. uppers[u - 1] <= sup + 1 /\ lowers[u - 1] < uppers[u - 1]
            BY <1>1, <3>1, <5>1, Zenon DEF AtInterval, UpperCursor, Ordered
          <5>3. u - 1 < l
            BY <2>4, <3>1, <5>1, <5>2 DEF AtInterval, LowerCursor
          <5>. QED  BY <5>1, <5>3
        <4>. QED  BY <4>1, <4>2, Zenon
      <3>6. (LowerCursor(sup - interval_length) /\ UpperCursor(sup - interval_length))'
        BY <1>1, <1>2, <2>1, <2>2, <3>1, <3>3, Zenon DEF AtInterval, LowerCursor, UpperCursor, geometry
      <3>7. \A r \in Rows' : r \notin (u .. k - 1)' /\ count'[r] = 0
        BY <1>2, <3>1, <3>4 DEF FreqTypeOK
      <3>8. InInterval'
        <4>1. Sup(fi)' = Sup(fi)
          BY <1>2, <2>2, <3>1, Zenon DEF Sup, geometry
        <4>. QED  BY <2>1, <3>1, <3>3, <4>1, Zenon DEF InInterval, geometry
      <3>9. (u <= k /\ k <= l)' /\ DOMAIN freq' = (0 .. fi - 1)'
        BY <3>1, <3>4, <3>5 DEF AtInterval, FreqTypeOK
      <3>10. AtCarry'
        BY <3>6, <3>7, <3>8, <3>9, Zenon DEF AtCarry
      <3>. QED  BY <1>1, <1>2, <2>1, <2>2, <2>3, <3>1, <3>4, <3>10, Zenon DEF SweepInv
    <2>7. CASE CarryRow
      <3>1. AtCarry /\ k \in Rows /\ k \in Nat /\ u \in Nat /\ l \in Nat /\ k < l
        BY <1>1, <2>7 DEF CarryRow, SweepInv, FreqTypeOK, Rows
      <3>2. /\ fpc' = "carry" /\ k' = k + 1 /\ UNCHANGED <<fi, l, u, sup, freq>>
            /\ count' = [count EXCEPT ![k] = CarriedMult(k)]
        BY <2>7, Zenon DEF CarryRow
      <3>3. lowers[k] <= sup - interval_length /\ uppers[k] > sup - interval_length + 1
        BY <2>4, <3>1 DEF AtCarry, LowerCursor, UpperCursor
      <3>4. CountOK(k, sup, CarriedMult(k))
        BY <1>1, <2>1, <3>1, <3>3, CarriedCount, Zenon DEF AtCarry
      <3>5. \A r \in Rows : count'[r] = IF r = k THEN CarriedMult(k) ELSE count[r]
        BY <2>7, <3>1, <3>2, Zenon DEF FreqTypeOK, CarryRow
      <3>6. \A r \in Rows' : IF r \in u' .. k' - 1 THEN CountOK(r, sup, count[r])'
                                                 ELSE count'[r] = 0
        <4>1. \A r \in Rows : IF r \in u .. k THEN CountOK(r, sup, count'[r]) ELSE count'[r] = 0
          BY <2>4, <3>1, <3>4, <3>5 DEF AtCarry
        <4>2. u' .. k' - 1 = u .. k
          BY <3>1, <3>2
        <4>. QED  BY <1>2, <2>3, <3>2, <4>1, <4>2, Zenon
      <3>7. (InInterval /\ LowerCursor(sup - interval_length) /\ UpperCursor(sup - interval_length))'
        BY <1>1, <1>2, <2>1, <2>2, <3>1, <3>2, Zenon
           DEF AtCarry, InInterval, LowerCursor, UpperCursor, geometry
      <3>8. AtCarry'
        BY <3>1, <3>2, <3>6, <3>7 DEF AtCarry
      <3>. QED  BY <1>1, <1>2, <2>1, <2>2, <2>3, <3>2, <3>8, Zenon DEF SweepInv
    <2>8. CASE CarryDone
      <3>1. AtCarry /\ k \in Nat /\ u \in Nat /\ l \in Nat /\ k = l
        BY <1>1, <2>8 DEF CarryDone, SweepInv, FreqTypeOK, AtCarry
      <3>2. fpc' = "enter" /\ UNCHANGED <<fi, l, u, k, sup, count, freq>>
        BY <2>8, Zenon DEF CarryDone
      <3>3. \A r \in Rows : IF r < l THEN CountOK(r, sup, count[r]) ELSE count[r] = 0
        <4>1. \A r \in Rows : r < u => CountOK(r, sup, 0)
          BY <1>1, <2>1, <3>1, SkippedCount, Zenon DEF AtCarry, UpperCursor
        <4>. QED  BY <2>4, <3>1, <4>1 DEF AtCarry
      <3>4. \A r \in Rows : IF r < l THEN lowers[r] <= sup ELSE lowers[r] > sup - interval_length
        BY <2>4, <3>1 DEF AtCarry, LowerCursor
      <3>5. AtEnter'
        BY <1>1, <1>2, <2>1, <2>2, <2>3, <3>1, <3>2, <3>3, <3>4, Zenon
           DEF AtCarry, AtEnter, InInterval, UpperCursor, geometry
      <3>. QED  BY <1>1, <1>2, <2>1, <2>2, <2>3, <3>2, <3>5, Zenon DEF SweepInv
    <2>9. CASE EnterRow
      <3>1. AtEnter /\ l \in Rows /\ l \in Nat /\ lowers[l] <= sup
        BY <1>1, <2>9 DEF EnterRow, SweepInv, FreqTypeOK, Rows
      <3>2. /\ fpc' = "enter" /\ l' = l + 1 /\ UNCHANGED <<fi, u, k, sup, freq>>
            /\ count' = [count EXCEPT ![l] = EnteredMult(l)]
        BY <2>9, Zenon DEF EnterRow
      <3>3. CountOK(l, sup, EnteredMult(l))
        BY <1>1, <2>1, <3>1, EnteredCount DEF AtEnter
      <3>4. \A r \in Rows : count'[r] = IF r = l THEN EnteredMult(l) ELSE count[r]
        BY <2>9, <3>1, <3>2, Zenon DEF FreqTypeOK, EnterRow
      <3>5. \A r \in Rows : IF r < l + 1 THEN CountOK(r, sup, count'[r]) ELSE count'[r] = 0
        BY <2>4, <3>1, <3>3, <3>4 DEF AtEnter
      <3>6. \A r \in Rows : IF r < l + 1 THEN lowers[r] <= sup ELSE lowers[r] > sup - interval_length
        BY <2>4, <3>1 DEF AtEnter
      <3>7. AtEnter'
        BY <1>1, <1>2, <2>1, <2>2, <2>3, <3>1, <3>2, <3>5, <3>6, Zenon
           DEF AtEnter, InInterval, UpperCursor, geometry
      <3>. QED  BY <1>1, <1>2, <2>1, <2>2, <2>3, <3>2, <3>7, Zenon DEF SweepInv
    <2>10. CASE EnterDone
      <3>1. AtEnter /\ l \in Nat /\ count \in [Rows -> Int] /\ (l < rows => lowers[l] > sup)
        BY <1>1, <2>10 DEF EnterDone, SweepInv, FreqTypeOK
      <3>2. /\ fpc' = "retire" /\ UNCHANGED <<fi, l, u, k, sup, count>>
            /\ freq' = [j \in 0 .. fi |-> IF j = fi THEN count ELSE freq[j]]
        BY <2>10, Zenon DEF EnterDone
      <3>3. \A r \in Rows : r >= l => lowers[r] > sup
        <4>. SUFFICES ASSUME NEW r \in Rows, r >= l PROVE lowers[r] > sup
          BY Zenon
        <4>1. l \in Rows /\ lowers[l] > sup
          BY <2>4, <3>1 DEF Rows
        <4>2. lowers[l] <= lowers[r]
          BY <1>1, <2>4, <4>1, Zenon DEF Ordered
        <4>. QED  BY <2>4, <4>1, <4>2
      <3>4. \A r \in Rows : CountOK(r, sup, count[r])
        BY <1>1, <2>1, <2>4, <3>1, <3>3, SkippedCount DEF AtEnter
      <3>5. AtRetire'
        <4>1. LowerCursor(sup)'
          BY <1>1, <1>2, <2>4, <3>1, <3>2, <3>3 DEF AtEnter, LowerCursor
        <4>2. \A r \in Rows : IF r < u THEN uppers[r] <= sup + 1 ELSE uppers[r] > sup - interval_length + 1
          BY <2>4, <3>1 DEF AtEnter, UpperCursor
        <4>. QED
          BY <1>1, <1>2, <2>1, <2>2, <3>1, <3>2, <4>1, <4>2, Zenon DEF AtEnter, AtRetire, InInterval, geometry
      <3>6. \A j \in DOMAIN freq', r \in Rows : CountOK(r, Sup(j), freq'[j][r])
        <4>. SUFFICES ASSUME NEW j \in 0 .. fi, NEW r \in Rows PROVE CountOK(r, Sup(j), freq'[j][r])
          BY <3>2, Zenon
        <4>1. CASE j = fi
          BY <3>1, <3>2, <3>4, <4>1, Zenon DEF AtEnter, InInterval
        <4>2. CASE j # fi
          <5>1. j \in DOMAIN freq
            BY <2>4, <3>1, <4>2 DEF AtEnter
          <5>2. CountOK(r, Sup(j), freq[j][r])
            BY <1>1, <5>1, Zenon DEF SweepInv
          <5>. QED  BY <3>2, <4>2, <5>2, Zenon
        <4>. QED  BY <4>1, <4>2, Zenon
      <3>. QED  BY <1>1, <1>2, <2>1, <2>2, <2>3, <3>2, <3>5, <3>6, Zenon DEF SweepInv
    <2>11. CASE RetireRow
      <3>1. AtRetire /\ u \in Rows /\ u \in Nat /\ uppers[u] <= Wrap(sup + 1)
        BY <1>1, <2>11 DEF RetireRow, SweepInv, FreqTypeOK, Rows
      <3>2. fpc' = "retire" /\ u' = u + 1 /\ UNCHANGED <<fi, l, k, sup, count, freq>>
        BY <2>11, Zenon DEF RetireRow
      <3>3. Wrap(sup + 1) = sup + 1
        BY <1>1, <2>1, <3>1, NextSupFits, Zenon DEF AtRetire
      <3>4. \A r \in Rows : IF r < u + 1 THEN uppers[r] <= sup + 1
                                         ELSE uppers[r] > sup - interval_length + 1
        BY <2>4, <3>1, <3>3 DEF AtRetire
      <3>5. AtRetire'
        BY <1>1, <1>2, <2>1, <2>2, <3>1, <3>2, <3>4, Zenon DEF AtRetire, InInterval, LowerCursor, geometry
      <3>. QED  BY <1>1, <1>2, <2>1, <2>2, <2>3, <3>2, <3>5, Zenon DEF SweepInv
    <2>12. CASE RetireDone
      <3>1. AtRetire /\ u \in Nat /\ (u < rows => uppers[u] > Wrap(sup + 1))
        BY <1>1, <2>12 DEF RetireDone, SweepInv, FreqTypeOK
      <3>2. fpc' = "interval" /\ fi' = fi + 1 /\ UNCHANGED <<l, u, k, sup, count, freq>>
        BY <2>12, Zenon DEF RetireDone
      <3>3. Wrap(sup + 1) = sup + 1
        BY <1>1, <2>1, <3>1, NextSupFits, Zenon DEF AtRetire
      <3>4. \A r \in Rows : r >= u => uppers[r] > sup + 1
        <4>. SUFFICES ASSUME NEW r \in Rows, r >= u PROVE uppers[r] > sup + 1
          BY Zenon
        <4>1. u \in Rows /\ uppers[u] > sup + 1
          BY <2>4, <3>1, <3>3 DEF Rows
        <4>2. uppers[u] <= uppers[r]
          BY <1>1, <2>4, <4>1, Zenon DEF Ordered
        <4>. QED  BY <2>4, <4>1, <4>2
      <3>5. (LowerCursor(sup) /\ UpperCursor(sup))'
        BY <1>1, <1>2, <2>4, <3>1, <3>2, <3>4 DEF AtRetire, LowerCursor, UpperCursor
      <3>6. AtInterval'
        <4>1. fi' - 1 = fi
          BY <2>4, <3>2
        <4>. QED
          BY <2>1, <2>2, <2>4, <3>1, <3>2, <3>5, <4>1 DEF AtInterval, AtRetire, InInterval, geometry
      <3>. QED  BY <1>1, <1>2, <2>1, <2>2, <2>3, <3>2, <3>6, Zenon DEF SweepInv
    <2>13. CASE Finish
      <3>1. AtInterval /\ fi = nb_of_intervals
        BY <1>1, <2>4, <2>13 DEF Finish, SweepInv, AtInterval
      <3>2. fpc' = "done" /\ UNCHANGED <<fi, l, u, k, sup, count, freq>>
        BY <2>13, Zenon DEF Finish
      <3>3. AtInterval'
        BY <1>1, <1>2, <2>1, <2>2, <3>1, <3>2, Zenon DEF AtInterval, LowerCursor, UpperCursor, geometry
      <3>. QED  BY <1>1, <1>2, <2>1, <2>2, <2>3, <3>1, <3>2, <3>3, Zenon DEF SweepInv, geometry
    <2>. QED  BY <1>4, <2>6, <2>7, <2>8, <2>9, <2>10, <2>11, <2>12, <2>13, Zenon DEF FreqNext, Geometry
  <1>5. CASE UNCHANGED freqVars
    <2>. USE DEF freqVars
    <2>1. (Ordered /\ FreqNoWrap)' => Ordered /\ FreqNoWrap
      BY <1>5, Zenon DEF Ordered, FreqNoWrap, Rows, Length, min, max
    <2>2. AtGeometry /\ fpc = "geometry" => AtGeometry'
      BY <1>5, Zenon DEF AtGeometry
    <2>3. (GridChosen => GridChosen') /\ (AtInterval => AtInterval')
      BY <1>5, Zenon DEF GridChosen, AtInterval, LowerCursor, UpperCursor, Sup, Rows, Length, min, max
    <2>4. AtCarry => AtCarry'
      BY <1>5, Zenon DEF AtCarry, InInterval, LowerCursor, UpperCursor, CountOK, Shared, UpperCounted, Sup,
                  Rows, min
    <2>5. AtEnter => AtEnter'
      BY <1>5, Zenon DEF AtEnter, InInterval, UpperCursor, CountOK, Shared, UpperCounted, Sup, Rows, min
    <2>6. AtRetire => AtRetire'
      BY <1>5, Zenon DEF AtRetire, InInterval, LowerCursor, Sup, Rows, min
    <2>7. ASSUME \A j \in DOMAIN freq, r \in Rows : CountOK(r, Sup(j), freq[j][r])
          PROVE  (\A j \in DOMAIN freq, r \in Rows : CountOK(r, Sup(j), freq[j][r]))'
      BY <1>5, <2>7 DEF CountOK, Shared, UpperCounted, Sup, Rows, min
    <2>. QED  BY <1>5, <2>1, <2>2, <2>3, <2>4, <2>5, <2>6, <2>7, Zenon DEF SweepInv
  <1>. QED
    BY <1>3, <1>4, <1>5, Zenon DEF FreqNext, Returned, NextInterval, CarryRow, CarryDone,
               EnterRow, EnterDone, RetireRow, RetireDone, Finish
(* The invariant of the sweep holds in every state of every call.          *)
THEOREM SweepInvariant == FreqSpec => []SweepInv
  <1>2. FreqTypeOK /\ FreqTypeOK' /\ SweepInv /\ [FreqNext \/ Returned]_freqVars => SweepInv'
    BY SweepStep, Zenon
  <1>. QED  BY <1>2, SweepInit, TypeCorrect, PTL DEF FreqSpec

(* count_frequencies, for any number of rows and any values: on a column   *)
(* without negative or infinite bounds each interval gets from each row    *)
(* the number of the row's values in it, plus one exactly when the row's   *)
(* exclusive upper bound is the end of an interval of several values.      *)
THEOREM SweepIsExact == FreqSpec => []SweepExact
  <1>1. SweepInv => SweepExact
    BY Zenon DEF SweepInv, SweepExact, CountOK
  <1>. QED  BY <1>1, SweepInvariant, PTL

(* count_frequencies, negative values included: the unsigned comparisons   *)
(* never make an interval miss a value of a row.                           *)
THEOREM SweepNeverUndercounts == FreqSpec => []NeverUndercounts
  <1>1. SweepInv => NeverUndercounts
    BY Zenon DEF SweepInv, NeverUndercounts, CountOK
  <1>. QED  BY <1>1, SweepInvariant, PTL

(* ComputeFrequencyHistogram on a column of finite ranges: neither of its  *)
(* divisions traps, and its grid covers the column, so that the sweep ends *)
(* with every row entered and retired.                                     *)
THEOREM GridCoversColumn == FreqSpec => []GridCovers
  <1>1. FreqTypeOK /\ SweepInv => GridCovers
    <2>. SUFFICES ASSUME FreqTypeOK, SweepInv, Ordered, FreqNoWrap PROVE fpc # "sigfpe" /\ (fpc = "done" => l = rows /\ u = rows)
      BY Zenon DEF GridCovers
    <2>1. fpc # "sigfpe"
      BY Zenon DEF SweepInv
    <2>2. ASSUME fpc = "done" PROVE l = rows /\ u = rows
      <3>1. GridChosen /\ AtInterval /\ fi = nb_of_intervals
        BY <2>2, Zenon DEF SweepInv
      <3>2. nb_of_intervals \in Nat \ {0}
        BY <3>1, CallFacts, Zenon DEF GridChosen
      <3>3. sup >= max /\ sup \in Int /\ max \in Int
        <4>1. nb_of_intervals - 1 \in 0 .. nb_of_intervals - 1
          BY <3>2
        <4>. QED  BY <3>1, <4>1, SupFacts, CallFacts, IntMaxAssumption DEF AtInterval, Int32
      <3>4. rows - 1 \in Rows /\ rows \in Nat /\ l \in 0 .. rows /\ u \in 0 .. rows
        BY DEF FreqTypeOK, Rows
      <3>5. lowers[rows - 1] \in Int /\ uppers[rows - 1] \in Int
            /\ lowers[rows - 1] < uppers[rows - 1] /\ uppers[rows - 1] <= max
        BY <3>4, CallFacts, Zenon
      <3>6. lowers[rows - 1] <= sup /\ uppers[rows - 1] <= sup + 1
        BY <3>3, <3>5
      <3>7. rows - 1 < l /\ rows - 1 < u
        BY <3>1, <3>4, <3>6, Zenon DEF AtInterval, LowerCursor, UpperCursor
      <3>. QED  BY <3>4, <3>7
    <2>. QED  BY <2>1, <2>2, Zenon
  <1>. QED  BY <1>1, SweepInvariant, TypeCorrect, PTL
-----------------------------------------------------------------------------
(* Sums over finite sets.  Induction over data goes by the least           *)
(* counterexample.                                                         *)

(* The element MapThenSumSet takes next.                                   *)
Pick(s) == CHOOSE x \in s : TRUE

(* f adds up the values of g over subsets of S.                            *)
Adds(f, S, g) ==
    \A s \in S : f[s] = IF s = {} THEN 0 ELSE g[Pick(s)] + f[s \ {Pick(s)}]

(* A subset loses one element to the sum.                                  *)
LEMMA PickOne ==
    ASSUME NEW S, IsFiniteSet(S), NEW s \in SUBSET S
    PROVE  /\ IsFiniteSet(s) /\ Cardinality(s) \in Nat
           /\ Cardinality(s) = 0 <=> s = {}
           /\ s # {} => Pick(s) \in s
           /\ \A x \in s : s \ {x} \in SUBSET S /\ Cardinality(s \ {x}) = Cardinality(s) - 1
  <1>1. IsFiniteSet(s)
    BY FS_Subset, Zenon
  <1>2. Cardinality(s) \in Nat /\ (Cardinality(s) = 0 <=> s = {})
    BY <1>1, FS_CardinalityType, FS_EmptySet, Zenon
  <1>3. s # {} => Pick(s) \in s
    BY Zenon DEF Pick
  <1>4. \A x \in s : s \ {x} \in SUBSET S
    BY Zenon
  <1>5. \A x \in s : Cardinality(s \ {x}) = Cardinality(s) - 1
    BY <1>1, FS_RemoveElement, Zenon
  <1>. QED  BY <1>1, <1>2, <1>3, <1>4, <1>5, Zenon

(* Taking an element away takes one off the cardinality.                   *)
LEMMA RemoveOne ==
    ASSUME NEW S, IsFiniteSet(S), NEW s \in SUBSET S, NEW x \in s
    PROVE  /\ Cardinality(s) \in Nat /\ Cardinality(s \ {x}) \in Nat
           /\ Cardinality(s \ {x}) = Cardinality(s) - 1
  <1>1. IsFiniteSet(s)
    BY FS_Subset, Zenon
  <1>2. IsFiniteSet(s \ {x}) /\ Cardinality(s \ {x}) = Cardinality(s) - 1
    BY <1>1, FS_RemoveElement, Zenon
  <1>. QED  BY <1>1, <1>2, FS_CardinalityType, Zenon

(* f is the function that adds up g, integer valued, over a finite set S.  *)
Summation(f, S, g) ==
    /\ IsFiniteSet(S) /\ g \in [S -> Int]
    /\ f \in [SUBSET S -> Int] /\ Adds(f, SUBSET S, g)

(* Every integer function on a finite set has a sum.                       *)
LEMMA SumExists ==
    ASSUME NEW S, IsFiniteSet(S), NEW g \in [S -> Int]
    PROVE  \E f : Summation(f, S, g)
  <1>. DEFINE T(n) == {s \in SUBSET S : Cardinality(s) <= n}
              P(n) == \E f \in [T(n) -> Int] : Adds(f, T(n), g)
              Bad == {n \in Nat : ~P(n)}
  <1>1. P(0)
    <2>1. T(0) \subseteq {{}}
      <3>1. SUFFICES ASSUME NEW s \in T(0) PROVE s = {}
        BY Zenon
      <3>2. Cardinality(s) = 0
        BY <3>1, PickOne
      <3>. QED  BY <3>1, <3>2, PickOne, Zenon
    <2>. DEFINE z == [s \in T(0) |-> 0]
    <2>2. z \in [T(0) -> Int] /\ \A s \in T(0) : z[s] = 0
      OBVIOUS
    <2>. QED  BY <2>1, <2>2, Zenon DEF Adds
  <1>2. ASSUME NEW n \in Nat, P(n) PROVE P(n + 1)
    <2>1. PICK f \in [T(n) -> Int] : Adds(f, T(n), g)
      BY <1>2, Zenon
    <2>. DEFINE h == [s \in T(n + 1) |-> IF s = {} THEN 0 ELSE g[Pick(s)] + f[s \ {Pick(s)}]]
    <2>2. \A s \in T(n + 1) : s # {} => g[Pick(s)] \in Int /\ s \ {Pick(s)} \in T(n)
      <3>1. SUFFICES ASSUME NEW s \in T(n + 1), s # {}
                     PROVE  g[Pick(s)] \in Int /\ s \ {Pick(s)} \in T(n)
        BY Zenon
      <3>2. /\ Cardinality(s) \in Nat /\ Pick(s) \in s /\ s \ {Pick(s)} \in SUBSET S
            /\ Cardinality(s \ {Pick(s)}) = Cardinality(s) - 1 /\ Cardinality(s) <= n + 1
        BY <3>1, PickOne, Zenon
      <3>3. Cardinality(s \ {Pick(s)}) <= n
        BY <3>2
      <3>4. g[Pick(s)] \in Int
        BY <3>2, Zenon
      <3>. QED  BY <3>2, <3>3, <3>4, Zenon
    <2>3. h \in [T(n + 1) -> Int]
      <3>1. \A s \in T(n + 1) : (IF s = {} THEN 0 ELSE g[Pick(s)] + f[s \ {Pick(s)}]) \in Int
        <4>1. SUFFICES ASSUME NEW s \in T(n + 1), s # {} PROVE g[Pick(s)] + f[s \ {Pick(s)}] \in Int
          OBVIOUS
        <4>2. g[Pick(s)] \in Int /\ f[s \ {Pick(s)}] \in Int
          BY <2>2, <4>1, Zenon
        <4>. QED  BY <4>2
      <3>. QED  BY <3>1, Zenon
    <2>4. \A s \in T(n) : h[s] = f[s]
      <3>1. \A s \in T(n) : s \in T(n + 1)
        BY PickOne
      <3>. QED  BY <2>1, <3>1, Zenon DEF Adds
    <2>5. Adds(h, T(n + 1), g)
      BY <2>2, <2>4, Zenon DEF Adds
    <2>. QED  BY <2>3, <2>5, Zenon
  <1>. HIDE DEF P
  <1>3. \A n \in Nat : P(n)
    <2>1. SUFFICES ASSUME Bad # {} PROVE FALSE
      BY Zenon
    <2>2. PICK m \in Bad : \A n \in Bad : m <= n
      BY <2>1, NaturalsWellOrdered, Zenon
    <2>3. m # 0
      BY <1>1, <2>2, Zenon
    <2>4. PICK n \in Nat : m = n + 1 /\ ~ (m <= n)
      BY <2>2, <2>3
    <2>5. P(n)
      BY <2>2, <2>4, Zenon
    <2>. QED  BY <1>2, <2>2, <2>4, <2>5, Zenon
  <1>4. PICK n \in Nat : n = Cardinality(S)
    BY FS_CardinalityType, Zenon
  <1>5. T(n) = SUBSET S
    BY <1>4, FS_Subset
  <1>6. PICK f \in [SUBSET S -> Int] : Adds(f, SUBSET S, g)
    BY <1>3, <1>4, <1>5, Zenon DEF P
  <1>. QED  BY <1>6, Zenon DEF Summation

(* The order in which the elements are taken does not matter.              *)
AnyOrder(f, S, g) == \A s \in SUBSET S : \A x \in s : f[s] = g[x] + f[s \ {x}]

(* A sum may take any element first.                                       *)
LEMMA SumAnyOrder ==
    ASSUME NEW S, NEW g, NEW f, Summation(f, S, g)
    PROVE  AnyOrder(f, S, g)
  <1>. IsFiniteSet(S) /\ g \in [S -> Int] /\ f \in [SUBSET S -> Int] /\ Adds(f, SUBSET S, g)
    BY Zenon DEF Summation
  <1>. DEFINE P(n) == \A t \in SUBSET S : Cardinality(t) = n =>
                          \A z \in t : f[t] = g[z] + f[t \ {z}]
              Bad == {n \in Nat : ~P(n)}
  <1>1. \A n \in Nat : P(n)
    <2>1. SUFFICES ASSUME Bad # {} PROVE FALSE
      BY Zenon
    <2>2. PICK m \in Bad : \A n \in Bad : m <= n
      BY <2>1, NaturalsWellOrdered, Zenon
    <2>3. PICK t \in SUBSET S, z \in S : z \in t /\ Cardinality(t) = m /\ f[t] # g[z] + f[t \ {z}]
      BY <2>2, Zenon
    <2>. DEFINE c == Pick(t)
    <2>4. c \in t /\ f[t] = g[c] + f[t \ {c}] /\ c # z
      BY <2>3, PickOne, Zenon DEF Adds
    <2>. HIDE DEF c
    <2>5. /\ t \ {c} \in SUBSET S /\ z \in t \ {c} /\ t \ {z} \in SUBSET S /\ c \in t \ {z}
          /\ (t \ {c}) \ {z} = (t \ {z}) \ {c}
      BY <2>3, <2>4, Zenon
    <2>6. Cardinality(t \ {c}) = m - 1 /\ Cardinality(t \ {z}) = m - 1 /\ m \in Nat
      BY <2>2, <2>3, <2>4, RemoveOne, Zenon
    <2>7. PICK n \in Nat : n = m - 1 /\ ~ (m <= n)
      <3>1. Cardinality(t \ {c}) \in Nat
        BY <2>3, <2>4, RemoveOne, Zenon
      <3>. QED  BY <2>6, <3>1
    <2>8. P(n)
      BY <2>2, <2>7, Zenon
    <2>9. f[t \ {c}] = g[z] + f[(t \ {c}) \ {z}] /\ f[t \ {z}] = g[c] + f[(t \ {z}) \ {c}]
      BY <2>5, <2>6, <2>7, <2>8, Zenon
    <2>10. PICK p \in Int, q \in Int, r \in Int :
             p = g[z] /\ q = g[c] /\ r = f[(t \ {c}) \ {z}]
      BY <2>3, <2>4, Zenon
    <2>11. f[t] = q + (p + r) /\ f[t \ {z}] = q + r
      BY <2>4, <2>5, <2>9, <2>10, Zenon
    <2>12. q + (p + r) = p + (q + r)
      BY <2>10
    <2>. QED  BY <2>3, <2>10, <2>11, <2>12, Zenon
  <1>2. \A s \in SUBSET S : Cardinality(s) \in Nat
    BY PickOne, Zenon
  <1>. QED  BY <1>1, <1>2, Zenon DEF AnyOrder

(* There is only one such function.                                        *)
LEMMA SumUnique ==
    ASSUME NEW S, IsFiniteSet(S), NEW g,
           NEW f, Adds(f, SUBSET S, g), NEW h, Adds(h, SUBSET S, g)
    PROVE  f[S] = h[S]
  <1>. DEFINE P(n) == \A s \in SUBSET S : Cardinality(s) = n => f[s] = h[s]
              Bad == {n \in Nat : ~P(n)}
  <1>1. \A n \in Nat : P(n)
    <2>1. SUFFICES ASSUME Bad # {} PROVE FALSE
      BY Zenon
    <2>2. PICK m \in Bad : \A n \in Bad : m <= n
      BY <2>1, NaturalsWellOrdered, Zenon
    <2>3. PICK s \in SUBSET S : Cardinality(s) = m /\ f[s] # h[s]
      BY <2>2, Zenon
    <2>. DEFINE c == Pick(s)
    <2>4. s # {} /\ c \in s /\ s \ {c} \in SUBSET S /\ f[s \ {c}] # h[s \ {c}]
      <3>1. /\ f[s] = IF s = {} THEN 0 ELSE g[c] + f[s \ {c}]
            /\ h[s] = IF s = {} THEN 0 ELSE g[c] + h[s \ {c}]
        BY Zenon DEF Adds
      <3>2. s # {} /\ f[s \ {c}] # h[s \ {c}]
        BY <2>3, <3>1, Zenon
      <3>3. c \in s
        BY <3>2, Zenon DEF Pick
      <3>. QED  BY <3>2, <3>3, Zenon
    <2>. HIDE DEF c
    <2>5. m \in Nat /\ Cardinality(s \ {c}) \in Nat /\ Cardinality(s \ {c}) = m - 1
      BY <2>2, <2>3, <2>4, RemoveOne, Zenon
    <2>6. PICK n \in Nat : n = Cardinality(s \ {c}) /\ ~ (m <= n)
      BY <2>5
    <2>7. ~P(n)
      BY <2>4, <2>6, Zenon
    <2>. QED  BY <2>2, <2>6, <2>7, Zenon
  <1>2. S \in SUBSET S /\ Cardinality(S) \in Nat
    BY FS_CardinalityType, Zenon
  <1>. QED  BY <1>1, <1>2, Zenon

(* SumFunctionOnSet is such a function.                                    *)
LEMMA SumIs ==
    ASSUME NEW S, IsFiniteSet(S), NEW g \in [S -> Int], NEW q, \A j \in S : q[j] = g[j]
    PROVE  \E f : Summation(f, S, g) /\ SumFunctionOnSet(q, S) = f[S]
  <1>1. \A j \in S : g[j] = q[j]
    BY Zenon
  <1>2. PICK f : Summation(f, S, g)
    BY <1>1, SumExists, Zenon
  <1>3. f \in [SUBSET S -> Int] /\ Adds(f, SUBSET S, g)
    BY <1>2, Zenon DEF Summation
  <1>4. \A s \in SUBSET S : s # {} => g[Pick(s)] = q[Pick(s)]
    BY <1>1, Zenon DEF Pick
  <1>5. f = [s \in SUBSET S |-> IF s = {} THEN 0 ELSE q[Pick(s)] + f[s \ {Pick(s)}]]
    BY <1>3, <1>4 DEF Adds
  <1>6. PICK h : /\ h = [s \in SUBSET S |-> IF s = {} THEN 0 ELSE q[Pick(s)] + h[s \ {Pick(s)}]]
                 /\ SumFunctionOnSet(q, S) = h[S]
    BY <1>5, Zenon DEF SumFunctionOnSet, FoldFunctionOnSet, MapThenFoldSet, Pick
  <1>7. Adds(h, SUBSET S, g)
    BY <1>4, <1>6, Zenon DEF Adds
  <1>8. h[S] = f[S]
    BY <1>3, <1>7, SumUnique, Zenon
  <1>. QED  BY <1>2, <1>6, <1>8, Zenon

(* Adding up from left to right.                                           *)
LEMMA PrefixSum ==
    ASSUME NEW n \in Nat \ {0}, NEW g, NEW f, Summation(f, 0 .. n - 1, g), NEW m \in 0 .. n - 1
    PROVE  f[0 .. m] = g[m] + f[0 .. m - 1]
  <1>1. m \in 0 .. m /\ (0 .. m) \ {m} = 0 .. m - 1
    OBVIOUS
  <1>2. 0 .. m \in SUBSET (0 .. n - 1)
    OBVIOUS
  <1>3. AnyOrder(f, 0 .. n - 1, g)
    BY SumAnyOrder, Zenon
  <1>4. f[0 .. m] = g[m] + f[(0 .. m) \ {m}]
    BY <1>1, <1>2, <1>3, Zenon DEF AnyOrder
  <1>. QED  BY <1>1, <1>4, Zenon

(* Of some subsets of a finite set one is smallest.                        *)
LEMMA SmallestSubset ==
    ASSUME NEW S, IsFiniteSet(S), NEW B \in SUBSET SUBSET S, B # {}
    PROVE  \E s \in B : \A e \in s : s \ {e} \notin B
  <1>. DEFINE Sizes == {Cardinality(s) : s \in B}
  <1>1. \A s \in B : s \in SUBSET S /\ Cardinality(s) \in Nat
    BY PickOne, Zenon
  <1>2. Sizes \in SUBSET Nat /\ Sizes # {}
    BY <1>1, Zenon
  <1>3. PICK m \in Sizes : \A n \in Sizes : m <= n
    BY <1>2, NaturalsWellOrdered, Zenon
  <1>4. PICK s \in B : m = Cardinality(s)
    BY <1>3, Zenon
  <1>5. ASSUME NEW e \in s, s \ {e} \in B
        PROVE  FALSE
    <2>1. /\ Cardinality(s) \in Nat /\ Cardinality(s \ {e}) \in Nat
          /\ Cardinality(s \ {e}) = Cardinality(s) - 1
      BY <1>1, <1>4, <1>5, RemoveOne, Zenon
    <2>2. Cardinality(s) <= Cardinality(s \ {e})
      BY <1>3, <1>4, <1>5, Zenon
    <2>. QED  BY <2>1, <2>2
  <1>. QED  BY <1>4, <1>5, Zenon

(* What a summation does with one subset.                                  *)
LEMMA SumOfSubset ==
    ASSUME NEW S, NEW g, NEW f, Summation(f, S, g), NEW s \in SUBSET S
    PROVE  /\ f[s] \in Int
           /\ s = {} => f[s] = 0
           /\ \A e \in s : g[e] \in Int /\ f[s \ {e}] \in Int /\ f[s] = g[e] + f[s \ {e}]
  <1>1. AnyOrder(f, S, g)
    BY SumAnyOrder, Zenon
  <1>2. f \in [SUBSET S -> Int] /\ g \in [S -> Int] /\ Adds(f, SUBSET S, g)
    BY Zenon DEF Summation
  <1>3. \A e \in s : f[s] = g[e] + f[s \ {e}]
    BY <1>1, Zenon DEF AnyOrder
  <1>4. s = {} => f[s] = 0
    BY <1>2, Zenon DEF Adds
  <1>5. \A e \in s : g[e] \in Int /\ f[s \ {e}] \in Int
    BY <1>2, Zenon
  <1>. QED  BY <1>2, <1>3, <1>4, <1>5, Zenon

(* Sums compare as their terms do.                                         *)
LEMMA SumCompare ==
    ASSUME NEW S, NEW g1, NEW g2, NEW g3, NEW f1, NEW f2, NEW f3,
           Summation(f1, S, g1), Summation(f2, S, g2), Summation(f3, S, g3),
           \A e \in S : g3[e] <= g1[e] + g2[e]
    PROVE  f3[S] <= f1[S] + f2[S]
  <1>. DEFINE B == {s \in SUBSET S : ~ (f3[s] <= f1[s] + f2[s])}
  <1>1. SUFFICES ASSUME B # {} PROVE FALSE
    BY Zenon
  <1>2. PICK s \in B : \A e \in s : s \ {e} \notin B
    <2>1. B \in SUBSET SUBSET S /\ IsFiniteSet(S)
      BY Zenon DEF Summation
    <2>. HIDE DEF B
    <2>. QED  BY <1>1, <2>1, SmallestSubset, Zenon
  <1>3. s # {}
    BY <1>2, SumOfSubset
  <1>4. PICK e \in S : e \in s /\ s \ {e} \in SUBSET S
    BY <1>2, <1>3, Zenon
  <1>5. f3[s \ {e}] <= f1[s \ {e}] + f2[s \ {e}]
    BY <1>2, <1>4, Zenon
  <1>6. /\ g1[e] \in Int /\ f1[s \ {e}] \in Int /\ f1[s] = g1[e] + f1[s \ {e}]
        /\ g2[e] \in Int /\ f2[s \ {e}] \in Int /\ f2[s] = g2[e] + f2[s \ {e}]
        /\ g3[e] \in Int /\ f3[s \ {e}] \in Int /\ f3[s] = g3[e] + f3[s \ {e}]
    BY <1>2, <1>4, SumOfSubset
  <1>7. g3[e] <= g1[e] + g2[e]
    BY <1>4, Zenon
  <1>8. f3[s] <= f1[s] + f2[s]
    BY <1>5, <1>6, <1>7
  <1>. QED  BY <1>2, <1>8, Zenon

(* A sum of equal terms.                                                   *)
LEMMA SumConstant ==
    ASSUME NEW S, NEW g, NEW f, Summation(f, S, g), NEW c \in Int, \A e \in S : g[e] = c
    PROVE  f[S] = Cardinality(S) * c
  <1>. DEFINE B == {s \in SUBSET S : f[s] # Cardinality(s) * c}
  <1>1. SUFFICES ASSUME B # {} PROVE FALSE
    BY Zenon
  <1>2. IsFiniteSet(S)
    BY Zenon DEF Summation
  <1>3. PICK s \in B : \A e \in s : s \ {e} \notin B
    <2>1. B \in SUBSET SUBSET S
      BY Zenon
    <2>. HIDE DEF B
    <2>. QED  BY <1>1, <1>2, <2>1, SmallestSubset, Zenon
  <1>4. s # {}
    <2>1. SUFFICES ASSUME s = {} PROVE f[s] = Cardinality(s) * c
      BY <1>3, Zenon
    <2>2. f[s] = 0
      BY <1>3, <2>1, SumOfSubset
    <2>3. Cardinality(s) = 0
      BY <1>2, <1>3, <2>1, PickOne, Zenon
    <2>. QED  BY <2>2, <2>3
  <1>5. PICK e \in S : e \in s /\ s \ {e} \in SUBSET S
    BY <1>3, <1>4, Zenon
  <1>6. f[s \ {e}] = Cardinality(s \ {e}) * c
    BY <1>3, <1>5, Zenon
  <1>7. f[s] = c + f[s \ {e}]
    <2>1. f[s] = g[e] + f[s \ {e}]
      BY <1>3, <1>5, SumOfSubset
    <2>. QED  BY <2>1, <1>5, Zenon
  <1>8. PICK n \in Nat : /\ Cardinality(s \ {e}) = n /\ Cardinality(s) = n + 1
    BY <1>2, <1>3, <1>5, RemoveOne
  <1>9. c + n * c = (n + 1) * c
    BY <1>8
  <1>. QED  BY <1>3, <1>6, <1>7, <1>8, <1>9, Zenon

(* A sum of naturals is at least each of them.                             *)
LEMMA SumAtLeast ==
    ASSUME NEW S, NEW g, NEW f, Summation(f, S, g), \A e \in S : g[e] >= 0
    PROVE  f[S] \in Nat /\ \A e \in S : g[e] <= f[S]
  <1>. DEFINE B == {s \in SUBSET S : ~ (f[s] >= 0)}
  <1>1. B = {}
    <2>1. SUFFICES ASSUME B # {} PROVE FALSE
      BY Zenon
    <2>2. PICK s \in B : \A e \in s : s \ {e} \notin B
      <3>1. B \in SUBSET SUBSET S /\ IsFiniteSet(S)
        BY Zenon DEF Summation
      <3>. HIDE DEF B
      <3>. QED  BY <2>1, <3>1, SmallestSubset, Zenon
    <2>3. s # {}
      BY <2>2, SumOfSubset
    <2>4. PICK e \in S : e \in s /\ s \ {e} \in SUBSET S
      BY <2>2, <2>3, Zenon
    <2>5. f[s \ {e}] >= 0 /\ g[e] >= 0
      BY <2>2, <2>4, Zenon
    <2>6. g[e] \in Int /\ f[s \ {e}] \in Int /\ f[s] = g[e] + f[s \ {e}]
      BY <2>2, <2>4, SumOfSubset
    <2>7. f[s] >= 0
      BY <2>5, <2>6
    <2>. QED  BY <2>2, <2>7, Zenon
  <1>2. \A s \in SUBSET S : f[s] >= 0
    BY <1>1, Zenon
  <1>3. S \in SUBSET S /\ \A e \in S : S \ {e} \in SUBSET S
    BY Zenon
  <1>4. f[S] \in Int /\ \A e \in S : g[e] \in Int /\ f[S \ {e}] \in Int /\ f[S] = g[e] + f[S \ {e}]
    BY <1>3, SumOfSubset
  <1>5. f[S] >= 0 /\ \A e \in S : f[S \ {e}] >= 0
    BY <1>2, <1>3, Zenon
  <1>6. ASSUME NEW e \in S PROVE g[e] <= f[S]
    <2>1. g[e] \in Int /\ f[S \ {e}] \in Int /\ f[S] = g[e] + f[S \ {e}] /\ f[S \ {e}] >= 0
      BY <1>4, <1>5
    <2>. QED  BY <2>1
  <1>. QED  BY <1>4, <1>5, <1>6
-----------------------------------------------------------------------------
(* What the intervals of a finished sweep hold of one row together.       *)

(* The values of row r before the end of m intervals, and whether its      *)
(* upper bound was the end of one of them.                                 *)
Before(r, m) == Greatest(0, Least(uppers[r], Sup(m - 1) + 1) - lowers[r])
Met(r, m) == IF \E j \in 0 .. m - 1 : UpperCounted(r, Sup(j)) = 1 THEN 1 ELSE 0

(* The intervals end one after another.                                    *)
LEMMA SupIncreases ==
    ASSUME FreqTypeOK, Ordered, FreqNoWrap, GridChosen,
           NEW m \in 0 .. nb_of_intervals - 1, NEW j \in 0 .. m - 1
    PROVE  Sup(j) < Sup(m)
  <1>1. interval_length \in Nat \ {0} /\ nb_of_intervals \in Nat /\ min \in Int
    BY CallFacts, IntMaxAssumption DEF GridChosen, Int32
  <1>2. j \in Nat /\ m \in Nat /\ j + 1 <= m /\ j + 1 \in Nat
    BY <1>1
  <1>3. (j + 1) * interval_length <= m * interval_length
    BY <1>1, <1>2, MultipleMonotone
  <1>4. (m + 1) * interval_length = m * interval_length + interval_length
    BY <1>1, <1>2
  <1>5. (j + 1) * interval_length \in Int /\ m * interval_length \in Int
    BY <1>1, <1>2
  <1>. QED  BY <1>1, <1>3, <1>4, <1>5 DEF Sup

(* One more interval.                                                      *)
LEMMA MassStep ==
    ASSUME FreqTypeOK, Ordered, FreqNoWrap, GridChosen,
           NEW m \in 0 .. nb_of_intervals - 1, NEW r \in Rows
    PROVE  /\ Before(r, m) \in Int /\ Before(r, m + 1) = Before(r, m) + Shared(r, Sup(m))
           /\ Met(r, m) \in Int /\ Met(r, m + 1) = Met(r, m) + UpperCounted(r, Sup(m))
           /\ Shared(r, Sup(m)) \in Nat /\ UpperCounted(r, Sup(m)) \in {0, 1}
  <1>1. /\ interval_length \in Nat \ {0} /\ lowers[r] \in Int /\ uppers[r] \in Int
        /\ lowers[r] < uppers[r] /\ Sup(m - 1) \in Int /\ Sup(m) = Sup(m - 1) + interval_length
    BY SupFacts, CallFacts, IntMaxAssumption
  <1>2. m \in Nat /\ (m + 1) - 1 = m
    BY CallFacts DEF GridChosen
  <1>3. Before(r, m + 1) = Greatest(0, Least(uppers[r], Sup(m) + 1) - lowers[r])
    BY <1>2, Zenon DEF Before
  <1>4. /\ Before(r, m) \in Int /\ Before(r, m + 1) = Before(r, m) + Shared(r, Sup(m))
        /\ Shared(r, Sup(m)) \in Nat
    <2>1. \A lo, up, s, t \in Int, d \in Nat \ {0} : lo < up /\ t = s + d =>
              /\ Greatest(0, Least(up, s + 1) - lo) \in Int
              /\ Greatest(0, Least(up, t + 1) - lo)
                   = Greatest(0, Least(up, s + 1) - lo)
                     + Greatest(0, Least(up, t + 1) - Greatest(lo, t - d + 1))
              /\ Greatest(0, Least(up, t + 1) - Greatest(lo, t - d + 1)) \in Nat
      BY DEF Greatest, Least
    <2>2. Sup(m) \in Int
      BY <1>1
    <2>3. /\ Before(r, m) \in Int
          /\ Greatest(0, Least(uppers[r], Sup(m) + 1) - lowers[r]) = Before(r, m) + Shared(r, Sup(m))
          /\ Shared(r, Sup(m)) \in Nat
      BY <1>1, <2>1, <2>2, Zenon DEF Before, Shared
    <2>. QED  BY <1>3, <2>3, Zenon
  <1>5. UpperCounted(r, Sup(m)) \in {0, 1} /\ Met(r, m) \in Int
    BY DEF UpperCounted, Met
  <1>6. \A j \in 0 .. (m + 1) - 1 : j = m \/ j \in 0 .. m - 1
    BY <1>2
  <1>7. m \in 0 .. (m + 1) - 1 /\ \A j \in 0 .. m - 1 : j \in 0 .. (m + 1) - 1
    BY <1>2
  <1>8. CASE UpperCounted(r, Sup(m)) = 1
    <2>1. Sup(m) = uppers[r]
      BY <1>8 DEF UpperCounted
    <2>2. \A j \in 0 .. m - 1 : Sup(j) < Sup(m)
      BY SupIncreases, Zenon
    <2>3. Sup(m) \in Int
      BY <1>1
    <2>4. \A j \in 0 .. m - 1 : Sup(j) # uppers[r]
      BY <2>1, <2>2, <2>3
    <2>5. \A j \in 0 .. m - 1 : UpperCounted(r, Sup(j)) = 0
      BY <2>4, Zenon DEF UpperCounted
    <2>6. Met(r, m) = 0
      BY <2>5 DEF Met
    <2>7. Met(r, m + 1) = 1
      BY <1>7, <1>8, Zenon DEF Met
    <2>. QED  BY <1>4, <1>5, <1>8, <2>6, <2>7
  <1>9. CASE UpperCounted(r, Sup(m)) = 0
    <2>1. Met(r, m + 1) = Met(r, m)
      <3>1. (\E j \in 0 .. m - 1 : UpperCounted(r, Sup(j)) = 1)
               <=> \E j \in 0 .. (m + 1) - 1 : UpperCounted(r, Sup(j)) = 1
        BY <1>6, <1>7, <1>9
      <3>. QED  BY <3>1, Zenon DEF Met
    <2>. QED  BY <1>4, <1>5, <1>9, <2>1
  <1>. QED  BY <1>5, <1>8, <1>9, Zenon

(* Nothing of a row lies before the first interval, all of it before the   *)
(* end of the last.                                                        *)
LEMMA BeforeEnds ==
    ASSUME FreqTypeOK, Ordered, FreqNoWrap, GridChosen, NEW r \in Rows
    PROVE  Before(r, 0) = 0 /\ Before(r, nb_of_intervals) = uppers[r] - lowers[r]
  <1>1. nb_of_intervals \in Nat \ {0}
    BY CallFacts, Zenon DEF GridChosen
  <1>2. /\ lowers[r] \in Int /\ uppers[r] \in Int /\ lowers[r] < uppers[r]
        /\ min \in Int /\ min <= lowers[r] /\ max \in Int /\ uppers[r] <= max
        /\ interval_length \in Int
    BY CallFacts, IntMaxAssumption DEF Int32, FreqTypeOK
  <1>3. Sup(0 - 1) = min - 1
    BY <1>2 DEF Sup
  <1>4. Sup(nb_of_intervals - 1) >= max /\ Sup(nb_of_intervals - 1) \in Int
    <2>1. nb_of_intervals - 1 \in 0 .. nb_of_intervals - 1
      BY <1>1
    <2>. QED  BY <2>1, SupFacts, Zenon
  <1>. QED  BY <1>2, <1>3, <1>4 DEF Before, Greatest, Least

(* What the intervals below m got from row r.                              *)
RowCounts(r, D, g) == \A j \in D : CountOK(r, Sup(j), g[j])

(* The intervals below m have counted the values of row r before their     *)
(* end, and one more for each touch of its upper bound.                    *)
LEMMA MassOfPrefix ==
    ASSUME FreqTypeOK, Ordered, FreqNoWrap, GridChosen, NEW r \in Rows,
           NEW g, RowCounts(r, 0 .. nb_of_intervals - 1, g),
           NEW f, Summation(f, 0 .. nb_of_intervals - 1, g)
    PROVE  \A m \in 0 .. nb_of_intervals :
              /\ f[0 .. m - 1] >= Before(r, m)
              /\ min >= 0 => f[0 .. m - 1] = Before(r, m) + Met(r, m)
  <1>. DEFINE P(m) == /\ f[0 .. m - 1] >= Before(r, m)
                      /\ min >= 0 => f[0 .. m - 1] = Before(r, m) + Met(r, m)
              D == 0 .. nb_of_intervals - 1
              Bad == {m \in 0 .. nb_of_intervals : ~P(m)}
  <1>1. nb_of_intervals \in Nat \ {0}
    BY CallFacts, Zenon DEF GridChosen
  <1>3. P(0)
    <2>1. 0 .. 0 - 1 = {} /\ 0 \in D
      BY <1>1
    <2>2. f[{}] = 0
      BY <2>1, Zenon DEF Adds, Summation
    <2>3. Before(r, 0) = 0
      BY BeforeEnds, Zenon
    <2>4. Met(r, 0) = 0
      BY <2>1, Zenon DEF Met
    <2>. QED  BY <2>1, <2>2, <2>3, <2>4
  <1>4. ASSUME NEW m \in D, P(m) PROVE P(m + 1)
    <2>1. m \in Nat /\ (m + 1) - 1 = m
      BY <1>1, <1>4
    <2>2. 0 .. m \in SUBSET D /\ m \in 0 .. m /\ (0 .. m) \ {m} = 0 .. m - 1 /\ 0 .. m - 1 \in SUBSET D
      BY <1>1, <2>1, <1>4
    <2>3. f[0 .. m] = g[m] + f[0 .. m - 1]
      BY <1>1, PrefixSum
    <2>4. g[m] \in Int /\ f[0 .. m - 1] \in Int /\ CountOK(r, Sup(m), g[m])
      BY <1>4, <2>2, Zenon DEF Summation, RowCounts
    <2>5. /\ Before(r, m) \in Int /\ Before(r, m + 1) = Before(r, m) + Shared(r, Sup(m))
          /\ Met(r, m) \in Int /\ Met(r, m + 1) = Met(r, m) + UpperCounted(r, Sup(m))
          /\ Shared(r, Sup(m)) \in Nat /\ UpperCounted(r, Sup(m)) \in {0, 1}
      BY <1>1, <1>4, MassStep
    <2>6. f[0 .. (m + 1) - 1] = g[m] + f[0 .. m - 1]
      BY <2>1, <2>3, Zenon
    <2>7. /\ g[m] >= Shared(r, Sup(m))
          /\ min >= 0 => g[m] = Shared(r, Sup(m)) + UpperCounted(r, Sup(m))
      BY <2>4, Zenon DEF CountOK
    <2>8. /\ f[0 .. m - 1] >= Before(r, m)
          /\ min >= 0 => f[0 .. m - 1] = Before(r, m) + Met(r, m)
      BY <1>4, Zenon
    <2>10. Shared(r, Sup(m)) \in Int /\ UpperCounted(r, Sup(m)) \in Int
      BY <2>5
    <2>11. g[m] + f[0 .. m - 1] >= Before(r, m) + Shared(r, Sup(m))
      BY <2>4, <2>5, <2>7, <2>8, <2>10
    <2>12. ASSUME min >= 0
           PROVE  g[m] + f[0 .. m - 1]
                     = (Before(r, m) + Shared(r, Sup(m))) + (Met(r, m) + UpperCounted(r, Sup(m)))
      <3>1. /\ g[m] = Shared(r, Sup(m)) + UpperCounted(r, Sup(m))
            /\ f[0 .. m - 1] = Before(r, m) + Met(r, m)
        BY <2>7, <2>8, <2>12, Zenon
      <3>. QED  BY <2>5, <2>10, <3>1
    <2>. QED  BY <2>5, <2>6, <2>11, <2>12, Zenon
  <1>. HIDE DEF P
  <1>5. Bad = {}
    <2>1. SUFFICES ASSUME Bad # {} PROVE FALSE
      BY Zenon
    <2>2. PICK m \in Bad : \A n \in Bad : m <= n
      <3>1. Bad \in SUBSET Nat
        BY <1>1
      <3>. QED  BY <2>1, <3>1, NaturalsWellOrdered, Zenon
    <2>3. m # 0
      BY <1>3, <2>2, Zenon
    <2>4. PICK n \in D : m = n + 1 /\ ~ (m <= n) /\ n \in 0 .. nb_of_intervals
      <3>1. m - 1 \in D /\ m = (m - 1) + 1 /\ ~ (m <= m - 1) /\ m - 1 \in 0 .. nb_of_intervals
        BY <1>1, <2>2, <2>3
      <3>. QED  BY <3>1, Zenon
    <2>5. P(n)
      BY <2>2, <2>4, Zenon
    <2>. QED  BY <1>4, <2>2, <2>4, <2>5, Zenon
  <1>. QED  BY <1>5, Zenon DEF P

(* A finished sweep: the intervals together cover the row.                 *)
LEMMA MassOfRow ==
    ASSUME FreqTypeOK, SweepInv, Ordered, FreqNoWrap, fpc = "done", NEW r \in Rows
    PROVE  /\ Mass(r) \in Int
           /\ Mass(r) >= uppers[r] - lowers[r]
           /\ min >= 0 => Mass(r) = uppers[r] - lowers[r] + Met(r, nb_of_intervals)
  <1>. DEFINE D == DOMAIN freq
              g == [j \in D |-> freq[j][r]]
  <1>1. GridChosen /\ AtInterval /\ fi = nb_of_intervals
    BY Zenon DEF SweepInv
  <1>2. D = 0 .. nb_of_intervals - 1 /\ nb_of_intervals \in Nat \ {0}
    BY <1>1, CallFacts, Zenon DEF AtInterval, GridChosen
  <1>3. IsFiniteSet(D)
    <2>1. 0 \in Int /\ nb_of_intervals - 1 \in Int
      BY <1>2
    <2>. QED  BY <1>2, <2>1, FS_Interval, Zenon
  <1>4. \A j \in D : freq[j][r] \in Int /\ CountOK(r, Sup(j), freq[j][r])
    <2>1. freq \in [0 .. fi - 1 -> [Rows -> Int]]
      BY DEF FreqTypeOK
    <2>. QED  BY <2>1, Zenon DEF SweepInv
  <1>5. g \in [D -> Int] /\ \A j \in D : g[j] = freq[j][r]
    BY <1>4, Zenon
  <1>. HIDE DEF g
  <1>6. PICK f : Summation(f, D, g) /\ Mass(r) = f[D]
    <2>1. Mass(r) = SumFunctionOnSet(g, D)
      BY Zenon DEF Mass, SumFunction, g
    <2>. HIDE DEF D
    <2>2. \A j \in D : g[j] = g[j]
      OBVIOUS
    <2>3. PICK f : Summation(f, D, g) /\ SumFunctionOnSet(g, D) = f[D]
      BY <1>3, <1>5, <2>2, SumIs, Zenon
    <2>. QED  BY <2>1, <2>3, Zenon
  <1>7. RowCounts(r, D, g)
    BY <1>4, <1>5, Zenon DEF RowCounts
  <1>. HIDE DEF D
  <1>8. /\ f[D] >= Before(r, nb_of_intervals)
        /\ min >= 0 => f[D] = Before(r, nb_of_intervals) + Met(r, nb_of_intervals)
    <2>1. nb_of_intervals \in 0 .. nb_of_intervals
      BY <1>2
    <2>2. \A m \in 0 .. nb_of_intervals :
              /\ f[0 .. m - 1] >= Before(r, m)
              /\ min >= 0 => f[0 .. m - 1] = Before(r, m) + Met(r, m)
      <3>1. RowCounts(r, 0 .. nb_of_intervals - 1, g) /\ Summation(f, 0 .. nb_of_intervals - 1, g)
        BY <1>2, <1>6, <1>7, Zenon
      <3>. QED  BY <1>1, <3>1, MassOfPrefix, Zenon
    <2>. QED  BY <1>2, <2>1, <2>2, Zenon
  <1>9. Before(r, nb_of_intervals) = uppers[r] - lowers[r]
    BY <1>1, BeforeEnds, Zenon
  <1>10. f[D] \in Int
    BY <1>6, Zenon DEF Summation
  <1>. QED  BY <1>6, <1>8, <1>9, <1>10, Zenon

(* count_frequencies: over all the intervals a row adds exactly its own    *)
(* length, and one more when its upper bound ends an interval of more than *)
(* one value, for every call.                                              *)
THEOREM RowMassOfSweep == FreqSpec => []RowMass
  <1>1. FreqTypeOK /\ SweepInv => RowMass
    <2>1. SUFFICES ASSUME FreqTypeOK, SweepInv, Ordered, FreqNoWrap, fpc = "done", min >= 0, NEW r \in Rows
                   PROVE  Mass(r)
                             = uppers[r] - lowers[r]
                               + (IF \E j \in DOMAIN freq : UpperCounted(r, Sup(j)) = 1 THEN 1 ELSE 0)
      BY Zenon DEF RowMass
    <2>2. DOMAIN freq = 0 .. nb_of_intervals - 1
      BY <2>1, Zenon DEF SweepInv, AtInterval
    <2>3. Met(r, nb_of_intervals) = IF \E j \in DOMAIN freq : UpperCounted(r, Sup(j)) = 1 THEN 1 ELSE 0
      BY <2>2, Zenon DEF Met
    <2>. QED  BY <2>1, <2>3, MassOfRow, Zenon
  <1>. QED  BY <1>1, SweepInvariant, TypeCorrect, PTL
=============================================================================
