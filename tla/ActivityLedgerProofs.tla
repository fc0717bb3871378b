------------------------ MODULE ActivityLedgerProofs ------------------------
(***************************************************************************)
(* Proofs about ActivityLedger, for every household, cap and bound: its      *)
(* types, the shape of correction chains, what a replay leaves behind, the   *)
(* dirty marker, by how much the rows may differ from the replay of the      *)
(* ledger, and, for commands dated when they are entered, that the ledger    *)
(* implements the AccountBook.                                               *)
(***************************************************************************)
EXTENDS ActivityLedger, SumTheorems

LegType      == [ep : Endpoints, delta : Int]
ActivityType == [kind : Kinds, at : Times, legs : Seq(LegType), reverses : Nat, corrects : Nat]
RowType      == [amount : Amount, at : Times \cup {-1}]

-----------------------------------------------------------------------------
(* Lemmas about the operators                                                *)

\* A local day is no later than the instant: Horizon bounds the days too.
LEMMA DayRange == ASSUME NEW t \in Times PROVE Day(t) \in Times
<1>1. DayLength \in Nat /\ DayLength >= 1 /\ t \in Nat /\ Horizon \in Nat /\ t <= Horizon
  BY LedgerConstants DEF Times
<1>2. t \div DayLength \in Int /\ 0 <= t \div DayLength /\ t \div DayLength <= t
  <2>1. /\ t \div DayLength \in Int /\ t % DayLength \in 0 .. DayLength - 1
        /\ t = DayLength * (t \div DayLength) + (t % DayLength)
    BY <1>1, SMTT(30)
  <2> DEFINE q == t \div DayLength
  <2>2. q \in Int /\ DayLength * q <= t /\ t < DayLength * q + DayLength
    BY <1>1, <2>1
  <2> HIDE DEF q
  <2>3. q >= 0
    <3>1. SUFFICES ASSUME q <= -1 PROVE FALSE BY <2>2
    <3>2. DayLength * q <= DayLength * (-1) BY <1>1, <2>2, <3>1, SMTT(30)
    <3> QED BY <1>1, <2>2, <3>2
  <2>4. q <= DayLength * q BY <1>1, <2>2, <2>3, SMTT(30)
  <2> QED BY <1>1, <2>2, <2>3, <2>4 DEF q
<1> QED BY <1>1, <1>2 DEF Day, Times

\* Reading the latest of two rows returns one of them.
LEMMA ObserveType == ASSUME NEW old \in RowType, NEW amount \in Amount, NEW at \in Times
                     PROVE Observe(old, amount, at) \in RowType
BY DEF Observe, RowType

LEMMA LegIs == ASSUME NEW e \in Endpoints, NEW x \in Int PROVE Leg(e, x) \in LegType
BY DEF Leg, LegType

\* Sequences of legs, as commands put them together.
LEMMA LegSequences ==
  /\ <<>> \in Seq(LegType)
  /\ \A a \in LegType : <<a>> \in Seq(LegType)
  /\ \A a, b \in LegType : <<a, b>> \in Seq(LegType)
  /\ \A s, t \in Seq(LegType) : s \o t \in Seq(LegType)
OBVIOUS

\* Every leg a command constructs names an endpoint and carries an integer.
LEMMA CommandLegs ==
  ASSUME TypeOK, NEW kind \in Kinds \ {"reversal"}
  PROVE  LegsOf(kind) \subseteq Seq(LegType)
<1>a. \A e \in Endpoints : Current(e) \in Int
  BY LedgerConstants DEF TypeOK, Current, Amount
<1>b. Amounts \subseteq Int /\ Prices \subseteq Int
  BY LedgerConstants
<1>c. FlowEndpoints \subseteq Endpoints /\ CashEndpoints \subseteq Endpoints
      /\ Holdings \subseteq Endpoints /\ \A c \in Classes : ValueOf(c) \subseteq Endpoints
  BY DEF FlowEndpoints, Endpoints, ValueOf
<1>m. \A x \in Int : -x \in Int
  OBVIOUS
<1>n. \A e \in Endpoints, x \in Int : Leg(e, x) \in LegType /\ Leg(e, -x) \in LegType
  BY LegIs, <1>m
<1>d. \A e \in Endpoints : OptionalFee(e) \subseteq Seq(LegType)
  BY <1>b, <1>n, LegSequences DEF OptionalFee
<1>1. OpeningLegs \subseteq Seq(LegType)
  <2>1. \A e \in {d \in Endpoints : observed[d].at < 0}, x \in Amounts : <<Leg(e, x)>> \in Seq(LegType)
    BY <1>b, <1>n, LegSequences
  <2>2. ASSUME NEW legs \in OpeningLegs PROVE legs \in Seq(LegType)
    <3>1. \E e \in {d \in Endpoints : observed[d].at < 0}, x \in Amounts : legs = <<Leg(e, x)>>
      BY <2>2 DEF OpeningLegs
    <3> QED BY <3>1, <2>1, Zenon
  <2> QED BY <2>2
<1>2. Inflow \subseteq Seq(LegType) /\ Outflow \subseteq Seq(LegType)
  <2>1. \A e \in FlowEndpoints, x \in Amounts :
          <<Leg(e, x)>> \in Seq(LegType) /\ <<Leg(e, -x)>> \in Seq(LegType)
    BY <1>b, <1>c, <1>n, LegSequences
  <2>2. ASSUME NEW legs \in Inflow \cup Outflow PROVE legs \in Seq(LegType)
    <3>1. \E e \in FlowEndpoints, x \in Amounts : legs = <<Leg(e, x)>> \/ legs = <<Leg(e, -x)>>
      BY <2>2 DEF Inflow, Outflow
    <3> QED BY <3>1, <2>1, Zenon
  <2> QED BY <2>2
<1>3. ASSUME NEW S \in SUBSET Endpoints PROVE TargetLegs(S) \subseteq Seq(LegType)
  <2>1. ASSUME NEW c \in S \X ({0} \cup Amounts)
        PROVE  <<Leg(c[1], c[2] - Current(c[1]))>> \in Seq(LegType)
    <3>1. c[1] \in Endpoints /\ c[2] \in Int
      <4>1. c[1] \in S /\ (c[2] = 0 \/ c[2] \in Amounts) OBVIOUS
      <4>2. c[1] \in Endpoints BY <4>1, <1>3
      <4>3. c[2] \in Amounts => c[2] \in Int BY <1>b
      <4> QED BY <4>1, <4>2, <4>3
    <3>2. c[2] - Current(c[1]) \in Int BY <3>1, <1>a
    <3> QED BY <3>1, <3>2, <1>n, LegSequences
  <2> QED BY <2>1 DEF TargetLegs
<1>4. CashTransferLegs \subseteq Seq(LegType)
  <2>1. ASSUME NEW c \in FlowEndpoints \X FlowEndpoints \X Amounts \X Amounts,
               NEW fee \in OptionalFee(c[1])
        PROVE  <<Leg(c[1], -c[3]), Leg(c[2], c[4])>> \o fee \in Seq(LegType)
    <3>1. c[1] \in Endpoints /\ c[2] \in Endpoints /\ c[3] \in Int /\ c[4] \in Int BY <1>b, <1>c
    <3>2. Leg(c[1], -c[3]) \in LegType /\ Leg(c[2], c[4]) \in LegType BY <3>1, <1>n
    <3>3. fee \in Seq(LegType) BY <3>1, <1>d
    <3> QED BY <3>2, <3>3, LegSequences
  <2>2. ASSUME NEW legs \in CashTransferLegs
        PROVE  \E c \in FlowEndpoints \X FlowEndpoints \X Amounts \X Amounts :
                 \E fee \in OptionalFee(c[1]) :
                   legs = <<Leg(c[1], -c[3]), Leg(c[2], c[4])>> \o fee
    BY <2>2, Zenon DEF CashTransferLegs
  <2> QED BY <2>1, <2>2, ZenonT(60)
<1>5. PositionTransferLegs \subseteq Seq(LegType)
  <2>1. ASSUME NEW c \in Holdings \X Holdings \X Amounts
        PROVE  <<Leg(c[1], -c[3]), Leg(c[2], c[3])>> \in Seq(LegType)
    <3>1. c[1] \in Endpoints /\ c[2] \in Endpoints /\ c[3] \in Int BY <1>b, <1>c
    <3> QED BY <3>1, <1>n, LegSequences
  <2> QED BY <2>1 DEF PositionTransferLegs
<1>6. ASSUME NEW sign \in {1, -1} PROVE TradeLegs(sign) \subseteq Seq(LegType)
  <2>1. ASSUME NEW h \in Holdings, NEW gross \in Int
        PROVE  Settlement(h, gross) \in Seq(LegType)
    <3>1. SettlementOf[h] \in Endpoints BY <1>c, LedgerConstants
    <3> QED BY <3>1, <1>n, LegSequences DEF Settlement
  <2>2. ASSUME NEW c \in Holdings \X Amounts \X Prices,
               NEW fee \in OptionalFee(SettlementOf[c[1]])
        PROVE  <<Leg(c[1], sign * c[2])>> \o Settlement(c[1], -(sign * c[2] * c[3])) \o fee
                 \in Seq(LegType)
    <3>1. c[1] \in Holdings /\ c[1] \in Endpoints /\ c[2] \in Int /\ c[3] \in Int BY <1>b, <1>c
    <3>2. sign * c[2] \in Int /\ sign * c[2] * c[3] \in Int BY <3>1
    <3>3. <<Leg(c[1], sign * c[2])>> \in Seq(LegType) BY <3>1, <3>2, <1>n, LegSequences
    <3>4. Settlement(c[1], -(sign * c[2] * c[3])) \in Seq(LegType) BY <3>1, <3>2, <1>m, <2>1
    <3>5. fee \in Seq(LegType)
      <4>1. SettlementOf[c[1]] \in Endpoints BY <3>1, <1>c, LedgerConstants
      <4> QED BY <4>1, <1>d
    <3> QED BY <3>3, <3>4, <3>5, LegSequences
  <2>3. ASSUME NEW legs \in TradeLegs(sign)
        PROVE  \E c \in Holdings \X Amounts \X Prices :
                 \E fee \in OptionalFee(SettlementOf[c[1]]) :
                   legs = <<Leg(c[1], sign * c[2])>>
                            \o Settlement(c[1], -(sign * c[2] * c[3])) \o fee
    BY <2>3, Zenon DEF TradeLegs
  <2>4. ASSUME NEW legs \in TradeLegs(sign) PROVE legs \in Seq(LegType)
    <3>1. PICK c \in Holdings \X Amounts \X Prices :
                 \E fee \in OptionalFee(SettlementOf[c[1]]) :
                   legs = <<Leg(c[1], sign * c[2])>>
                            \o Settlement(c[1], -(sign * c[2] * c[3])) \o fee
      BY <2>3, <2>4, Zenon
    <3> QED BY <3>1, <2>2, Zenon
  <2> QED BY <2>4
<1>7. DebtDrawLegs \subseteq Seq(LegType)
  <2>1. ValueOf("liability") \subseteq Endpoints BY <1>c DEF Classes
  <2>2. ASSUME NEW l \in ValueOf("liability"), NEW x \in Amounts
        PROVE  <<Leg(l, x)>> \in Seq(LegType)
    BY <2>1, <1>b, <1>n, LegSequences
  <2>3. ASSUME NEW c \in ValueOf("liability") \X FlowEndpoints \X Amounts \X Amounts
        PROVE  <<Leg(c[1], c[3]), Leg(c[2], c[4])>> \in Seq(LegType)
    <3>1. c[1] \in Endpoints /\ c[2] \in Endpoints /\ c[3] \in Int /\ c[4] \in Int
      BY <2>1, <1>b, <1>c
    <3> QED BY <3>1, <1>n, LegSequences
  <2>4. ASSUME NEW legs \in DebtDrawLegs
        PROVE  \/ \E l \in ValueOf("liability"), x \in Amounts : legs = <<Leg(l, x)>>
               \/ \E c \in ValueOf("liability") \X FlowEndpoints \X Amounts \X Amounts :
                    legs = <<Leg(c[1], c[3]), Leg(c[2], c[4])>>
    BY <2>4 DEF DebtDrawLegs
  <2> QED BY <2>2, <2>3, <2>4
<1>8. DebtPaymentLegs \subseteq Seq(LegType)
  <2>1. ValueOf("liability") \subseteq Endpoints BY <1>c DEF Classes
  <2>2. ASSUME NEW c \in ValueOf("liability") \X FlowEndpoints \X Amounts \X Amounts,
               NEW fee \in OptionalFee(c[2])
        PROVE  <<Leg(c[1], -c[3]), Leg(c[2], -c[4])>> \o fee \in Seq(LegType)
    <3>1. c[1] \in Endpoints /\ c[2] \in Endpoints /\ c[3] \in Int /\ c[4] \in Int
      BY <2>1, <1>b, <1>c
    <3>2. Leg(c[1], -c[3]) \in LegType /\ Leg(c[2], -c[4]) \in LegType BY <3>1, <1>n
    <3>3. fee \in Seq(LegType) BY <3>1, <1>d
    <3> QED BY <3>2, <3>3, LegSequences
  <2>3. ASSUME NEW legs \in DebtPaymentLegs
        PROVE  \E c \in ValueOf("liability") \X FlowEndpoints \X Amounts \X Amounts :
                 \E fee \in OptionalFee(c[2]) :
                   legs = <<Leg(c[1], -c[3]), Leg(c[2], -c[4])>> \o fee
    BY <2>3, Zenon DEF DebtPaymentLegs
  <2>4. ASSUME NEW legs \in DebtPaymentLegs PROVE legs \in Seq(LegType)
    <3>1. PICK c \in ValueOf("liability") \X FlowEndpoints \X Amounts \X Amounts :
                 \E fee \in OptionalFee(c[2]) :
                   legs = <<Leg(c[1], -c[3]), Leg(c[2], -c[4])>> \o fee
      BY <2>3, <2>4, Zenon
    <3> QED BY <3>1, <2>2, Zenon
  <2> QED BY <2>4
<1>9. \A c \in {"balance", "liability", "manual"} : ValueOf(c) \in SUBSET Endpoints
  BY <1>c DEF Classes
<1> QED
  BY <1>c, <1>1, <1>2, <1>3, <1>4, <1>5, <1>6, <1>7, <1>8, <1>9 DEF LegsOf, Kinds

-----------------------------------------------------------------------------
(* Types                                                                     *)

LEMMA ActivityIs ==
  ASSUME NEW kind \in Kinds, NEW at \in Times, NEW legs \in Seq(LegType),
         NEW r \in Nat, NEW c \in Nat
  PROVE  Activity(kind, at, legs, r, c) \in ActivityType
BY DEF Activity, ActivityType

LEMMA TypeParts ==
  ASSUME TypeOK
  PROVE  /\ now \in Times /\ ledger \in Seq(ActivityType)
         /\ observed \in [Endpoints -> RowType] /\ quantity \in [Holdings -> Amount]
         /\ archived \subseteq Archivable /\ dirtyFrom \in Times
BY DEF TypeOK, ActivityType, LegType, RowType

LEMMA InverseType ==
  ASSUME NEW legs \in Seq(LegType) PROVE InverseLegs(legs) \in Seq(LegType)
<1>1. \A k \in DOMAIN legs : Leg(legs[k].ep, -legs[k].delta) \in LegType
  <2>1. ASSUME NEW k \in DOMAIN legs
        PROVE  legs[k].ep \in Endpoints /\ -legs[k].delta \in Int
    <3>1. legs[k] \in LegType OBVIOUS
    <3> QED BY <3>1 DEF LegType
  <2> QED BY <2>1, LegIs
<1>2. DOMAIN legs = 1 .. Len(legs) /\ Len(legs) \in Nat
  OBVIOUS
<1> QED BY <1>1, <1>2 DEF InverseLegs

\* The marker stays a day when it is moved back to one.
LEMMA MarkType ==
  ASSUME TypeOK, NEW day \in Times, MarkDirtyFrom(day) PROVE dirtyFrom' \in Times
<1>1. dirtyFrom \in Int /\ day \in Int BY DEF TypeOK, Times
<1>2. Min({dirtyFrom, day}) \in {dirtyFrom, day} BY <1>1, MinOfTwo
<1> QED BY <1>2 DEF MarkDirtyFrom, TypeOK

\* A command posted through the rows keeps every amount in range, because
\* apply_leg refuses any other result.
LEMMA PostType ==
  ASSUME TypeOK, NEW kind \in Kinds, NEW legs \in Seq(LegType), NEW at \in Times,
         Post(kind, legs, at)
  PROVE  TypeOK'
<1> DEFINE activity == Activity(kind, at, legs, 0, 0)
           touched  == Touched(<<activity>>)
           After(e) == Current(e) + Effect(<<activity>>, e, Positions(<<activity>>))
<1>1. /\ \A e \in touched : Fits(<<activity>>, e, Current(e))
      /\ ledger' = Append(ledger, activity)
      /\ observed' = [e \in Endpoints |->
                        IF e \in touched THEN Observe(observed[e], After(e), at) ELSE observed[e]]
      /\ quantity' = [h \in Holdings |-> IF h \in touched THEN After(h) ELSE quantity[h]]
      /\ MarkDirtyFrom(Day(at))
      /\ UNCHANGED <<now, archived>>
  BY DEF Post
<1>2. activity \in ActivityType BY ActivityIs, 0 \in Nat
<1>3. \A e \in touched : After(e) \in Amount BY <1>1 DEF Fits
<1> HIDE DEF activity, touched, After
<1>4. ledger' \in Seq(ActivityType) BY <1>1, <1>2, TypeParts
<1>5. observed' \in [Endpoints -> RowType]
  <2>1. ASSUME NEW e \in Endpoints, e \in touched
        PROVE  Observe(observed[e], After(e), at) \in RowType
    BY <2>1, <1>3, TypeParts, ObserveType
  <2> QED BY <2>1, <1>1, TypeParts
<1>6. quantity' \in [Holdings -> Amount] BY <1>1, <1>3, TypeParts
<1>7. dirtyFrom' \in Times BY <1>1, DayRange, MarkType
<1> QED BY <1>1, <1>4, <1>5, <1>6, <1>7 DEF TypeOK, ActivityType, LegType, RowType

LEMMA PersistType ==
  ASSUME TypeOK, NEW extras \in Seq(ActivityType), Len(extras) > 0, PersistLedger(extras)
  PROVE  TypeOK'
<1> DEFINE acts    == ledger \o extras
           touched == Touched(extras)
           Row(e)  == IF Len(extras) = 1 THEN observed[e]
                      ELSE Observe(observed[e], Replayed(acts, e), extras[1].at)
<1>1. /\ \A e \in touched : Fits(acts, e, Origin[e])
      /\ ledger' = acts
      /\ quantity' = [h \in Holdings |-> IF h \in touched THEN Replayed(acts, h) ELSE quantity[h]]
      /\ \E day \in Times : EarliestDay(day, extras) /\ MarkDirtyFrom(day)
      /\ UNCHANGED <<now, archived>>
  BY DEF PersistLedger
<1>2. PICK t \in Times :
        observed' = [e \in Endpoints |->
                       IF e \in touched THEN Observe(Row(e), Replayed(acts, e), t)
                       ELSE observed[e]]
  BY DEF PersistLedger
<1>3. \A e \in touched : Replayed(acts, e) \in Amount BY <1>1 DEF Fits, Replayed
<1>4. extras[1].at \in Times
  <2>1. extras[1] \in ActivityType OBVIOUS
  <2> QED BY <2>1 DEF ActivityType
<1>5. acts \in Seq(ActivityType) BY TypeParts
<1> HIDE DEF acts, touched
<1>6. observed' \in [Endpoints -> RowType]
  <2>1. ASSUME NEW e \in Endpoints, e \in touched PROVE Row(e) \in RowType
    BY <2>1, <1>3, <1>4, TypeParts, ObserveType
  <2>2. ASSUME NEW e \in Endpoints, e \in touched
        PROVE  Observe(Row(e), Replayed(acts, e), t) \in RowType
    BY <2>1, <2>2, <1>3, ObserveType
  <2> HIDE DEF Row
  <2> QED BY <2>2, <1>2, TypeParts
<1>7. quantity' \in [Holdings -> Amount] BY <1>1, <1>3, TypeParts
<1>8. dirtyFrom' \in Times BY <1>1, MarkType
<1> QED BY <1>1, <1>5, <1>6, <1>7, <1>8, TypeParts DEF TypeOK, ActivityType, LegType, RowType

\* A kind of command posted at one of its entry times.
LEMMA PostKindType ==
  ASSUME TypeOK, NEW kind \in Kinds \ {"reversal"}, PostKind(kind) PROVE TypeOK'
<1>1. PICK legs \in LegsOf(kind), at \in EntryTimes : Post(kind, legs, at)
  BY DEF PostKind
<1>2. at \in Times BY <1>1, LedgerConstants DEF EntryTimes, TypeOK, Times
<1>3. legs \in Seq(LegType) BY CommandLegs
<1> QED BY <1>1, <1>2, <1>3, PostType

LEMMA OpeningType == ASSUME TypeOK, Opening PROVE TypeOK'
<1>1. PICK legs \in OpeningLegs, at \in EntryTimes : Post("opening_adjustment", legs, at)
  BY DEF Opening
<1>2. at \in Times BY <1>1, LedgerConstants DEF EntryTimes, TypeOK, Times
<1>3. "opening_adjustment" \in Kinds \ {"reversal"} BY DEF Kinds
<1>4. legs \in Seq(LegType)
  <2>1. legs \in LegsOf("opening_adjustment") BY <1>1 DEF LegsOf
  <2> QED BY <2>1, <1>3, CommandLegs
<1> QED BY <1>1, <1>2, <1>3, <1>4, PostType

LEMMA PostingType == ASSUME TypeOK, Posting PROVE TypeOK'
BY OpeningType, PostKindType
   DEF Posting, Kinds, BalanceAdjustment, DebtAdjustment, ManualValuation, PositionAdjustment,
       Deposit, Withdrawal, Income, Fee, Transfer, Buy, Sell, DebtDraw, DebtPayment

\* A reversal writes one Activity that repairs what it touches, a correction two.
Repairing(X) ==
  Len(X) <= 2 /\ \A j \in DOMAIN X : X[j].reverses # 0 \/ X[j].corrects # 0

\* A reversal and a correction are replays of the Activities they write.
LEMMA ReverseReplays ==
  ASSUME TypeOK, Reverse
  PROVE  \E extras \in Seq(ActivityType) :
           Len(extras) > 0 /\ PersistLedger(extras) /\ Repairing(extras)
<1>1. PICK i \in DOMAIN ledger, at \in 0 .. now : ReverseActivity(i, at)
  BY DEF Reverse
<1> DEFINE extra == Activity("reversal", at, InverseLegs(ledger[i].legs), i, 0)
<1>2. ledger \in Seq(ActivityType) /\ now \in Times BY TypeParts
<1>3. at \in Times /\ i \in Nat BY <1>1, <1>2, LedgerConstants DEF Times
<1>4. ledger[i].legs \in Seq(LegType)
  <2>1. ledger[i] \in ActivityType BY <1>1, <1>2
  <2> QED BY <2>1 DEF ActivityType
<1>5. extra \in ActivityType
  BY <1>3, <1>4, InverseType, ActivityIs, 0 \in Nat, "reversal" \in Kinds DEF Kinds
<1>6. PersistLedger(<<extra>>) BY <1>1 DEF ReverseActivity
<1>7. extra.reverses # 0 BY <1>2 DEF Activity
<1> HIDE DEF extra
<1>8. <<extra>> \in Seq(ActivityType) /\ Len(<<extra>>) > 0 BY <1>5
<1>9. Repairing(<<extra>>) BY <1>7 DEF Repairing
<1> QED BY <1>6, <1>8, <1>9

LEMMA CorrectReplays ==
  ASSUME TypeOK, Correct
  PROVE  \E extras \in Seq(ActivityType) :
           Len(extras) > 0 /\ PersistLedger(extras) /\ Repairing(extras)
<1>1. PICK i \in DOMAIN ledger, kind \in Kinds \ {"reversal"} :
        \E legs \in LegsOf(kind), at \in 0 .. now : CorrectActivity(i, kind, legs, at)
  BY DEF Correct
<1>2. PICK legs \in LegsOf(kind), at \in 0 .. now : CorrectActivity(i, kind, legs, at)
  BY <1>1
<1> DEFINE undo == Activity("reversal", ledger[i].at, InverseLegs(ledger[i].legs), i, 0)
           redo == Activity(kind, at, legs, 0, i)
<1>3. ledger \in Seq(ActivityType) /\ now \in Times BY TypeParts
<1>4. at \in Times /\ i \in Nat BY <1>1, <1>2, <1>3, LedgerConstants DEF Times
<1>5. ledger[i].legs \in Seq(LegType) /\ ledger[i].at \in Times
  <2>1. ledger[i] \in ActivityType BY <1>1, <1>3
  <2> QED BY <2>1 DEF ActivityType
<1>6. undo \in ActivityType
  BY <1>4, <1>5, InverseType, ActivityIs, 0 \in Nat, "reversal" \in Kinds DEF Kinds
<1>7. legs \in Seq(LegType) BY CommandLegs
<1>8. redo \in ActivityType BY <1>4, <1>7, ActivityIs, 0 \in Nat
<1>9. PersistLedger(<<undo, redo>>) BY <1>2 DEF CorrectActivity
<1>10. undo.reverses # 0 /\ redo.corrects # 0 BY <1>3 DEF Activity
<1> HIDE DEF undo, redo
<1>11. <<undo, redo>> \in Seq(ActivityType) /\ Len(<<undo, redo>>) > 0 BY <1>6, <1>8
<1>12. Repairing(<<undo, redo>>) BY <1>10 DEF Repairing
<1> QED BY <1>9, <1>11, <1>12

LEMMA InitType == Init => TypeOK
<1>1. SUFFICES ASSUME Init PROVE TypeOK OBVIOUS
<1>2. Horizon \in Nat /\ Origin \in [Endpoints -> Amount] BY LedgerConstants
<1>3. Holdings \subseteq Endpoints BY DEF Endpoints
<1>4. 0 \in Times BY <1>2 DEF Times
<1>5. observed \in [Endpoints -> [amount : Amount, at : Times \cup {-1}]]
  BY <1>1, <1>2, <1>4 DEF Init
<1>6. quantity \in [Holdings -> Amount] BY <1>1, <1>2, <1>3 DEF Init
<1> QED BY <1>1, <1>4, <1>5, <1>6 DEF Init, TypeOK

LEMMA NextType == TypeOK /\ [Next]_vars => TypeOK'
<1>1. SUFFICES ASSUME TypeOK, [Next]_vars PROVE TypeOK' OBVIOUS
<1>2. CASE Posting BY <1>1, <1>2, PostingType
<1>3. CASE Reverse BY <1>1, <1>3, ReverseReplays, PersistType
<1>4. CASE Correct BY <1>1, <1>4, CorrectReplays, PersistType
<1>5. ASSUME NEW e \in Endpoints, CreateAtZero(e) PROVE TypeOK'
  <2>1. now \in Times /\ 0 \in Amount BY <1>1, LedgerConstants DEF TypeOK, Amount
  <2>2. observed' \in [Endpoints -> RowType]
    BY <1>1, <1>5, <2>1, TypeParts DEF CreateAtZero, RowType
  <2>3. dirtyFrom' \in Times BY <1>1, <1>5, <2>1, DayRange, MarkType DEF CreateAtZero
  <2> QED BY <1>1, <1>5, <2>2, <2>3 DEF CreateAtZero, TypeOK, RowType
<1>6. ASSUME NEW x \in Archivable, Archive(x) PROVE TypeOK'
  <2>1. now \in Times BY <1>1 DEF TypeOK
  <2>2. dirtyFrom' \in Times BY <1>1, <1>6, <2>1, DayRange, MarkType DEF Archive
  <2>3. archived' \subseteq Archivable BY <1>1, <1>6 DEF Archive, TypeOK
  <2> QED BY <1>1, <1>6, <2>2, <2>3 DEF Archive, TypeOK
<1>7. CASE RebuildSnapshots
  <2>1. Day(now) \in Times BY <1>1, DayRange DEF TypeOK
  <2> QED BY <1>1, <1>7, <2>1 DEF RebuildSnapshots, TypeOK
<1>8. CASE Tick
  <2>1. now' \in Times BY <1>1, <1>8, LedgerConstants DEF Tick, TypeOK, Times
  <2> QED BY <1>1, <1>8, <2>1 DEF Tick, TypeOK
<1>9. CASE UNCHANGED vars BY <1>1, <1>9 DEF vars, TypeOK
<1> QED BY <1>1, <1>2, <1>3, <1>4, <1>5, <1>6, <1>7, <1>8, <1>9 DEF Next

\* No command, reversal, correction or replay takes a current amount, a row
\* or the quantity column below zero or above the cap, whatever the household,
\* the amounts and the order of the commands, backdated ones included.
THEOREM TypesHold == Spec => []TypeOK
<1>1. Init => TypeOK BY InitType
<1>2. TypeOK /\ [Next]_vars => TypeOK' BY NextType
<1> QED BY <1>1, <1>2, PTL DEF Spec

-----------------------------------------------------------------------------
(* Correction chains                                                         *)

\* ChainsWellFormed of any ledger, one conjunct per kind of link.
ReversalLink(L, i) ==
  L[i].reverses # 0 =>
    /\ L[i].reverses < i
    /\ L[L[i].reverses].kind # "reversal"
    /\ L[i].legs = InverseLegs(L[L[i].reverses].legs)
    /\ L[i].at >= L[L[i].reverses].at
    /\ \A j \in DOMAIN L : L[j].reverses = L[i].reverses => j = i
ReplacementLink(L, i) ==
  L[i].corrects # 0 =>
    /\ i > 1 /\ L[i - 1].reverses = L[i].corrects
    /\ L[i - 1].at = L[L[i].corrects].at
    /\ \A j \in DOMAIN L : L[j].corrects = L[i].corrects => j = i
Linked(L) ==
  \A i \in DOMAIN L :
    /\ L[i].kind = "reversal" <=> L[i].reverses # 0
    /\ ReversalLink(L, i)
    /\ ReplacementLink(L, i)

LEMMA ChainsAreLinks == ChainsWellFormed <=> Linked(ledger)
BY DEF ChainsWellFormed, Linked, ReversalLink, ReplacementLink

\* What a linked ledger says of the Activities its links name.
LEMMA LinksStayInside ==
  ASSUME NEW L \in Seq(ActivityType), Linked(L), NEW i \in DOMAIN L
  PROVE  /\ L[i].reverses # 0 => L[i].reverses \in DOMAIN L
         /\ L[i].corrects # 0 => i - 1 \in DOMAIN L /\ L[i].corrects \in DOMAIN L
<1>1. ASSUME NEW k \in DOMAIN L, L[k].reverses # 0 PROVE L[k].reverses \in DOMAIN L
  <2>1. L[k] \in ActivityType BY <1>1
  <2>2. L[k].reverses \in Nat /\ L[k].reverses < k
    BY <1>1, <2>1 DEF ActivityType, Linked, ReversalLink
  <2> QED BY <1>1, <2>2
<1>2. ASSUME L[i].corrects # 0 PROVE i - 1 \in DOMAIN L /\ L[i - 1].reverses = L[i].corrects
  <2>1. i > 1 /\ L[i - 1].reverses = L[i].corrects BY <1>2 DEF Linked, ReplacementLink
  <2> QED BY <2>1
<1> QED BY <1>1, <1>2

\* Appending one Activity keeps the links that were there, provided it does
\* not repeat one of them.
LEMMA AppendKeepsLinks ==
  ASSUME NEW L \in Seq(ActivityType), Linked(L), NEW a \in ActivityType,
         a.reverses # 0 => \A j \in DOMAIN L : L[j].reverses # a.reverses,
         a.corrects # 0 => \A j \in DOMAIN L : L[j].corrects # a.corrects,
         NEW i \in DOMAIN L
  PROVE  /\ Append(L, a)[i] = L[i]
         /\ L[i].kind = "reversal" <=> L[i].reverses # 0
         /\ ReversalLink(Append(L, a), i)
         /\ ReplacementLink(Append(L, a), i)
<1> DEFINE M == Append(L, a)
<1>1. /\ DOMAIN M = DOMAIN L \cup {Len(L) + 1}
      /\ \A j \in DOMAIN L : M[j] = L[j]
      /\ M[Len(L) + 1] = a
      /\ Len(L) + 1 \notin DOMAIN L
  OBVIOUS
<1> HIDE DEF M
<1>2. (L[i].kind = "reversal" <=> L[i].reverses # 0) /\ ReversalLink(L, i) /\ ReplacementLink(L, i)
  BY DEF Linked
<1>3. ReversalLink(M, i)
  <2>1. SUFFICES ASSUME L[i].reverses # 0
                 PROVE  /\ L[i].reverses < i
                        /\ M[L[i].reverses].kind # "reversal"
                        /\ L[i].legs = InverseLegs(M[L[i].reverses].legs)
                        /\ L[i].at >= M[L[i].reverses].at
                        /\ \A j \in DOMAIN M : M[j].reverses = L[i].reverses => j = i
    BY <1>1 DEF ReversalLink
  <2>2. L[i].reverses \in DOMAIN L BY <2>1, LinksStayInside
  <2>3. M[L[i].reverses] = L[L[i].reverses] BY <1>1, <2>2
  <2>4. ASSUME NEW j \in DOMAIN M, M[j].reverses = L[i].reverses PROVE j = i
    <3>1. CASE j \in DOMAIN L BY <1>1, <1>2, <2>1, <2>4, <3>1 DEF ReversalLink
    <3>2. CASE j = Len(L) + 1 BY <1>1, <2>1, <2>4, <3>2
    <3> QED BY <1>1, <3>1, <3>2
  <2> QED BY <1>2, <2>1, <2>3, <2>4 DEF ReversalLink
<1>4. ReplacementLink(M, i)
  <2>1. SUFFICES ASSUME L[i].corrects # 0
                 PROVE  /\ i > 1 /\ M[i - 1].reverses = L[i].corrects
                        /\ M[i - 1].at = M[L[i].corrects].at
                        /\ \A j \in DOMAIN M : M[j].corrects = L[i].corrects => j = i
    BY <1>1 DEF ReplacementLink
  <2>2. i - 1 \in DOMAIN L /\ L[i].corrects \in DOMAIN L BY <2>1, LinksStayInside
  <2>3. M[i - 1] = L[i - 1] /\ M[L[i].corrects] = L[L[i].corrects] BY <1>1, <2>2
  <2>4. ASSUME NEW j \in DOMAIN M, M[j].corrects = L[i].corrects PROVE j = i
    <3>1. CASE j \in DOMAIN L BY <1>1, <1>2, <2>1, <2>4, <3>1 DEF ReplacementLink
    <3>2. CASE j = Len(L) + 1 BY <1>1, <2>1, <2>4, <3>2
    <3> QED BY <1>1, <3>1, <3>2
  <2> QED BY <1>2, <2>1, <2>3, <2>4 DEF ReplacementLink
<1> QED BY <1>1, <1>2, <1>3, <1>4 DEF M

\* A posted Activity links to nothing.
LEMMA AppendPosted ==
  ASSUME NEW L \in Seq(ActivityType), Linked(L), NEW a \in ActivityType,
         a.kind # "reversal", a.reverses = 0, a.corrects = 0
  PROVE  Linked(Append(L, a))
<1>1. ASSUME NEW i \in DOMAIN Append(L, a)
      PROVE  /\ Append(L, a)[i].kind = "reversal" <=> Append(L, a)[i].reverses # 0
             /\ ReversalLink(Append(L, a), i) /\ ReplacementLink(Append(L, a), i)
  <2>1. CASE i \in DOMAIN L BY <2>1, AppendKeepsLinks
  <2>2. CASE i = Len(L) + 1
    <3>1. Append(L, a)[i] = a BY <2>2
    <3> QED BY <3>1 DEF ReversalLink, ReplacementLink
  <2> QED BY <1>1, <2>1, <2>2
<1> QED BY <1>1 DEF Linked

\* A Reversal of a chain head names it and nobody else does.
LEMMA AppendReversal ==
  ASSUME NEW L \in Seq(ActivityType), Linked(L), NEW a \in ActivityType,
         a.kind = "reversal", a.corrects = 0, a.reverses \in DOMAIN L,
         L[a.reverses].kind # "reversal", a.at >= L[a.reverses].at,
         a.legs = InverseLegs(L[a.reverses].legs),
         \A j \in DOMAIN L : L[j].reverses # a.reverses
  PROVE  Linked(Append(L, a))
<1> DEFINE M == Append(L, a)
<1>1. /\ DOMAIN M = DOMAIN L \cup {Len(L) + 1}
      /\ \A j \in DOMAIN L : M[j] = L[j]
      /\ M[Len(L) + 1] = a
      /\ Len(L) \in Nat /\ DOMAIN L = 1 .. Len(L)
  OBVIOUS
<1>2. ASSUME NEW i \in DOMAIN L
      PROVE  /\ M[i] = L[i] /\ (L[i].kind = "reversal" <=> L[i].reverses # 0)
             /\ ReversalLink(M, i) /\ ReplacementLink(M, i)
  BY AppendKeepsLinks
<1> HIDE DEF M
<1>3. ReversalLink(M, Len(L) + 1)
  <2>1. M[a.reverses] = L[a.reverses] /\ a.reverses < Len(L) + 1 BY <1>1
  <2>2. ASSUME NEW j \in DOMAIN M, M[j].reverses = a.reverses PROVE j = Len(L) + 1
    BY <1>1, <2>2
  <2> QED BY <1>1, <2>1, <2>2 DEF ReversalLink
<1>4. ReplacementLink(M, Len(L) + 1) BY <1>1 DEF ReplacementLink
<1>5. a.reverses # 0 BY <1>1
<1>6. ASSUME NEW i \in DOMAIN M
      PROVE  (M[i].kind = "reversal" <=> M[i].reverses # 0)
             /\ ReversalLink(M, i) /\ ReplacementLink(M, i)
  <2>1. CASE i \in DOMAIN L BY <1>2, <2>1
  <2>2. CASE i = Len(L) + 1 BY <1>1, <1>3, <1>4, <1>5, <2>2
  <2> QED BY <1>1, <2>1, <2>2
<1>7. Linked(M) BY <1>6 DEF Linked
<1> QED BY <1>7 DEF M

\* A replacement follows the Reversal of what it corrects.
LEMMA AppendReplacement ==
  ASSUME NEW L \in Seq(ActivityType), Linked(L), NEW a \in ActivityType,
         a.kind # "reversal", a.reverses = 0, a.corrects \in DOMAIN L, L # <<>>,
         L[Len(L)].reverses = a.corrects, L[Len(L)].at = L[a.corrects].at,
         \A j \in DOMAIN L : L[j].corrects # a.corrects
  PROVE  Linked(Append(L, a))
<1> DEFINE M == Append(L, a)
<1>1. /\ DOMAIN M = DOMAIN L \cup {Len(L) + 1}
      /\ \A j \in DOMAIN L : M[j] = L[j]
      /\ M[Len(L) + 1] = a
      /\ Len(L) \in Nat /\ DOMAIN L = 1 .. Len(L) /\ Len(L) \in DOMAIN L
  OBVIOUS
<1>2. ASSUME NEW i \in DOMAIN L
      PROVE  /\ M[i] = L[i] /\ (L[i].kind = "reversal" <=> L[i].reverses # 0)
             /\ ReversalLink(M, i) /\ ReplacementLink(M, i)
  BY AppendKeepsLinks
<1> HIDE DEF M
<1>3. ReplacementLink(M, Len(L) + 1)
  <2>1. M[a.corrects] = L[a.corrects] /\ (Len(L) + 1) - 1 = Len(L) /\ M[Len(L)] = L[Len(L)]
        /\ Len(L) + 1 > 1
    BY <1>1
  <2>2. ASSUME NEW j \in DOMAIN M, M[j].corrects = a.corrects PROVE j = Len(L) + 1
    BY <1>1, <2>2
  <2> QED BY <1>1, <2>1, <2>2 DEF ReplacementLink
<1>4. ReversalLink(M, Len(L) + 1) BY <1>1 DEF ReversalLink
<1>5. ASSUME NEW i \in DOMAIN M
      PROVE  (M[i].kind = "reversal" <=> M[i].reverses # 0)
             /\ ReversalLink(M, i) /\ ReplacementLink(M, i)
  <2>1. CASE i \in DOMAIN L BY <1>2, <2>1
  <2>2. CASE i = Len(L) + 1 BY <1>1, <1>3, <1>4, <2>2
  <2> QED BY <1>1, <2>1, <2>2
<1>6. Linked(M) BY <1>5 DEF Linked
<1> QED BY <1>6 DEF M

LEMMA PostLinks ==
  ASSUME TypeOK, ChainsWellFormed, NEW kind \in Kinds \ {"reversal"}, NEW legs \in Seq(LegType),
         NEW at \in Times, Post(kind, legs, at)
  PROVE  ChainsWellFormed'
<1> DEFINE a == Activity(kind, at, legs, 0, 0)
<1>1. ledger' = Append(ledger, a) BY DEF Post
<1>2. a \in ActivityType BY ActivityIs, 0 \in Nat
<1>3. a.kind # "reversal" /\ a.reverses = 0 /\ a.corrects = 0 BY DEF Activity
<1> HIDE DEF a
<1>4. ledger \in Seq(ActivityType) /\ Linked(ledger) BY TypeParts, ChainsAreLinks
<1>5. Linked(ledger') BY <1>1, <1>2, <1>3, <1>4, AppendPosted
<1> QED BY <1>5 DEF ChainsWellFormed, Linked, ReversalLink, ReplacementLink

LEMMA PostKindLinks ==
  ASSUME TypeOK, ChainsWellFormed, NEW kind \in Kinds \ {"reversal"}, PostKind(kind)
  PROVE  ChainsWellFormed'
<1>1. PICK legs \in LegsOf(kind), at \in EntryTimes : Post(kind, legs, at)
  BY DEF PostKind
<1>2. at \in Times BY <1>1, LedgerConstants DEF EntryTimes, TypeOK, Times
<1>3. legs \in Seq(LegType) BY CommandLegs
<1> QED BY <1>1, <1>2, <1>3, PostLinks

LEMMA PostingLinks == ASSUME TypeOK, ChainsWellFormed, Posting PROVE ChainsWellFormed'
<1>1. CASE Opening
  <2>1. PICK legs \in OpeningLegs, at \in EntryTimes : Post("opening_adjustment", legs, at)
    BY <1>1 DEF Opening
  <2>2. at \in Times BY <2>1, LedgerConstants DEF EntryTimes, TypeOK, Times
  <2>3. "opening_adjustment" \in Kinds \ {"reversal"} BY DEF Kinds
  <2>4. legs \in LegsOf("opening_adjustment") BY <2>1 DEF LegsOf
  <2>5. legs \in Seq(LegType) BY <2>3, <2>4, CommandLegs
  <2> QED BY <2>1, <2>2, <2>3, <2>5, PostLinks
<1> QED
  BY <1>1, PostKindLinks
     DEF Posting, Kinds, BalanceAdjustment, DebtAdjustment, ManualValuation, PositionAdjustment,
         Deposit, Withdrawal, Income, Fee, Transfer, Buy, Sell, DebtDraw, DebtPayment

\* The Reversal of a chain head, as Reverse and Correct write it.
LEMMA ReversalOf ==
  ASSUME TypeOK, ChainsWellFormed, NEW i \in DOMAIN ledger, ChainHead(i),
         NEW at \in Times, at >= ledger[i].at,
         NEW a, a = Activity("reversal", at, InverseLegs(ledger[i].legs), i, 0)
  PROVE  a \in ActivityType /\ Linked(Append(ledger, a))
<1>1. ledger \in Seq(ActivityType) /\ Linked(ledger) BY TypeParts, ChainsAreLinks
<1>2. i \in Nat /\ ledger[i] \in ActivityType BY <1>1
<1>3. ledger[i].legs \in Seq(LegType) BY <1>2 DEF ActivityType
<1>4. a \in ActivityType
  BY <1>2, <1>3, InverseType, ActivityIs, 0 \in Nat, "reversal" \in Kinds DEF Kinds
<1>5. /\ a.kind = "reversal" /\ a.reverses = i /\ a.corrects = 0 /\ a.at = at
      /\ a.legs = InverseLegs(ledger[i].legs)
  BY DEF Activity
<1>6. ledger[i].kind # "reversal" /\ \A j \in DOMAIN ledger : ledger[j].reverses # i
  BY DEF ChainHead, Reversed
<1> QED BY <1>1, <1>4, <1>5, <1>6, AppendReversal

LEMMA ReverseLinks == ASSUME TypeOK, ChainsWellFormed, Reverse PROVE ChainsWellFormed'
<1>1. PICK i \in DOMAIN ledger, at \in 0 .. now : ReverseActivity(i, at)
  BY DEF Reverse
<1> DEFINE a == Activity("reversal", at, InverseLegs(ledger[i].legs), i, 0)
<1>2. ledger \in Seq(ActivityType) /\ at \in Times
  BY <1>1, TypeParts, LedgerConstants DEF Times
<1>3. ChainHead(i) /\ at >= ledger[i].at BY <1>1 DEF ReverseActivity
<1>4. a \in ActivityType /\ Linked(Append(ledger, a)) BY <1>1, <1>2, <1>3, ReversalOf
<1>5. ledger' = ledger \o <<a>> BY <1>1 DEF ReverseActivity, PersistLedger
<1> HIDE DEF a
<1>6. ledger' = Append(ledger, a) BY <1>2, <1>4, <1>5
<1>7. Linked(ledger') BY <1>4, <1>6
<1> QED BY <1>7 DEF ChainsWellFormed, Linked, ReversalLink, ReplacementLink

LEMMA AppendTwice ==
  ASSUME NEW L \in Seq(ActivityType), NEW a \in ActivityType, NEW b \in ActivityType
  PROVE  L \o <<a, b>> = Append(Append(L, a), b)
<1> DEFINE M == L \o <<a, b>>
           N == Append(Append(L, a), b)
<1>1. M \in Seq(ActivityType) /\ N \in Seq(ActivityType) OBVIOUS
<1>2. Len(M) = Len(L) + 2 /\ Len(N) = Len(L) + 2 OBVIOUS
<1>3. \A j \in 1 .. Len(L) + 2 : M[j] = N[j]
  <2>1. \A j \in 1 .. Len(L) : M[j] = L[j] /\ N[j] = L[j] OBVIOUS
  <2>2. M[Len(L) + 1] = a /\ N[Len(L) + 1] = a OBVIOUS
  <2>3. M[Len(L) + 2] = b /\ N[Len(L) + 2] = b OBVIOUS
  <2> HIDE DEF M, N
  <2>4. Len(L) \in Nat OBVIOUS
  <2> QED BY <2>1, <2>2, <2>3, <2>4
<1> HIDE DEF M, N
<1>4. M = N
  <2>1. DOMAIN M = 1 .. Len(M) /\ DOMAIN N = 1 .. Len(N) BY <1>1
  <2>2. M = [j \in 1 .. Len(M) |-> M[j]] /\ N = [j \in 1 .. Len(N) |-> N[j]] BY <1>1
  <2> QED BY <1>2, <1>3, <2>1, <2>2
<1> QED BY <1>4 DEF M, N

LEMMA CorrectLinks == ASSUME TypeOK, ChainsWellFormed, Correct PROVE ChainsWellFormed'
<1>1. PICK i \in DOMAIN ledger, kind \in Kinds \ {"reversal"} :
        \E legs \in LegsOf(kind), at \in 0 .. now : CorrectActivity(i, kind, legs, at)
  BY DEF Correct
<1>2. PICK legs \in LegsOf(kind), at \in 0 .. now : CorrectActivity(i, kind, legs, at)
  BY <1>1
<1> DEFINE undo == Activity("reversal", ledger[i].at, InverseLegs(ledger[i].legs), i, 0)
           redo == Activity(kind, at, legs, 0, i)
<1>3. ledger \in Seq(ActivityType) /\ at \in Times /\ i \in Nat
  BY <1>1, <1>2, TypeParts, LedgerConstants DEF Times
<1>4. ledger[i] \in ActivityType BY <1>1, <1>3
<1>5. ledger[i].at \in Times /\ ledger[i].at >= ledger[i].at
  BY <1>4 DEF ActivityType, Times
<1>6. ChainHead(i) BY <1>2 DEF CorrectActivity
<1>7. undo \in ActivityType /\ Linked(Append(ledger, undo)) BY <1>1, <1>5, <1>6, ReversalOf
<1>8. redo \in ActivityType BY <1>3, CommandLegs, ActivityIs, 0 \in Nat
<1>9. ledger' = ledger \o <<undo, redo>> BY <1>2 DEF CorrectActivity, PersistLedger
<1>10. undo.reverses = i /\ undo.at = ledger[i].at /\ undo.corrects = 0 BY DEF Activity
<1>11. redo.kind # "reversal" /\ redo.reverses = 0 /\ redo.corrects = i BY <1>1 DEF Activity
<1>12. \A j \in DOMAIN ledger : ledger[j].corrects # i BY <1>6 DEF ChainHead, Corrected
<1>13. i # 0 BY <1>1, <1>3
<1> HIDE DEF undo, redo
<1> DEFINE L == Append(ledger, undo)
<1>14. /\ L \in Seq(ActivityType) /\ L # <<>> /\ L[Len(L)] = undo
       /\ DOMAIN L = DOMAIN ledger \cup {Len(ledger) + 1} /\ L[Len(ledger) + 1] = undo
       /\ \A j \in DOMAIN ledger : L[j] = ledger[j]
  BY <1>3, <1>7
<1>15. \A j \in DOMAIN L : L[j].corrects # i BY <1>10, <1>12, <1>13, <1>14
<1>16. ledger' = Append(L, redo) BY <1>3, <1>7, <1>8, <1>9, AppendTwice
<1>17. Linked(L) BY <1>7
<1> HIDE DEF L
<1>18. i \in DOMAIN L /\ L[i].at = ledger[i].at BY <1>1, <1>14
<1>19. Linked(Append(L, redo))
  BY <1>8, <1>10, <1>11, <1>14, <1>15, <1>17, <1>18, AppendReplacement
<1>20. Linked(ledger') BY <1>16, <1>19
<1> QED BY <1>20 DEF ChainsWellFormed, Linked, ReversalLink, ReplacementLink

\* The chain of every Activity is a list, with one Reversal and one
\* replacement at each step, whatever commands are interleaved.
THEOREM ChainsHold == Spec => []ChainsWellFormed
<1>1. Init => ChainsWellFormed BY DEF Init, ChainsWellFormed
<1>2. TypeOK /\ ChainsWellFormed /\ [Next]_vars => ChainsWellFormed'
  <2>1. SUFFICES ASSUME TypeOK, ChainsWellFormed, [Next]_vars PROVE ChainsWellFormed' OBVIOUS
  <2>2. CASE Posting BY <2>1, <2>2, PostingLinks
  <2>3. CASE Reverse BY <2>1, <2>3, ReverseLinks
  <2>4. CASE Correct BY <2>1, <2>4, CorrectLinks
  <2>5. CASE ledger' = ledger BY <2>1, <2>5 DEF ChainsWellFormed
  <2>6. ASSUME NEW e \in Endpoints, CreateAtZero(e) PROVE ledger' = ledger
    BY <2>6 DEF CreateAtZero
  <2>7. ASSUME NEW x \in Archivable, Archive(x) PROVE ledger' = ledger BY <2>7 DEF Archive
  <2> QED BY <2>1, <2>2, <2>3, <2>4, <2>5, <2>6, <2>7 DEF Next, RebuildSnapshots, Tick, vars
<1> QED BY <1>1, <1>2, TypesHold, PTL DEF Spec

-----------------------------------------------------------------------------
(* What a replay leaves behind                                               *)

\* The row at the chosen time is the one read back, so it shows the replay,
\* although the Reversal's own row may be the later of the two.
LEMMA PersistShowsReplay ==
  ASSUME TypeOK, NEW extras \in Seq(ActivityType), Len(extras) > 0, PersistLedger(extras),
         NEW e \in Endpoints, e \in Touched(extras)
  PROVE  /\ observed'[e].amount = Replayed(ledger', e)
         /\ e \in Holdings => quantity'[e] = Replayed(ledger', e)
<1> DEFINE acts    == ledger \o extras
           touched == Touched(extras)
           Row(d)  == IF Len(extras) = 1 THEN observed[d]
                      ELSE Observe(observed[d], Replayed(acts, d), extras[1].at)
<1>1. /\ ledger' = acts
      /\ quantity' = [h \in Holdings |-> IF h \in touched THEN Replayed(acts, h) ELSE quantity[h]]
  BY DEF PersistLedger
<1>2. PICK t \in Times :
        /\ RowTime(t, extras[Len(extras)].at, touched)
        /\ observed' = [d \in Endpoints |->
                          IF d \in touched THEN Observe(Row(d), Replayed(acts, d), t)
                          ELSE observed[d]]
  BY DEF PersistLedger
<1>3. observed'[e] = Observe(Row(e), Replayed(acts, e), t) BY <1>2
<1>4. t >= observed[e].at BY <1>2 DEF RowTime
<1> DEFINE r == Replayed(acts, e)
           first == extras[1].at
<1>5. /\ t \in Int /\ first \in Int /\ observed[e].at \in Int
  <2>1. extras[1] \in ActivityType OBVIOUS
  <2> QED BY <2>1, TypeParts, SMTT(30) DEF ActivityType, RowType, Times
<1>6. Row(e) = observed[e] \/ Row(e) = Observe(observed[e], r, first) OBVIOUS
<1> HIDE DEF acts, touched, Row, r, first
<1>7. Observe(Row(e), r, t).amount = r
  <2>1. CASE Row(e) = observed[e] BY <1>4, <1>5, <2>1 DEF Observe
  <2>2. CASE Row(e) = Observe(observed[e], r, first)
    <3>1. CASE first >= observed[e].at
      <4>1. Row(e) = [amount |-> r, at |-> first] BY <2>2, <3>1 DEF Observe
      <4> QED BY <4>1 DEF Observe
    <3>2. CASE ~(first >= observed[e].at)
      <4>1. Row(e) = observed[e] BY <2>2, <3>2 DEF Observe
      <4> QED BY <1>4, <1>5, <4>1 DEF Observe
    <3> QED BY <3>1, <3>2
  <2> QED BY <1>6, <2>1, <2>2
<1>8. observed'[e].amount = r BY <1>3, <1>7 DEF r
<1>9. e \in Holdings => quantity'[e] = r BY <1>1 DEF r, touched
<1> QED BY <1>1, <1>8, <1>9 DEF r

\* A posted Activity is no link, so a command that only posts owes nothing.
LEMMA PostOwesNothing ==
  ASSUME TypeOK, NEW kind, NEW legs, NEW at, Post(kind, legs, at) PROVE RepairStep
<1> DEFINE a == Activity(kind, at, legs, 0, 0)
<1>1. ledger' = Append(ledger, a) BY DEF Post
<1>2. a.reverses = 0 /\ a.corrects = 0 BY DEF Activity
<1>3. ledger \in Seq(ActivityType) BY TypeParts
<1> HIDE DEF a
<1>4. \A i \in DOMAIN ledger' \ DOMAIN ledger : ledger'[i] = a BY <1>1, <1>3
<1> QED BY <1>2, <1>4 DEF RepairStep

\* The new Activities of a replay are exactly the ones it was given.
LEMMA PersistRepairs ==
  ASSUME TypeOK, NEW extras \in Seq(ActivityType), Len(extras) > 0, PersistLedger(extras)
  PROVE  RepairStep
<1>1. ledger' = ledger \o extras BY DEF PersistLedger
<1>2. ledger \in Seq(ActivityType) BY TypeParts
<1>3. ASSUME NEW i \in DOMAIN ledger' \ DOMAIN ledger, NEW e \in Touched(<<ledger'[i]>>)
      PROVE  e \in Endpoints /\ e \in Touched(extras)
  <2>1. PICK n \in DOMAIN extras : ledger'[i] = extras[n]
    <3>1. /\ DOMAIN ledger' = 1 .. Len(ledger) + Len(extras) /\ DOMAIN ledger = 1 .. Len(ledger)
          /\ DOMAIN extras = 1 .. Len(extras)
          /\ \A j \in 1 .. Len(extras) : ledger'[Len(ledger) + j] = extras[j]
          /\ Len(ledger) \in Nat /\ Len(extras) \in Nat
      BY <1>1, <1>2
    <3>2. i - Len(ledger) \in 1 .. Len(extras) BY <3>1
    <3>3. i \in Int /\ Len(ledger) + (i - Len(ledger)) = i BY <3>1
    <3>4. ledger'[i] = extras[i - Len(ledger)] BY <3>1, <3>2, <3>3
    <3> QED BY <3>1, <3>2, <3>4
  <2>2. extras[n] \in ActivityType BY <2>1
  <2>3. PICK k \in DOMAIN extras[n].legs : e = extras[n].legs[k].ep
    <3> DEFINE one == <<extras[n]>>
    <3>1. DOMAIN one = {1} /\ one[1] = extras[n] OBVIOUS
    <3>2. e \in Touched(one) BY <1>3, <2>1
    <3> HIDE DEF one
    <3>3. e \in UNION {{one[j].legs[k].ep : k \in DOMAIN one[j].legs} : j \in DOMAIN one}
      BY <3>2 DEF Touched
    <3>4. PICK j \in DOMAIN one : e \in {one[j].legs[k].ep : k \in DOMAIN one[j].legs}
      BY <3>3
    <3> QED BY <3>1, <3>4
  <2>4. extras[n].legs[k] \in LegType BY <2>2, <2>3 DEF ActivityType
  <2>5. e \in Endpoints BY <2>3, <2>4 DEF LegType
  <2>6. e \in Touched(extras) BY <2>1, <2>3 DEF Touched
  <2> QED BY <2>5, <2>6
<1> QED BY <1>3, PersistShowsReplay DEF RepairStep

LEMMA NextRepairs == TypeOK /\ [Next]_vars => [RepairStep]_vars
<1>1. SUFFICES ASSUME TypeOK, Next PROVE RepairStep OBVIOUS
<1>2. CASE Posting
  <2>1. \E kind, legs, at : Post(kind, legs, at)
    BY <1>2 DEF Posting, Opening, PostKind, BalanceAdjustment, DebtAdjustment, ManualValuation,
       PositionAdjustment, Deposit, Withdrawal, Income, Fee, Transfer, Buy, Sell, DebtDraw,
       DebtPayment
  <2> QED BY <1>1, <2>1, PostOwesNothing
<1>3. CASE Reverse BY <1>1, <1>3, ReverseReplays, PersistRepairs
<1>4. CASE Correct BY <1>1, <1>4, CorrectReplays, PersistRepairs
<1>5. CASE ledger' = ledger BY <1>5 DEF RepairStep
<1>6. ASSUME NEW e \in Endpoints, CreateAtZero(e) PROVE ledger' = ledger
  BY <1>6 DEF CreateAtZero
<1>7. ASSUME NEW x \in Archivable, Archive(x) PROVE ledger' = ledger BY <1>7 DEF Archive
<1> QED BY <1>1, <1>2, <1>3, <1>4, <1>5, <1>6, <1>7 DEF Next, RebuildSnapshots, Tick

\* A reversal or a correction leaves the rows and the column of every endpoint
\* it touches equal to the replay of the whole ledger, even where backdated
\* commands had left them different.
THEOREM RepairsHold == Spec => RepairsProjections
<1>1. TypeOK /\ [Next]_vars => [RepairStep]_vars BY NextRepairs
<1> QED BY <1>1, TypesHold, PTL DEF Spec, RepairsProjections

-----------------------------------------------------------------------------
(* The replay of a ledger as a sum over its legs.                            *)

Deltas(acts) == [p \in Positions(acts) |-> acts[p[1]].legs[p[2]].delta]
On(acts, e, ps) == {p \in ps : acts[p[1]].legs[p[2]].ep = e}

LEMMA PositionIs ==
  ASSUME NEW acts, NEW p
  PROVE  p \in Positions(acts) <=> \E i \in DOMAIN acts : \E k \in DOMAIN acts[i].legs : p = <<i, k>>
<1>1. Positions(acts) = UNION {{<<i, k>> : k \in DOMAIN acts[i].legs} : i \in DOMAIN acts}
  BY DEF Positions
<1>2. ASSUME p \in Positions(acts)
      PROVE  \E i \in DOMAIN acts : \E k \in DOMAIN acts[i].legs : p = <<i, k>>
  <2>1. PICK i \in DOMAIN acts : p \in {<<i, k>> : k \in DOMAIN acts[i].legs} BY <1>1, <1>2
  <2> QED BY <2>1
<1>3. ASSUME NEW i \in DOMAIN acts, NEW k \in DOMAIN acts[i].legs, p = <<i, k>>
      PROVE  p \in Positions(acts)
  <2>1. p \in {<<i, j>> : j \in DOMAIN acts[i].legs} BY <1>3
  <2> QED BY <1>1, <2>1
<1> QED BY <1>2, <1>3

LEMMA LegAt ==
  ASSUME NEW acts \in Seq(ActivityType), NEW p \in Positions(acts)
  PROVE  /\ p[1] \in DOMAIN acts /\ p[2] \in DOMAIN acts[p[1]].legs /\ p = <<p[1], p[2]>>
         /\ acts[p[1]] \in ActivityType /\ acts[p[1]].at \in Int
         /\ acts[p[1]].legs[p[2]] \in LegType
         /\ p[1] \in Nat /\ p[2] \in Nat
<1>1. PICK i \in DOMAIN acts : \E k \in DOMAIN acts[i].legs : p = <<i, k>> BY PositionIs
<1>2. PICK k \in DOMAIN acts[i].legs : p = <<i, k>> BY <1>1
<1>3. p[1] = i /\ p[2] = k BY <1>2
<1>4. acts[i] \in ActivityType OBVIOUS
<1>5. acts[i].legs \in Seq(LegType) /\ acts[i].at \in Int BY <1>4 DEF ActivityType, Times
<1>6. acts[i].legs[k] \in LegType /\ i \in Nat /\ k \in Nat BY <1>5
<1> QED BY <1>2, <1>3, <1>4, <1>5, <1>6

LEMMA PositionsFinite ==
  ASSUME NEW acts \in Seq(ActivityType) PROVE IsFiniteSet(Positions(acts))
<1> DEFINE At(i) == {<<i, k>> : k \in DOMAIN acts[i].legs}
           all == [i \in DOMAIN acts |-> At(i)]
<1>1. ASSUME NEW i \in DOMAIN acts PROVE IsFiniteSet(At(i))
  <2> DEFINE D == DOMAIN acts[i].legs
             f == [k \in D |-> <<i, k>>]
  <2>1. acts[i] \in ActivityType OBVIOUS
  <2>2. acts[i].legs \in Seq(LegType) BY <2>1 DEF ActivityType
  <2>3. D = 1 .. Len(acts[i].legs) /\ Len(acts[i].legs) \in Int /\ 1 \in Int BY <2>2
  <2>4. IsFiniteSet(D) BY <2>3, FS_Interval
  <2>5. At(i) = {f[k] : k \in D} OBVIOUS
  <2> HIDE DEF D, f
  <2>6. IsFiniteSet({f[k] : k \in D}) BY <2>4, FiniteImage
  <2> QED BY <2>5, <2>6
<1>2. IsFiniteSet(DOMAIN acts)
  <2>1. DOMAIN acts = 1 .. Len(acts) /\ Len(acts) \in Int /\ 1 \in Int OBVIOUS
  <2> QED BY <2>1, FS_Interval
<1>3. Positions(acts) = UNION {all[i] : i \in DOMAIN acts} BY DEF Positions
<1>4. \A T \in {all[i] : i \in DOMAIN acts} : IsFiniteSet(T) BY <1>1
<1> HIDE DEF all
<1>5. IsFiniteSet({all[i] : i \in DOMAIN acts}) BY <1>2, FiniteImage
<1> DEFINE sets == {all[i] : i \in DOMAIN acts}
<1>6. IsFiniteSet(sets) /\ \A T \in sets : IsFiniteSet(T) BY <1>4, <1>5
<1> HIDE DEF sets
<1>7. IsFiniteSet(UNION sets) BY <1>6, FS_UNION
<1> QED BY <1>3, <1>7 DEF sets

LEMMA EffectIsSum ==
  ASSUME NEW acts \in Seq(ActivityType), NEW e, NEW ps \in SUBSET Positions(acts)
  PROVE  /\ IsFiniteSet(On(acts, e, ps)) /\ Integral(Deltas(acts), On(acts, e, ps))
         /\ Effect(acts, e, ps) = SumOver(Deltas(acts), On(acts, e, ps))
         /\ Effect(acts, e, ps) \in Int
<1> DEFINE S == On(acts, e, ps)
           F == Deltas(acts)
           Fold(g) == g = [s \in SUBSET S |->
                             IF s = {} THEN 0
                             ELSE acts[Pick(s)[1]].legs[Pick(s)[2]].delta + g[s \ {Pick(s)}]]
           h == CHOOSE g : Fold(g)
<1>1. S \in SUBSET Positions(acts) BY DEF On
<1>2. IsFiniteSet(S) BY <1>1, PositionsFinite, FS_Subset
<1>3. Integral(F, S)
  <2>1. ASSUME NEW p \in S PROVE F[p] \in Int
    <3>1. p \in Positions(acts) BY <1>1
    <3>2. acts[p[1]].legs[p[2]] \in LegType BY <3>1, LegAt
    <3> QED BY <3>1, <3>2 DEF Deltas, LegType
  <2> QED BY <2>1 DEF Integral
<1>4. Effect(acts, e, ps) = h[S]
  BY DEF Effect, MapThenSumSet, MapThenFoldSet, Pick, On
<1>5. ASSUME NEW s \in SUBSET S, s # {}
      PROVE  F[Pick(s)] = acts[Pick(s)[1]].legs[Pick(s)[2]].delta
  <2>1. Pick(s) \in Positions(acts) BY <1>1, <1>5, PickIn
  <2> QED BY <2>1 DEF Deltas
<1> HIDE DEF S, F
<1>6. ASSUME NEW g PROVE Fold(g) <=> Sums(F, S, g)
  BY <1>5 DEF Sums
<1>7. PICK g : Sums(F, S, g) BY <1>2, SumsExist
<1>8. Fold(g) BY <1>6, <1>7
<1>9. Fold(h)
  <2> HIDE DEF Fold
  <2> QED BY <1>8, Zenon
<1>10. Sums(F, S, h)
  <2> HIDE DEF Fold, h
  <2> QED BY <1>6, <1>9
<1> HIDE DEF h
<1>11. SumOver(F, S) = h[S]
  <2>1. S \subseteq S OBVIOUS
  <2> QED BY <1>2, <1>10, <2>1, SumIsFold
<1>12. SumOver(F, S) \in Int BY <1>2, <1>3, SumType
<1> QED BY <1>2, <1>3, <1>4, <1>11, <1>12 DEF S, F

\* The legs of the Activities appended to a ledger of n come after its own.
Moved(n, p) == <<n + p[1], p[2]>>

LEMMA Concatenated ==
  ASSUME NEW L \in Seq(ActivityType), NEW X \in Seq(ActivityType)
  PROVE  /\ L \o X \in Seq(ActivityType)
         /\ Len(L) \in Nat
         /\ DOMAIN L \subseteq DOMAIN (L \o X)
         /\ \A i \in DOMAIN L : (L \o X)[i] = L[i] /\ i <= Len(L)
         /\ \A j \in DOMAIN X : (L \o X)[Len(L) + j] = X[j] /\ Len(L) + j \in DOMAIN (L \o X)
                                /\ j >= 1
         /\ \A i \in DOMAIN (L \o X) : i \in DOMAIN L \/ \E j \in DOMAIN X : i = Len(L) + j
<1>1. L \o X \in Seq(ActivityType) /\ Len(L) \in Nat OBVIOUS
<1>2. /\ DOMAIN L = 1 .. Len(L) /\ DOMAIN X = 1 .. Len(X) /\ Len(X) \in Nat
      /\ DOMAIN (L \o X) = 1 .. Len(L) + Len(X)
  OBVIOUS
<1>3. \A i \in DOMAIN L : (L \o X)[i] = L[i] OBVIOUS
<1>4. \A j \in DOMAIN X : (L \o X)[Len(L) + j] = X[j] OBVIOUS
<1> DEFINE M == L \o X
<1> HIDE DEF M
<1>5. \A i \in 1 .. Len(L) + Len(X) :
         i \in 1 .. Len(L) \/ \E j \in 1 .. Len(X) : i = Len(L) + j
  <2>1. ASSUME NEW i \in 1 .. Len(L) + Len(X), i \notin 1 .. Len(L)
        PROVE  i - Len(L) \in 1 .. Len(X) /\ i = Len(L) + (i - Len(L))
    BY <1>1, <1>2, <2>1
  <2> QED BY <2>1
<1>6. DOMAIN L \subseteq DOMAIN (L \o X) BY <1>1, <1>2
<1>7. \A i \in DOMAIN L : i <= Len(L) BY <1>1, <1>2
<1>8. \A j \in DOMAIN X : Len(L) + j \in DOMAIN (L \o X) /\ j >= 1 BY <1>1, <1>2
<1>9. \A i \in DOMAIN (L \o X) : i \in DOMAIN L \/ \E j \in DOMAIN X : i = Len(L) + j
  BY <1>2, <1>5
<1> QED BY <1>1, <1>3, <1>4, <1>6, <1>7, <1>8, <1>9

\* The legs of a ledger that grew: its own, and after them those appended.
LEMMA PositionsOfBoth ==
  ASSUME NEW L \in Seq(ActivityType), NEW X \in Seq(ActivityType)
  PROVE  /\ \A p \in Positions(L) :
              p \in Positions(L \o X) /\ (L \o X)[p[1]] = L[p[1]] /\ p[1] <= Len(L)
         /\ \A p \in Positions(X) :
              /\ Moved(Len(L), p) \in Positions(L \o X)
              /\ Moved(Len(L), p)[1] = Len(L) + p[1] /\ Moved(Len(L), p)[2] = p[2]
              /\ (L \o X)[Len(L) + p[1]] = X[p[1]] /\ Len(L) + p[1] > Len(L)
         /\ \A p \in Positions(L \o X) :
              p \in Positions(L) \/ \E q \in Positions(X) : p = Moved(Len(L), q)
<1> DEFINE M == L \o X
           n == Len(L)
<1>1. M \in Seq(ActivityType) /\ n \in Nat BY Concatenated
<1>2. ASSUME NEW p \in Positions(L)
      PROVE  /\ p \in Positions(M) /\ M[p[1]] = L[p[1]] /\ p[1] <= n
  <2>1. p[1] \in DOMAIN L /\ p[2] \in DOMAIN L[p[1]].legs /\ p = <<p[1], p[2]>> BY LegAt
  <2>2. M[p[1]] = L[p[1]] /\ p[1] \in DOMAIN M /\ p[1] <= n BY <2>1, Concatenated
  <2> HIDE DEF M
  <2>3. p \in Positions(M) BY <2>1, <2>2, PositionIs
  <2> QED BY <2>2, <2>3
<1>3. ASSUME NEW p \in Positions(X)
      PROVE  /\ Moved(n, p)[1] = n + p[1] /\ Moved(n, p)[2] = p[2]
             /\ Moved(n, p) \in Positions(M) /\ M[n + p[1]] = X[p[1]] /\ n + p[1] > n
  <2>1. p[1] \in DOMAIN X /\ p[2] \in DOMAIN X[p[1]].legs /\ p[1] \in Nat BY LegAt
  <2>2. M[n + p[1]] = X[p[1]] /\ n + p[1] \in DOMAIN M /\ p[1] >= 1 BY <2>1, Concatenated
  <2>3. Moved(n, p) = <<n + p[1], p[2]>> BY DEF Moved
  <2> HIDE DEF M, n
  <2>4. <<n + p[1], p[2]>> \in Positions(M) BY <2>1, <2>2, PositionIs
  <2> QED BY <1>1, <2>1, <2>2, <2>3, <2>4 DEF Moved
<1>4. ASSUME NEW p \in Positions(M)
      PROVE  p \in Positions(L) \/ \E q \in Positions(X) : p = Moved(n, q)
  <2>1. p[1] \in DOMAIN M /\ p[2] \in DOMAIN M[p[1]].legs /\ p = <<p[1], p[2]>> BY <1>1, LegAt
  <2>2. CASE p[1] \in DOMAIN L
    <3>1. M[p[1]] = L[p[1]] BY <2>2, Concatenated
    <3> QED BY <2>1, <2>2, <3>1, PositionIs
  <2>3. CASE p[1] \notin DOMAIN L
    <3>1. PICK j \in DOMAIN X : p[1] = n + j BY <2>1, <2>3, Concatenated
    <3>2. M[p[1]] = X[j] BY <3>1, Concatenated
    <3>3. <<j, p[2]>> \in Positions(X) BY <2>1, <3>2, PositionIs
    <3>4. Moved(n, <<j, p[2]>>) = p BY <2>1, <3>1 DEF Moved
    <3> QED BY <3>3, <3>4
  <2> QED BY <2>2, <2>3
<1> QED BY <1>2, <1>3, <1>4

\* What a set of legs adds is what those of the ledger and what those appended add.
LEMMA EffectSplits ==
  ASSUME NEW L \in Seq(ActivityType), NEW X \in Seq(ActivityType), NEW e,
         NEW C \in SUBSET Positions(L \o X)
  PROVE  Effect(L \o X, e, C)
           = Effect(L, e, {p \in Positions(L) : p \in C})
             + Effect(X, e, {p \in Positions(X) : Moved(Len(L), p) \in C})
<1> DEFINE M == L \o X
           n == Len(L)
           A == {p \in Positions(L) : p \in C}
           B == {p \in Positions(X) : Moved(n, p) \in C}
           move == [p \in Positions(X) |-> Moved(n, p)]
           SA == On(L, e, A)
           SB == On(X, e, B)
           MB == {move[p] : p \in SB}
<1>1. M \in Seq(ActivityType) /\ n \in Nat /\ C \subseteq Positions(M) BY Concatenated
<1>2. ASSUME NEW p \in Positions(L)
      PROVE  /\ p \in Positions(M) /\ M[p[1]] = L[p[1]] /\ p[1] <= n
  BY PositionsOfBoth
<1>3. ASSUME NEW p \in Positions(X)
      PROVE  /\ move[p] = Moved(n, p) /\ move[p][1] = n + p[1] /\ move[p][2] = p[2]
             /\ move[p] \in Positions(M) /\ M[n + p[1]] = X[p[1]] /\ n + p[1] > n
  BY PositionsOfBoth
<1>4. ASSUME NEW p \in Positions(M)
      PROVE  p \in Positions(L) \/ \E q \in Positions(X) : p = Moved(n, q)
  BY PositionsOfBoth
<1>5. A \in SUBSET Positions(L) /\ B \in SUBSET Positions(X) OBVIOUS
<1>6. On(M, e, C) = SA \cup MB /\ SA \cap MB = {}
  <2> HIDE DEF M, n, move
  <2>1. ASSUME NEW p \in C PROVE p \in A \/ \E q \in B : p = move[q]
    <3>1. p \in Positions(M) BY <1>1
    <3>2. CASE p \in Positions(L) BY <3>2
    <3>3. CASE \E q \in Positions(X) : p = Moved(n, q)
      <4>1. PICK q \in Positions(X) : p = Moved(n, q) BY <3>3
      <4>2. q \in B /\ move[q] = p BY <1>3, <4>1
      <4> QED BY <4>2
    <3> QED BY <1>4, <3>1, <3>2, <3>3
  <2>2. \A p \in A : p \in C /\ M[p[1]].legs[p[2]] = L[p[1]].legs[p[2]] BY <1>2
  <2>3. \A q \in B : move[q] \in C /\ M[move[q][1]].legs[move[q][2]] = X[q[1]].legs[q[2]]
    BY <1>3
  <2>4. \A p \in A, q \in B : p # move[q]
    <3>1. ASSUME NEW p \in A, NEW q \in B, p = move[q] PROVE FALSE
      <4>1. p[1] \in Nat /\ p[1] <= n /\ p[1] = n + q[1] /\ n + q[1] > n
        BY <1>2, <1>3, <3>1, LegAt
      <4> QED BY <1>1, <4>1
    <3> QED BY <3>1
  <2> HIDE DEF A, B
  <2>5. On(M, e, C) \subseteq SA \cup MB
    <3>1. ASSUME NEW p \in On(M, e, C) PROVE p \in SA \cup MB
      <4>1. p \in C /\ M[p[1]].legs[p[2]].ep = e BY DEF On
      <4>2. CASE p \in A BY <2>2, <4>1, <4>2 DEF On
      <4>3. CASE \E q \in B : p = move[q]
        <5>1. PICK q \in B : p = move[q] BY <4>3
        <5>2. q \in SB BY <2>3, <4>1, <5>1 DEF On
        <5> QED BY <5>1, <5>2
      <4> QED BY <2>1, <4>1, <4>2, <4>3
    <3> QED BY <3>1
  <2>6. SA \subseteq On(M, e, C) BY <2>2 DEF On
  <2>7. MB \subseteq On(M, e, C)
    <3>1. ASSUME NEW q \in SB PROVE move[q] \in On(M, e, C)
      <4>1. q \in B /\ X[q[1]].legs[q[2]].ep = e BY DEF On
      <4> QED BY <2>3, <4>1 DEF On
    <3> QED BY <3>1
  <2>8. SA \cap MB = {}
    <3>1. SA \subseteq A /\ SB \subseteq B BY DEF On
    <3> HIDE DEF SA, SB
    <3> QED BY <2>4, <3>1
  <2> QED BY <2>5, <2>6, <2>7, <2>8
<1>7. /\ IsFiniteSet(SA) /\ Integral(Deltas(L), SA) /\ Effect(L, e, A) = SumOver(Deltas(L), SA)
      /\ IsFiniteSet(SB) /\ Integral(Deltas(X), SB) /\ Effect(X, e, B) = SumOver(Deltas(X), SB)
  BY <1>5, EffectIsSum
<1>8. /\ IsFiniteSet(On(M, e, C)) /\ Integral(Deltas(M), On(M, e, C))
      /\ Effect(M, e, C) = SumOver(Deltas(M), On(M, e, C))
  BY <1>1, EffectIsSum
<1>9. \A p \in SA : Deltas(M)[p] = Deltas(L)[p]
  <2>1. ASSUME NEW p \in SA PROVE Deltas(M)[p] = Deltas(L)[p]
    <3>1. p \in Positions(L) BY DEF On
    <3> HIDE DEF M
    <3> QED BY <1>2, <3>1 DEF Deltas
  <2> QED BY <2>1
<1>10. \A p \in SB : Deltas(M)[move[p]] = Deltas(X)[p]
  <2>1. ASSUME NEW p \in SB PROVE Deltas(M)[move[p]] = Deltas(X)[p]
    <3>1. p \in Positions(X) BY DEF On
    <3> HIDE DEF M, move, n
    <3> QED BY <1>3, <3>1 DEF Deltas
  <2> QED BY <2>1
<1>11. \A p, q \in SB : move[p] = move[q] => p = q
  <2>1. ASSUME NEW p \in SB, NEW q \in SB, move[p] = move[q] PROVE p = q
    <3>1. p \in Positions(X) /\ q \in Positions(X) BY DEF On
    <3>2. p = <<p[1], p[2]>> /\ q = <<q[1], q[2]>> /\ p[1] \in Nat /\ q[1] \in Nat BY <3>1, LegAt
    <3>3. n + p[1] = n + q[1] /\ p[2] = q[2]
      <4> HIDE DEF move, n
      <4> QED BY <1>3, <2>1, <3>1
    <3>4. p[1] = q[1] BY <1>1, <3>2, <3>3
    <3> QED BY <3>2, <3>3, <3>4
  <2> QED BY <2>1
<1> HIDE DEF M, move, A, B, SA, SB
<1>12. IsFiniteSet(MB) /\ SumOver(Deltas(M), MB) = SumOver(Deltas(X), SB)
  <2> DEFINE F == Deltas(X)
             G == Deltas(M)
  <2>1. /\ IsFiniteSet(SB) /\ Integral(F, SB)
        /\ \A p, q \in SB : move[p] = move[q] => p = q
        /\ \A p \in SB : G[move[p]] = F[p]
    BY <1>7, <1>10, <1>11
  <2>2. MB = {move[p] : p \in SB} OBVIOUS
  <2> HIDE DEF F, G, MB
  <2>3. IsFiniteSet(MB) /\ SumOver(G, MB) = SumOver(F, SB) BY <2>1, <2>2, SumImage
  <2> QED BY <2>3 DEF F, G
<1> HIDE DEF MB
<1>13. SumOver(Deltas(M), SA) = SumOver(Deltas(L), SA) BY <1>7, <1>9, SumSame
<1>14. SumOver(Deltas(M), SA \cup MB) = SumOver(Deltas(M), SA) + SumOver(Deltas(M), MB)
  BY <1>6, <1>7, <1>8, <1>12, SumUnion
<1> QED BY <1>6, <1>7, <1>8, <1>12, <1>13, <1>14 DEF M, A, B, n

\* Activities that do not touch an endpoint add nothing to it.
LEMMA UntouchedEffect ==
  ASSUME NEW X \in Seq(ActivityType), NEW e, e \notin Touched(X), NEW B \in SUBSET Positions(X)
  PROVE  Effect(X, e, B) = 0
<1>1. On(X, e, B) = {}
  <2>1. SUFFICES ASSUME NEW p \in B, X[p[1]].legs[p[2]].ep = e PROVE FALSE BY DEF On
  <2>2. p[1] \in DOMAIN X /\ p[2] \in DOMAIN X[p[1]].legs BY LegAt
  <2>3. e \in {X[p[1]].legs[k].ep : k \in DOMAIN X[p[1]].legs} BY <2>1, <2>2
  <2>4. e \in Touched(X) BY <2>2, <2>3 DEF Touched
  <2> QED BY <2>4
<1>2. Effect(X, e, B) = SumOver(Deltas(X), On(X, e, B)) BY EffectIsSum
<1> QED BY <1>1, <1>2, SumEmpty

LEMMA TouchedAt ==
  ASSUME NEW X \in Seq(ActivityType), NEW p \in Positions(X)
  PROVE  X[p[1]].legs[p[2]].ep \in Touched(X)
<1>1. p[1] \in DOMAIN X /\ p[2] \in DOMAIN X[p[1]].legs BY LegAt
<1>2. X[p[1]].legs[p[2]].ep \in {X[p[1]].legs[k].ep : k \in DOMAIN X[p[1]].legs} BY <1>1
<1> QED BY <1>1, <1>2 DEF Touched

LEMMA ReplaySplits ==
  ASSUME NEW L \in Seq(ActivityType), NEW X \in Seq(ActivityType), NEW e
  PROVE  Effect(L \o X, e, Positions(L \o X))
           = Effect(L, e, Positions(L)) + Effect(X, e, Positions(X))
<1> DEFINE C == Positions(L \o X)
<1>1. {p \in Positions(L) : p \in C} = Positions(L) BY PositionsOfBoth
<1>2. {p \in Positions(X) : Moved(Len(L), p) \in C} = Positions(X) BY PositionsOfBoth
<1>3. C \in SUBSET Positions(L \o X) OBVIOUS
<1>4. Effect(L \o X, e, C) = Effect(L, e, {p \in Positions(L) : p \in C})
                            + Effect(X, e, {p \in Positions(X) : Moved(Len(L), p) \in C})
  BY <1>3, EffectSplits
<1> HIDE DEF C
<1> QED BY <1>1, <1>2, <1>4 DEF C

\* A day before everything that is appended shows what it showed.
LEMMA HistorySplits ==
  ASSUME NEW L \in Seq(ActivityType), NEW X \in Seq(ActivityType), NEW e \in Endpoints, NEW t
  PROVE  HistoryAt(L \o X, e, t)
           = Origin[e] + (Effect(L, e, {p \in Positions(L) : L[p[1]].at <= t})
                          + Effect(X, e, {p \in Positions(X) : X[p[1]].at <= t}))
<1> DEFINE M == L \o X
           n == Len(L)
           C == {p \in Positions(M) : M[p[1]].at <= t}
<1>1. {p \in Positions(L) : p \in C} = {p \in Positions(L) : L[p[1]].at <= t}
  BY PositionsOfBoth
<1>2. {p \in Positions(X) : Moved(n, p) \in C} = {p \in Positions(X) : X[p[1]].at <= t}
  <2>1. ASSUME NEW p \in Positions(X)
        PROVE  /\ Moved(n, p) \in Positions(M) /\ Moved(n, p)[1] = n + p[1]
               /\ M[n + p[1]] = X[p[1]]
    BY PositionsOfBoth
  <2> HIDE DEF M, n
  <2> QED BY <2>1
<1>3. C \in SUBSET Positions(M) OBVIOUS
<1>5. HistoryAt(M, e, t) = Origin[e] + Effect(M, e, C) BY DEF HistoryAt
<1> HIDE DEF C
<1>4. Effect(M, e, C) = Effect(L, e, {p \in Positions(L) : p \in C})
                        + Effect(X, e, {p \in Positions(X) : Moved(n, p) \in C})
  BY <1>3, EffectSplits
<1> QED BY <1>1, <1>2, <1>4, <1>5

\* What stands before a leg of the ledger: only earlier Activities are added to it.
LEMMA UptoOld ==
  ASSUME NEW L \in Seq(ActivityType), NEW X \in Seq(ActivityType), NEW e,
         NEW q \in Positions(L)
  PROVE  Effect(L \o X, e, Upto(L \o X, q))
           = Effect(L, e, Upto(L, q)) + Effect(X, e, {p \in Positions(X) : X[p[1]].at < L[q[1]].at})
<1> DEFINE M == L \o X
           n == Len(L)
           C == Upto(M, q)
<1>1. n \in Nat /\ q[1] \in Nat /\ q[1] <= n /\ M[q[1]] = L[q[1]]
  BY LegAt, PositionsOfBoth, Concatenated
<1>2. {p \in Positions(L) : p \in C} = Upto(L, q)
  <2> HIDE DEF M
  <2>1. \A p \in Positions(L) : p \in Positions(M) /\ M[p[1]] = L[p[1]]
    BY PositionsOfBoth DEF M
  <2> QED BY <1>1, <2>1 DEF Upto
<1>3. {p \in Positions(X) : Moved(n, p) \in C} = {p \in Positions(X) : X[p[1]].at < L[q[1]].at}
  <2>1. ASSUME NEW p \in Positions(X)
        PROVE  Moved(n, p) \in C <=> X[p[1]].at < L[q[1]].at
    <3>1. /\ Moved(n, p) \in Positions(M) /\ Moved(n, p)[1] = n + p[1]
          /\ M[n + p[1]] = X[p[1]] /\ n + p[1] > n /\ p[1] \in Nat
      BY PositionsOfBoth, LegAt
    <3>2. ~(n + p[1] < q[1]) /\ n + p[1] # q[1] BY <1>1, <3>1
    <3> HIDE DEF M, n
    <3> QED BY <1>1, <3>1, <3>2 DEF Upto
  <2> HIDE DEF C
  <2> QED BY <2>1
<1>4. C \in SUBSET Positions(M) BY DEF Upto
<1>5. Effect(M, e, C) = Effect(L, e, {p \in Positions(L) : p \in C})
                        + Effect(X, e, {p \in Positions(X) : Moved(n, p) \in C})
  BY <1>4, EffectSplits
<1> HIDE DEF C
<1> QED BY <1>2, <1>3, <1>5 DEF C

\* What stands before a leg dated after every leg on its endpoint.
LEMMA UptoNew ==
  ASSUME NEW L \in Seq(ActivityType), NEW X \in Seq(ActivityType), NEW e,
         NEW q \in Positions(X),
         \A p \in Positions(L) : L[p[1]].legs[p[2]].ep = e => L[p[1]].at <= X[q[1]].at
  PROVE  Effect(L \o X, e, Upto(L \o X, Moved(Len(L), q)))
           = Effect(L, e, Positions(L)) + Effect(X, e, Upto(X, q))
<1> DEFINE M == L \o X
           n == Len(L)
           r == Moved(n, q)
           C == Upto(M, r)
<1>1. /\ n \in Nat /\ q[1] \in Nat /\ q[2] \in Nat /\ r[1] = n + q[1] /\ r[2] = q[2]
      /\ n + q[1] > n /\ M[r[1]] = X[q[1]] /\ X[q[1]].at \in Int
  <2>1. n \in Nat BY Concatenated
  <2>2. q[1] \in Nat /\ q[2] \in Nat /\ X[q[1]].at \in Int BY LegAt
  <2>3. r[1] = n + q[1] /\ r[2] = q[2] /\ M[n + q[1]] = X[q[1]] /\ n + q[1] > n
    BY PositionsOfBoth
  <2> QED BY <2>1, <2>2, <2>3
<1> DEFINE before == {p \in Positions(L) : p \in C}
<1>2. Effect(L, e, before) = Effect(L, e, Positions(L))
  <2>1. ASSUME NEW p \in Positions(L), L[p[1]].legs[p[2]].ep = e PROVE p \in C
    <3>1. /\ p \in Positions(M) /\ M[p[1]] = L[p[1]] /\ p[1] <= n /\ p[1] \in Nat
          /\ p[1] \in DOMAIN L /\ L[p[1]].at \in Int
      BY PositionsOfBoth, LegAt
    <3>2. L[p[1]].at <= X[q[1]].at BY <2>1
    <3>3. p[1] < r[1] BY <1>1, <3>1
    <3>4. L[p[1]].at < X[q[1]].at \/ L[p[1]].at = X[q[1]].at BY <1>1, <3>1, <3>2
    <3> HIDE DEF M, n, r
    <3> QED BY <1>1, <3>1, <3>3, <3>4 DEF Upto
  <2> HIDE DEF C
  <2>2. On(L, e, before) = On(L, e, Positions(L)) BY <2>1 DEF On
  <2>3. before \in SUBSET Positions(L) OBVIOUS
  <2> HIDE DEF before
  <2> QED BY <2>2, <2>3, EffectIsSum
<1>3. {p \in Positions(X) : Moved(n, p) \in C} = Upto(X, q)
  <2>1. ASSUME NEW p \in Positions(X)
        PROVE  Moved(n, p) \in C <=> p \in Upto(X, q)
    <3>1. /\ Moved(n, p) \in Positions(M) /\ Moved(n, p)[1] = n + p[1] /\ Moved(n, p)[2] = p[2]
          /\ M[n + p[1]] = X[p[1]] /\ p[1] \in Nat
      BY PositionsOfBoth, LegAt
    <3>2. (n + p[1] < r[1] <=> p[1] < q[1]) /\ (n + p[1] = r[1] <=> p[1] = q[1])
      BY <1>1, <3>1
    <3> HIDE DEF M, n, r
    <3> QED BY <1>1, <3>1, <3>2 DEF Upto
  <2> HIDE DEF C
  <2> QED BY <2>1 DEF Upto
<1>4. C \in SUBSET Positions(M) BY DEF Upto
<1>5. Effect(M, e, C) = Effect(L, e, before)
                        + Effect(X, e, {p \in Positions(X) : Moved(n, p) \in C})
  BY <1>4, EffectSplits
<1> HIDE DEF C
<1> QED BY <1>2, <1>3, <1>5 DEF C

-----------------------------------------------------------------------------
(* The dirty marker.                                                         *)

LEMMA DayGrows ==
  ASSUME NEW s \in Int, NEW t \in Int, s <= t PROVE Day(s) <= Day(t)
<1>1. DayLength \in Nat /\ DayLength >= 1 BY LedgerConstants
<1> DEFINE q == s \div DayLength
           r == t \div DayLength
<1>2. /\ q \in Int /\ s % DayLength \in 0 .. DayLength - 1 /\ s = DayLength * q + (s % DayLength)
      /\ r \in Int /\ t % DayLength \in 0 .. DayLength - 1 /\ t = DayLength * r + (t % DayLength)
  BY <1>1, SMTT(30)
<1>3. DayLength * q <= s /\ t < DayLength * r + DayLength BY <1>1, <1>2
<1> HIDE DEF q, r
<1>4. q <= r
  <2>1. SUFFICES ASSUME q >= r + 1 PROVE FALSE BY <1>2
  <2>2. DayLength * q >= DayLength * (r + 1) BY <1>1, <1>2, <2>1, SMTT(30)
  <2>3. DayLength * (r + 1) = DayLength * r + DayLength BY <1>1, <1>2, SMTT(30)
  <2>4. DayLength * q \in Int /\ DayLength * r \in Int BY <1>1, <1>2
  <2> QED BY <1>1, <1>3, <2>2, <2>3, <2>4
<1> QED BY <1>4 DEF q, r, Day

\* A day that a command changes is not before the first day of what it appends.
LEMMA ChangedSince ==
  ASSUME NEW L \in Seq(ActivityType), NEW X \in Seq(ActivityType), NEW e \in Endpoints,
         NEW t \in Times, HistoryAt(L \o X, e, t) # HistoryAt(L, e, t)
  PROVE  \E j \in DOMAIN X : X[j].at <= t
<1> DEFINE A == {p \in Positions(L) : L[p[1]].at <= t}
           B == {p \in Positions(X) : X[p[1]].at <= t}
<1>1. HistoryAt(L \o X, e, t) = Origin[e] + (Effect(L, e, A) + Effect(X, e, B))
  BY HistorySplits
<1>2. SUFFICES ASSUME \A j \in DOMAIN X : ~(X[j].at <= t) PROVE FALSE OBVIOUS
<1>3. B = {}
  <2>1. \A p \in Positions(X) : p[1] \in DOMAIN X BY LegAt
  <2> QED BY <1>2, <2>1
<1>4. Effect(X, e, B) = 0
  <2>1. B \in SUBSET Positions(X) OBVIOUS
  <2>2. Effect(X, e, B) = SumOver(Deltas(X), On(X, e, B)) BY <2>1, EffectIsSum
  <2>3. On(X, e, B) = {} BY <1>3 DEF On
  <2> QED BY <2>2, <2>3, SumEmpty
<1>5. Effect(L, e, A) \in Int
  <2>1. A \in SUBSET Positions(L) OBVIOUS
  <2> QED BY <2>1, EffectIsSum
<1>6. HistoryAt(L, e, t) = Origin[e] + Effect(L, e, A) BY DEF HistoryAt
<1> HIDE DEF A, B
<1> QED BY <1>1, <1>4, <1>5, <1>6

CoverStep ==
  \A t \in Times :
    (\E e \in Endpoints : HistoryAt(ledger', e, t) # HistoryAt(ledger, e, t))
      => dirtyFrom' <= Day(t)

LEMMA PostCovers ==
  ASSUME TypeOK, NEW kind \in Kinds, NEW legs \in Seq(LegType), NEW at \in Times,
         Post(kind, legs, at)
  PROVE  CoverStep
<1> DEFINE a == Activity(kind, at, legs, 0, 0)
<1>1. ledger' = Append(ledger, a) /\ dirtyFrom' = Min({dirtyFrom, Day(at)})
  BY DEF Post, MarkDirtyFrom
<1>2. a \in ActivityType /\ a.at = at BY ActivityIs, 0 \in Nat DEF Activity
<1>3. ledger \in Seq(ActivityType) /\ dirtyFrom \in Int
  BY TypeParts, LedgerConstants DEF Times
<1> HIDE DEF a
<1>4. ledger' = ledger \o <<a>> /\ <<a>> \in Seq(ActivityType) /\ DOMAIN <<a>> = {1} /\ <<a>>[1] = a
  BY <1>1, <1>2, <1>3
<1>5. ASSUME NEW t \in Times, NEW e \in Endpoints,
             HistoryAt(ledger', e, t) # HistoryAt(ledger, e, t)
      PROVE  dirtyFrom' <= Day(t)
  <2> DEFINE X == <<a>>
  <2>1. X \in Seq(ActivityType) /\ DOMAIN X = {1} /\ X[1] = a BY <1>4
  <2>2. HistoryAt(ledger \o X, e, t) # HistoryAt(ledger, e, t) BY <1>4, <1>5
  <2> HIDE DEF X
  <2>3. \E j \in DOMAIN X : X[j].at <= t BY <1>3, <2>1, <2>2, ChangedSince
  <2>4. at <= t BY <1>2, <2>1, <2>3
  <2>5. at \in Int /\ t \in Int /\ Day(at) \in Int /\ Day(t) \in Int
    BY DayRange, LedgerConstants DEF Times
  <2>6. Day(at) <= Day(t) BY <2>4, <2>5, DayGrows
  <2>7. dirtyFrom' <= Day(at) /\ dirtyFrom' \in {dirtyFrom, Day(at)}
    BY <1>1, <1>3, <2>5, MinOfTwo
  <2> QED BY <1>3, <2>5, <2>6, <2>7
<1> QED BY <1>5 DEF CoverStep

LEMMA PersistCovers ==
  ASSUME TypeOK, NEW extras \in Seq(ActivityType), PersistLedger(extras)
  PROVE  CoverStep
<1>1. ledger' = ledger \o extras BY DEF PersistLedger
<1>2. PICK day \in Times : EarliestDay(day, extras) /\ dirtyFrom' = Min({dirtyFrom, day})
  BY DEF PersistLedger, MarkDirtyFrom
<1>3. ledger \in Seq(ActivityType) /\ dirtyFrom \in Int /\ day \in Int
  BY TypeParts, LedgerConstants DEF Times
<1>4. ASSUME NEW t \in Times, NEW e \in Endpoints,
             HistoryAt(ledger', e, t) # HistoryAt(ledger, e, t)
      PROVE  dirtyFrom' <= Day(t)
  <2>1. PICK j \in DOMAIN extras : extras[j].at <= t
    BY <1>1, <1>3, <1>4, ChangedSince
  <2>2. extras[j].at \in Times
    <3>1. extras[j] \in ActivityType BY <2>1
    <3> QED BY <3>1 DEF ActivityType
  <2>3. /\ extras[j].at \in Int /\ t \in Int /\ Day(extras[j].at) \in Int /\ Day(t) \in Int
    BY <2>2, DayRange, LedgerConstants DEF Times
  <2>4. Day(extras[j].at) <= Day(t) BY <2>1, <2>3, DayGrows
  <2>5. day <= Day(extras[j].at) BY <1>2, <2>1 DEF EarliestDay
  <2>6. dirtyFrom' <= day /\ dirtyFrom' \in {dirtyFrom, day} BY <1>2, <1>3, MinOfTwo
  <2> QED BY <1>3, <2>3, <2>4, <2>5, <2>6
<1> QED BY <1>4 DEF CoverStep

\* What a posting step is, whichever kind of command takes it.
LEMMA PostingIsPost ==
  ASSUME TypeOK, Posting
  PROVE  \E kind \in Kinds \ {"reversal"}, legs \in Seq(LegType), at \in EntryTimes :
           at \in Times /\ Post(kind, legs, at)
<1>0. EntryTimes \subseteq Times BY LedgerConstants DEF EntryTimes, TypeOK, Times
<1>1. CASE Opening
  <2>1. PICK legs \in OpeningLegs, at \in EntryTimes : Post("opening_adjustment", legs, at)
    BY <1>1 DEF Opening
  <2>2. "opening_adjustment" \in Kinds \ {"reversal"} BY DEF Kinds
  <2>3. legs \in LegsOf("opening_adjustment") BY <2>1 DEF LegsOf
  <2>4. legs \in Seq(LegType) BY <2>2, <2>3, CommandLegs
  <2> QED BY <1>0, <2>1, <2>2, <2>4
<1>2. ASSUME NEW kind \in Kinds \ {"reversal"}, PostKind(kind)
      PROVE  \E legs \in Seq(LegType), at \in EntryTimes : at \in Times /\ Post(kind, legs, at)
  <2>1. PICK legs \in LegsOf(kind), at \in EntryTimes : Post(kind, legs, at)
    BY <1>2 DEF PostKind
  <2> QED BY <1>0, <2>1, CommandLegs
<1>3. CASE \E kind \in Kinds \ {"reversal"} : PostKind(kind) BY <1>2, <1>3
<1>4. Posting => Opening \/ \E kind \in Kinds \ {"reversal"} : PostKind(kind)
  BY DEF Posting, Kinds, BalanceAdjustment, DebtAdjustment, ManualValuation,
         PositionAdjustment, Deposit, Withdrawal, Income, Fee, Transfer, Buy, Sell, DebtDraw,
         DebtPayment
<1> QED BY <1>1, <1>3, <1>4

LEMMA NextCovers == TypeOK /\ [Next]_vars => [CoverStep]_vars
<1>1. SUFFICES ASSUME TypeOK, Next PROVE CoverStep OBVIOUS
<1>2. CASE Posting
  <2>1. PICK kind \in Kinds \ {"reversal"}, legs \in Seq(LegType), at \in EntryTimes :
           at \in Times /\ Post(kind, legs, at)
    BY <1>1, <1>2, PostingIsPost
  <2> QED BY <1>1, <2>1, PostCovers
<1>3. CASE Reverse BY <1>1, <1>3, ReverseReplays, PersistCovers
<1>4. CASE Correct BY <1>1, <1>4, CorrectReplays, PersistCovers
<1>5. CASE ledger' = ledger BY <1>5 DEF CoverStep
<1>6. ASSUME NEW e \in Endpoints, CreateAtZero(e) PROVE ledger' = ledger
  BY <1>6 DEF CreateAtZero
<1>7. ASSUME NEW x \in Archivable, Archive(x) PROVE ledger' = ledger BY <1>7 DEF Archive
<1> QED BY <1>1, <1>2, <1>3, <1>4, <1>5, <1>6, <1>7 DEF Next, RebuildSnapshots, Tick

\* Every command, back-dated or not, leaves the marker at or before the first
\* day whose reconstruction it changes.
THEOREM ChangesAreMarked == Spec => DirtyCoversChange
<1>1. TypeOK /\ [Next]_vars => [CoverStep]_vars BY NextCovers
<1> QED BY <1>1, TypesHold, PTL DEF Spec, DirtyCoversChange, CoverStep

-----------------------------------------------------------------------------
(* The rows are the replay, as long as nothing is back-dated on entry.       *)

\* Every state of e that the replay of L passes through is in range.
StatesInRange(L, e) ==
  \A q \in Positions(L) : L[q[1]].legs[q[2]].ep = e =>
    Origin[e] + Effect(L, e, Upto(L, q)) \in Amount

\* Nothing is dated after the clock.
Dated ==
  /\ \A i \in DOMAIN ledger : ledger[i].at <= now
  /\ \A e \in Endpoints : observed[e].at <= now
Unopened == \A e \in Endpoints : observed[e].at < 0 => observed[e].amount = 0

EntryInvariant == TypeOK /\ Dated /\ Unopened /\ ProjectionIsReplay

LEMMA ProjectionParts ==
  ProjectionIsReplay <=>
    \A e \in Endpoints : observed[e].amount = Replayed(ledger, e) /\ StatesInRange(ledger, e)
BY DEF ProjectionIsReplay, LiveIsHistorical, Replayable, Current, StatesInRange

\* What the replay gives is an integer, and it is what it was plus what is appended.
LEMMA ReplayGrows ==
  ASSUME NEW L \in Seq(ActivityType), NEW X \in Seq(ActivityType), NEW e \in Endpoints
  PROVE  /\ Replayed(L, e) \in Int /\ Effect(X, e, Positions(X)) \in Int
         /\ Replayed(L \o X, e) = Replayed(L, e) + Effect(X, e, Positions(X))
<1>1. Effect(L, e, Positions(L)) \in Int BY EffectIsSum
<1>2. Effect(X, e, Positions(X)) \in Int BY EffectIsSum
<1>3. Origin[e] \in Int BY LedgerConstants DEF Amount
<1>4. Effect(L \o X, e, Positions(L \o X)) = Effect(L, e, Positions(L)) + Effect(X, e, Positions(X))
  BY ReplaySplits
<1> QED BY <1>1, <1>2, <1>3, <1>4 DEF Replayed

\* An endpoint that the new Activities do not touch.
LEMMA UntouchedStays ==
  ASSUME NEW L \in Seq(ActivityType), NEW X \in Seq(ActivityType), NEW e \in Endpoints,
         e \notin Touched(X), StatesInRange(L, e)
  PROVE  Replayed(L \o X, e) = Replayed(L, e) /\ StatesInRange(L \o X, e)
<1> DEFINE M == L \o X
<1>1. Replayed(M, e) = Replayed(L, e)
  <2>1. Effect(X, e, Positions(X)) = 0 BY UntouchedEffect
  <2> QED BY <2>1, ReplayGrows
<1>2. ASSUME NEW q \in Positions(M), M[q[1]].legs[q[2]].ep = e
      PROVE  Origin[e] + Effect(M, e, Upto(M, q)) \in Amount
  <2>1. CASE q \in Positions(L)
    <3> DEFINE B == {p \in Positions(X) : X[p[1]].at < L[q[1]].at}
    <3>1. Effect(M, e, Upto(M, q)) = Effect(L, e, Upto(L, q)) + Effect(X, e, B)
      BY <2>1, UptoOld
    <3>2. Effect(X, e, B) = 0 BY UntouchedEffect
    <3>3. Effect(L, e, Upto(L, q)) \in Int
      <4>1. Upto(L, q) \in SUBSET Positions(L) BY DEF Upto
      <4> QED BY <4>1, EffectIsSum
    <3>4. M[q[1]] = L[q[1]] BY <2>1, PositionsOfBoth
    <3> HIDE DEF M, B
    <3>5. Origin[e] + Effect(L, e, Upto(L, q)) \in Amount BY <1>2, <2>1, <3>4 DEF StatesInRange
    <3>6. Effect(M, e, Upto(M, q)) = Effect(L, e, Upto(L, q)) BY <3>1, <3>2, <3>3
    <3> QED BY <3>5, <3>6
  <2>2. CASE \E p \in Positions(X) : q = Moved(Len(L), p)
    <3>1. PICK p \in Positions(X) : q = Moved(Len(L), p) BY <2>2
    <3>2. q[1] = Len(L) + p[1] /\ q[2] = p[2] /\ M[Len(L) + p[1]] = X[p[1]]
      BY <3>1, PositionsOfBoth
    <3>3. X[p[1]].legs[p[2]].ep = e BY <1>2, <3>2
    <3> QED BY <3>3, TouchedAt
  <2> QED BY <2>1, <2>2, PositionsOfBoth
<1> QED BY <1>1, <1>2 DEF StatesInRange

\* Activities dated no earlier than the legs on an endpoint come after them in its
\* replay.
LEMMA LatestFits ==
  ASSUME NEW L \in Seq(ActivityType), NEW X \in Seq(ActivityType), NEW e \in Endpoints,
         \A p \in Positions(L) : L[p[1]].legs[p[2]].ep = e =>
           \A j \in DOMAIN X : L[p[1]].at <= X[j].at,
         StatesInRange(L, e), Fits(X, e, Replayed(L, e))
  PROVE  StatesInRange(L \o X, e)
<1> DEFINE M == L \o X
<1>0. Effect(L, e, Positions(L)) \in Int /\ Origin[e] \in Int
  BY EffectIsSum, LedgerConstants DEF Amount
<1>2. ASSUME NEW q \in Positions(M), M[q[1]].legs[q[2]].ep = e
      PROVE  Origin[e] + Effect(M, e, Upto(M, q)) \in Amount
  <2>1. CASE q \in Positions(L)
    <3> DEFINE B == {p \in Positions(X) : X[p[1]].at < L[q[1]].at}
    <3>1. Effect(M, e, Upto(M, q)) = Effect(L, e, Upto(L, q)) + Effect(X, e, B)
      BY <2>1, UptoOld
    <3>2. Effect(X, e, B) = 0
      <4>1. ASSUME NEW p \in Positions(X) PROVE ~(X[p[1]].at < L[q[1]].at)
        <5>1. p[1] \in DOMAIN X /\ X[p[1]].at \in Int BY LegAt
        <5>2. /\ q[1] \in DOMAIN L /\ L[q[1]].at \in Int /\ L[q[1]].legs[q[2]].ep = e
          BY <1>2, <2>1, LegAt, PositionsOfBoth
        <5>3. L[q[1]].at <= X[p[1]].at BY <2>1, <5>1, <5>2
        <5> QED BY <5>1, <5>2, <5>3
      <4>2. B = {} BY <4>1
      <4>3. Effect(X, e, B) = SumOver(Deltas(X), On(X, e, B)) BY EffectIsSum
      <4>4. On(X, e, B) = {} BY <4>2 DEF On
      <4> QED BY <4>3, <4>4, SumEmpty
    <3>3. Effect(L, e, Upto(L, q)) \in Int
      <4>1. Upto(L, q) \in SUBSET Positions(L) BY DEF Upto
      <4> QED BY <4>1, EffectIsSum
    <3>4. M[q[1]] = L[q[1]] BY <2>1, PositionsOfBoth
    <3> HIDE DEF M, B
    <3>5. Origin[e] + Effect(L, e, Upto(L, q)) \in Amount BY <1>2, <2>1, <3>4 DEF StatesInRange
    <3>6. Effect(M, e, Upto(M, q)) = Effect(L, e, Upto(L, q)) BY <3>1, <3>2, <3>3
    <3> QED BY <3>5, <3>6
  <2>2. CASE \E p \in Positions(X) : q = Moved(Len(L), p)
    <3>1. PICK p \in Positions(X) : q = Moved(Len(L), p) BY <2>2
    <3>2. p[1] \in DOMAIN X BY LegAt
    <3>3. \A r \in Positions(L) : L[r[1]].legs[r[2]].ep = e => L[r[1]].at <= X[p[1]].at
      BY <3>2
    <3>4. Effect(M, e, Upto(M, q)) = Effect(L, e, Positions(L)) + Effect(X, e, Upto(X, p))
      BY <3>1, <3>3, UptoNew
    <3>5. Replayed(L, e) + Effect(X, e, Upto(X, p)) \in Amount BY DEF Fits
    <3>6. Effect(X, e, Upto(X, p)) \in Int
      <4>1. Upto(X, p) \in SUBSET Positions(X) BY DEF Upto
      <4> QED BY <4>1, EffectIsSum
    <3> HIDE DEF M
    <3>7. Origin[e] + Effect(M, e, Upto(M, q)) = Replayed(L, e) + Effect(X, e, Upto(X, p))
      BY <1>0, <3>4, <3>6 DEF Replayed
    <3> QED BY <3>5, <3>7
  <2> QED BY <2>1, <2>2, PositionsOfBoth
<1> QED BY <1>2 DEF StatesInRange

LEMMA EntryInit == Init => EntryInvariant
<1>1. SUFFICES ASSUME Init PROVE EntryInvariant OBVIOUS
<1>2. ledger = <<>> /\ DOMAIN ledger = {} /\ ledger \in Seq(ActivityType) BY <1>1 DEF Init
<1>3. Positions(ledger) = {} /\ Touched(ledger) = {} BY <1>2 DEF Positions, Touched
<1>4. ASSUME NEW e \in Endpoints
      PROVE  observed[e].amount = Replayed(ledger, e) /\ StatesInRange(ledger, e)
  <2>1. Effect(ledger, e, Positions(ledger)) = 0 BY <1>2, <1>3, UntouchedEffect
  <2>2. observed[e].amount = Origin[e] BY <1>1 DEF Init
  <2>3. Origin[e] \in Int BY LedgerConstants DEF Amount
  <2> QED BY <1>3, <2>1, <2>2, <2>3 DEF Replayed, StatesInRange
<1>5. Dated /\ Unopened
  BY <1>1, <1>2, EndpointShape DEF Init, Dated, Unopened, Endpoints
<1> QED BY <1>1, <1>4, <1>5, InitType, ProjectionParts DEF EntryInvariant

\* Posting at the current time.
LEMMA PostEnters ==
  ASSUME EntryInvariant, NEW kind \in Kinds, NEW legs \in Seq(LegType), Post(kind, legs, now)
  PROVE  EntryInvariant'
<1> DEFINE a == Activity(kind, now, legs, 0, 0)
           X == <<a>>
           After(e) == Current(e) + Effect(X, e, Positions(X))
<1>1. /\ \A e \in Touched(X) : Fits(X, e, Current(e))
      /\ ledger' = Append(ledger, a) /\ now' = now
      /\ observed' = [e \in Endpoints |->
                        IF e \in Touched(X) THEN Observe(observed[e], After(e), now)
                        ELSE observed[e]]
      /\ quantity' = [h \in Holdings |-> IF h \in Touched(X) THEN After(h) ELSE quantity[h]]
  BY DEF Post
<1>2. now \in Times /\ TypeOK BY DEF EntryInvariant, TypeOK
<1>3. TypeOK' BY <1>2, PostType
<1>4. a \in ActivityType /\ a.at = now BY <1>2, ActivityIs, 0 \in Nat DEF Activity
<1>5. ledger \in Seq(ActivityType) BY <1>2, TypeParts
<1> HIDE DEF a
<1>6. X \in Seq(ActivityType) /\ DOMAIN X = {1} /\ X[1] = a /\ ledger' = ledger \o X
  <2>1. ledger' = Append(ledger, a) BY <1>1
  <2>2. <<a>> \in Seq(ActivityType) /\ DOMAIN <<a>> = {1} /\ <<a>>[1] = a BY <1>4
  <2>3. Append(ledger, a) = ledger \o <<a>> BY <1>4, <1>5
  <2> QED BY <2>1, <2>2, <2>3
<1>7. now \in Int /\ now >= 0 BY <1>2, LedgerConstants DEF Times
<1> HIDE DEF X, After
<1>8. \A i \in DOMAIN ledger' : ledger'[i].at <= now'
  <2>1. \A i \in DOMAIN ledger : ledger[i].at <= now BY DEF EntryInvariant, Dated
  <2>2. ASSUME NEW i \in DOMAIN ledger' PROVE ledger'[i].at <= now
    <3>1. i \in DOMAIN ledger \/ \E j \in DOMAIN X : i = Len(ledger) + j
      BY <1>5, <1>6, Concatenated
    <3>2. CASE i \in DOMAIN ledger
      <4>1. ledger'[i] = ledger[i] BY <1>5, <1>6, <3>2, Concatenated
      <4> QED BY <2>1, <3>2, <4>1
    <3>3. CASE \E j \in DOMAIN X : i = Len(ledger) + j
      <4>1. ledger'[i] = a BY <1>5, <1>6, <3>3, Concatenated
      <4> QED BY <1>4, <1>7, <4>1
    <3> QED BY <3>1, <3>2, <3>3
  <2> QED BY <1>1, <2>2
<1>9. ASSUME NEW e \in Endpoints, e \in Touched(X)
      PROVE  observed'[e].amount = After(e) /\ observed'[e].at = now
  <2>1. observed[e].at <= now BY DEF EntryInvariant, Dated
  <2>2. observed[e].at \in Int
    <3>1. observed[e] \in RowType BY <1>2, TypeParts
    <3> QED BY <3>1, LedgerConstants DEF RowType, Times
  <2>3. observed'[e] = Observe(observed[e], After(e), now) BY <1>1, <1>9
  <2> QED BY <1>7, <2>1, <2>2, <2>3 DEF Observe
<1>10. ASSUME NEW e \in Endpoints, e \notin Touched(X) PROVE observed'[e] = observed[e]
  BY <1>1, <1>10
<1>11. ASSUME NEW e \in Endpoints
       PROVE  observed'[e].amount = Replayed(ledger', e) /\ StatesInRange(ledger', e)
  <2>1. observed[e].amount = Replayed(ledger, e) /\ StatesInRange(ledger, e)
    BY ProjectionParts DEF EntryInvariant
  <2>2. CASE e \in Touched(X)
    <3>1. Replayed(ledger \o X, e) = Replayed(ledger, e) + Effect(X, e, Positions(X))
      BY <1>5, <1>6, ReplayGrows
    <3>2. observed'[e].amount = Replayed(ledger', e)
      BY <1>6, <1>9, <2>1, <2>2, <3>1 DEF Current, After
    <3>3. Fits(X, e, Replayed(ledger, e)) BY <1>1, <2>1, <2>2 DEF Current
    <3>4. \A p \in Positions(ledger) : \A j \in DOMAIN X : ledger[p[1]].at <= X[j].at
      BY <1>4, <1>5, <1>6, LegAt DEF EntryInvariant, Dated
    <3>5. StatesInRange(ledger \o X, e) BY <1>5, <1>6, <2>1, <3>3, <3>4, LatestFits
    <3> QED BY <1>6, <3>2, <3>5
  <2>3. CASE e \notin Touched(X)
    <3>1. Replayed(ledger \o X, e) = Replayed(ledger, e) /\ StatesInRange(ledger \o X, e)
      BY <1>5, <1>6, <2>1, <2>3, UntouchedStays
    <3> QED BY <1>6, <1>10, <2>1, <2>3, <3>1
  <2> QED BY <2>2, <2>3
<1>12. Dated'
  <2>1. ASSUME NEW e \in Endpoints PROVE observed'[e].at <= now'
    BY <1>1, <1>7, <1>9, <1>10 DEF EntryInvariant, Dated
  <2> QED BY <1>8, <2>1 DEF Dated
<1>13. Unopened'
  <2>1. ASSUME NEW e \in Endpoints, observed'[e].at < 0 PROVE observed'[e].amount = 0
    BY <1>7, <1>9, <1>10, <2>1 DEF EntryInvariant, Unopened
  <2> QED BY <2>1 DEF Unopened
<1> QED BY <1>3, <1>11, <1>12, <1>13
  DEF EntryInvariant, ProjectionIsReplay, LiveIsHistorical, Replayable, StatesInRange, Current

\* A reversal or a correction replays what it touches.
LEMMA PersistEnters ==
  ASSUME EntryInvariant, NEW X \in Seq(ActivityType), Len(X) > 0, PersistLedger(X),
         \A j \in DOMAIN X : X[j].at <= now
  PROVE  EntryInvariant'
<1>1. /\ ledger' = ledger \o X /\ now' = now
      /\ \A e \in Touched(X) : Fits(ledger \o X, e, Origin[e])
  BY DEF PersistLedger
<1>2. TypeOK /\ now \in Times /\ ledger \in Seq(ActivityType)
  BY TypeParts DEF EntryInvariant
<1>3. TypeOK' BY <1>2, PersistType
<1>4. now \in Int /\ now >= 0 BY <1>2, LedgerConstants DEF Times
<1> DEFINE last == X[Len(X)].at
           Row(e) == IF Len(X) = 1 THEN observed[e]
                     ELSE Observe(observed[e], Replayed(ledger \o X, e), X[1].at)
<1>5. PICK t \in Times :
        /\ RowTime(t, last, Touched(X))
        /\ observed' = [e \in Endpoints |->
                          IF e \in Touched(X) THEN Observe(Row(e), Replayed(ledger \o X, e), t)
                          ELSE observed[e]]
  BY DEF PersistLedger
<1>6. quantity' = [h \in Holdings |-> IF h \in Touched(X) THEN Replayed(ledger \o X, h)
                                      ELSE quantity[h]]
  BY DEF PersistLedger
<1>7. \A j \in DOMAIN X : X[j].at \in Times /\ X[j].at \in Int
  <2>1. ASSUME NEW j \in DOMAIN X PROVE X[j].at \in Times
    <3>1. X[j] \in ActivityType OBVIOUS
    <3> QED BY <3>1 DEF ActivityType
  <2> QED BY <2>1, LedgerConstants DEF Times
<1>8. 1 \in DOMAIN X /\ Len(X) \in DOMAIN X OBVIOUS
<1>9. Touched(X) \subseteq Endpoints
  <2>1. ASSUME NEW j \in DOMAIN X, NEW k \in DOMAIN X[j].legs PROVE X[j].legs[k].ep \in Endpoints
    <3>1. X[j].legs \in Seq(LegType)
      <4>1. X[j] \in ActivityType OBVIOUS
      <4> QED BY <4>1 DEF ActivityType
    <3>2. X[j].legs[k] \in LegType BY <3>1
    <3> QED BY <3>2 DEF LegType
  <2> QED BY <2>1 DEF Touched
<1>10. t <= now /\ t >= 0 /\ t \in Int
  <2>1. \A e \in Touched(X) : observed[e].at <= now BY <1>9 DEF EntryInvariant, Dated
  <2>2. last <= now BY <1>8
  <2> QED BY <1>5, <2>1, <2>2, LedgerConstants DEF RowTime, Times
<1>11. ASSUME NEW e \in Endpoints, e \in Touched(X)
       PROVE  observed'[e].at <= now /\ observed'[e].at >= 0
  <2> DEFINE r == Replayed(ledger \o X, e)
             first == X[1].at
  <2>1. observed'[e] = Observe(Row(e), r, t) BY <1>5, <1>11
  <2>2. observed[e].at <= now /\ observed[e].at \in Int
    <3>1. observed[e] \in RowType BY <1>2, TypeParts
    <3> QED BY <3>1, LedgerConstants DEF RowType, Times, EntryInvariant, Dated
  <2>3. first \in Int /\ first >= 0 /\ first <= now
    BY <1>7, <1>8, LedgerConstants DEF Times
  <2>4. Row(e) = observed[e] \/ Row(e) = Observe(observed[e], r, first) OBVIOUS
  <2> HIDE DEF Row, r, first
  <2>5. Row(e).at \in Int /\ Row(e).at <= now BY <2>2, <2>3, <2>4 DEF Observe
  <2> QED BY <1>4, <1>10, <2>1, <2>5 DEF Observe
<1>12. ASSUME NEW e \in Endpoints, e \notin Touched(X) PROVE observed'[e] = observed[e]
  BY <1>5, <1>12
<1>13. ASSUME NEW e \in Endpoints, e \in Touched(X)
       PROVE  /\ observed'[e].amount = Replayed(ledger', e)
              /\ e \in Holdings => quantity'[e] = Replayed(ledger', e)
  BY <1>2, <1>13, PersistShowsReplay
<1>14. ASSUME NEW e \in Endpoints
       PROVE  observed'[e].amount = Replayed(ledger', e) /\ StatesInRange(ledger', e)
  <2>1. observed[e].amount = Replayed(ledger, e) /\ StatesInRange(ledger, e)
    BY ProjectionParts DEF EntryInvariant
  <2>2. CASE e \in Touched(X)
    <3>1. StatesInRange(ledger \o X, e) BY <1>1, <2>2 DEF Fits, StatesInRange
    <3> QED BY <1>1, <1>13, <2>2, <3>1
  <2>3. CASE e \notin Touched(X)
    <3>1. Replayed(ledger \o X, e) = Replayed(ledger, e) /\ StatesInRange(ledger \o X, e)
      BY <1>2, <2>1, <2>3, UntouchedStays
    <3> QED BY <1>1, <1>12, <2>1, <2>3, <3>1
  <2> QED BY <2>2, <2>3
<1>15. Dated'
  <2>1. ASSUME NEW i \in DOMAIN ledger' PROVE ledger'[i].at <= now
    <3>1. i \in DOMAIN ledger \/ \E j \in DOMAIN X : i = Len(ledger) + j
      BY <1>1, <1>2, Concatenated
    <3>2. CASE i \in DOMAIN ledger
      <4>1. ledger'[i] = ledger[i] BY <1>1, <1>2, <3>2, Concatenated
      <4> QED BY <3>2, <4>1 DEF EntryInvariant, Dated
    <3>3. CASE \E j \in DOMAIN X : i = Len(ledger) + j
      <4>1. PICK j \in DOMAIN X : i = Len(ledger) + j BY <3>3
      <4>2. ledger'[i] = X[j] BY <1>1, <1>2, <4>1, Concatenated
      <4> QED BY <4>2
    <3> QED BY <3>1, <3>2, <3>3
  <2>2. ASSUME NEW e \in Endpoints PROVE observed'[e].at <= now
    BY <1>11, <1>12 DEF EntryInvariant, Dated
  <2> QED BY <1>1, <2>1, <2>2 DEF Dated
<1>16. Unopened'
  <2>1. ASSUME NEW e \in Endpoints, observed'[e].at < 0 PROVE observed'[e].amount = 0
    <3>1. CASE e \in Touched(X)
      <4>1. observed'[e].at >= 0 /\ observed'[e].at <= now BY <1>11, <3>1
      <4>2. observed'[e].at \in Int
        <5>1. observed'[e] \in RowType BY <1>3 DEF TypeOK, RowType
        <5> QED BY <5>1, LedgerConstants DEF RowType, Times
      <4> QED BY <2>1, <4>1, <4>2
    <3>2. CASE e \notin Touched(X) BY <1>12, <2>1, <3>2 DEF EntryInvariant, Unopened
    <3> QED BY <3>1, <3>2
  <2> QED BY <2>1 DEF Unopened
<1> QED BY <1>3, <1>14, <1>15, <1>16
  DEF EntryInvariant, ProjectionIsReplay, LiveIsHistorical, Replayable, StatesInRange, Current

\* Reversing and correcting append Activities dated no later than now.
LEMMA ReverseDated ==
  ASSUME EntryInvariant, Reverse
  PROVE  \E X \in Seq(ActivityType) : Len(X) > 0 /\ PersistLedger(X)
                                      /\ \A j \in DOMAIN X : X[j].at <= now
<1>1. TypeOK /\ now \in Int /\ ledger \in Seq(ActivityType) /\ 0 .. now \subseteq Times
  BY TypeParts, LedgerConstants DEF EntryInvariant, Times
<1>2. PICK i \in DOMAIN ledger, at \in 0 .. now : ReverseActivity(i, at) BY DEF Reverse
<1> DEFINE a == Activity("reversal", at, InverseLegs(ledger[i].legs), i, 0)
<1>3. PersistLedger(<<a>>) BY <1>2 DEF ReverseActivity
<1>4. a \in ActivityType
  <2>1. ledger[i] \in ActivityType BY <1>1
  <2>2. InverseLegs(ledger[i].legs) \in Seq(LegType) BY <2>1, InverseType DEF ActivityType
  <2>3. i \in Nat /\ at \in Times /\ "reversal" \in Kinds /\ 0 \in Nat BY <1>1 DEF Kinds
  <2> QED BY <2>2, <2>3, ActivityIs
<1>5. a.at = at BY DEF Activity
<1> HIDE DEF a
<1>6. <<a>> \in Seq(ActivityType) /\ Len(<<a>>) > 0 /\ DOMAIN <<a>> = {1} /\ <<a>>[1] = a
  BY <1>4
<1>7. \A j \in DOMAIN <<a>> : <<a>>[j].at <= now BY <1>1, <1>5, <1>6
<1> QED BY <1>3, <1>6, <1>7

LEMMA CorrectDated ==
  ASSUME EntryInvariant, Correct
  PROVE  \E X \in Seq(ActivityType) : Len(X) > 0 /\ PersistLedger(X)
                                      /\ \A j \in DOMAIN X : X[j].at <= now
<1>1. TypeOK /\ now \in Int /\ ledger \in Seq(ActivityType) /\ 0 .. now \subseteq Times
  BY TypeParts, LedgerConstants DEF EntryInvariant, Times
<1>2. PICK i \in DOMAIN ledger, kind \in Kinds \ {"reversal"} :
        \E legs \in LegsOf(kind), at \in 0 .. now : CorrectActivity(i, kind, legs, at)
  BY DEF Correct
<1>3. PICK legs \in LegsOf(kind), at \in 0 .. now : CorrectActivity(i, kind, legs, at) BY <1>2
<1> DEFINE a == Activity("reversal", ledger[i].at, InverseLegs(ledger[i].legs), i, 0)
           b == Activity(kind, at, legs, 0, i)
<1>4. PersistLedger(<<a, b>>) BY <1>3 DEF CorrectActivity
<1>5. ledger[i] \in ActivityType BY <1>1
<1>6. a \in ActivityType
  <2>1. InverseLegs(ledger[i].legs) \in Seq(LegType) BY <1>5, InverseType DEF ActivityType
  <2>2. i \in Nat /\ ledger[i].at \in Times /\ "reversal" \in Kinds /\ 0 \in Nat
    BY <1>1, <1>5 DEF Kinds, ActivityType
  <2> QED BY <2>1, <2>2, ActivityIs
<1>7. b \in ActivityType
  <2>1. legs \in Seq(LegType) BY <1>1, <1>3, CommandLegs
  <2>2. i \in Nat /\ at \in Times /\ kind \in Kinds /\ 0 \in Nat BY <1>1
  <2> QED BY <2>1, <2>2, ActivityIs
<1>8. a.at = ledger[i].at /\ b.at = at /\ ledger[i].at <= now
  BY DEF Activity, EntryInvariant, Dated
<1> HIDE DEF a, b
<1>9. /\ <<a, b>> \in Seq(ActivityType) /\ Len(<<a, b>>) > 0 /\ DOMAIN <<a, b>> = {1, 2}
      /\ <<a, b>>[1] = a /\ <<a, b>>[2] = b
  BY <1>6, <1>7
<1>10. \A j \in DOMAIN <<a, b>> : <<a, b>>[j].at <= now BY <1>1, <1>8, <1>9
<1> QED BY <1>4, <1>9, <1>10

\* Creating an endpoint at zero replaces the row that is not there.
LEMMA CreateEnters ==
  ASSUME EntryInvariant, NEW e \in Endpoints, CreateAtZero(e)
  PROVE  EntryInvariant'
<1>1. /\ observed[e].at < 0 /\ observed' = [observed EXCEPT ![e] = [amount |-> 0, at |-> now]]
      /\ UNCHANGED <<now, ledger, quantity, archived>>
  BY DEF CreateAtZero
<1>2. TypeOK'
  <2>1. Next BY DEF Next
  <2> QED BY <2>1, NextType DEF EntryInvariant
<1>3. observed \in [Endpoints -> RowType] /\ now \in Int /\ now >= 0
  BY TypeParts, LedgerConstants DEF EntryInvariant, Times
<1>4. observed'[e] = [amount |-> 0, at |-> now] /\ \A d \in Endpoints : d # e => observed'[d] = observed[d]
  BY <1>1, <1>3
<1>5. \A d \in Endpoints : observed'[d].amount = observed[d].amount
  BY <1>1, <1>4 DEF EntryInvariant, Unopened
<1>6. Dated' BY <1>1, <1>3, <1>4 DEF EntryInvariant, Dated
<1>7. Unopened' BY <1>5, <1>4, <1>3 DEF EntryInvariant, Unopened
<1>8. ProjectionIsReplay'
  BY <1>1, <1>5 DEF EntryInvariant, ProjectionIsReplay, LiveIsHistorical, Replayable, Current
<1> QED BY <1>2, <1>6, <1>7, <1>8 DEF EntryInvariant

LEMMA EntryNext == Backdating = FALSE /\ EntryInvariant /\ [Next]_vars => EntryInvariant'
<1>1. SUFFICES ASSUME Backdating = FALSE, EntryInvariant, [Next]_vars PROVE EntryInvariant'
  OBVIOUS
<1>2. TypeOK BY <1>1 DEF EntryInvariant
<1>3. TypeOK' BY <1>1, <1>2, NextType
<1>4. CASE Posting
  <2>1. PICK kind \in Kinds \ {"reversal"}, legs \in Seq(LegType), at \in EntryTimes :
           at \in Times /\ Post(kind, legs, at)
    BY <1>2, <1>4, PostingIsPost
  <2>2. at = now BY <1>1, <2>1 DEF EntryTimes
  <2> QED BY <1>1, <2>1, <2>2, PostEnters
<1>5. CASE Reverse BY <1>1, <1>5, ReverseDated, PersistEnters
<1>6. CASE Correct BY <1>1, <1>6, CorrectDated, PersistEnters
<1>7. ASSUME NEW e \in Endpoints, CreateAtZero(e) PROVE EntryInvariant'
  BY <1>1, <1>7, CreateEnters
<1>8. CASE UNCHANGED <<ledger, observed, quantity>> /\ (now' = now \/ now' = now + 1)
  <2>1. Unopened' /\ ProjectionIsReplay'
    BY <1>1, <1>8
    DEF EntryInvariant, Unopened, ProjectionIsReplay, LiveIsHistorical, Replayable, Current
  <2>2. Dated'
    <3>1. now \in Int /\ now <= now' /\ now' \in Int
      BY <1>2, <1>8, LedgerConstants DEF TypeOK, Times
    <3>2. ASSUME NEW i \in DOMAIN ledger PROVE ledger[i].at <= now'
      <4>1. ledger[i] \in ActivityType BY <1>2, TypeParts
      <4>2. ledger[i].at \in Int BY <4>1, LedgerConstants DEF ActivityType, Times
      <4> QED BY <1>1, <3>1, <4>2 DEF EntryInvariant, Dated
    <3>3. ASSUME NEW e \in Endpoints PROVE observed[e].at <= now'
      <4>1. observed[e] \in RowType BY <1>2, TypeParts
      <4>2. observed[e].at \in Int BY <4>1, LedgerConstants DEF RowType, Times
      <4> QED BY <1>1, <3>1, <4>2 DEF EntryInvariant, Dated
    <3> QED BY <1>8, <3>2, <3>3 DEF Dated
  <2> QED BY <1>3, <2>1, <2>2 DEF EntryInvariant
<1>9. ASSUME NEW x \in Archivable, Archive(x) PROVE EntryInvariant' BY <1>8, <1>9 DEF Archive
<1>10. CASE RebuildSnapshots BY <1>8, <1>10 DEF RebuildSnapshots
<1>11. CASE Tick BY <1>8, <1>11 DEF Tick
<1>12. CASE UNCHANGED vars BY <1>8, <1>12 DEF vars
<1> QED BY <1>1, <1>4, <1>5, <1>6, <1>7, <1>9, <1>10, <1>11, <1>12 DEF Next

-----------------------------------------------------------------------------
(* How rows follow the replay, whatever is back-dated.                       *)

\* No leg on e is dated after t.
LegsBehind(L, e, t) ==
  \A p \in Positions(L) : L[p[1]].legs[p[2]].ep = e => L[p[1]].at <= t

\* The latest row of an endpoint is dated no earlier than any leg on it.
RowsLast == \A e \in Endpoints : LegsBehind(ledger, e, observed[e].at)

FollowInvariant == TypeOK /\ Unopened /\ RowsLast

LEMMA RowTyped ==
  ASSUME TypeOK, NEW e \in Endpoints
  PROVE  observed[e] \in RowType /\ observed[e].at \in Int /\ observed[e].amount \in Int
<1>1. observed[e] \in RowType BY TypeParts
<1> QED BY <1>1, LedgerConstants DEF RowType, Times, Amount

LEMMA LegsTogether ==
  ASSUME NEW L \in Seq(ActivityType), NEW X \in Seq(ActivityType), NEW e,
         NEW s \in Int, NEW t \in Int, s <= t, LegsBehind(L, e, s), LegsBehind(X, e, t)
  PROVE  LegsBehind(L \o X, e, t)
<1> DEFINE M == L \o X
<1>1. ASSUME NEW p \in Positions(M), M[p[1]].legs[p[2]].ep = e PROVE M[p[1]].at <= t
  <2>1. CASE p \in Positions(L)
    <3>1. M[p[1]] = L[p[1]] BY <2>1, PositionsOfBoth
    <3>2. L[p[1]].at \in Int BY <2>1, LegAt
    <3> HIDE DEF M
    <3>3. L[p[1]].at <= s BY <1>1, <2>1, <3>1 DEF LegsBehind
    <3> QED BY <3>1, <3>2, <3>3
  <2>2. CASE \E q \in Positions(X) : p = Moved(Len(L), q)
    <3>1. PICK q \in Positions(X) : p = Moved(Len(L), q) BY <2>2
    <3>2. p[1] = Len(L) + q[1] /\ p[2] = q[2] /\ M[Len(L) + q[1]] = X[q[1]]
      BY <3>1, PositionsOfBoth
    <3> HIDE DEF M
    <3> QED BY <1>1, <3>2 DEF LegsBehind
  <2> QED BY <2>1, <2>2, PositionsOfBoth
<1> QED BY <1>1 DEF LegsBehind

LEMMA UntouchedBehind ==
  ASSUME NEW X \in Seq(ActivityType), NEW e, e \notin Touched(X), NEW t
  PROVE  LegsBehind(X, e, t)
BY TouchedAt DEF LegsBehind

\* Of the Activities a command appends, those that touch e.
LEMMA AppendedIs ==
  ASSUME NEW X \in Seq(ActivityType), ledger \in Seq(ActivityType), ledger' = ledger \o X,
         NEW e
  PROVE  /\ \A i \in Appended(e) : \E j \in DOMAIN X : ledger'[i] = X[j]
         /\ e \in Touched(X) <=> Appended(e) # {}
<1>1. ASSUME NEW a PROVE e \in Touched(<<a>>) <=> \E k \in DOMAIN a.legs : a.legs[k].ep = e
  <2>1. DOMAIN <<a>> = {1} /\ <<a>>[1] = a OBVIOUS
  <2>2. Touched(<<a>>) = {a.legs[k].ep : k \in DOMAIN a.legs} BY <2>1 DEF Touched
  <2> QED BY <2>2
<1>2. \A i \in DOMAIN ledger' \ DOMAIN ledger : \E j \in DOMAIN X : ledger'[i] = X[j]
  BY Concatenated
<1>3. ASSUME NEW j \in DOMAIN X
      PROVE  /\ Len(ledger) + j \in DOMAIN ledger' \ DOMAIN ledger
             /\ ledger'[Len(ledger) + j] = X[j]
  <2>1. /\ Len(ledger) + j \in DOMAIN ledger' /\ ledger'[Len(ledger) + j] = X[j]
        /\ j >= 1 /\ j \in Nat /\ Len(ledger) \in Nat
    BY Concatenated
  <2>2. \A i \in DOMAIN ledger : i <= Len(ledger) BY Concatenated
  <2> QED BY <2>1, <2>2
<1>4. e \in Touched(X) <=> \E j \in DOMAIN X : \E k \in DOMAIN X[j].legs : X[j].legs[k].ep = e
  BY DEF Touched
<1>5. e \in Touched(X) => Appended(e) # {} BY <1>1, <1>3, <1>4 DEF Appended
<1>6. Appended(e) # {} => e \in Touched(X)
  <2>1. ASSUME NEW i \in Appended(e) PROVE e \in Touched(X)
    <3>1. PICK j \in DOMAIN X : ledger'[i] = X[j] BY <1>2, <2>1 DEF Appended
    <3>2. e \in Touched(<<X[j]>>) BY <2>1, <3>1 DEF Appended
    <3> QED BY <1>1, <1>4, <3>2
  <2> QED BY <2>1
<1> QED BY <1>2, <1>5, <1>6 DEF Appended

\* What FollowStep says of one endpoint, with its definitions opened.
Follows(e, missed) ==
  /\ Replayed(ledger', e) - observed'[e].amount
       = IF Repaired(e) THEN 0 ELSE Replayed(ledger, e) - observed[e].amount + missed
  /\ e \in Holdings => quantity'[e] - observed'[e].amount
       = IF Appended(e) = {} THEN quantity[e] - observed[e].amount ELSE missed
  /\ \/ Repaired(e)
     \/ /\ Replayed(ledger, e) - observed[e].amount = 0 /\ StatesInRange(ledger, e)
        /\ ~EnteredBehind(e)
     => StatesInRange(ledger', e)

LEMMA FollowsIs ==
  (\A e \in Endpoints :
     Follows(e, IF EnteredBehind(e) THEN Replayed(ledger', e) - Replayed(ledger, e) ELSE 0))
  => FollowStep
BY DEF FollowStep, Follows, Gap, ColumnGap, Current, Replayable, StatesInRange

\* An endpoint that a step leaves alone.
LEMMA LeftAlone ==
  ASSUME TypeOK, NEW X \in Seq(ActivityType), ledger' = ledger \o X,
         NEW e \in Endpoints, e \notin Touched(X),
         observed'[e] = observed[e], e \in Holdings => quantity'[e] = quantity[e]
  PROVE  Follows(e, IF EnteredBehind(e) THEN Replayed(ledger', e) - Replayed(ledger, e) ELSE 0)
<1>1. ledger \in Seq(ActivityType) BY TypeParts
<1>2. Appended(e) = {} BY <1>1, AppendedIs
<1>3. ~Repaired(e) /\ ~EnteredBehind(e) BY <1>2 DEF Repaired, EnteredBehind
<1>4. Effect(X, e, Positions(X)) = 0 BY UntouchedEffect
<1>5. Replayed(ledger', e) = Replayed(ledger, e) /\ Replayed(ledger, e) \in Int
  BY <1>1, <1>4, ReplayGrows
<1>6. StatesInRange(ledger, e) => StatesInRange(ledger', e) BY <1>1, UntouchedStays
<1>7. observed[e].amount \in Int BY RowTyped
<1> QED BY <1>2, <1>3, <1>5, <1>6, <1>7 DEF Follows

\* A posted Activity moves the rows it touches with the replay, unless it is
\* dated before them.
LEMMA PostFollows ==
  ASSUME FollowInvariant, NEW kind \in Kinds, NEW legs \in Seq(LegType), NEW at \in Times,
         Post(kind, legs, at)
  PROVE  FollowInvariant' /\ FollowStep
<1> DEFINE a == Activity(kind, at, legs, 0, 0)
           X == <<a>>
           add(e) == Effect(X, e, Positions(X))
           After(e) == Current(e) + add(e)
<1>1. /\ \A e \in Touched(X) : Fits(X, e, Current(e))
      /\ ledger' = Append(ledger, a)
      /\ observed' = [e \in Endpoints |->
                        IF e \in Touched(X) THEN Observe(observed[e], After(e), at)
                        ELSE observed[e]]
      /\ quantity' = [h \in Holdings |-> IF h \in Touched(X) THEN After(h) ELSE quantity[h]]
  BY DEF Post
<1>2. TypeOK BY DEF FollowInvariant
<1>3. TypeOK' BY <1>2, PostType
<1>4. a \in ActivityType /\ a.at = at /\ a.reverses = 0 /\ a.corrects = 0
  BY ActivityIs, 0 \in Nat DEF Activity
<1>5. ledger \in Seq(ActivityType) BY <1>2, TypeParts
<1>6. at \in Int /\ at >= 0 BY LedgerConstants DEF Times
<1> HIDE DEF a
<1>7. X \in Seq(ActivityType) /\ DOMAIN X = {1} /\ X[1] = a /\ ledger' = ledger \o X
  <2>1. ledger' = Append(ledger, a) BY <1>1
  <2>2. <<a>> \in Seq(ActivityType) /\ DOMAIN <<a>> = {1} /\ <<a>>[1] = a BY <1>4
  <2>3. Append(ledger, a) = ledger \o <<a>> BY <1>4, <1>5
  <2> QED BY <2>1, <2>2, <2>3
<1> HIDE DEF X, add, After
<1>8. ASSUME NEW e \in Endpoints
      PROVE  /\ observed[e].at \in Int /\ observed[e].amount \in Int /\ add(e) \in Int
             /\ After(e) = observed[e].amount + add(e)
             /\ Replayed(ledger, e) \in Int
             /\ Replayed(ledger', e) = Replayed(ledger, e) + add(e)
  BY <1>2, <1>5, <1>7, RowTyped, ReplayGrows DEF After, Current, add
<1>9. ASSUME NEW e \in Endpoints, e \in Touched(X)
      PROVE  /\ at >= observed[e].at => observed'[e].amount = After(e) /\ observed'[e].at = at
             /\ ~(at >= observed[e].at) => observed'[e] = observed[e]
  <2>1. observed'[e] = Observe(observed[e], After(e), at) BY <1>1, <1>9
  <2> QED BY <2>1 DEF Observe
<1>10. ASSUME NEW e \in Endpoints, e \notin Touched(X)
       PROVE  observed'[e] = observed[e] /\ (e \in Holdings => quantity'[e] = quantity[e])
  BY <1>1, <1>10
<1>11. Unopened'
  <2>1. ASSUME NEW e \in Endpoints, observed'[e].at < 0 PROVE observed'[e].amount = 0
    <3>1. observed'[e] = observed[e]
      BY <1>6, <1>8, <1>9, <1>10, <2>1
    <3> QED BY <2>1, <3>1 DEF FollowInvariant, Unopened
  <2> QED BY <2>1 DEF Unopened
<1>12. RowsLast'
  <2>1. ASSUME NEW e \in Endpoints PROVE LegsBehind(ledger', e, observed'[e].at)
    <3>1. LegsBehind(ledger, e, observed[e].at) BY DEF FollowInvariant, RowsLast
    <3>2. CASE e \in Touched(X)
      <4>1. observed'[e].at \in Int /\ observed[e].at <= observed'[e].at /\ at <= observed'[e].at
        BY <1>6, <1>8, <1>9, <3>2
      <4>2. LegsBehind(X, e, observed'[e].at)
        <5>1. \A p \in Positions(X) : X[p[1]].at = at BY <1>4, <1>7, LegAt
        <5> QED BY <4>1, <5>1 DEF LegsBehind
      <4> QED BY <1>5, <1>7, <1>8, <3>1, <4>1, <4>2, LegsTogether
    <3>3. CASE e \notin Touched(X)
      <4>1. LegsBehind(X, e, observed[e].at) BY <1>7, <3>3, UntouchedBehind
      <4>2. LegsBehind(ledger \o X, e, observed[e].at)
        BY <1>5, <1>7, <1>8, <3>1, <4>1, LegsTogether
      <4> QED BY <1>7, <1>10, <3>3, <4>2
    <3> QED BY <3>2, <3>3
  <2> QED BY <2>1 DEF RowsLast
<1>13. ASSUME NEW e \in Endpoints
       PROVE  Follows(e, IF EnteredBehind(e) THEN Replayed(ledger', e) - Replayed(ledger, e)
                         ELSE 0)
  <2>1. CASE e \notin Touched(X) BY <1>2, <1>7, <1>10, <2>1, LeftAlone
  <2>2. CASE e \in Touched(X)
    <3>1. Appended(e) # {} /\ \A i \in Appended(e) : ledger'[i] = a
      BY <1>5, <1>7, <2>2, AppendedIs
    <3>2. ~Repaired(e) BY <1>4, <3>1 DEF Repaired
    <3>3. EnteredBehind(e) <=> at < observed[e].at BY <1>4, <3>1, <3>2 DEF EnteredBehind
    <3>4. e \in Holdings => quantity'[e] = After(e) BY <1>1, <2>2
    <3>5. CASE at < observed[e].at
      <4>1. observed'[e] = observed[e] BY <1>6, <1>8, <1>9, <2>2, <3>5
      <4> QED BY <1>8, <3>1, <3>2, <3>3, <3>4, <3>5, <4>1 DEF Follows
    <3>6. CASE ~(at < observed[e].at)
      <4>1. observed'[e].amount = After(e) BY <1>6, <1>8, <1>9, <2>2, <3>6
      <4>2. ASSUME Replayed(ledger, e) - observed[e].amount = 0, StatesInRange(ledger, e)
            PROVE  StatesInRange(ledger', e)
        <5>1. Replayed(ledger, e) = Current(e) BY <1>8, <4>2 DEF Current
        <5>2. Fits(X, e, Replayed(ledger, e)) BY <1>1, <2>2, <5>1
        <5>3. ASSUME NEW p \in Positions(ledger), ledger[p[1]].legs[p[2]].ep = e,
                     NEW j \in DOMAIN X
              PROVE  ledger[p[1]].at <= X[j].at
          <6>1. ledger[p[1]].at <= observed[e].at
            BY <5>3 DEF FollowInvariant, RowsLast, LegsBehind
          <6>2. ledger[p[1]].at \in Int BY <1>5, LegAt
          <6>3. X[j].at = at BY <1>4, <1>7
          <6> QED BY <1>6, <1>8, <3>6, <6>1, <6>2, <6>3
        <5>4. StatesInRange(ledger \o X, e) BY <1>5, <1>7, <4>2, <5>2, <5>3, LatestFits
        <5> QED BY <1>7, <5>4
      <4> QED BY <1>8, <3>1, <3>2, <3>3, <3>4, <3>6, <4>1, <4>2 DEF Follows
    <3> QED BY <3>5, <3>6
  <2> QED BY <2>1, <2>2
<1> QED BY <1>3, <1>11, <1>12, <1>13, FollowsIs DEF FollowInvariant

\* A reversal or a correction leaves nothing between row, column and replay.
LEMMA PersistFollows ==
  ASSUME FollowInvariant, NEW X \in Seq(ActivityType), Len(X) > 0, PersistLedger(X),
         Repairing(X)
  PROVE  FollowInvariant' /\ FollowStep
<1> DEFINE last == X[Len(X)].at
           r(e) == Replayed(ledger \o X, e)
           Row(e) == IF Len(X) = 1 THEN observed[e] ELSE Observe(observed[e], r(e), X[1].at)
<1>1. /\ ledger' = ledger \o X
      /\ \A e \in Touched(X) : Fits(ledger \o X, e, Origin[e])
      /\ quantity' = [h \in Holdings |-> IF h \in Touched(X) THEN r(h) ELSE quantity[h]]
  BY DEF PersistLedger
<1>2. PICK t \in Times :
        /\ RowTime(t, last, Touched(X))
        /\ observed' = [e \in Endpoints |->
                          IF e \in Touched(X) THEN Observe(Row(e), r(e), t) ELSE observed[e]]
  BY DEF PersistLedger
<1>3. TypeOK /\ ledger \in Seq(ActivityType) BY TypeParts DEF FollowInvariant
<1>4. TypeOK' BY <1>3, PersistType
<1>5. t \in Int /\ t >= 0 BY LedgerConstants DEF Times
<1>6. \A j \in DOMAIN X : X[j].at \in Int /\ (j = 1 \/ j = Len(X))
  <2>1. ASSUME NEW j \in DOMAIN X PROVE X[j].at \in Int
    <3>1. X[j] \in ActivityType OBVIOUS
    <3> QED BY <3>1, LedgerConstants DEF ActivityType, Times
  <2>2. Len(X) \in Nat /\ Len(X) > 0 /\ Len(X) <= 2 /\ DOMAIN X = 1 .. Len(X)
    BY DEF Repairing
  <2> QED BY <2>1, <2>2
<1>7. 1 \in DOMAIN X /\ Len(X) \in DOMAIN X OBVIOUS
<1>8. ASSUME NEW e \in Endpoints, e \in Touched(X)
      PROVE  /\ observed'[e].at \in Int /\ observed'[e].at >= 0
             /\ observed[e].at \in Int /\ observed[e].at <= observed'[e].at
             /\ \A j \in DOMAIN X : X[j].at <= observed'[e].at
  <2> DEFINE first == X[1].at
             amount == r(e)
  <2>1. observed'[e] = Observe(Row(e), amount, t) BY <1>2, <1>8
  <2>2. observed[e].at \in Int BY <1>3, RowTyped
  <2>3. t >= last /\ t >= observed[e].at BY <1>2, <1>8 DEF RowTime
  <2>4. first \in Int /\ last \in Int BY <1>6, <1>7
  <2>5. \/ Row(e) = observed[e] /\ Len(X) = 1 /\ first = last
        \/ Row(e) = Observe(observed[e], amount, first)
    OBVIOUS
  <2>6. \A j \in DOMAIN X : X[j].at = first \/ X[j].at = last BY <1>6
  <2> HIDE DEF Row, first, amount, last
  <2>7. CASE Row(e) = observed[e] /\ Len(X) = 1 /\ first = last
    BY <1>5, <2>1, <2>2, <2>3, <2>4, <2>6, <2>7 DEF Observe
  <2>8. CASE Row(e) = Observe(observed[e], amount, first)
    <3>1. Row(e).at \in Int /\ Row(e).at >= first /\ Row(e).at >= observed[e].at
      BY <2>2, <2>4, <2>8 DEF Observe
    <3>2. observed'[e].at \in Int /\ observed'[e].at >= Row(e).at /\ observed'[e].at >= t
      BY <1>5, <2>1, <3>1 DEF Observe
    <3> QED BY <1>5, <2>2, <2>3, <2>4, <2>6, <3>1, <3>2
  <2> QED BY <2>5, <2>7, <2>8
<1>9. ASSUME NEW e \in Endpoints, e \notin Touched(X)
      PROVE  observed'[e] = observed[e] /\ (e \in Holdings => quantity'[e] = quantity[e])
  BY <1>1, <1>2, <1>9
<1> HIDE DEF last, r, Row
<1>10. Unopened'
  <2>1. ASSUME NEW e \in Endpoints, observed'[e].at < 0 PROVE observed'[e].amount = 0
    <3>1. e \notin Touched(X) BY <1>8, <2>1
    <3> QED BY <1>9, <2>1, <3>1 DEF FollowInvariant, Unopened
  <2> QED BY <2>1 DEF Unopened
<1>11. RowsLast'
  <2>1. ASSUME NEW e \in Endpoints PROVE LegsBehind(ledger', e, observed'[e].at)
    <3>1. LegsBehind(ledger, e, observed[e].at) BY DEF FollowInvariant, RowsLast
    <3>2. CASE e \in Touched(X)
      <4>1. LegsBehind(X, e, observed'[e].at) BY <1>8, <3>2, LegAt DEF LegsBehind
      <4> QED BY <1>1, <1>3, <1>8, <3>1, <3>2, <4>1, LegsTogether
    <3>3. CASE e \notin Touched(X)
      <4>1. LegsBehind(X, e, observed[e].at) BY <3>3, UntouchedBehind
      <4>2. observed[e].at \in Int BY <1>3, RowTyped
      <4>3. LegsBehind(ledger \o X, e, observed[e].at) BY <1>3, <3>1, <4>1, <4>2, LegsTogether
      <4> QED BY <1>1, <1>9, <3>3, <4>3
    <3> QED BY <3>2, <3>3
  <2> QED BY <2>1 DEF RowsLast
<1>12. ASSUME NEW e \in Endpoints
       PROVE  Follows(e, IF EnteredBehind(e) THEN Replayed(ledger', e) - Replayed(ledger, e)
                         ELSE 0)
  <2>1. CASE e \notin Touched(X) BY <1>1, <1>3, <1>9, <2>1, LeftAlone
  <2>2. CASE e \in Touched(X)
    <3>1. Appended(e) # {} /\ \A i \in Appended(e) : \E j \in DOMAIN X : ledger'[i] = X[j]
      BY <1>1, <1>3, <2>2, AppendedIs
    <3>2. Repaired(e) BY <3>1 DEF Repaired, Repairing
    <3>3. ~EnteredBehind(e) BY <3>2 DEF EnteredBehind
    <3>4. /\ observed'[e].amount = Replayed(ledger', e)
          /\ e \in Holdings => quantity'[e] = Replayed(ledger', e)
      BY <1>3, <2>2, PersistShowsReplay
    <3>5. Replayed(ledger', e) \in Int BY <1>1, <1>3, ReplayGrows, Concatenated
    <3>6. StatesInRange(ledger', e) BY <1>1, <2>2 DEF Fits, StatesInRange
    <3> QED BY <3>1, <3>2, <3>3, <3>4, <3>5, <3>6 DEF Follows
  <2> QED BY <2>1, <2>2
<1> QED BY <1>4, <1>10, <1>11, <1>12, FollowsIs DEF FollowInvariant

\* A step that appends nothing and changes no amount.
LEMMA NothingAppended ==
  ASSUME FollowInvariant, TypeOK', ledger' = ledger, quantity' = quantity,
         \A e \in Endpoints :
           \/ observed'[e] = observed[e]
           \/ observed[e].at < 0 /\ observed'[e].amount = 0 /\ observed'[e].at >= 0
  PROVE  FollowInvariant' /\ FollowStep
<1>1. ASSUME NEW e \in Endpoints
      PROVE  /\ observed'[e].amount = observed[e].amount
             /\ observed[e].amount \in Int /\ observed[e].at \in Int
             /\ observed'[e].at \in Int /\ observed[e].at <= observed'[e].at
  <2>1. TypeOK BY DEF FollowInvariant
  <2>2. observed[e].amount \in Int /\ observed[e].at \in Int BY <2>1, RowTyped
  <2>3. observed'[e].at \in Int
    <3>1. observed'[e] \in RowType BY DEF TypeOK, RowType
    <3> QED BY <3>1, LedgerConstants DEF RowType, Times
  <2> QED BY <2>2, <2>3 DEF FollowInvariant, Unopened
<1>2. Unopened' BY <1>1 DEF FollowInvariant, Unopened
<1>3. RowsLast'
  <2>1. ASSUME NEW e \in Endpoints, NEW p \in Positions(ledger),
               ledger[p[1]].legs[p[2]].ep = e
        PROVE  ledger[p[1]].at <= observed'[e].at
    <3>1. ledger[p[1]].at <= observed[e].at
      BY <2>1 DEF FollowInvariant, RowsLast, LegsBehind
    <3>2. ledger[p[1]].at \in Int BY TypeParts, LegAt DEF FollowInvariant
    <3> QED BY <1>1, <3>1, <3>2
  <2> QED BY <2>1 DEF RowsLast, LegsBehind
<1>4. ASSUME NEW e \in Endpoints
      PROVE  Follows(e, IF EnteredBehind(e) THEN Replayed(ledger', e) - Replayed(ledger, e)
                        ELSE 0)
  <2>1. Appended(e) = {} BY DEF Appended
  <2>2. ~Repaired(e) /\ ~EnteredBehind(e) BY <2>1 DEF Repaired, EnteredBehind
  <2>3. Replayed(ledger, e) \in Int
    <3>1. ledger \in Seq(ActivityType) BY TypeParts DEF FollowInvariant
    <3> QED BY <3>1, ReplayGrows
  <2> QED BY <1>1, <2>1, <2>2, <2>3 DEF Follows
<1> QED BY <1>2, <1>3, <1>4, FollowsIs DEF FollowInvariant

LEMMA FollowNext == FollowInvariant /\ [Next]_vars => FollowInvariant' /\ [FollowStep]_vars
<1>1. SUFFICES ASSUME FollowInvariant, [Next]_vars PROVE FollowInvariant' /\ [FollowStep]_vars
  OBVIOUS
<1>2. TypeOK /\ TypeOK' BY <1>1, NextType DEF FollowInvariant
<1>3. CASE Posting
  <2>1. PICK kind \in Kinds \ {"reversal"}, legs \in Seq(LegType), at \in EntryTimes :
           at \in Times /\ Post(kind, legs, at)
    BY <1>2, <1>3, PostingIsPost
  <2> QED BY <1>1, <2>1, PostFollows
<1>4. CASE Reverse BY <1>1, <1>2, <1>4, ReverseReplays, PersistFollows
<1>5. CASE Correct BY <1>1, <1>2, <1>5, CorrectReplays, PersistFollows
<1>6. CASE UNCHANGED <<ledger, observed, quantity>>
  <2>1. ledger' = ledger /\ quantity' = quantity /\ \A e \in Endpoints : observed'[e] = observed[e]
    BY <1>6
  <2>2. FollowInvariant' /\ FollowStep BY <1>1, <1>2, <2>1, NothingAppended
  <2> QED BY <2>2
<1>7. ASSUME NEW d \in Endpoints, CreateAtZero(d) PROVE FollowInvariant' /\ FollowStep
  <2>1. /\ observed[d].at < 0 /\ observed' = [observed EXCEPT ![d] = [amount |-> 0, at |-> now]]
        /\ UNCHANGED <<ledger, quantity>>
    BY <1>7 DEF CreateAtZero
  <2>2. observed \in [Endpoints -> RowType] /\ now \in Int /\ now >= 0
    BY <1>2, TypeParts, LedgerConstants DEF Times
  <2>3. observed'[d] = [amount |-> 0, at |-> now]
        /\ \A e \in Endpoints : e # d => observed'[e] = observed[e]
    BY <2>1, <2>2
  <2>4. \A e \in Endpoints :
          \/ observed'[e] = observed[e]
          \/ observed[e].at < 0 /\ observed'[e].amount = 0 /\ observed'[e].at >= 0
    BY <2>1, <2>2, <2>3
  <2>5. ledger' = ledger /\ quantity' = quantity BY <2>1
  <2> QED BY <1>1, <1>2, <2>4, <2>5, NothingAppended
<1>8. ASSUME NEW x \in Archivable, Archive(x) PROVE UNCHANGED <<ledger, observed, quantity>>
  BY <1>8 DEF Archive
<1> QED BY <1>1, <1>3, <1>4, <1>5, <1>6, <1>7, <1>8 DEF Next, RebuildSnapshots, Tick, vars

\* Back-dated or not, what is posted, reversed and corrected puts a row off the
\* replay only by what is entered behind it, and a repair brings it back.
THEOREM RowsFollow == Spec => RowsFollowReplay
<1>1. Init => FollowInvariant
  <2> SUFFICES ASSUME Init PROVE FollowInvariant OBVIOUS
  <2>1. ledger = <<>> BY DEF Init
  <2>2. Positions(ledger) = {} BY <2>1 DEF Positions
  <2>3. RowsLast BY <2>2 DEF RowsLast, LegsBehind
  <2>4. Unopened BY EntryInit DEF EntryInvariant
  <2> QED BY <2>3, <2>4, InitType DEF FollowInvariant
<1>2. FollowInvariant /\ [Next]_vars => FollowInvariant' /\ [FollowStep]_vars BY FollowNext
<1> QED BY <1>1, <1>2, PTL DEF Spec, RowsFollowReplay

-----------------------------------------------------------------------------
(* The ledger implements the book.                                           *)

LegDeltas(legs) == [k \in DOMAIN legs |-> legs[k].delta]
LegsOn(legs, e) == {k \in DOMAIN legs : legs[k].ep = e}
EntryType == [id : Nat, legs : Seq(LegType)]

\* What an entry adds to e, as a function.
Adds(e) == [x \in EntryType |-> Book!EntryEffect(x, e)]

LEMMA EntryIsSum ==
  ASSUME NEW x \in EntryType, NEW e
  PROVE  /\ IsFiniteSet(LegsOn(x.legs, e)) /\ Integral(LegDeltas(x.legs), LegsOn(x.legs, e))
         /\ Book!EntryEffect(x, e) = SumOver(LegDeltas(x.legs), LegsOn(x.legs, e))
         /\ Book!EntryEffect(x, e) \in Int
<1> DEFINE S == LegsOn(x.legs, e)
           F == LegDeltas(x.legs)
           Fold(g) == g = [s \in SUBSET S |->
                             IF s = {} THEN 0 ELSE x.legs[Pick(s)].delta + g[s \ {Pick(s)}]]
           h == CHOOSE g : Fold(g)
<1>1. x.legs \in Seq(LegType) /\ S \in SUBSET DOMAIN x.legs BY DEF LegsOn, EntryType
<1>2. IsFiniteSet(S)
  <2>1. DOMAIN x.legs = 1 .. Len(x.legs) /\ Len(x.legs) \in Int /\ 1 \in Int BY <1>1
  <2>2. IsFiniteSet(DOMAIN x.legs) BY <2>1, FS_Interval
  <2> QED BY <1>1, <2>2, FS_Subset
<1>3. \A k \in DOMAIN x.legs : F[k] = x.legs[k].delta /\ F[k] \in Int
  <2>1. \A k \in DOMAIN x.legs : x.legs[k] \in LegType BY <1>1
  <2> QED BY <2>1 DEF LegDeltas, LegType
<1>4. Integral(F, S) BY <1>1, <1>3 DEF Integral
<1>5. Book!EntryEffect(x, e) = h[S]
  BY DEF Book!EntryEffect, Book!MapThenSumSet, Book!MapThenFoldSet, Pick, LegsOn
<1>6. ASSUME NEW s \in SUBSET S, s # {} PROVE F[Pick(s)] = x.legs[Pick(s)].delta
  <2>1. Pick(s) \in S BY <1>6, PickIn
  <2> QED BY <1>1, <1>3, <2>1
<1> HIDE DEF S, F
<1>7. ASSUME NEW g PROVE Fold(g) <=> Sums(F, S, g) BY <1>6 DEF Sums
<1>8. PICK g : Sums(F, S, g) BY <1>2, SumsExist
<1>9. Fold(g) BY <1>7, <1>8
<1>10. Fold(h)
  <2> HIDE DEF Fold
  <2> QED BY <1>9, Zenon
<1>11. Sums(F, S, h)
  <2> HIDE DEF Fold, h
  <2> QED BY <1>7, <1>10
<1> HIDE DEF h
<1>12. SumOver(F, S) = h[S]
  <2>1. S \subseteq S OBVIOUS
  <2> QED BY <1>2, <1>11, <2>1, SumIsFold
<1>13. SumOver(F, S) \in Int BY <1>2, <1>4, SumType
<1> QED BY <1>2, <1>4, <1>5, <1>12, <1>13 DEF S, F

LEMMA BookIsSum ==
  ASSUME NEW B \in SUBSET EntryType, IsFiniteSet(B), NEW e
  PROVE  /\ Integral(Adds(e), B) /\ SumOver(Adds(e), B) \in Int
         /\ Book!Balance(B, e) = Origin[e] + SumOver(Adds(e), B)
<1> DEFINE F == Adds(e)
           Fold(g) == g = [s \in SUBSET B |->
                             IF s = {} THEN 0
                             ELSE Book!EntryEffect(Pick(s), e) + g[s \ {Pick(s)}]]
           h == CHOOSE g : Fold(g)
<1>1. \A x \in EntryType : F[x] = Book!EntryEffect(x, e) /\ F[x] \in Int
  BY EntryIsSum DEF Adds
<1>2. Integral(F, B) BY <1>1 DEF Integral
<1>3. Book!Balance(B, e) = Origin[e] + h[B]
  BY DEF Book!Balance, Book!MapThenSumSet, Book!MapThenFoldSet, Pick
<1>4. ASSUME NEW s \in SUBSET B, s # {} PROVE F[Pick(s)] = Book!EntryEffect(Pick(s), e)
  <2>1. Pick(s) \in B BY <1>4, PickIn
  <2> QED BY <1>1, <2>1
<1> HIDE DEF F
<1>5. ASSUME NEW g PROVE Fold(g) <=> Sums(F, B, g) BY <1>4 DEF Sums
<1>6. PICK g : Sums(F, B, g) BY SumsExist
<1>7. Fold(g) BY <1>5, <1>6
<1>8. Fold(h)
  <2> HIDE DEF Fold
  <2> QED BY <1>7, Zenon
<1>9. Sums(F, B, h)
  <2> HIDE DEF Fold, h
  <2> QED BY <1>5, <1>8
<1> HIDE DEF h
<1>10. SumOver(F, B) = h[B]
  <2>1. B \subseteq B OBVIOUS
  <2> QED BY <1>9, <2>1, SumIsFold
<1>11. SumOver(F, B) \in Int BY <1>2, SumType
<1> QED BY <1>2, <1>3, <1>10, <1>11 DEF F

\* An Activity changes an endpoint by what its entry adds.
LEMMA EntryIsEffect ==
  ASSUME NEW a \in ActivityType, NEW x \in EntryType, x.legs = a.legs, NEW e,
         NEW X, X = <<a>>
  PROVE  Effect(X, e, Positions(X)) = Book!EntryEffect(x, e)
<1> DEFINE P == Positions(X)
           S == LegsOn(x.legs, e)
           F == LegDeltas(x.legs)
           G == Deltas(X)
           I == On(X, e, P)
           h == [k \in S |-> <<1, k>>]
<1>1. X \in Seq(ActivityType) /\ DOMAIN X = {1} /\ X[1] = a OBVIOUS
<1>2. IsFiniteSet(S) /\ Integral(F, S) /\ Book!EntryEffect(x, e) = SumOver(F, S)
  BY EntryIsSum
<1>3. Effect(X, e, P) = SumOver(G, I)
  <2>1. P \in SUBSET Positions(X) OBVIOUS
  <2> HIDE DEF P
  <2> QED BY <1>1, <2>1, EffectIsSum
<1>4. \A p : p \in P <=> \E k \in DOMAIN a.legs : p = <<1, k>>
  BY <1>1, PositionIs
<1>5. \A k \in S : <<1, k>> \in P /\ G[<<1, k>>] = F[k]
  <2>1. ASSUME NEW k \in S PROVE <<1, k>> \in P /\ G[<<1, k>>] = F[k]
    <3>1. k \in DOMAIN a.legs BY DEF LegsOn
    <3>2. <<1, k>> \in P BY <1>4, <3>1
    <3>3. G[<<1, k>>] = X[1].legs[k].delta BY <3>2 DEF Deltas
    <3> QED BY <1>1, <3>1, <3>2, <3>3 DEF LegDeltas
  <2> QED BY <2>1
<1>6. I = {h[k] : k \in S}
  <2>1. ASSUME NEW p \in I PROVE \E k \in S : p = h[k]
    <3>1. p \in P /\ X[p[1]].legs[p[2]].ep = e BY DEF On
    <3>2. PICK k \in DOMAIN a.legs : p = <<1, k>> BY <1>4, <3>1
    <3>3. k \in S BY <1>1, <3>1, <3>2 DEF LegsOn
    <3> QED BY <3>2, <3>3
  <2>2. ASSUME NEW k \in S PROVE h[k] \in I
    <3>1. a.legs[k].ep = e /\ <<1, k>> \in P BY <1>5 DEF LegsOn
    <3> QED BY <1>1, <3>1 DEF On
  <2> HIDE DEF I, h
  <2> QED BY <2>1, <2>2
<1>7. \A k, l \in S : h[k] = h[l] => k = l OBVIOUS
<1>8. \A k \in S : G[h[k]] = F[k] BY <1>5
<1> HIDE DEF P, S, F, G, I, h
<1>9. SumOver(G, I) = SumOver(F, S) BY <1>2, <1>6, <1>7, <1>8, SumImage
<1> QED BY <1>2, <1>3, <1>9 DEF P

\* A Reversal takes back what its original added.
LEMMA InverseEffect ==
  ASSUME NEW x \in EntryType, NEW y \in EntryType, y.legs = InverseLegs(x.legs), NEW e
  PROVE  Book!EntryEffect(y, e) = -Book!EntryEffect(x, e)
<1> DEFINE S == LegsOn(x.legs, e)
           F == LegDeltas(x.legs)
           G == LegDeltas(y.legs)
<1>1. /\ IsFiniteSet(S) /\ Integral(F, S) /\ Book!EntryEffect(x, e) = SumOver(F, S)
  BY EntryIsSum
<1>2. Book!EntryEffect(y, e) = SumOver(G, LegsOn(y.legs, e)) BY EntryIsSum
<1>3. /\ DOMAIN y.legs = DOMAIN x.legs
      /\ \A k \in DOMAIN x.legs : y.legs[k].ep = x.legs[k].ep /\ y.legs[k].delta = -x.legs[k].delta
  BY DEF InverseLegs, Leg
<1>4. LegsOn(y.legs, e) = S BY <1>3 DEF LegsOn
<1>5. \A k \in S : G[k] = -F[k] BY <1>3 DEF LegsOn, LegDeltas
<1> HIDE DEF S, F, G
<1>6. SumOver(G, S) = -SumOver(F, S) BY <1>1, <1>5, SumNegate
<1> QED BY <1>1, <1>2, <1>4, <1>6

-----------------------------------------------------------------------------

LiveIn(L) == {i \in DOMAIN L : L[i].kind # "reversal" /\ ~ \E j \in DOMAIN L : L[j].reverses = i}
EntryAt(L, i) == [id |-> i, legs |-> L[i].legs]
EntriesOf(L) == {EntryAt(L, i) : i \in LiveIn(L)}

LEMMA LiveIsLive == LiveEntries = EntriesOf(ledger)
BY DEF LiveEntries, EntriesOf, EntryAt, LiveIn, Live, Reversed

LEMMA EntryTyped ==
  ASSUME NEW a \in ActivityType, NEW i \in Nat PROVE [id |-> i, legs |-> a.legs] \in EntryType
<1>1. a.legs \in Seq(LegType) BY DEF ActivityType
<1> QED BY <1>1 DEF EntryType

LEMMA EntriesTyped ==
  ASSUME NEW L \in Seq(ActivityType)
  PROVE  EntriesOf(L) \in SUBSET EntryType /\ IsFiniteSet(EntriesOf(L))
<1>1. ASSUME NEW i \in LiveIn(L) PROVE EntryAt(L, i) \in EntryType
  <2>1. L[i] \in ActivityType /\ i \in Nat BY DEF LiveIn
  <2> QED BY <2>1, EntryTyped DEF EntryAt
<1>2. IsFiniteSet(EntriesOf(L))
  <2> DEFINE S == LiveIn(L)
             f == [i \in S |-> EntryAt(L, i)]
  <2>1. DOMAIN L = 1 .. Len(L) /\ Len(L) \in Int /\ 1 \in Int OBVIOUS
  <2>2. IsFiniteSet(DOMAIN L) BY <2>1, FS_Interval
  <2>3. S \subseteq DOMAIN L BY DEF LiveIn
  <2>4. EntriesOf(L) = {f[i] : i \in S} BY DEF EntriesOf
  <2> HIDE DEF S, f
  <2>5. IsFiniteSet(S) BY <2>2, <2>3, FS_Subset
  <2>6. IsFiniteSet({f[i] : i \in S}) BY <2>5, FiniteImage
  <2> QED BY <2>4, <2>6
<1> QED BY <1>1, <1>2 DEF EntriesOf

LEMMA EntryAppended ==
  ASSUME NEW L \in Seq(ActivityType), NEW a \in ActivityType
  PROVE  /\ Append(L, a) \in Seq(ActivityType) /\ Len(L) \in Nat /\ Len(L) + 1 \notin DOMAIN L
         /\ DOMAIN Append(L, a) = DOMAIN L \cup {Len(L) + 1}
         /\ Append(L, a)[Len(L) + 1] = a
         /\ \A i \in DOMAIN L : Append(L, a)[i] = L[i]
OBVIOUS

LEMMA PostedEntries ==
  ASSUME NEW L \in Seq(ActivityType), Linked(L), NEW a \in ActivityType,
         a.kind # "reversal", a.reverses = 0,
         NEW x, x = [id |-> Len(L) + 1, legs |-> a.legs]
  PROVE  x \notin EntriesOf(L) /\ EntriesOf(Append(L, a)) = EntriesOf(L) \cup {x}
<1> DEFINE M == Append(L, a)
           n == Len(L) + 1
<1>1. /\ n \in Nat /\ n # 0 /\ n \notin DOMAIN L /\ DOMAIN M = DOMAIN L \cup {n} /\ M[n] = a
      /\ \A i \in DOMAIN L : M[i] = L[i] /\ i # 0
  BY EntryAppended
<1>2. \A j \in DOMAIN L : L[j].reverses # n
  <2>1. ASSUME NEW j \in DOMAIN L, L[j].reverses = n PROVE FALSE
    <3>1. L[j].reverses \in DOMAIN L BY <1>1, <2>1, LinksStayInside
    <3> QED BY <1>1, <2>1, <3>1
  <2> QED BY <2>1
<1> HIDE DEF M, n
<1>3. LiveIn(M) = LiveIn(L) \cup {n} BY <1>1, <1>2 DEF LiveIn
<1>4. EntryAt(M, n) = x /\ \A i \in LiveIn(L) : EntryAt(M, i) = EntryAt(L, i)
  BY <1>1 DEF EntryAt, LiveIn, n
<1>5. EntriesOf(M) = EntriesOf(L) \cup {x} BY <1>3, <1>4 DEF EntriesOf
<1>6. x \notin EntriesOf(L)
  <2>1. ASSUME NEW i \in LiveIn(L) PROVE EntryAt(L, i) # x
    <3>1. i # n BY <1>1 DEF LiveIn
    <3>2. EntryAt(L, i).id = i /\ x.id = n BY DEF EntryAt, n
    <3> QED BY <3>1, <3>2
  <2> QED BY <2>1 DEF EntriesOf
<1> QED BY <1>5, <1>6 DEF M

LEMMA ReversedEntries ==
  ASSUME NEW L \in Seq(ActivityType), NEW a \in ActivityType,
         a.kind = "reversal", NEW i \in LiveIn(L), a.reverses = i
  PROVE  /\ EntryAt(L, i) \in EntriesOf(L)
         /\ EntriesOf(Append(L, a)) = EntriesOf(L) \ {EntryAt(L, i)}
<1> DEFINE M == Append(L, a)
           n == Len(L) + 1
<1>1. /\ n \in Nat /\ n \notin DOMAIN L /\ DOMAIN M = DOMAIN L \cup {n} /\ M[n] = a
      /\ \A j \in DOMAIN L : M[j] = L[j]
  BY EntryAppended
<1> HIDE DEF M, n
<1>2. LiveIn(M) = LiveIn(L) \ {i} BY <1>1 DEF LiveIn
<1>3. \A j \in LiveIn(L) : EntryAt(M, j) = EntryAt(L, j) BY <1>1 DEF EntryAt, LiveIn
<1>4. \A j \in LiveIn(L) : EntryAt(L, j) = EntryAt(L, i) => j = i
  <2>1. ASSUME NEW j \in LiveIn(L), EntryAt(L, j) = EntryAt(L, i) PROVE j = i
    <3>1. EntryAt(L, j).id = j /\ EntryAt(L, i).id = i BY DEF EntryAt
    <3> QED BY <2>1, <3>1
  <2> QED BY <2>1
<1>5. EntriesOf(M) = EntriesOf(L) \ {EntryAt(L, i)} BY <1>2, <1>3, <1>4 DEF EntriesOf
<1>6. EntryAt(L, i) \in EntriesOf(L) BY DEF EntriesOf
<1> QED BY <1>5, <1>6 DEF M

-----------------------------------------------------------------------------

\* What replaying L changes is what the entries it leaves in the book add.
BookAdds(L) ==
  \A e \in Endpoints : Effect(L, e, Positions(L)) = SumOver(Adds(e), EntriesOf(L))

LEMMA AppendedEffect ==
  ASSUME NEW L \in Seq(ActivityType), NEW a \in ActivityType, NEW x \in EntryType,
         x.legs = a.legs, NEW e \in Endpoints
  PROVE  Effect(Append(L, a), e, Positions(Append(L, a)))
           = Effect(L, e, Positions(L)) + Book!EntryEffect(x, e)
<1> DEFINE X == <<a>>
<1>1. X \in Seq(ActivityType) /\ Append(L, a) = L \o X OBVIOUS
<1>2. X = <<a>> OBVIOUS
<1> HIDE DEF X
<1>3. Effect(X, e, Positions(X)) = Book!EntryEffect(x, e) BY <1>2, EntryIsEffect
<1>4. Effect(L \o X, e, Positions(L \o X)) = Effect(L, e, Positions(L)) + Effect(X, e, Positions(X))
  BY <1>1, ReplaySplits
<1> QED BY <1>1, <1>3, <1>4

LEMMA PostedAdds ==
  ASSUME NEW L \in Seq(ActivityType), Linked(L), BookAdds(L), NEW a \in ActivityType,
         a.kind # "reversal", a.reverses = 0
  PROVE  BookAdds(Append(L, a))
<1> DEFINE x == [id |-> Len(L) + 1, legs |-> a.legs]
           B == EntriesOf(L)
           C == EntriesOf(Append(L, a))
<1>1. x \in EntryType /\ x.legs = a.legs
  <2>1. Len(L) + 1 \in Nat OBVIOUS
  <2> QED BY <2>1, EntryTyped
<1>2. x \notin B /\ C = B \cup {x} BY PostedEntries
<1>3. B \in SUBSET EntryType /\ IsFiniteSet(B) BY EntriesTyped
<1>4. C \in SUBSET EntryType /\ IsFiniteSet(C)
  <2>1. Append(L, a) \in Seq(ActivityType) BY EntryAppended
  <2> HIDE DEF C
  <2> QED BY <2>1, EntriesTyped DEF C
<1> HIDE DEF x, B, C
<1>5. ASSUME NEW e \in Endpoints
      PROVE  Effect(Append(L, a), e, Positions(Append(L, a))) = SumOver(Adds(e), C)
  <2>1. Effect(Append(L, a), e, Positions(Append(L, a)))
          = Effect(L, e, Positions(L)) + Book!EntryEffect(x, e)
    BY <1>1, AppendedEffect
  <2>2. Effect(L, e, Positions(L)) = SumOver(Adds(e), B) BY DEF BookAdds, B
  <2>3. SumOver(Adds(e), C) = SumOver(Adds(e), B) + Adds(e)[x]
    <3>1. C \ {x} = B /\ x \in C BY <1>2
    <3>2. Integral(Adds(e), C) BY <1>4, BookIsSum
    <3>3. SumOver(Adds(e), C) = SumOver(Adds(e), C \ {x}) + Adds(e)[x]
      BY <1>4, <3>1, <3>2, SumAdd
    <3> QED BY <3>1, <3>3
  <2>4. Adds(e)[x] = Book!EntryEffect(x, e) BY <1>1 DEF Adds
  <2> QED BY <2>1, <2>2, <2>3, <2>4
<1> QED BY <1>5 DEF BookAdds, C

LEMMA ReversedAdds ==
  ASSUME NEW L \in Seq(ActivityType), BookAdds(L), NEW a \in ActivityType,
         a.kind = "reversal", NEW i \in LiveIn(L), a.reverses = i,
         a.legs = InverseLegs(L[i].legs)
  PROVE  BookAdds(Append(L, a))
<1> DEFINE x == EntryAt(L, i)
           y == [id |-> i, legs |-> a.legs]
           B == EntriesOf(L)
           C == EntriesOf(Append(L, a))
<1>1. /\ x \in EntryType /\ y \in EntryType /\ y.legs = a.legs
      /\ y.legs = InverseLegs(x.legs)
  <2>1. i \in Nat /\ L[i] \in ActivityType BY DEF LiveIn
  <2>2. x \in EntryType BY <2>1, EntryTyped DEF EntryAt
  <2>3. y \in EntryType BY <2>1, EntryTyped
  <2>4. x.legs = L[i].legs BY DEF EntryAt
  <2> QED BY <2>2, <2>3, <2>4
<1>2. x \in B /\ C = B \ {x} BY ReversedEntries
<1>3. B \in SUBSET EntryType /\ IsFiniteSet(B) BY EntriesTyped
<1> HIDE DEF x, y, B, C
<1>4. C \in SUBSET EntryType /\ IsFiniteSet(C) BY <1>2, <1>3, FS_Subset
<1>5. ASSUME NEW e \in Endpoints
      PROVE  Effect(Append(L, a), e, Positions(Append(L, a))) = SumOver(Adds(e), C)
  <2>1. Effect(Append(L, a), e, Positions(Append(L, a)))
          = Effect(L, e, Positions(L)) + Book!EntryEffect(y, e)
    BY <1>1, AppendedEffect
  <2>2. Book!EntryEffect(y, e) = -Book!EntryEffect(x, e) BY <1>1, InverseEffect
  <2>3. Effect(L, e, Positions(L)) = SumOver(Adds(e), B) BY DEF BookAdds, B
  <2>4. SumOver(Adds(e), B) = SumOver(Adds(e), C) + Adds(e)[x]
    <3>1. Integral(Adds(e), B) BY <1>3, BookIsSum
    <3> QED BY <1>2, <1>3, <3>1, SumAdd
  <2>5. Adds(e)[x] = Book!EntryEffect(x, e) BY <1>1 DEF Adds
  <2>6. Book!EntryEffect(x, e) \in Int BY <1>1, EntryIsSum
  <2>7. SumOver(Adds(e), C) \in Int BY <1>4, BookIsSum
  <2> QED BY <2>1, <2>2, <2>3, <2>4, <2>5, <2>6, <2>7
<1> QED BY <1>5 DEF BookAdds, C

-----------------------------------------------------------------------------

BookInvariant == EntryInvariant /\ ChainsWellFormed /\ BookAdds(ledger)

\* The steps of the book, apart from the balances it shows.
BookMoves == Book!Enter \/ Book!TakeBack \/ Book!Amend

LEMMA PostBooks ==
  ASSUME BookInvariant, NEW kind \in Kinds \ {"reversal"}, NEW legs \in Seq(LegType),
         NEW at \in Times, Post(kind, legs, at)
  PROVE  BookAdds(ledger') /\ BookMoves
<1> DEFINE a == Activity(kind, at, legs, 0, 0)
           x == [id |-> Len(ledger) + 1, legs |-> a.legs]
<1>1. ledger' = Append(ledger, a) BY DEF Post
<1>2. a \in ActivityType /\ a.kind # "reversal" /\ a.reverses = 0
  BY ActivityIs, 0 \in Nat DEF Activity
<1>3. ledger \in Seq(ActivityType) /\ Linked(ledger)
  BY TypeParts, ChainsAreLinks DEF BookInvariant, EntryInvariant
<1> HIDE DEF a
<1>4. BookAdds(ledger') BY <1>1, <1>2, <1>3, PostedAdds DEF BookInvariant
<1>5. x \notin EntriesOf(ledger) /\ EntriesOf(ledger') = EntriesOf(ledger) \cup {x}
  BY <1>1, <1>2, <1>3, PostedEntries
<1> HIDE DEF x
<1>6. LiveEntries = EntriesOf(ledger) /\ LiveEntries' = EntriesOf(ledger')
  BY LiveIsLive DEF LiveEntries, EntriesOf, EntryAt, LiveIn, Live, Reversed
<1>7. Book!Enter BY <1>5, <1>6 DEF Book!Enter
<1> QED BY <1>4, <1>7 DEF BookMoves

LEMMA HeadIsLive ==
  ASSUME NEW i \in DOMAIN ledger, ChainHead(i) PROVE i \in LiveIn(ledger)
BY DEF ChainHead, LiveIn, Reversed

LEMMA ReverseBooks ==
  ASSUME BookInvariant, Reverse PROVE BookAdds(ledger') /\ BookMoves
<1>1. TypeOK /\ ledger \in Seq(ActivityType) /\ 0 .. now \subseteq Times
  BY TypeParts, LedgerConstants DEF BookInvariant, EntryInvariant, Times
<1>2. PICK i \in DOMAIN ledger, at \in 0 .. now : ReverseActivity(i, at) BY DEF Reverse
<1> DEFINE a == Activity("reversal", at, InverseLegs(ledger[i].legs), i, 0)
<1>3. ledger' = ledger \o <<a>> /\ i \in LiveIn(ledger) /\ at \in Times
  BY <1>1, <1>2, HeadIsLive DEF ReverseActivity, PersistLedger
<1>4. a \in ActivityType
  <2>1. ledger[i] \in ActivityType BY <1>1
  <2>2. InverseLegs(ledger[i].legs) \in Seq(LegType) BY <2>1, InverseType DEF ActivityType
  <2>3. i \in Nat /\ "reversal" \in Kinds /\ 0 \in Nat BY <1>1 DEF Kinds
  <2> QED BY <1>3, <2>2, <2>3, ActivityIs
<1>5. a.kind = "reversal" /\ a.reverses = i /\ a.legs = InverseLegs(ledger[i].legs)
  BY DEF Activity
<1> HIDE DEF a
<1>6. ledger' = Append(ledger, a) BY <1>1, <1>3, <1>4
<1>7. BookAdds(ledger') BY <1>1, <1>3, <1>4, <1>5, <1>6, ReversedAdds DEF BookInvariant
<1> DEFINE x == EntryAt(ledger, i)
<1>8. x \in EntriesOf(ledger) /\ EntriesOf(ledger') = EntriesOf(ledger) \ {x}
  BY <1>1, <1>3, <1>4, <1>5, <1>6, ReversedEntries
<1> HIDE DEF x
<1>9. LiveEntries = EntriesOf(ledger) /\ LiveEntries' = EntriesOf(ledger')
  BY LiveIsLive DEF LiveEntries, EntriesOf, EntryAt, LiveIn, Live, Reversed
<1>10. Book!TakeBack BY <1>8, <1>9 DEF Book!TakeBack
<1> QED BY <1>7, <1>10 DEF BookMoves

LEMMA CorrectBooks ==
  ASSUME BookInvariant, Correct PROVE BookAdds(ledger') /\ BookMoves
<1>1. /\ TypeOK /\ ledger \in Seq(ActivityType) /\ 0 .. now \subseteq Times
      /\ ChainsWellFormed /\ BookAdds(ledger)
  BY TypeParts, LedgerConstants DEF BookInvariant, EntryInvariant, Times
<1>2. PICK i \in DOMAIN ledger, kind \in Kinds \ {"reversal"} :
        \E legs \in LegsOf(kind), at \in 0 .. now : CorrectActivity(i, kind, legs, at)
  BY DEF Correct
<1>3. PICK legs \in LegsOf(kind), at \in 0 .. now : CorrectActivity(i, kind, legs, at) BY <1>2
<1> DEFINE a == Activity("reversal", ledger[i].at, InverseLegs(ledger[i].legs), i, 0)
           b == Activity(kind, at, legs, 0, i)
           x == EntryAt(ledger, i)
           M == Append(ledger, a)
           y == [id |-> Len(M) + 1, legs |-> b.legs]
<1>4. ledger' = ledger \o <<a, b>> /\ ChainHead(i) /\ i \in LiveIn(ledger)
  BY <1>3, HeadIsLive DEF CorrectActivity, PersistLedger
<1>5. ledger[i] \in ActivityType BY <1>1
<1>6. a \in ActivityType /\ Linked(M)
  <2>1. ledger[i].at \in Times /\ ledger[i].at >= ledger[i].at
    BY <1>5, LedgerConstants DEF ActivityType, Times
  <2>2. a = Activity("reversal", ledger[i].at, InverseLegs(ledger[i].legs), i, 0) OBVIOUS
  <2> HIDE DEF a
  <2> QED BY <1>1, <1>4, <2>1, <2>2, ReversalOf
<1>7. b \in ActivityType
  <2>1. legs \in Seq(LegType) BY <1>1, <1>3, CommandLegs
  <2>2. i \in Nat /\ at \in Times /\ kind \in Kinds /\ 0 \in Nat BY <1>1
  <2> QED BY <2>1, <2>2, ActivityIs
<1>8. a.kind = "reversal" /\ a.reverses = i /\ a.legs = InverseLegs(ledger[i].legs)
  BY DEF Activity
<1>9. b.kind # "reversal" /\ b.reverses = 0 BY DEF Activity
<1> HIDE DEF a, b
<1>10. ledger' = Append(M, b) /\ M \in Seq(ActivityType)
  BY <1>1, <1>4, <1>6, <1>7, AppendTwice, EntryAppended
<1>11. BookAdds(M) BY <1>1, <1>4, <1>6, <1>8, ReversedAdds
<1>12. x \in EntriesOf(ledger) /\ EntriesOf(M) = EntriesOf(ledger) \ {x}
  BY <1>1, <1>4, <1>6, <1>8, ReversedEntries
<1>13. y.id # x.id
  <2>1. y.id = Len(M) + 1 /\ x.id = i BY DEF EntryAt
  <2>2. Len(M) = Len(ledger) + 1 /\ i <= Len(ledger) BY <1>1, <1>6
  <2> QED BY <1>1, <2>1, <2>2
<1> HIDE DEF M, x
<1>14. BookAdds(ledger') BY <1>6, <1>7, <1>9, <1>10, <1>11, PostedAdds
<1>15. y \notin EntriesOf(M) /\ EntriesOf(ledger') = EntriesOf(M) \cup {y}
  BY <1>6, <1>7, <1>9, <1>10, PostedEntries
<1> HIDE DEF y
<1>16. LiveEntries = EntriesOf(ledger) /\ LiveEntries' = EntriesOf(ledger')
  BY LiveIsLive DEF LiveEntries, EntriesOf, EntryAt, LiveIn, Live, Reversed
<1>17. Book!Amend BY <1>12, <1>13, <1>15, <1>16 DEF Book!Amend
<1> QED BY <1>14, <1>17 DEF BookMoves

\* After a step the balances are those of the book, and in range.
LEMMA BookBalances ==
  ASSUME EntryInvariant', BookAdds(ledger')
  PROVE  Book!Balanced /\ Book!InRange
<1>1. /\ ledger' \in Seq(ActivityType) /\ observed' \in [Endpoints -> RowType]
      /\ \A e \in Endpoints : observed'[e].amount = Replayed(ledger', e)
  <2>1. TypeOK' BY DEF EntryInvariant
  <2>2. ledger' \in Seq(ActivityType) /\ observed' \in [Endpoints -> RowType]
    BY <2>1 DEF TypeOK, ActivityType, LegType, RowType
  <2> QED BY <2>2 DEF EntryInvariant, ProjectionIsReplay, LiveIsHistorical, Current
<1>2. LiveEntries' = EntriesOf(ledger')
  BY DEF LiveEntries, EntriesOf, EntryAt, LiveIn, Live, Reversed
<1>3. ASSUME NEW e \in Endpoints
      PROVE  observed'[e].amount = Book!Balance(LiveEntries', e)
  <2> DEFINE B == EntriesOf(ledger')
  <2>1. B \in SUBSET EntryType /\ IsFiniteSet(B) BY <1>1, EntriesTyped
  <2>2. Effect(ledger', e, Positions(ledger')) = SumOver(Adds(e), B) BY DEF BookAdds
  <2> HIDE DEF B
  <2>3. Book!Balance(B, e) = Origin[e] + SumOver(Adds(e), B) BY <2>1, BookIsSum
  <2> QED BY <1>1, <1>2, <2>2, <2>3 DEF Replayed, B
<1>4. Book!Balanced BY <1>3 DEF Book!Balanced, Current
<1>5. \A e \in Endpoints : observed'[e].amount \in 0 .. MaxAmount
  BY <1>1 DEF RowType, Amount
<1>6. Book!InRange BY <1>5 DEF Book!InRange, Current
<1> QED BY <1>4, <1>6

LEMMA BookInit == Init => BookInvariant /\ Book!Init
<1>1. SUFFICES ASSUME Init PROVE BookInvariant /\ Book!Init OBVIOUS
<1>2. EntryInvariant BY <1>1, EntryInit
<1>3. ledger = <<>> /\ DOMAIN ledger = {} /\ ledger \in Seq(ActivityType) BY <1>1 DEF Init
<1>4. ChainsWellFormed BY <1>3 DEF ChainsWellFormed
<1>5. EntriesOf(ledger) = {} /\ LiveEntries = {} BY <1>3, LiveIsLive DEF EntriesOf, LiveIn
<1>6. BookAdds(ledger)
  <2>1. Positions(ledger) = {} /\ Touched(ledger) = {} BY <1>3 DEF Positions, Touched
  <2>2. \A e \in Endpoints : Effect(ledger, e, Positions(ledger)) = 0
    BY <1>3, <2>1, UntouchedEffect
  <2> QED BY <1>5, <2>2, SumEmpty DEF BookAdds
<1>7. Book!Init BY <1>1, <1>5 DEF Book!Init, Init, Current
<1> QED BY <1>2, <1>4, <1>6, <1>7 DEF BookInvariant

\* Whatever changes no amount and no Activity does not move the book.
LEMMA BookStutters ==
  ASSUME BookInvariant, ledger' = ledger, EntryInvariant', ChainsWellFormed',
         \A e \in Endpoints : observed'[e].amount = observed[e].amount
  PROVE  BookInvariant' /\ UNCHANGED Book!bookVars
<1>1. BookAdds(ledger') BY DEF BookInvariant
<1>2. LiveEntries' = LiveEntries BY DEF LiveEntries, Live, Reversed
<1>3. [e \in Endpoints |-> Current(e)]' = [e \in Endpoints |-> Current(e)] BY DEF Current
<1> QED BY <1>1, <1>2, <1>3 DEF BookInvariant, Book!bookVars

LEMMA BookNext ==
  ASSUME Backdating = FALSE, BookInvariant, [Next]_vars
  PROVE  BookInvariant' /\ [Book!Next]_(Book!bookVars)
<1>1. EntryInvariant /\ ChainsWellFormed /\ TypeOK BY DEF BookInvariant, EntryInvariant
<1>2. EntryInvariant' BY <1>1, EntryNext
<1>3. ASSUME BookAdds(ledger'), BookMoves, ChainsWellFormed'
      PROVE  BookInvariant' /\ [Book!Next]_(Book!bookVars)
  <2>1. Book!Next BY <1>2, <1>3, BookBalances DEF Book!Next, BookMoves
  <2> QED BY <1>2, <1>3, <2>1 DEF BookInvariant
<1>4. CASE Posting
  <2>1. PICK kind \in Kinds \ {"reversal"}, legs \in Seq(LegType), at \in EntryTimes :
           at \in Times /\ Post(kind, legs, at)
    BY <1>1, <1>4, PostingIsPost
  <2>2. ChainsWellFormed' BY <1>1, <1>4, PostingLinks
  <2>3. BookAdds(ledger') /\ BookMoves BY <2>1, PostBooks
  <2> QED BY <1>3, <2>2, <2>3
<1>5. CASE Reverse BY <1>1, <1>3, <1>5, ReverseLinks, ReverseBooks
<1>6. CASE Correct BY <1>1, <1>3, <1>6, CorrectLinks, CorrectBooks
<1>7. CASE ledger' = ledger /\ \A e \in Endpoints : observed'[e].amount = observed[e].amount
  <2>1. ChainsWellFormed' BY <1>1, <1>7 DEF ChainsWellFormed
  <2> QED BY <1>2, <1>7, <2>1, BookStutters
<1>8. ASSUME NEW e \in Endpoints, CreateAtZero(e)
      PROVE  ledger' = ledger /\ \A d \in Endpoints : observed'[d].amount = observed[d].amount
  <2>1. ledger' = ledger /\ observed[e].at < 0
        /\ observed' = [observed EXCEPT ![e] = [amount |-> 0, at |-> now]]
    BY <1>8 DEF CreateAtZero
  <2>2. observed[e].amount = 0 BY <1>1, <2>1 DEF EntryInvariant, Unopened
  <2>3. observed \in [Endpoints -> RowType] BY <1>1, TypeParts
  <2> QED BY <2>1, <2>2, <2>3
<1>9. ASSUME NEW x \in Archivable, Archive(x)
      PROVE  ledger' = ledger /\ \A d \in Endpoints : observed'[d].amount = observed[d].amount
  BY <1>9 DEF Archive
<1>10. CASE RebuildSnapshots \/ Tick \/ UNCHANGED vars
  BY <1>7, <1>10 DEF RebuildSnapshots, Tick, vars
<1> QED BY <1>4, <1>5, <1>6, <1>7, <1>8, <1>9, <1>10 DEF Next

\* With every command dated when it is entered, the ledger implements the book:
\* posting enters an entry, a reversal takes one back, a correction amends one,
\* and every current row is the baseline plus the entries in the book.
THEOREM LedgerImplementsBook ==
  ASSUME Backdating = FALSE PROVE Spec => ImplementsBook
<1>1. Init => BookInvariant /\ Book!Init BY BookInit
<1>2. BookInvariant /\ [Next]_vars => BookInvariant' /\ [Book!Next]_(Book!bookVars)
  BY BookNext
<1> QED BY <1>1, <1>2, PTL DEF Spec, ImplementsBook, Book!Spec
=============================================================================
