-------------------------- MODULE HouseholdProofs --------------------------
(***************************************************************************)
(* Proofs about Household, for any members, accounts, holdings, time zones   *)
(* and bounds: what the overwritten rows say now is what the journal says,   *)
(* no command changes an earlier instant, and every closed day is covered,   *)
(* but for the one that a confirmed zone may leave behind the marker.        *)
(*                                                                         *)
(* The journal is a parameter of the operators here, so that one lemma       *)
(* speaks of it before and after a command.                                 *)
(***************************************************************************)
EXTENDS Household, SumTheorems

AccountRows ==
  [category : Categories \cup {"cash", "investment"}, institution : Institutions \cup {None},
   owners : Divisions, archived : BOOLEAN]
HoldingRows == [account : Brokerages, instrument : Instruments, archived : BOOLEAN]

Entries ==
  [kind : {"account"}, of : Accounts, at : Nat, row : AccountRows]
    \cup [kind : {"holding"}, of : Holdings, at : Nat, row : HoldingRows]
    \cup [kind : {"activity"}, of : Components, at : Nat, delta : Int]

Origins ==
  [at : Nat, zone : DOMAIN Offset, confirmed : BOOLEAN, date : Int, founded : Int,
   amounts : [Components -> Int]]

Types ==
  /\ clock \in Nat
  /\ standing \in [Entities -> {"absent", "active", "archived"}]
  /\ account \in [Accounts -> AccountRows \cup {Absent}]
  /\ holding \in [Holdings -> HoldingRows \cup {Absent}]
  /\ value \in [Components -> Nat]
  /\ origin \in Origins \cup {NoOrigin}
  /\ journal \in Seq(Entries)

-----------------------------------------------------------------------------
(* What a journal says.                                                      *)

SeenIn(J, t, kind, x) == {k \in DOMAIN J : J[k].kind = kind /\ J[k].of = x /\ J[k].at <= t}

NewestIn(J, t, kind, x) ==
  {k \in SeenIn(J, t, kind, x) : \A j \in SeenIn(J, t, kind, x) : J[j].at <= J[k].at}

StateIn(J, t, kind, x) ==
  IF SeenIn(J, t, kind, x) = {} THEN Absent ELSE J[Max(NewestIn(J, t, kind, x))].row

AddedIn(J, t, c) == MapThenSumSet(LAMBDA k : J[k].delta, SeenIn(J, t, "activity", c))

DeltasIn(J, t, c) == [k \in SeenIn(J, t, "activity", c) |-> J[k].delta]

LEMMA JournalSays ==
  /\ \A t, x, kind : LatestState(t, kind, x) = StateIn(journal, t, kind, x)
  /\ \A t, c : AmountAt(t, c) = origin.amounts[c] + AddedIn(journal, t, c)
BY DEF LatestState, StateIn, NewestIn, SeenIn, At, AmountAt, BaselineOf, AddedIn

LEMMA JournalSaysThen ==
  /\ \A t, x, kind : LatestState(t, kind, x)' = StateIn(journal', t, kind, x)
  /\ \A t, c : AmountAt(t, c)' = origin'.amounts[c] + AddedIn(journal', t, c)
<1>1. \A t, x, kind : LatestState(t, kind, x)' = StateIn(journal', t, kind, x)
  BY DEF LatestState, StateIn, NewestIn, SeenIn, At
<1>2. ASSUME NEW t, NEW c PROVE AmountAt(t, c)' = origin'.amounts[c] + AddedIn(journal', t, c)
  BY DEF SeenIn, At, AmountAt, BaselineOf, AddedIn, MapThenSumSet, MapThenFoldSet
<1> QED BY <1>1, <1>2

LEMMA EntryAt ==
  ASSUME NEW J \in Seq(Entries), NEW k \in DOMAIN J
  PROVE  /\ J[k] \in Entries /\ J[k].at \in Nat
         /\ J[k].kind = "account" => J[k].of \in Accounts /\ J[k].row \in AccountRows
         /\ J[k].kind = "holding" => J[k].of \in Holdings /\ J[k].row \in HoldingRows
         /\ J[k].kind = "activity" => J[k].of \in Components /\ J[k].delta \in Int
<1>1. J[k] \in Entries OBVIOUS
<1> QED BY <1>1 DEF Entries

LEMMA SeenFinite ==
  ASSUME NEW J \in Seq(Entries), NEW t, NEW kind, NEW x
  PROVE  /\ IsFiniteSet(SeenIn(J, t, kind, x))
         /\ Len(J) \in Nat /\ SeenIn(J, t, kind, x) \in SUBSET (0 .. Len(J))
<1>1. DOMAIN J = 1 .. Len(J) /\ Len(J) \in Nat OBVIOUS
<1>2. IsFiniteSet(1 .. Len(J)) BY <1>1, FS_Interval
<1>3. SeenIn(J, t, kind, x) \subseteq 1 .. Len(J) BY <1>1 DEF SeenIn
<1> QED BY <1>1, <1>2, <1>3, FS_Subset

\* Of the entries that are seen there is a newest.
LEMMA NewestSeen ==
  ASSUME NEW J \in Seq(Entries), NEW t \in Nat, NEW kind, NEW x, SeenIn(J, t, kind, x) # {}
  PROVE  /\ Max(NewestIn(J, t, kind, x)) \in SeenIn(J, t, kind, x)
         /\ \A j \in SeenIn(J, t, kind, x) : J[j].at <= J[Max(NewestIn(J, t, kind, x))].at
<1> DEFINE seen == SeenIn(J, t, kind, x)
           times == {J[k].at : k \in seen}
<1>1. \A k \in seen : k \in DOMAIN J /\ J[k].at \in 0 .. t BY EntryAt DEF SeenIn
<1>2. times \in SUBSET (0 .. t) /\ times # {} BY <1>1
<1>3. PICK m \in times : \A n \in times : n <= m
  <2> HIDE DEF times
  <2> QED BY <1>2, GreatestUpTo
<1>4. PICK k \in seen : J[k].at = m BY <1>3
<1>5. k \in NewestIn(J, t, kind, x) BY <1>3, <1>4 DEF NewestIn
<1>6. NewestIn(J, t, kind, x) \in SUBSET (0 .. Len(J)) /\ Len(J) \in Nat
  BY SeenFinite DEF NewestIn
<1>7. Max(NewestIn(J, t, kind, x)) \in NewestIn(J, t, kind, x) BY <1>5, <1>6, MaxUpTo
<1> QED BY <1>7 DEF NewestIn

LEMMA StateKind ==
  ASSUME NEW J \in Seq(Entries), NEW t \in Nat, NEW x
  PROVE  /\ StateIn(J, t, "account", x) \in AccountRows \cup {Absent}
         /\ StateIn(J, t, "holding", x) \in HoldingRows \cup {Absent}
         /\ SeenIn(J, t, "holding", x) # {} => StateIn(J, t, "holding", x) \in HoldingRows
<1>1. ASSUME NEW kind, SeenIn(J, t, kind, x) # {}
      PROVE  \E k \in DOMAIN J : J[k].kind = kind /\ StateIn(J, t, kind, x) = J[k].row
  BY <1>1, NewestSeen DEF StateIn, SeenIn
<1> QED BY <1>1, EntryAt DEF StateIn

LEMMA AddedIsSum ==
  ASSUME NEW J \in Seq(Entries), NEW t, NEW c
  PROVE  /\ IsFiniteSet(SeenIn(J, t, "activity", c))
         /\ Integral(DeltasIn(J, t, c), SeenIn(J, t, "activity", c))
         /\ AddedIn(J, t, c) = SumOver(DeltasIn(J, t, c), SeenIn(J, t, "activity", c))
         /\ AddedIn(J, t, c) \in Int
<1> DEFINE S == SeenIn(J, t, "activity", c)
           F == DeltasIn(J, t, c)
           Fold(g) == g = [s \in SUBSET S |->
                             IF s = {} THEN 0 ELSE J[Pick(s)].delta + g[s \ {Pick(s)}]]
           h == CHOOSE g : Fold(g)
<1>1. IsFiniteSet(S) BY SeenFinite
<1>2. Integral(F, S) BY EntryAt DEF Integral, DeltasIn, SeenIn
<1>3. AddedIn(J, t, c) = h[S] BY DEF AddedIn, MapThenSumSet, MapThenFoldSet, Pick
<1>4. ASSUME NEW s \in SUBSET S, s # {} PROVE F[Pick(s)] = J[Pick(s)].delta
  BY <1>4, PickIn DEF DeltasIn
<1> HIDE DEF S, F
<1>5. ASSUME NEW g PROVE Fold(g) <=> Sums(F, S, g) BY <1>4 DEF Sums
<1>6. PICK g : Sums(F, S, g) BY <1>1, SumsExist
<1>7. Fold(g) BY <1>5, <1>6
<1>8. Fold(h)
  <2> HIDE DEF Fold
  <2> QED BY <1>7, Zenon
<1>9. Sums(F, S, h)
  <2> HIDE DEF Fold, h
  <2> QED BY <1>5, <1>8
<1> HIDE DEF h
<1>10. SumOver(F, S) = h[S]
  <2>1. S \subseteq S OBVIOUS
  <2> QED BY <1>1, <1>9, <2>1, SumIsFold
<1>11. SumOver(F, S) \in Int BY <1>1, <1>2, SumType
<1> QED BY <1>1, <1>2, <1>3, <1>10, <1>11 DEF S, F

-----------------------------------------------------------------------------
(* What appending says.                                                      *)

\* Entry m of E is what it says of x.
Says(e, t, kind, x) == e.kind = kind /\ e.of = x /\ e.at <= t

LEMMA Joined ==
  ASSUME NEW J \in Seq(Entries), NEW E \in Seq(Entries)
  PROVE  /\ J \o E \in Seq(Entries) /\ Len(J) \in Nat
         /\ \A k \in DOMAIN J : k \in DOMAIN (J \o E) /\ (J \o E)[k] = J[k] /\ k <= Len(J)
         /\ \A m \in DOMAIN E : Len(J) + m \in DOMAIN (J \o E) /\ (J \o E)[Len(J) + m] = E[m]
         /\ \A k \in DOMAIN (J \o E) :
              k \in DOMAIN J \/ \E m \in DOMAIN E : k = Len(J) + m /\ (J \o E)[k] = E[m]
<1>1. J \o E \in Seq(Entries) /\ Len(J) \in Nat OBVIOUS
<1>2. \A k \in DOMAIN J : k \in DOMAIN (J \o E) /\ (J \o E)[k] = J[k] /\ k <= Len(J) OBVIOUS
<1>3. \A m \in DOMAIN E : Len(J) + m \in DOMAIN (J \o E) /\ (J \o E)[Len(J) + m] = E[m] OBVIOUS
<1>4. ASSUME NEW k \in DOMAIN (J \o E), k \notin DOMAIN J
      PROVE  \E m \in DOMAIN E : k = Len(J) + m /\ (J \o E)[k] = E[m]
  <2>1. k - Len(J) \in DOMAIN E /\ k = Len(J) + (k - Len(J)) BY <1>4
  <2> QED BY <1>3, <2>1
<1> QED BY <1>1, <1>2, <1>3, <1>4

\* Entries that say nothing of x, or come later, change nothing.
LEMMA Silent ==
  ASSUME NEW J \in Seq(Entries), NEW E \in Seq(Entries), NEW t \in Nat, NEW kind, NEW x,
         \A m \in DOMAIN E : ~Says(E[m], t, kind, x)
  PROVE  /\ SeenIn(J \o E, t, kind, x) = SeenIn(J, t, kind, x)
         /\ StateIn(J \o E, t, kind, x) = StateIn(J, t, kind, x)
         /\ kind = "activity" => AddedIn(J \o E, t, x) = AddedIn(J, t, x)
<1> DEFINE K == J \o E
           S == SeenIn(J, t, kind, x)
<1>1. K \in Seq(Entries) /\ \A k \in DOMAIN J : k \in DOMAIN K /\ K[k] = J[k] BY Joined
<1>2. \A k \in DOMAIN K : k \in DOMAIN J \/ \E m \in DOMAIN E : K[k] = E[m] BY Joined
<1> HIDE DEF K
<1>3. SeenIn(K, t, kind, x) = S BY <1>1, <1>2 DEF SeenIn, Says
<1>4. \A k \in S : K[k] = J[k] BY <1>1 DEF SeenIn
<1>5. StateIn(K, t, kind, x) = StateIn(J, t, kind, x)
  <2>1. NewestIn(K, t, kind, x) = NewestIn(J, t, kind, x) BY <1>3, <1>4 DEF NewestIn
  <2>2. S # {} => Max(NewestIn(J, t, kind, x)) \in S BY NewestSeen
  <2> QED BY <1>3, <1>4, <2>1, <2>2 DEF StateIn
<1>6. ASSUME kind = "activity" PROVE AddedIn(K, t, x) = AddedIn(J, t, x)
  <2>1. SeenIn(K, t, "activity", x) = SeenIn(J, t, "activity", x) BY <1>3, <1>6
  <2>2. \A k \in SeenIn(J, t, "activity", x) : DeltasIn(K, t, x)[k] = DeltasIn(J, t, x)[k]
    BY <1>4, <1>6, <2>1 DEF DeltasIn
  <2>3. /\ AddedIn(K, t, x) = SumOver(DeltasIn(K, t, x), SeenIn(J, t, "activity", x))
        /\ AddedIn(J, t, x) = SumOver(DeltasIn(J, t, x), SeenIn(J, t, "activity", x))
        /\ IsFiniteSet(SeenIn(J, t, "activity", x))
    BY <1>1, <2>1, AddedIsSum
  <2> QED BY <2>2, <2>3, SumSame
<1> QED BY <1>3, <1>5, <1>6 DEF K

\* The one entry that speaks of x at the latest instant.
LEMMA Spoken ==
  ASSUME NEW J \in Seq(Entries), NEW E \in Seq(Entries), NEW t \in Nat, NEW kind, NEW x,
         \A k \in DOMAIN J : J[k].at <= t,
         NEW m \in DOMAIN E, Says(E[m], t, kind, x), E[m].at = t,
         \A n \in DOMAIN E : Says(E[n], t, kind, x) => n = m
  PROVE  /\ StateIn(J \o E, t, kind, x) = E[m].row
         /\ kind = "activity" => AddedIn(J \o E, t, x) = AddedIn(J, t, x) + E[m].delta
<1> DEFINE K == J \o E
           S == SeenIn(J, t, kind, x)
           k0 == Len(J) + m
<1>1. /\ K \in Seq(Entries) /\ Len(J) \in Nat /\ m \in Nat /\ m >= 1
      /\ \A k \in DOMAIN J : k \in DOMAIN K /\ K[k] = J[k] /\ k <= Len(J)
  BY Joined
<1>2. k0 \in DOMAIN K /\ K[k0] = E[m] BY Joined
<1>3. \A k \in DOMAIN K : k \in DOMAIN J \/ \E n \in DOMAIN E : k = Len(J) + n /\ K[k] = E[n]
  BY Joined
<1> HIDE DEF K
<1>4. SeenIn(K, t, kind, x) = S \cup {k0} BY <1>1, <1>2, <1>3 DEF SeenIn, Says
<1>5. k0 \notin S BY <1>1 DEF SeenIn
<1>6. StateIn(K, t, kind, x) = E[m].row
  <2> DEFINE N == NewestIn(K, t, kind, x)
  <2>1. k0 \in N BY <1>2, <1>4 DEF NewestIn, SeenIn
  <2>2. N \in SUBSET (0 .. Len(K)) /\ Len(K) \in Nat BY <1>1, SeenFinite DEF NewestIn
  <2>3. Max(N) \in N /\ k0 <= Max(N)
    <3> HIDE DEF N
    <3> QED BY <2>1, <2>2, MaxUpTo
  <2>4. N \subseteq S \cup {k0} BY <1>4 DEF NewestIn
  <2>5. \A k \in S : k \in Nat /\ k < k0 BY <1>1 DEF SeenIn
  <2>6. Max(N) = k0
    <3>1. k0 \in Nat BY <1>1
    <3> HIDE DEF N, S, k0
    <3> QED BY <2>3, <2>4, <2>5, <3>1
  <2> QED BY <1>2, <1>4, <2>6 DEF StateIn
<1>7. ASSUME kind = "activity" PROVE AddedIn(K, t, x) = AddedIn(J, t, x) + E[m].delta
  <2> DEFINE A == SeenIn(J, t, "activity", x)
             B == SeenIn(K, t, "activity", x)
             F == DeltasIn(K, t, x)
             G == DeltasIn(J, t, x)
  <2>1. B = A \cup {k0} /\ k0 \notin A BY <1>4, <1>5, <1>7
  <2>2. \A k \in A : F[k] = G[k] BY <1>1, <2>1 DEF DeltasIn, SeenIn
  <2>3. F[k0] = E[m].delta BY <1>2, <2>1 DEF DeltasIn
  <2>4. /\ AddedIn(K, t, x) = SumOver(F, B) /\ IsFiniteSet(B) /\ Integral(F, B)
    BY <1>1, AddedIsSum
  <2>5. AddedIn(J, t, x) = SumOver(G, A) /\ IsFiniteSet(A) BY AddedIsSum
  <2> HIDE DEF A, B, F, G, k0
  <2>6. SumOver(F, B) = SumOver(F, B \ {k0}) + F[k0] BY <2>1, <2>4, SumAdd
  <2>7. B \ {k0} = A BY <2>1
  <2>8. SumOver(F, A) = SumOver(G, A) BY <2>2, <2>5, SumSame
  <2> QED BY <2>3, <2>4, <2>5, <2>6, <2>7, <2>8
<1> QED BY <1>6, <1>7 DEF K
-----------------------------------------------------------------------------
(* The invariant.                                                            *)

\* Nothing is written in the future.
Dated == \A k \in DOMAIN journal : journal[k].at <= clock

\* The journal begins with the origin, and the origin with the household.
Founded ==
  /\ origin = NoOrigin => journal = <<>>
  /\ origin # NoOrigin => Onboarded
  /\ ~Onboarded /\ Members # {} =>
       (\A a \in Accounts : account[a] = Absent) /\ (\A h \in Holdings : holding[h] = Absent)

\* What does not exist yet has no amount, so creating it at zero changes nothing.
Unopened ==
  /\ \A a \in Accounts : account[a] = Absent => value[a] = 0
  /\ \A h \in Holdings : holding[h] = Absent => value[h] = 0

\* What a row says is what the journal says of now.
RowsAreLatest ==
  origin # NoOrigin =>
    /\ \A a \in Accounts : StateIn(journal, clock, "account", a) = account[a]
    /\ \A h \in Holdings : StateIn(journal, clock, "holding", h) = holding[h]
    /\ \A c \in Components : origin.amounts[c] + AddedIn(journal, clock, c) = value[c]

IInv == Types /\ Dated /\ Founded /\ Unopened /\ RowsAreLatest

LEMMA RowsExist ==
  /\ \A row \in AccountRows : row # Absent /\ row.archived \in BOOLEAN
  /\ \A row \in HoldingRows : row # Absent /\ row.account \in Brokerages /\ row.archived \in BOOLEAN
  /\ Absent.archived = TRUE
<1>1. ASSUME NEW row \in AccountRows PROVE row # Absent
  <2>1. "owners" \in DOMAIN row BY DEF AccountRows
  <2>2. "owners" \notin DOMAIN Absent BY DEF Absent
  <2> QED BY <2>1, <2>2
<1>2. ASSUME NEW row \in HoldingRows PROVE row # Absent
  <2>1. "account" \in DOMAIN row BY DEF HoldingRows
  <2>2. "account" \notin DOMAIN Absent BY DEF Absent
  <2> QED BY <2>1, <2>2
<1> QED BY <1>1, <1>2 DEF AccountRows, HoldingRows, Absent

LEMMA OriginsExist == ASSUME NEW o \in Origins PROVE o # NoOrigin
<1>1. "zone" \in DOMAIN o BY DEF Origins
<1>2. "zone" \notin DOMAIN NoOrigin BY DEF NoOrigin
<1> QED BY <1>1, <1>2

\* A day is a number.
LEMMA DateIsInt == ASSUME NEW zone \in DOMAIN Offset, NEW t \in Nat PROVE LocalDate(zone, t) \in Int
<1> DEFINE n == t + Offset[zone] + 7 * DayLength
<1>1. n \in Int /\ DayLength \in Nat /\ DayLength > 0 BY HouseholdConstants
<1> HIDE DEF n
<1>2. n \div DayLength \in Int BY <1>1, SMTT(30)
<1> QED BY <1>2 DEF LocalDate, n

LEMMA NewOriginType ==
  ASSUME Types, NEW zone \in HostZones, NEW amounts \in [Components -> Nat]
  PROVE  NewOrigin(zone, amounts) \in Origins
<1>1. Choice(zone) \in DOMAIN Offset BY HouseholdConstants DEF Choice
<1>2. LocalDate(Choice(zone), clock) \in Int BY <1>1, DateIsInt DEF Types
<1> QED BY <1>1, <1>2 DEF NewOrigin, Origins, Types

LEMMA InitIInv == Init => IInv
<1> SUFFICES ASSUME Init PROVE IInv OBVIOUS
<1> USE DEF Init
<1>1. /\ clock \in Nat /\ origin = NoOrigin /\ journal = <<>> OBVIOUS
<1>2. Dated /\ RowsAreLatest BY <1>1 DEF Dated, RowsAreLatest
<1>3. CASE Empty
  <2>1. Types BY <1>1, <1>3 DEF Empty, Types
  <2>2. Founded /\ Unopened BY <1>1, <1>3 DEF Empty, Founded, Unopened, Onboarded, Entities, Components
  <2> QED BY <1>2, <2>1, <2>2 DEF IInv
<1>4. CASE Earlier
  <2>1. PICK gone \in BOOLEAN, division \in {d \in Divisions : Whole(d)} :
          account = [a \in Accounts |->
            [category |-> IF a \in Balances THEN "cash" ELSE "investment",
             institution |-> None, owners |-> division, archived |-> gone /\ a \in Balances]]
    BY <1>4 DEF Earlier
  <2>2. account \in [Accounts -> AccountRows]
    <3>1. ASSUME NEW a \in Accounts PROVE account[a] \in AccountRows
      BY <2>1 DEF AccountRows
    <3> QED BY <2>1, <3>1
  <2>3. PICK left \in SUBSET Holdings, place \in [Holdings -> Brokerages \X Instruments] :
          holding = [h \in Holdings |->
            [account |-> place[h][1], instrument |-> place[h][2], archived |-> h \in left]]
    BY <1>4 DEF Earlier
  <2>4. holding \in [Holdings -> HoldingRows]
    <3>1. ASSUME NEW h \in Holdings PROVE holding[h] \in HoldingRows
      BY <2>3 DEF HoldingRows
    <3> QED BY <2>3, <3>1
  <2>5. Max(Amounts) \in Nat
    <3>1. \E m \in Amounts : \A n \in Amounts : n <= m
      BY HouseholdConstants, GreatestOfFinite
    <3> QED BY <3>1, HouseholdConstants DEF Max
  <2>6. value \in [Components -> Nat] BY <1>4, <2>5 DEF Earlier
  <2>7. Types BY <1>1, <1>4, <2>2, <2>4, <2>6 DEF Earlier, Types
  <2>8. Unopened BY <2>2, <2>4, RowsExist DEF Unopened
  <2>9. Members # {} => Onboarded BY <1>4 DEF Earlier, Onboarded, Entities
  <2>10. Founded BY <1>1, <2>9 DEF Founded
  <2> QED BY <1>2, <2>7, <2>8, <2>10 DEF IInv
<1> QED BY <1>3, <1>4

-----------------------------------------------------------------------------
(* A command that records what it changes.                                   *)

\* Entry m alone speaks of x.
Speaks(E, m, kind, x) ==
  /\ m \in DOMAIN E /\ E[m].kind = kind /\ E[m].of = x
  /\ \A n \in DOMAIN E : E[n].kind = kind /\ E[n].of = x => n = m

Mute(E, kind, x) == \A m \in DOMAIN E : ~(E[m].kind = kind /\ E[m].of = x)

\* The entries E record the change of the rows.
Records(E) ==
  /\ E \in Seq(Entries) /\ \A m \in DOMAIN E : E[m].at = clock
  /\ \A a \in Accounts :
       \/ account'[a] = account[a] /\ Mute(E, "account", a)
       \/ \E m \in DOMAIN E : Speaks(E, m, "account", a) /\ E[m].row = account'[a]
  /\ \A h \in Holdings :
       \/ holding'[h] = holding[h] /\ Mute(E, "holding", h)
       \/ \E m \in DOMAIN E : Speaks(E, m, "holding", h) /\ E[m].row = holding'[h]
  /\ \A c \in Components :
       \/ value'[c] = value[c] /\ Mute(E, "activity", c)
       \/ \E m \in DOMAIN E : Speaks(E, m, "activity", c) /\ value'[c] = value[c] + E[m].delta

LEMMA StateRecorded ==
  ASSUME Types, Dated, NEW E \in Seq(Entries), \A m \in DOMAIN E : E[m].at = clock,
         NEW kind, NEW x
  PROVE  /\ Mute(E, kind, x) =>
              /\ StateIn(journal \o E, clock, kind, x) = StateIn(journal, clock, kind, x)
              /\ kind = "activity" => AddedIn(journal \o E, clock, x) = AddedIn(journal, clock, x)
         /\ \A m \in DOMAIN E : Speaks(E, m, kind, x) =>
              /\ StateIn(journal \o E, clock, kind, x) = E[m].row
              /\ kind = "activity" =>
                   AddedIn(journal \o E, clock, x) = AddedIn(journal, clock, x) + E[m].delta
<1>1. clock \in Nat /\ journal \in Seq(Entries) /\ \A k \in DOMAIN journal : journal[k].at <= clock
  BY DEF Types, Dated
<1>2. ASSUME Mute(E, kind, x) PROVE \A m \in DOMAIN E : ~Says(E[m], clock, kind, x)
  BY <1>2 DEF Mute, Says
<1>3. ASSUME NEW m \in DOMAIN E, Speaks(E, m, kind, x)
      PROVE  /\ Says(E[m], clock, kind, x) /\ E[m].at = clock
             /\ \A n \in DOMAIN E : Says(E[n], clock, kind, x) => n = m
  BY <1>1, <1>3 DEF Speaks, Says
<1>4. ASSUME Mute(E, kind, x)
      PROVE  /\ StateIn(journal \o E, clock, kind, x) = StateIn(journal, clock, kind, x)
             /\ kind = "activity" => AddedIn(journal \o E, clock, x) = AddedIn(journal, clock, x)
  BY <1>1, <1>2, <1>4, Silent
<1>5. ASSUME NEW m \in DOMAIN E, Speaks(E, m, kind, x)
      PROVE  /\ StateIn(journal \o E, clock, kind, x) = E[m].row
             /\ kind = "activity" =>
                  AddedIn(journal \o E, clock, x) = AddedIn(journal, clock, x) + E[m].delta
  BY <1>1, <1>3, <1>5, Spoken
<1> QED BY <1>4, <1>5

LEMMA RecordedRows ==
  ASSUME IInv, origin # NoOrigin, NEW E, Records(E), journal' = journal \o E,
         UNCHANGED <<clock, origin>>
  PROVE  journal' \in Seq(Entries) /\ Dated' /\ RowsAreLatest'
<1> DEFINE K == journal \o E
<1>1. /\ E \in Seq(Entries) /\ \A m \in DOMAIN E : E[m].at = clock
      /\ Types /\ Dated /\ clock \in Nat /\ journal \in Seq(Entries)
  BY DEF Records, IInv, Types
<1>2. K \in Seq(Entries) BY <1>1
<1>3. \A k \in DOMAIN K : K[k].at <= clock
  <2>1. ASSUME NEW k \in DOMAIN K PROVE K[k].at <= clock
    <3>1. k \in DOMAIN journal \/ \E m \in DOMAIN E : K[k] = E[m] BY <1>1, Joined
    <3>2. k \in DOMAIN journal => K[k] = journal[k] BY <1>1, Joined
    <3> HIDE DEF K
    <3> QED BY <1>1, <3>1, <3>2 DEF Dated
  <2> QED BY <2>1
<1>4. /\ \A a \in Accounts : StateIn(journal, clock, "account", a) = account[a]
      /\ \A h \in Holdings : StateIn(journal, clock, "holding", h) = holding[h]
      /\ \A c \in Components : origin.amounts[c] + AddedIn(journal, clock, c) = value[c]
  BY DEF IInv, RowsAreLatest
<1> HIDE DEF K
<1>5. ASSUME NEW a \in Accounts PROVE StateIn(K, clock, "account", a) = account'[a]
  <2>1. CASE account'[a] = account[a] /\ Mute(E, "account", a)
    BY <1>1, <1>4, <2>1, StateRecorded DEF K
  <2>2. CASE \E m \in DOMAIN E : Speaks(E, m, "account", a) /\ E[m].row = account'[a]
    BY <1>1, <2>2, StateRecorded DEF K
  <2> QED BY <2>1, <2>2 DEF Records
<1>6. ASSUME NEW h \in Holdings PROVE StateIn(K, clock, "holding", h) = holding'[h]
  <2>1. CASE holding'[h] = holding[h] /\ Mute(E, "holding", h)
    BY <1>1, <1>4, <2>1, StateRecorded DEF K
  <2>2. CASE \E m \in DOMAIN E : Speaks(E, m, "holding", h) /\ E[m].row = holding'[h]
    BY <1>1, <2>2, StateRecorded DEF K
  <2> QED BY <2>1, <2>2 DEF Records
<1>7. ASSUME NEW c \in Components PROVE origin.amounts[c] + AddedIn(K, clock, c) = value'[c]
  <2>1. CASE value'[c] = value[c] /\ Mute(E, "activity", c)
    BY <1>1, <1>4, <2>1, StateRecorded DEF K
  <2>2. CASE \E m \in DOMAIN E : Speaks(E, m, "activity", c) /\ value'[c] = value[c] + E[m].delta
    <3>1. PICK m \in DOMAIN E : Speaks(E, m, "activity", c) /\ value'[c] = value[c] + E[m].delta
      BY <2>2
    <3>2. AddedIn(K, clock, c) = AddedIn(journal, clock, c) + E[m].delta
      BY <1>1, <3>1, StateRecorded DEF K
    <3>3. AddedIn(journal, clock, c) \in Int BY <1>1, AddedIsSum
    <3>4. E[m].delta \in Int BY <1>1, <3>1, EntryAt DEF Speaks
    <3>5. origin.amounts[c] \in Int BY <1>1 DEF Types, Origins
    <3> HIDE DEF K
    <3> QED BY <1>4, <3>1, <3>2, <3>3, <3>4, <3>5
  <2> QED BY <2>1, <2>2 DEF Records
<1>8. journal' = K BY DEF K
<1> QED BY <1>2, <1>3, <1>5, <1>6, <1>7, <1>8 DEF Dated, RowsAreLatest
-----------------------------------------------------------------------------
(* Each command records what it changes.                                     *)

\* A holding stays where it was created.
HoldingsStay ==
  \A h \in Holdings : holding[h] # Absent =>
    holding'[h] # Absent /\ holding'[h].account = holding[h].account

\* What a command that writes to the journal does.
Recorded ==
  /\ origin # NoOrigin /\ UNCHANGED <<clock, origin, snapshots>> /\ dirty' = Marked
  /\ Types' /\ Unopened' /\ HoldingsStay /\ Onboarded'
  /\ \E E : Records(E) /\ journal' = journal \o E

LEMMA EntriesAre ==
  ASSUME Types
  PROVE  /\ \A a \in Accounts, row \in AccountRows :
              Observed(a, row) \in Entries /\ <<Observed(a, row)>> \in Seq(Entries)
         /\ \A h \in Holdings, row \in HoldingRows :
              ObservedHolding(h, row) \in Entries /\ <<ObservedHolding(h, row)>> \in Seq(Entries)
         /\ \A c \in Components, x \in Nat :
              Posted(c, x) \in Entries /\ <<Posted(c, x)>> \in Seq(Entries)
<1>1. \A a \in Accounts, row \in AccountRows : Observed(a, row) \in Entries
  BY DEF Types, Observed, Entries
<1>2. \A h \in Holdings, row \in HoldingRows : ObservedHolding(h, row) \in Entries
  BY DEF Types, ObservedHolding, Entries
<1>3. ASSUME NEW c \in Components, NEW x \in Nat PROVE Posted(c, x) \in Entries
  <2>1. value[c] \in Nat /\ clock \in Nat BY DEF Types
  <2>2. x - value[c] \in Int BY <2>1
  <2> QED BY <2>1, <2>2 DEF Posted, Entries
<1>4. \A e \in Entries : <<e>> \in Seq(Entries) OBVIOUS
<1> QED BY <1>1, <1>2, <1>3, <1>4

LEMMA TwoEntries ==
  ASSUME NEW d \in Entries, NEW e \in Entries
  PROVE  <<d>> \o <<e>> \in Seq(Entries) /\ DOMAIN (<<d>> \o <<e>>) = {1, 2}
<1> DEFINE D == <<d>> \o <<e>>
<1>1. <<d>> \in Seq(Entries) /\ <<e>> \in Seq(Entries) OBVIOUS
<1>2. D \in Seq(Entries) BY <1>1
<1>3. Len(D) = 2 BY <1>1
<1> HIDE DEF D
<1>4. DOMAIN D = 1 .. 2 BY <1>2, <1>3
<1> QED BY <1>2, <1>4 DEF D

LEMMA DetailRows ==
  ASSUME NEW a \in Accounts, NEW row \in Details(a)
  PROVE  row \in AccountRows /\ \A b \in BOOLEAN : [row EXCEPT !.archived = b] \in AccountRows
<1>1. row \in AccountRows BY DEF Details, AccountRows
<1> QED BY <1>1 DEF AccountRows

LEMMA ComponentSets == /\ Accounts \subseteq Components /\ Holdings \subseteq Components
                       /\ \A a \in Accounts, h \in Holdings : a # h
                       /\ Components = Accounts \cup Holdings
BY HouseholdConstants DEF Components

\* One observation of an account.
LEMMA ChangeAccountRecorded ==
  ASSUME IInv, origin # NoOrigin, NEW a \in Accounts, NEW row \in AccountRows,
         account[a] # Absent, ChangeAccount(a, row)
  PROVE  Recorded
<1> DEFINE E == <<Observed(a, row)>>
<1>1. /\ Types /\ Founded /\ Unopened /\ account' = [account EXCEPT ![a] = row]
      /\ journal' = journal \o E /\ dirty' = Marked
      /\ UNCHANGED <<clock, standing, holding, value, origin, snapshots>>
  BY DEF IInv, ChangeAccount, Writes
<1>2. E \in Seq(Entries) /\ DOMAIN E = {1} BY <1>1, EntriesAre
<1>3. E[1].kind = "account" /\ E[1].of = a /\ E[1].at = clock /\ E[1].row = row BY DEF Observed
<1> HIDE DEF E
<1>4. account' \in [Accounts -> AccountRows \cup {Absent}] BY <1>1 DEF Types
<1>5. Records(E)
  <2>1. \A b \in Accounts : account'[b] = IF b = a THEN row ELSE account[b] BY <1>1 DEF Types
  <2> QED BY <1>1, <1>2, <1>3, <2>1 DEF Records, Speaks, Mute
<1>6. journal' \in Seq(Entries) BY <1>1, <1>2 DEF Types
<1>7. Types' BY <1>1, <1>4, <1>6 DEF Types
<1>8. Unopened' BY <1>1, RowsExist DEF Unopened, Types
<1>9. HoldingsStay /\ Onboarded' BY <1>1 DEF HoldingsStay, Founded, Onboarded
<1> QED BY <1>1, <1>5, <1>7, <1>8, <1>9 DEF Recorded

LEMMA CreateAccountRecorded ==
  ASSUME IInv, NEW a \in Accounts, NEW row \in Details(a), NEW x \in Amounts, CreateAccount(a, row, x)
  PROVE  Recorded
<1> DEFINE E == (IF x = 0 THEN <<>> ELSE <<Posted(a, x)>>) \o <<Observed(a, row)>>
<1>1. /\ Types /\ Founded /\ Unopened /\ account' = [account EXCEPT ![a] = row]
      /\ origin # NoOrigin /\ account[a] = Absent /\ value' = [value EXCEPT ![a] = x]
      /\ journal' = journal \o E /\ dirty' = Marked
      /\ UNCHANGED <<clock, standing, holding, origin, snapshots>>
  BY DEF IInv, CreateAccount, Writes, WritesAllowed, Exists
<1>2. row \in AccountRows /\ x \in Nat /\ a \in Components
  BY DetailRows, HouseholdConstants, ComponentSets
<1>3. value[a] = 0 BY <1>1 DEF Unopened
<1>4. E \in Seq(Entries) /\ DOMAIN E = IF x = 0 THEN {1} ELSE {1, 2}
  <2>1. Observed(a, row) \in Entries /\ Posted(a, x) \in Entries BY <1>1, <1>2, EntriesAre
  <2>2. CASE x = 0
    <3>1. E = <<Observed(a, row)>> BY <2>2
    <3> QED BY <2>1, <2>2, <3>1
  <2>3. CASE x # 0
    <3>1. E = <<Posted(a, x)>> \o <<Observed(a, row)>> BY <2>3
    <3> QED BY <2>1, <2>3, <3>1, TwoEntries
  <2> QED BY <2>2, <2>3
<1>5. /\ x = 0 => E[1] = Observed(a, row)
      /\ x # 0 => E[1] = Posted(a, x) /\ E[2] = Observed(a, row)
  OBVIOUS
<1>6. /\ Observed(a, row).kind = "account" /\ Observed(a, row).of = a
      /\ Observed(a, row).at = clock /\ Observed(a, row).row = row
      /\ Posted(a, x).kind = "activity" /\ Posted(a, x).of = a
      /\ Posted(a, x).at = clock /\ Posted(a, x).delta = x
  BY <1>2, <1>3 DEF Observed, Posted
<1> HIDE DEF E
<1>7. \A b \in Accounts : account'[b] = IF b = a THEN row ELSE account[b] BY <1>1 DEF Types
<1>8. \A c \in Components : value'[c] = IF c = a THEN x ELSE value[c] BY <1>1 DEF Types
<1>9. Records(E)
  <2>1. \A m \in DOMAIN E : E[m].at = clock BY <1>4, <1>5, <1>6
  <2>2. ASSUME NEW b \in Accounts
        PROVE  \/ account'[b] = account[b] /\ Mute(E, "account", b)
               \/ \E m \in DOMAIN E : Speaks(E, m, "account", b) /\ E[m].row = account'[b]
    <3>1. CASE b = a
      <4>1. CASE x = 0
        <5>1. 1 \in DOMAIN E /\ Speaks(E, 1, "account", b) /\ E[1].row = account'[b]
          BY <1>4, <1>5, <1>6, <1>7, <3>1, <4>1 DEF Speaks
        <5> QED BY <5>1
      <4>2. CASE x # 0
        <5>1. 2 \in DOMAIN E /\ Speaks(E, 2, "account", b) /\ E[2].row = account'[b]
          BY <1>4, <1>5, <1>6, <1>7, <3>1, <4>2 DEF Speaks
        <5> QED BY <5>1
      <4> QED BY <4>1, <4>2
    <3>2. CASE b # a BY <1>4, <1>5, <1>6, <1>7, <3>2 DEF Mute
    <3> QED BY <3>1, <3>2
  <2>3. \A h \in Holdings : Mute(E, "holding", h) BY <1>4, <1>5, <1>6 DEF Mute
  <2>4. ASSUME NEW c \in Components
        PROVE  \/ value'[c] = value[c] /\ Mute(E, "activity", c)
               \/ \E m \in DOMAIN E : Speaks(E, m, "activity", c) /\ value'[c] = value[c] + E[m].delta
    <3>1. CASE c = a /\ x # 0
      <4>1. 1 \in DOMAIN E /\ Speaks(E, 1, "activity", c) /\ value'[c] = value[c] + E[1].delta
        BY <1>2, <1>3, <1>4, <1>5, <1>6, <1>8, <3>1 DEF Speaks
      <4> QED BY <4>1
    <3>2. CASE ~(c = a /\ x # 0) BY <1>3, <1>4, <1>5, <1>6, <1>8, <3>2 DEF Mute
    <3> QED BY <3>1, <3>2
  <2> QED BY <1>1, <1>4, <2>1, <2>2, <2>3, <2>4 DEF Records
<1>10. journal' \in Seq(Entries) BY <1>1, <1>4 DEF Types
<1>11. Types' BY <1>1, <1>2, <1>10 DEF Types
<1>12. Unopened' BY <1>1, <1>2, <1>7, <1>8, RowsExist, ComponentSets DEF Unopened
<1>13. HoldingsStay /\ Onboarded' BY <1>1 DEF HoldingsStay, Founded, Onboarded
<1> QED BY <1>1, <1>9, <1>11, <1>12, <1>13 DEF Recorded

\* One Activity, of an account or a holding that exists.
LEMMA PostingRecorded ==
  ASSUME IInv, origin # NoOrigin, NEW c \in Components, NEW x \in Nat,
         c \in Accounts => account[c] # Absent, c \in Holdings => holding[c] # Absent,
         value' = [value EXCEPT ![c] = x], Writes(<<Posted(c, x)>>), dirty' = Marked,
         UNCHANGED <<clock, standing, account, holding, origin, snapshots>>
  PROVE  Recorded
<1> DEFINE E == <<Posted(c, x)>>
<1>1. Types /\ Founded /\ Unopened /\ journal' = journal \o E BY DEF IInv, Writes
<1>2. E \in Seq(Entries) /\ DOMAIN E = {1} BY <1>1, EntriesAre
<1>3. /\ E[1].kind = "activity" /\ E[1].of = c /\ E[1].at = clock /\ E[1].delta = x - value[c]
      /\ value[c] \in Nat
  BY <1>1 DEF Posted, Types
<1> HIDE DEF E
<1>4. \A d \in Components : value'[d] = IF d = c THEN x ELSE value[d] BY <1>1 DEF Types
<1>5. Records(E)
  <2>1. ASSUME NEW d \in Components
        PROVE  \/ value'[d] = value[d] /\ Mute(E, "activity", d)
               \/ \E m \in DOMAIN E : Speaks(E, m, "activity", d) /\ value'[d] = value[d] + E[m].delta
    <3>1. CASE d = c
      <4>1. 1 \in DOMAIN E /\ Speaks(E, 1, "activity", d) /\ value'[d] = value[d] + E[1].delta
        BY <1>2, <1>3, <1>4, <3>1 DEF Speaks
      <4> QED BY <4>1
    <3>2. CASE d # c BY <1>2, <1>3, <1>4, <3>2 DEF Mute
    <3> QED BY <3>1, <3>2
  <2> QED BY <1>2, <1>3, <2>1 DEF Records, Mute
<1>6. journal' \in Seq(Entries) BY <1>1, <1>2 DEF Types
<1>7. Types' BY <1>1, <1>6 DEF Types
<1>8. Unopened' BY <1>1, <1>4, ComponentSets DEF Unopened
<1>9. HoldingsStay /\ Onboarded' BY <1>1 DEF HoldingsStay, Founded, Onboarded
<1> QED BY <1>1, <1>5, <1>7, <1>8, <1>9 DEF Recorded

LEMMA CreateHoldingRecorded ==
  ASSUME IInv, NEW h \in Holdings, NEW a \in Brokerages, NEW i \in Instruments, NEW x \in Amounts,
         CreateHolding(h, a, i, x)
  PROVE  Recorded
<1> DEFINE row == [account |-> a, instrument |-> i, archived |-> FALSE]
           E == (IF x = 0 THEN <<>> ELSE <<Posted(h, x)>>) \o <<ObservedHolding(h, row)>>
<1>1. /\ Types /\ Founded /\ Unopened /\ holding' = [holding EXCEPT ![h] = row]
      /\ origin # NoOrigin /\ holding[h] = Absent /\ value' = [value EXCEPT ![h] = x]
      /\ journal' = journal \o E /\ dirty' = Marked
      /\ UNCHANGED <<clock, standing, account, origin, snapshots>>
  BY DEF IInv, CreateHolding, Writes, WritesAllowed, Exists
<1>2. row \in HoldingRows /\ x \in Nat /\ h \in Components
  BY HouseholdConstants, ComponentSets DEF HoldingRows
<1> HIDE DEF row
<1>3. value[h] = 0 BY <1>1 DEF Unopened
<1>4. E \in Seq(Entries) /\ DOMAIN E = IF x = 0 THEN {1} ELSE {1, 2}
  <2>1. ObservedHolding(h, row) \in Entries /\ Posted(h, x) \in Entries BY <1>1, <1>2, EntriesAre
  <2>2. CASE x = 0
    <3>1. E = <<ObservedHolding(h, row)>> BY <2>2
    <3> QED BY <2>1, <2>2, <3>1
  <2>3. CASE x # 0
    <3>1. E = <<Posted(h, x)>> \o <<ObservedHolding(h, row)>> BY <2>3
    <3> QED BY <2>1, <2>3, <3>1, TwoEntries
  <2> QED BY <2>2, <2>3
<1>5. /\ x = 0 => E[1] = ObservedHolding(h, row)
      /\ x # 0 => E[1] = Posted(h, x) /\ E[2] = ObservedHolding(h, row)
  OBVIOUS
<1>6. /\ ObservedHolding(h, row).kind = "holding" /\ ObservedHolding(h, row).of = h
      /\ ObservedHolding(h, row).at = clock /\ ObservedHolding(h, row).row = row
      /\ Posted(h, x).kind = "activity" /\ Posted(h, x).of = h
      /\ Posted(h, x).at = clock /\ Posted(h, x).delta = x
  BY <1>2, <1>3 DEF ObservedHolding, Posted
<1> HIDE DEF E
<1>7. \A g \in Holdings : holding'[g] = IF g = h THEN row ELSE holding[g] BY <1>1 DEF Types
<1>8. \A c \in Components : value'[c] = IF c = h THEN x ELSE value[c] BY <1>1 DEF Types
<1>9. Records(E)
  <2>1. \A m \in DOMAIN E : E[m].at = clock BY <1>4, <1>5, <1>6
  <2>2. ASSUME NEW g \in Holdings
        PROVE  \/ holding'[g] = holding[g] /\ Mute(E, "holding", g)
               \/ \E m \in DOMAIN E : Speaks(E, m, "holding", g) /\ E[m].row = holding'[g]
    <3>1. CASE g = h
      <4>1. CASE x = 0
        <5>1. 1 \in DOMAIN E /\ Speaks(E, 1, "holding", g) /\ E[1].row = holding'[g]
          BY <1>4, <1>5, <1>6, <1>7, <3>1, <4>1 DEF Speaks
        <5> QED BY <5>1
      <4>2. CASE x # 0
        <5>1. 2 \in DOMAIN E /\ Speaks(E, 2, "holding", g) /\ E[2].row = holding'[g]
          BY <1>4, <1>5, <1>6, <1>7, <3>1, <4>2 DEF Speaks
        <5> QED BY <5>1
      <4> QED BY <4>1, <4>2
    <3>2. CASE g # h BY <1>4, <1>5, <1>6, <1>7, <3>2 DEF Mute
    <3> QED BY <3>1, <3>2
  <2>3. \A a1 \in Accounts : Mute(E, "account", a1) BY <1>4, <1>5, <1>6 DEF Mute
  <2>4. ASSUME NEW c \in Components
        PROVE  \/ value'[c] = value[c] /\ Mute(E, "activity", c)
               \/ \E m \in DOMAIN E : Speaks(E, m, "activity", c) /\ value'[c] = value[c] + E[m].delta
    <3>1. CASE c = h /\ x # 0
      <4>1. 1 \in DOMAIN E /\ Speaks(E, 1, "activity", c) /\ value'[c] = value[c] + E[1].delta
        BY <1>2, <1>3, <1>4, <1>5, <1>6, <1>8, <3>1 DEF Speaks
      <4> QED BY <4>1
    <3>2. CASE ~(c = h /\ x # 0) BY <1>3, <1>4, <1>5, <1>6, <1>8, <3>2 DEF Mute
    <3> QED BY <3>1, <3>2
  <2> QED BY <1>1, <1>4, <2>1, <2>2, <2>3, <2>4 DEF Records
<1>10. journal' \in Seq(Entries) BY <1>1, <1>4 DEF Types
<1>11. Types' BY <1>1, <1>2, <1>10 DEF Types
<1>12. Unopened' BY <1>1, <1>2, <1>7, <1>8, RowsExist, ComponentSets DEF Unopened
<1>13. HoldingsStay /\ Onboarded'
  BY <1>1, <1>2, <1>7, RowsExist DEF HoldingsStay, Founded, Onboarded
<1> QED BY <1>1, <1>9, <1>11, <1>12, <1>13 DEF Recorded

LEMMA ArchiveHoldingRecorded ==
  ASSUME IInv, NEW h \in Holdings, ArchiveHolding(h)
  PROVE  Recorded
<1> DEFINE row == [holding[h] EXCEPT !.archived = ~@]
           E == <<ObservedHolding(h, row)>>
<1>1. /\ Types /\ Founded /\ Unopened /\ holding' = [holding EXCEPT ![h] = row]
      /\ origin # NoOrigin /\ holding[h] # Absent
      /\ journal' = journal \o E /\ dirty' = Marked
      /\ UNCHANGED <<clock, standing, account, value, origin, snapshots>>
  BY DEF IInv, ArchiveHolding, Writes, Exists
<1>2. holding[h] \in HoldingRows BY <1>1 DEF Types
<1>3. row \in HoldingRows /\ row.account = holding[h].account BY <1>2 DEF HoldingRows
<1> HIDE DEF row
<1>4. E \in Seq(Entries) /\ DOMAIN E = {1} BY <1>1, <1>3, EntriesAre
<1>5. E[1].kind = "holding" /\ E[1].of = h /\ E[1].at = clock /\ E[1].row = row
  BY DEF ObservedHolding
<1> HIDE DEF E
<1>6. \A g \in Holdings : holding'[g] = IF g = h THEN row ELSE holding[g] BY <1>1 DEF Types
<1>7. Records(E) BY <1>1, <1>4, <1>5, <1>6 DEF Records, Speaks, Mute
<1>8. journal' \in Seq(Entries) BY <1>1, <1>4 DEF Types
<1>9. Types' BY <1>1, <1>3, <1>8 DEF Types
<1>10. Unopened' BY <1>1, <1>3, <1>6, RowsExist DEF Unopened
<1>11. HoldingsStay /\ Onboarded'
  BY <1>1, <1>3, <1>6, RowsExist DEF HoldingsStay, Founded, Onboarded
<1> QED BY <1>1, <1>7, <1>9, <1>10, <1>11 DEF Recorded

-----------------------------------------------------------------------------
(* The other steps.                                                          *)

\* The entries of the origin of an older database: one for each row that exists.
LEMMA CapturedSays ==
  ASSUME Types, NEW kind, NEW D, IsFiniteSet(D), NEW row, D = DOMAIN row,
         \A x \in D : Exists(row[x]) =>
           [kind |-> kind, of |-> x, at |-> clock, row |-> row[x]] \in Entries
  PROVE  /\ Captured(kind, row) \in Seq(Entries)
         /\ \A m \in DOMAIN Captured(kind, row) :
              Captured(kind, row)[m].kind = kind
         /\ \A m \in DOMAIN Captured(kind, row) :
              Captured(kind, row)[m].at = clock
         /\ \A x \in D :
              IF Exists(row[x])
              THEN \E m \in DOMAIN Captured(kind, row) :
                     /\ Speaks(Captured(kind, row), m, kind, x)
                     /\ Captured(kind, row)[m].row = row[x]
              ELSE Mute(Captured(kind, row), kind, x)
<1> DEFINE X == {x \in D : Exists(row[x])}
           e == [x \in X |-> [kind |-> kind, of |-> x, at |-> clock, row |-> row[x]]]
           R == {e[x] : x \in X}
           n == Cardinality(R)
           E == Captured(kind, row)
<1>1. R = {[kind |-> kind, of |-> x, at |-> clock, row |-> row[x]] :
            x \in {y \in DOMAIN row : Exists(row[y])}}
  OBVIOUS
<1>2. IsFiniteSet(X) BY FS_Subset
<1>3. IsFiniteSet(R)
  <2> HIDE DEF X, e
  <2> QED BY <1>2, FiniteImage
<1>4. E = CHOOSE f \in [1 .. n -> R] : Sx!IsInjective(f)
  <2>1. E = Sx!SetToSeq(R) BY <1>1 DEF Captured
  <2>2. Sx!Cardinality(R) = Cardinality(R) BY DEF Sx!Cardinality, Cardinality
  <2> HIDE DEF R, E
  <2> QED BY <2>1, <2>2 DEF Sx!SetToSeq
<1>5. \A r \in R : r \in Entries /\ r.kind = kind /\ r.at = clock /\ r.of \in X /\ r.row = row[r.of]
  OBVIOUS
<1>6. \A r, s \in R : r.of = s.of => r = s OBVIOUS
<1>7. ASSUME NEW x \in X PROVE \E r \in R : r.of = x
  <2>1. e[x] \in R /\ e[x].of = x OBVIOUS
  <2> HIDE DEF e, R, X
  <2> QED BY <2>1
<1> HIDE DEF E, e, R
<1>8. n \in Nat /\ ExistsBijection(1 .. n, R) BY <1>3, FS_CardinalityType
<1>9. PICK f \in [1 .. n -> R] : \A i, j \in 1 .. n : f[i] = f[j] => i = j
  BY <1>8 DEF ExistsBijection, Bijection, Injection, IsInjective
<1>10. Sx!IsInjective(f) BY <1>9 DEF Sx!IsInjective
<1>11. E \in [1 .. n -> R] /\ Sx!IsInjective(E) BY <1>4, <1>9, <1>10
<1> HIDE DEF n
<1>12. \A i, j \in 1 .. n : E[i] = E[j] => i = j BY <1>11 DEF Sx!IsInjective
<1>13. \A r \in R : \E m \in 1 .. n : E[m] = r
  <2>1. E \in Injection(1 .. n, R) BY <1>11, <1>12 DEF Injection, IsInjective
  <2>2. Cardinality(1 .. n) = Cardinality(R) BY <1>8, FS_Interval DEF n
  <2>3. E \in Surjection(1 .. n, R) BY <1>3, <2>1, <2>2, FS_Injection
  <2> QED BY <2>3 DEF Surjection
<1>14. E \in Seq(Entries) /\ DOMAIN E = 1 .. n BY <1>5, <1>8, <1>11
<1>15. ASSUME NEW m \in DOMAIN E PROVE E[m] \in R BY <1>11, <1>14
<1>16. ASSUME NEW x \in X PROVE \E m \in DOMAIN E : Speaks(E, m, kind, x) /\ E[m].row = row[x]
  <2>1. PICK r \in R : r.of = x BY <1>7
  <2>2. PICK m \in 1 .. n : E[m] = r BY <1>13
  <2>3. \A k \in DOMAIN E : E[k].of = x => k = m BY <1>6, <1>12, <1>14, <1>15, <2>1, <2>2
  <2> QED BY <1>5, <1>14, <2>1, <2>2, <2>3 DEF Speaks
<1>17. ASSUME NEW x \in D, x \notin X PROVE Mute(E, kind, x) BY <1>5, <1>15, <1>17 DEF Mute
<1> QED BY <1>5, <1>14, <1>15, <1>16, <1>17 DEF E

LEMMA NothingSaid ==
  \A t, kind, x : StateIn(<<>>, t, kind, x) = Absent /\ AddedIn(<<>>, t, x) = 0
<1>1. ASSUME NEW t, NEW kind, NEW x PROVE SeenIn(<<>>, t, kind, x) = {} BY DEF SeenIn
<1>2. ASSUME NEW t, NEW x PROVE AddedIn(<<>>, t, x) = 0
  <2>1. <<>> \in Seq(Entries) OBVIOUS
  <2> QED BY <1>1, <2>1, AddedIsSum, SumEmpty
<1> QED BY <1>1, <1>2 DEF StateIn

LEMMA OnboardKeeps ==
  ASSUME IInv, NEW members \in SUBSET Members, NEW zone \in HostZones, Onboard(members, zone)
  PROVE  IInv' /\ origin = NoOrigin
<1>1. /\ Types /\ Dated /\ Founded /\ Unopened /\ ~Onboarded /\ members # {}
      /\ standing' = [x \in Entities |-> IF x \in members THEN "active" ELSE standing[x]]
      /\ origin' = NewOrigin(zone, [c \in Components |-> 0])
      /\ UNCHANGED <<clock, account, holding, value, journal, snapshots>>
  BY DEF IInv, Onboard
<1>2. origin = NoOrigin /\ journal = <<>> BY <1>1 DEF Founded, Types
<1>3. origin' \in Origins /\ origin'.amounts = [c \in Components |-> 0] /\ origin' # NoOrigin
  <2>1. [c \in Components |-> 0] \in [Components -> Nat] OBVIOUS
  <2>2. origin' \in Origins BY <1>1, <2>1, NewOriginType
  <2> QED BY <1>1, <2>2, OriginsExist DEF NewOrigin
<1>4. Types' BY <1>1, <1>3 DEF Types
<1>5. Onboarded'
  <2>1. PICK m \in members : TRUE BY <1>1
  <2>2. m \in Members /\ m \in Entities BY DEF Entities
  <2>3. standing'[m] = "active" BY <1>1, <2>2
  <2> QED BY <2>2, <2>3 DEF Onboarded
<1>6. Founded' BY <1>3, <1>5 DEF Founded
<1>7. Unopened' /\ Dated' BY <1>1 DEF Unopened, Dated
<1>8. (\A a \in Accounts : account[a] = Absent) /\ (\A h \in Holdings : holding[h] = Absent)
  BY <1>1 DEF Founded
<1>9. \A c \in Components : value[c] = 0 BY <1>1, <1>8 DEF Unopened, Components
<1>10. RowsAreLatest' BY <1>1, <1>2, <1>3, <1>8, <1>9, NothingSaid DEF RowsAreLatest
<1> QED BY <1>2, <1>4, <1>6, <1>7, <1>10 DEF IInv

LEMMA InitializeKeeps ==
  ASSUME IInv, NEW zone \in HostZones, InitializeOrigin(zone)
  PROVE  IInv' /\ origin = NoOrigin
<1> DEFINE A == Captured("account", account)
           B == Captured("holding", holding)
           E == A \o B
<1>1. /\ Types /\ Dated /\ Founded /\ Unopened /\ Onboarded /\ origin = NoOrigin
      /\ origin' = NewOrigin(zone, value) /\ journal' = E
      /\ UNCHANGED <<clock, standing, account, holding, value, snapshots>>
  BY DEF IInv, InitializeOrigin, Baseline, rows
<1>2. journal = <<>> BY <1>1 DEF Founded
<1>3. origin' \in Origins /\ origin'.amounts = value /\ origin' # NoOrigin
  <2>1. origin' \in Origins BY <1>1, NewOriginType DEF Types
  <2> QED BY <1>1, <2>1, OriginsExist DEF NewOrigin
<1>4. /\ A \in Seq(Entries)
      /\ \A m \in DOMAIN A : A[m].kind = "account" /\ A[m].at = clock
      /\ \A x \in Accounts :
           IF Exists(account[x])
           THEN \E m \in DOMAIN A : Speaks(A, m, "account", x) /\ A[m].row = account[x]
           ELSE Mute(A, "account", x)
  <2>1. DOMAIN account = Accounts /\ IsFiniteSet(Accounts) BY <1>1, HouseholdConstants DEF Types
  <2>2. \A x \in Accounts : Exists(account[x]) =>
          [kind |-> "account", of |-> x, at |-> clock, row |-> account[x]] \in Entries
    BY <1>1 DEF Types, Entries, Exists
  <2> DEFINE C == Captured("account", account)
  <2>3. /\ C \in Seq(Entries)
        /\ \A m \in DOMAIN C : C[m].kind = "account" /\ C[m].at = clock
        /\ \A x \in Accounts :
             IF Exists(account[x])
             THEN \E m \in DOMAIN C : Speaks(C, m, "account", x) /\ C[m].row = account[x]
             ELSE Mute(C, "account", x)
    <3>1. C \in Seq(Entries) BY <1>1, <2>1, <2>2, CapturedSays
    <3>2. ASSUME NEW m \in DOMAIN C PROVE C[m].kind = "account" /\ C[m].at = clock
      <4>1. C[m].kind = "account" BY <1>1, <2>1, <2>2, CapturedSays
      <4>2. C[m].at = clock BY <1>1, <2>1, <2>2, CapturedSays
      <4> QED BY <4>1, <4>2
    <3>3. \A x \in Accounts :
             IF Exists(account[x])
             THEN \E m \in DOMAIN C : Speaks(C, m, "account", x) /\ C[m].row = account[x]
             ELSE Mute(C, "account", x)
      BY <1>1, <2>1, <2>2, CapturedSays
    <3> QED BY <3>1, <3>2, <3>3
  <2> QED BY <2>3
<1>5. /\ B \in Seq(Entries)
      /\ \A m \in DOMAIN B : B[m].kind = "holding" /\ B[m].at = clock
      /\ \A x \in Holdings :
           IF Exists(holding[x])
           THEN \E m \in DOMAIN B : Speaks(B, m, "holding", x) /\ B[m].row = holding[x]
           ELSE Mute(B, "holding", x)
  <2>1. DOMAIN holding = Holdings /\ IsFiniteSet(Holdings) BY <1>1, HouseholdConstants DEF Types
  <2>2. \A x \in Holdings : Exists(holding[x]) =>
          [kind |-> "holding", of |-> x, at |-> clock, row |-> holding[x]] \in Entries
    BY <1>1 DEF Types, Entries, Exists
  <2> DEFINE C == Captured("holding", holding)
  <2>3. /\ C \in Seq(Entries)
        /\ \A m \in DOMAIN C : C[m].kind = "holding" /\ C[m].at = clock
        /\ \A x \in Holdings :
             IF Exists(holding[x])
             THEN \E m \in DOMAIN C : Speaks(C, m, "holding", x) /\ C[m].row = holding[x]
             ELSE Mute(C, "holding", x)
    <3>1. C \in Seq(Entries) BY <1>1, <2>1, <2>2, CapturedSays
    <3>2. ASSUME NEW m \in DOMAIN C PROVE C[m].kind = "holding" /\ C[m].at = clock
      <4>1. C[m].kind = "holding" BY <1>1, <2>1, <2>2, CapturedSays
      <4>2. C[m].at = clock BY <1>1, <2>1, <2>2, CapturedSays
      <4> QED BY <4>1, <4>2
    <3>3. \A x \in Holdings :
             IF Exists(holding[x])
             THEN \E m \in DOMAIN C : Speaks(C, m, "holding", x) /\ C[m].row = holding[x]
             ELSE Mute(C, "holding", x)
      BY <1>1, <2>1, <2>2, CapturedSays
    <3> QED BY <3>1, <3>2, <3>3
  <2> QED BY <2>3
<1> HIDE DEF A, B
<1>6. /\ E \in Seq(Entries) /\ Len(A) \in Nat
      /\ \A k \in DOMAIN A : k \in DOMAIN E /\ E[k] = A[k] /\ k <= Len(A)
      /\ \A m \in DOMAIN B : Len(A) + m \in DOMAIN E /\ E[Len(A) + m] = B[m]
      /\ \A k \in DOMAIN E : k \in DOMAIN A \/ \E m \in DOMAIN B : k = Len(A) + m /\ E[k] = B[m]
  BY <1>4, <1>5, Joined
<1> HIDE DEF E
<1>7. \A k \in DOMAIN E : E[k].at = clock /\ E[k].kind \in {"account", "holding"}
  BY <1>4, <1>5, <1>6
<1>8. ASSUME NEW kind, NEW x
      PROVE  /\ Mute(E, kind, x) => /\ StateIn(E, clock, kind, x) = Absent
                                    /\ kind = "activity" => AddedIn(E, clock, x) = 0
             /\ \A m \in DOMAIN E : Speaks(E, m, kind, x) => StateIn(E, clock, kind, x) = E[m].row
  <2>1. journal \o E = E BY <1>2, <1>6
  <2> QED BY <1>1, <1>2, <1>6, <1>7, <2>1, StateRecorded, NothingSaid
<1>9. ASSUME NEW x \in Accounts PROVE StateIn(E, clock, "account", x) = account[x]
  <2>1. CASE Exists(account[x])
    <3>1. PICK m \in DOMAIN A : Speaks(A, m, "account", x) /\ A[m].row = account[x] BY <1>4, <2>1
    <3>2. m \in DOMAIN E /\ E[m] = A[m] BY <1>6
    <3>3. Speaks(E, m, "account", x) BY <1>5, <1>6, <3>1, <3>2 DEF Speaks
    <3> QED BY <1>8, <3>1, <3>2, <3>3
  <2>2. CASE ~Exists(account[x])
    <3>1. Mute(A, "account", x) BY <1>4, <2>2
    <3>2. Mute(E, "account", x) BY <1>5, <1>6, <3>1 DEF Mute
    <3> QED BY <1>8, <2>2, <3>2 DEF Exists
  <2> QED BY <2>1, <2>2
<1>10. ASSUME NEW x \in Holdings PROVE StateIn(E, clock, "holding", x) = holding[x]
  <2>1. CASE Exists(holding[x])
    <3>1. PICK m \in DOMAIN B : Speaks(B, m, "holding", x) /\ B[m].row = holding[x] BY <1>5, <2>1
    <3>2. Len(A) + m \in DOMAIN E /\ E[Len(A) + m] = B[m] BY <1>6
    <3>3. Speaks(E, Len(A) + m, "holding", x)
      <4>1. ASSUME NEW k \in DOMAIN E, E[k].kind = "holding", E[k].of = x PROVE k = Len(A) + m
        <5>1. k \notin DOMAIN A BY <1>4, <1>6, <4>1
        <5>2. PICK l \in DOMAIN B : k = Len(A) + l /\ E[k] = B[l] BY <1>6, <5>1
        <5>3. l = m BY <3>1, <4>1, <5>2 DEF Speaks
        <5> QED BY <5>2, <5>3
      <4> QED BY <3>1, <3>2, <4>1 DEF Speaks
    <3> QED BY <1>8, <3>1, <3>2, <3>3
  <2>2. CASE ~Exists(holding[x])
    <3>1. Mute(B, "holding", x) BY <1>5, <2>2
    <3>2. Mute(E, "holding", x) BY <1>4, <1>6, <3>1 DEF Mute
    <3> QED BY <1>8, <2>2, <3>2 DEF Exists
  <2> QED BY <2>1, <2>2
<1>11. ASSUME NEW c \in Components PROVE origin'.amounts[c] + AddedIn(E, clock, c) = value[c]
  <2>1. Mute(E, "activity", c) BY <1>7 DEF Mute
  <2>2. AddedIn(E, clock, c) = 0 BY <1>8, <2>1
  <2>3. value[c] \in Nat BY <1>1 DEF Types
  <2> QED BY <1>3, <2>2, <2>3
<1>12. RowsAreLatest' BY <1>1, <1>9, <1>10, <1>11 DEF RowsAreLatest
<1>13. Types' BY <1>1, <1>3, <1>6 DEF Types
<1>14. Dated'
  <2>1. \A k \in DOMAIN E : E[k].at <= clock BY <1>1, <1>7 DEF Types
  <2> QED BY <1>1, <2>1 DEF Dated
<1>15. Founded' /\ Unopened' BY <1>1, <1>3 DEF Founded, Unopened, Onboarded
<1> QED BY <1>1, <1>12, <1>13, <1>14, <1>15 DEF IInv

\* A step of the clock: nothing that is written is newly seen.
LEMMA TickKeeps ==
  ASSUME IInv, Tick
  PROVE  IInv'
<1>1. /\ Types /\ Dated /\ Founded /\ Unopened /\ RowsAreLatest /\ clock' = clock + 1
      /\ UNCHANGED <<standing, account, holding, value, origin, journal, dirty, snapshots>>
      /\ clock \in Nat /\ journal \in Seq(Entries)
  BY DEF IInv, Tick, rows, past, Types
<1>2. Types' /\ Founded' /\ Unopened' BY <1>1 DEF Types, Founded, Unopened, Onboarded
<1>3. Dated'
  <2>1. \A k \in DOMAIN journal : journal[k].at \in Nat BY <1>1, EntryAt
  <2> QED BY <1>1, <2>1 DEF Dated
<1>4. ASSUME NEW kind, NEW x PROVE SeenIn(journal, clock + 1, kind, x) = SeenIn(journal, clock, kind, x)
  <2>1. \A k \in DOMAIN journal : journal[k].at \in Nat /\ journal[k].at <= clock
    BY <1>1, EntryAt DEF Dated
  <2> QED BY <1>1, <2>1 DEF SeenIn
<1>5. ASSUME NEW kind, NEW x
      PROVE  StateIn(journal, clock + 1, kind, x) = StateIn(journal, clock, kind, x)
  BY <1>4 DEF StateIn, NewestIn
<1>6. ASSUME NEW c PROVE AddedIn(journal, clock + 1, c) = AddedIn(journal, clock, c)
  <2>1. DeltasIn(journal, clock + 1, c) = DeltasIn(journal, clock, c) BY <1>4 DEF DeltasIn
  <2> QED BY <1>1, <1>4, <2>1, AddedIsSum
<1>7. RowsAreLatest' BY <1>1, <1>5, <1>6 DEF RowsAreLatest
<1> QED BY <1>2, <1>3, <1>7 DEF IInv

\* A change of standing leaves a household a household.
LEMMA StandingKeeps ==
  ASSUME IInv, origin # NoOrigin, NEW x \in Entities, NEW s \in {"active", "archived"},
         SetStanding(x, s)
  PROVE  IInv'
<1>1. /\ Types /\ Dated /\ Founded /\ Unopened /\ RowsAreLatest
      /\ standing' = [standing EXCEPT ![x] = s]
      /\ UNCHANGED <<clock, account, holding, value, origin, journal, dirty, snapshots>>
  BY DEF IInv, SetStanding, past
<1>2. Types' /\ Dated' /\ Unopened' /\ RowsAreLatest'
  BY <1>1 DEF Types, Dated, Unopened, RowsAreLatest
<1>3. Onboarded'
  <2>1. PICK m \in Members : standing[m] # "absent" BY <1>1 DEF Founded, Onboarded
  <2>2. standing'[m] # "absent" BY <1>1, <2>1 DEF Types, Entities
  <2> QED BY <2>2 DEF Onboarded
<1>4. Founded' BY <1>1, <1>3 DEF Founded
<1> QED BY <1>2, <1>4 DEF IInv

LEMMA RecordedKeeps == ASSUME IInv, Recorded PROVE IInv'
<1>1. Types' /\ Unopened' /\ Onboarded' /\ origin # NoOrigin /\ UNCHANGED <<clock, origin>>
  BY DEF Recorded
<1>2. Dated' /\ RowsAreLatest' BY <1>1, RecordedRows DEF Recorded
<1>3. Founded' BY <1>1 DEF Founded
<1> QED BY <1>1, <1>2, <1>3 DEF IInv

\* A command changes the standing of an entity, or writes down what it changes.
LEMMA CommandsRecord ==
  ASSUME IInv, Commands
  PROVE  \/ Recorded
         \/ /\ origin # NoOrigin
            /\ \E x \in Entities, s \in {"active", "archived"} : SetStanding(x, s)
<1> DEFINE Goal == Recorded \/ /\ origin # NoOrigin
                               /\ \E x \in Entities, s \in {"active", "archived"} : SetStanding(x, s)
<1>1. ASSUME NEW x \in Entities, Create(x) \/ Archive(x) \/ Restore(x) PROVE Goal
  BY <1>1 DEF Create, Archive, Restore
<1>2. ASSUME NEW a \in Accounts, NEW row \in Details(a), UpdateAccount(a, row) PROVE Recorded
  <2> DEFINE updated == [row EXCEPT !.archived = account[a].archived]
  <2>1. origin # NoOrigin /\ account[a] # Absent /\ ChangeAccount(a, updated)
    BY <1>2 DEF UpdateAccount, Exists
  <2>2. account[a] \in AccountRows BY <2>1 DEF IInv, Types
  <2>3. updated \in AccountRows BY <2>2, RowsExist, DetailRows
  <2> HIDE DEF updated
  <2> QED BY <2>1, <2>3, ChangeAccountRecorded
<1>3. ASSUME NEW a \in Accounts, ArchiveAccount(a) PROVE Recorded
  <2> DEFINE updated == [account[a] EXCEPT !.archived = ~@]
  <2>1. origin # NoOrigin /\ account[a] # Absent /\ ChangeAccount(a, updated)
    BY <1>3 DEF ArchiveAccount, Exists
  <2>2. account[a] \in AccountRows BY <2>1 DEF IInv, Types
  <2>3. updated \in AccountRows BY <2>2 DEF AccountRows
  <2> HIDE DEF updated
  <2> QED BY <2>1, <2>3, ChangeAccountRecorded
<1>4. ASSUME NEW a \in Accounts, NEW x \in Amounts, SetAmount(a, x) PROVE Recorded
  <2>1. /\ origin # NoOrigin /\ account[a] # Absent /\ value' = [value EXCEPT ![a] = x]
        /\ Writes(<<Posted(a, x)>>) /\ dirty' = Marked
        /\ UNCHANGED <<clock, standing, account, holding, origin, snapshots>>
    BY <1>4 DEF SetAmount, WritesAllowed, Exists
  <2>2. x \in Nat /\ a \in Components /\ a \notin Holdings BY HouseholdConstants, ComponentSets
  <2> QED BY <2>1, <2>2, PostingRecorded
<1>5. ASSUME NEW h \in Holdings, NEW x \in Amounts, UpdateHolding(h, x) PROVE Recorded
  <2>1. /\ origin # NoOrigin /\ holding[h] # Absent /\ value' = [value EXCEPT ![h] = x]
        /\ Writes(<<Posted(h, x)>>) /\ dirty' = Marked
        /\ UNCHANGED <<clock, standing, account, holding, origin, snapshots>>
    BY <1>5 DEF UpdateHolding, WritesAllowed, Exists
  <2>2. x \in Nat /\ h \in Components /\ h \notin Accounts BY HouseholdConstants, ComponentSets
  <2> QED BY <2>1, <2>2, PostingRecorded
<1>6. CASE \E x \in Entities : Create(x) \/ Archive(x) \/ Restore(x) BY <1>1, <1>6
<1>7. CASE \E a \in Accounts : \/ \E row \in Details(a) : UpdateAccount(a, row)
                               \/ \E row \in Details(a), x \in Amounts : CreateAccount(a, row, x)
                               \/ \E x \in Amounts : SetAmount(a, x)
                               \/ ArchiveAccount(a)
  BY <1>2, <1>3, <1>4, <1>7, CreateAccountRecorded
<1>8. CASE \E h \in Holdings : \/ \E a \in Brokerages, i \in Instruments, x \in Amounts :
                                    CreateHolding(h, a, i, x)
                               \/ \E x \in Amounts : UpdateHolding(h, x)
                               \/ ArchiveHolding(h)
  BY <1>5, <1>8, CreateHoldingRecorded, ArchiveHoldingRecorded
<1> QED BY <1>6, <1>7, <1>8 DEF Commands

LEMMA ConfirmKeeps ==
  ASSUME IInv, NEW zone \in UserZones, ConfirmTimezone(zone)
  PROVE  /\ IInv' /\ origin'.at = origin.at /\ origin'.amounts = origin.amounts
         /\ UNCHANGED <<clock, account, holding, journal>>
<1>1. /\ Types /\ Dated /\ Founded /\ Unopened /\ RowsAreLatest /\ origin \in Origins
      /\ origin' = [origin EXCEPT !.zone = zone, !.confirmed = TRUE,
                                  !.date = LocalDate(zone, origin.at)]
      /\ UNCHANGED <<clock, standing, account, holding, value, journal, dirty, snapshots>>
  BY DEF IInv, ConfirmTimezone, rows, Types
<1>2. LocalDate(zone, origin.at) \in Int BY <1>1, DateIsInt, HouseholdConstants DEF Origins
<1>3. origin' \in Origins BY <1>1, <1>2, HouseholdConstants DEF Origins
<1>4. origin'.at = origin.at /\ origin'.amounts = origin.amounts BY <1>1 DEF Origins
<1>5. origin # NoOrigin /\ origin' # NoOrigin BY <1>1, <1>3, OriginsExist
<1>6. Types' /\ Dated' /\ Unopened' BY <1>1, <1>3 DEF Types, Dated, Unopened
<1>7. Founded' BY <1>1, <1>5 DEF Founded, Onboarded
<1>8. RowsAreLatest' BY <1>1, <1>4, <1>5 DEF RowsAreLatest
<1> QED BY <1>1, <1>4, <1>6, <1>7, <1>8 DEF IInv

LEMMA StepIInv == IInv /\ [Next]_vars => IInv'
<1> SUFFICES ASSUME IInv, [Next]_vars PROVE IInv' OBVIOUS
<1>1. ASSUME NEW zone \in HostZones, InitializeOrigin(zone) PROVE IInv' BY <1>1, InitializeKeeps
<1>2. ASSUME NEW zone \in HostZones, NEW members \in SUBSET Members, Onboard(members, zone)
      PROVE  IInv'
  BY <1>2, OnboardKeeps
<1>3. ASSUME NEW zone \in UserZones, ConfirmTimezone(zone) PROVE IInv' BY <1>3, ConfirmKeeps
<1>4. CASE RebuildSnapshots
  BY <1>4 DEF RebuildSnapshots, rows, IInv, Types, Dated, Founded, Unopened, RowsAreLatest, Onboarded
<1>5. CASE Commands BY <1>5, CommandsRecord, RecordedKeeps, StandingKeeps
<1>6. CASE Tick BY <1>6, TickKeeps
<1>7. CASE UNCHANGED vars
  BY <1>7 DEF vars, rows, past, IInv, Types, Dated, Founded, Unopened, RowsAreLatest, Onboarded
<1> QED BY <1>1, <1>2, <1>3, <1>4, <1>5, <1>6, <1>7 DEF Next

-----------------------------------------------------------------------------
(* What is seen of the household.                                            *)

\* Valued, with the holdings as a parameter.
ValuedIn(H, row, held, amount) ==
  {[account |-> a, row |-> row[a], amount |-> amount[a],
    held |-> {<<h, amount[h]>> : h \in {x \in Holdings : /\ Exists(H[x]) /\ H[x].account = a
                                                         /\ ~held[x].archived}}]
   : a \in {x \in Accounts : ~row[x].archived}}

LEMMA ValuedSame ==
  ASSUME NEW H, NEW row, NEW held, NEW amount, NEW H2, NEW row2, NEW held2, NEW amount2,
         \A a \in Accounts : row2[a] = row[a],
         \A h \in Holdings : (Exists(H2[h]) /\ ~held2[h].archived) = (Exists(H[h]) /\ ~held[h].archived),
         \A h \in Holdings : Exists(H[h]) /\ ~held[h].archived => H2[h].account = H[h].account,
         \A c \in Components : amount2[c] = amount[c]
  PROVE  ValuedIn(H2, row2, held2, amount2) = ValuedIn(H, row, held, amount)
<1> DEFINE holds(a) == {x \in Holdings : Exists(H[x]) /\ H[x].account = a /\ ~held[x].archived}
           holds2(a) == {x \in Holdings : Exists(H2[x]) /\ H2[x].account = a /\ ~held2[x].archived}
           in(a) == {<<h, amount[h]>> : h \in holds(a)}
           in2(a) == {<<h, amount2[h]>> : h \in holds2(a)}
           open == {x \in Accounts : ~row[x].archived}
<1>1. open = {x \in Accounts : ~row2[x].archived} OBVIOUS
<1>2. ASSUME NEW a \in open PROVE in2(a) = in(a)
  <2>1. holds2(a) = holds(a) OBVIOUS
  <2>2. holds(a) \subseteq Components BY ComponentSets
  <2> HIDE DEF holds, holds2
  <2> QED BY <2>1, <2>2
<1>3. open \subseteq Accounts /\ Accounts \subseteq Components BY ComponentSets
<1>4. ValuedIn(H, row, held, amount) =
        {[account |-> a, row |-> row[a], amount |-> amount[a], held |-> in(a)] : a \in open}
  BY DEF ValuedIn
<1>5. ValuedIn(H2, row2, held2, amount2) =
        {[account |-> a, row |-> row2[a], amount |-> amount2[a], held |-> in2(a)] : a \in open}
  BY <1>1 DEF ValuedIn
<1> HIDE DEF in, in2, open
<1> QED BY <1>2, <1>3, <1>4, <1>5

LEMMA ViewIs ==
  /\ CurrentView = ValuedIn(holding, account, holding, value)
  /\ \A t : HistoricalView(t) =
       ValuedIn(holding, [a \in Accounts |-> StateIn(journal, t, "account", a)],
                [h \in Holdings |-> StateIn(journal, t, "holding", h)],
                [c \in Components |-> origin.amounts[c] + AddedIn(journal, t, c)])
<1>1. CurrentView = ValuedIn(holding, account, holding, value) BY DEF CurrentView, Valued, ValuedIn
<1>2. ASSUME NEW t
      PROVE  HistoricalView(t) =
       ValuedIn(holding, [a \in Accounts |-> StateIn(journal, t, "account", a)],
                [h \in Holdings |-> StateIn(journal, t, "holding", h)],
                [c \in Components |-> origin.amounts[c] + AddedIn(journal, t, c)])
  <2>1. /\ [a \in Accounts |-> LatestState(t, "account", a)] = [a \in Accounts |-> StateIn(journal, t, "account", a)]
        /\ [h \in Holdings |-> LatestState(t, "holding", h)] = [h \in Holdings |-> StateIn(journal, t, "holding", h)]
        /\ [c \in Components |-> AmountAt(t, c)] = [c \in Components |-> origin.amounts[c] + AddedIn(journal, t, c)]
    BY JournalSays
  <2>2. HistoricalView(t) = ValuedIn(holding, [a \in Accounts |-> LatestState(t, "account", a)],
                                     [h \in Holdings |-> LatestState(t, "holding", h)],
                                     [c \in Components |-> AmountAt(t, c)])
    BY DEF HistoricalView, Valued, ValuedIn
  <2> QED BY <2>1, <2>2
<1> QED BY <1>1, <1>2

LEMMA ViewThen ==
  \A t : HistoricalView(t)' =
    ValuedIn(holding', [a \in Accounts |-> StateIn(journal', t, "account", a)],
             [h \in Holdings |-> StateIn(journal', t, "holding", h)],
             [c \in Components |-> origin'.amounts[c] + AddedIn(journal', t, c)])
<1> SUFFICES ASSUME NEW t
    PROVE HistoricalView(t)' =
    ValuedIn(holding', [a \in Accounts |-> StateIn(journal', t, "account", a)],
             [h \in Holdings |-> StateIn(journal', t, "holding", h)],
             [c \in Components |-> origin'.amounts[c] + AddedIn(journal', t, c)])
  OBVIOUS
<1>1. /\ [a \in Accounts |-> LatestState(t, "account", a)'] = [a \in Accounts |-> StateIn(journal', t, "account", a)]
      /\ [h \in Holdings |-> LatestState(t, "holding", h)'] = [h \in Holdings |-> StateIn(journal', t, "holding", h)]
      /\ [c \in Components |-> AmountAt(t, c)'] = [c \in Components |-> origin'.amounts[c] + AddedIn(journal', t, c)]
  BY JournalSaysThen
<1>2. HistoricalView(t)' = ValuedIn(holding', [a \in Accounts |-> LatestState(t, "account", a)'],
                                    [h \in Holdings |-> LatestState(t, "holding", h)'],
                                    [c \in Components |-> AmountAt(t, c)'])
  BY DEF HistoricalView, Valued, ValuedIn
<1> QED BY <1>1, <1>2

-----------------------------------------------------------------------------
(* Results.                                                                  *)

\* Every command keeps the invariant: rows, journal and origin in their types, no entry
\* of the journal from the future, nothing said of what does not exist yet, and each row
\* the last entry of its account or holding
\* (application/history_repositories.rs insert_account_state_observation).
THEOREM HouseholdInvariance == Spec => []IInv
<1>1. Init => IInv BY InitIInv
<1>2. IInv /\ [Next]_vars => IInv' BY StepIInv
<1> QED BY <1>1, <1>2, PTL DEF Spec

\* current_matches_historical_at (application/historical_valuation_service.rs): what is
\* valued from the overwritten rows is what is reconstructed of this instant.
THEOREM CurrentIsHistorical == Spec => []CurrentMatchesHistory
<1>1. IInv => CurrentMatchesHistory
  <2> SUFFICES ASSUME IInv, origin # NoOrigin PROVE CurrentView = HistoricalView(clock)
    BY DEF CurrentMatchesHistory
  <2> DEFINE R == [a \in Accounts |-> StateIn(journal, clock, "account", a)]
             D == [h \in Holdings |-> StateIn(journal, clock, "holding", h)]
             A == [c \in Components |-> origin.amounts[c] + AddedIn(journal, clock, c)]
  <2>1. /\ \A a \in Accounts : account[a] = R[a]
        /\ \A h \in Holdings : holding[h] = D[h]
        /\ \A c \in Components : value[c] = A[c]
    BY DEF IInv, RowsAreLatest
  <2>2. HistoricalView(clock) = ValuedIn(holding, R, D, A) BY ViewIs
  <2> HIDE DEF R, D, A
  <2>3. ValuedIn(holding, account, holding, value) = ValuedIn(holding, R, D, A)
    BY <2>1, ValuedSame
  <2> QED BY <2>2, <2>3, ViewIs
<1> QED BY <1>1, HouseholdInvariance, PTL

\* What a command writes at this instant is not seen at an earlier one.
LEMMA RecordedPast ==
  ASSUME IInv, Recorded, NEW t \in Nat, t < clock
  PROVE  HistoricalView(t)' = HistoricalView(t)
<1>1. /\ Types /\ Dated /\ RowsAreLatest /\ origin # NoOrigin /\ UNCHANGED <<clock, origin>>
      /\ HoldingsStay /\ clock \in Nat /\ journal \in Seq(Entries)
  BY DEF IInv, Types, Recorded
<1>2. PICK E : Records(E) /\ journal' = journal \o E BY DEF Recorded
<1>3. E \in Seq(Entries) /\ \A m \in DOMAIN E : E[m].at = clock BY <1>2 DEF Records
<1>4. ASSUME NEW kind, NEW x
      PROVE  /\ StateIn(journal', t, kind, x) = StateIn(journal, t, kind, x)
             /\ kind = "activity" => AddedIn(journal', t, x) = AddedIn(journal, t, x)
  <2>1. \A m \in DOMAIN E : ~Says(E[m], t, kind, x) BY <1>1, <1>3 DEF Says
  <2> QED BY <1>1, <1>2, <1>3, <2>1, Silent
<1> DEFINE R == [a \in Accounts |-> StateIn(journal, t, "account", a)]
           D == [h \in Holdings |-> StateIn(journal, t, "holding", h)]
           A == [c \in Components |-> origin.amounts[c] + AddedIn(journal, t, c)]
           R2 == [a \in Accounts |-> StateIn(journal', t, "account", a)]
           D2 == [h \in Holdings |-> StateIn(journal', t, "holding", h)]
           A2 == [c \in Components |-> origin'.amounts[c] + AddedIn(journal', t, c)]
<1>5. HistoricalView(t) = ValuedIn(holding, R, D, A) BY ViewIs
<1>6. HistoricalView(t)' = ValuedIn(holding', R2, D2, A2) BY ViewThen
<1>7. \A a \in Accounts : R2[a] = R[a] BY <1>4
<1>8. \A h \in Holdings : D2[h] = D[h] BY <1>4
<1>9. \A c \in Components : A2[c] = A[c] BY <1>1, <1>4
<1>10. ASSUME NEW h \in Holdings, holding[h] = Absent PROVE D[h].archived = TRUE
  <2>1. StateIn(journal, clock, "holding", h) = Absent BY <1>1, <1>10 DEF RowsAreLatest
  <2>2. SeenIn(journal, clock, "holding", h) = {} BY <1>1, <2>1, StateKind, RowsExist
  <2>3. \A k \in DOMAIN journal : journal[k].at \in Nat BY <1>1, EntryAt
  <2>4. SeenIn(journal, t, "holding", h) = {} BY <1>1, <2>2, <2>3 DEF SeenIn
  <2> QED BY <2>4 DEF StateIn, Absent
<1> HIDE DEF R, D, A, R2, D2, A2
<1>11. \A h \in Holdings :
         /\ (Exists(holding'[h]) /\ ~D2[h].archived) = (Exists(holding[h]) /\ ~D[h].archived)
         /\ Exists(holding[h]) /\ ~D[h].archived => holding'[h].account = holding[h].account
  BY <1>1, <1>8, <1>10 DEF HoldingsStay, Exists
<1>12. ValuedIn(holding', R2, D2, A2) = ValuedIn(holding, R, D, A)
  BY <1>7, <1>9, <1>11, ValuedSame
<1> QED BY <1>5, <1>6, <1>12

\* No command changes what the household was at an earlier instant
\* (application/historical_valuation_service.rs reconstruct_from_origin).
THEOREM PastStaysFixed == Spec => PastIsFixed
<1> DEFINE Fixed == \A t \in 0 .. Horizon : origin # NoOrigin /\ origin.at <= t /\ t < clock =>
                       HistoricalView(t)' = HistoricalView(t)
<1>1. ASSUME IInv, [Next]_vars PROVE [Fixed]_<<origin, journal, holding>>
  <2> SUFFICES ASSUME NEW t \in 0 .. Horizon, origin # NoOrigin, t < clock,
                      ~UNCHANGED <<origin, journal, holding>>
               PROVE  HistoricalView(t)' = HistoricalView(t)
    OBVIOUS
  <2>1. t \in Nat BY HouseholdConstants
  <2>2. CASE Recorded BY <1>1, <2>1, <2>2, RecordedPast
  <2>3. ASSUME NEW zone \in UserZones, ConfirmTimezone(zone)
        PROVE  HistoricalView(t)' = HistoricalView(t)
    <3>1. origin'.amounts = origin.amounts /\ UNCHANGED <<holding, journal>>
      BY <1>1, <2>3, ConfirmKeeps
    <3> QED BY <3>1, ViewIs, ViewThen
  <2>4. CASE Commands
    <3>1. ASSUME NEW x, NEW s, SetStanding(x, s) PROVE FALSE BY <3>1 DEF SetStanding, past
    <3> QED BY <1>1, <2>2, <2>4, <3>1, CommandsRecord
  <2>5. \A zone \in HostZones : ~InitializeOrigin(zone) BY DEF InitializeOrigin
  <2>6. ASSUME NEW zone \in HostZones, NEW members \in SUBSET Members, Onboard(members, zone)
        PROVE  FALSE
    BY <1>1, <2>6, OnboardKeeps
  <2>7. ~RebuildSnapshots /\ ~Tick /\ ~UNCHANGED vars
    BY DEF RebuildSnapshots, Tick, vars, rows, past
  <2> QED BY <1>1, <2>3, <2>4, <2>5, <2>6, <2>7 DEF Next
<1> QED BY <1>1, HouseholdInvariance, PTL DEF Spec, PastIsFixed

-----------------------------------------------------------------------------
(* The days that are covered.                                                *)

\* A later instant is on no earlier day, and in no zone is it more than a day earlier
\* than it is in UTC.
LEMMA DateGrows ==
  ASSUME NEW y \in DOMAIN Offset, NEW z \in DOMAIN Offset, NEW s \in Nat, NEW t \in Nat,
         NEW d \in {0, 1}, s + Offset[y] <= t + Offset[z] + d * DayLength
  PROVE  LocalDate(y, s) <= LocalDate(z, t) + d
<1> DEFINE m == s + Offset[y] + 7 * DayLength
           n == t + Offset[z] + 7 * DayLength
           q == m \div DayLength
           r == n \div DayLength
<1>1. /\ DayLength \in Nat /\ DayLength >= 1 /\ Offset[y] \in Int /\ Offset[z] \in Int
      /\ m \in Int /\ n \in Int /\ m <= n + d * DayLength
  BY HouseholdConstants
<1> HIDE DEF m, n
<1>2. /\ q \in Int /\ m % DayLength \in 0 .. DayLength - 1 /\ m = DayLength * q + (m % DayLength)
      /\ r \in Int /\ n % DayLength \in 0 .. DayLength - 1 /\ n = DayLength * r + (n % DayLength)
  BY <1>1, SMTT(30)
<1>3. DayLength * q <= m /\ n < DayLength * r + DayLength BY <1>1, <1>2
<1> HIDE DEF q, r
<1>4. q <= r + d
  <2>1. SUFFICES ASSUME q >= r + d + 1 PROVE FALSE BY <1>2
  <2>2. DayLength * q >= DayLength * (r + d + 1) BY <1>1, <1>2, <2>1, SMTT(30)
  <2>3. DayLength * (r + d + 1) = DayLength * r + d * DayLength + DayLength
    BY <1>1, <1>2, SMTT(30)
  <2>4. DayLength * q \in Int /\ DayLength * r \in Int /\ d * DayLength \in Int BY <1>1, <1>2
  <2> QED BY <1>1, <1>3, <2>2, <2>3, <2>4
<1> QED BY <1>4 DEF q, r, m, n, LocalDate

LEMMA LaterDate ==
  ASSUME NEW z \in DOMAIN Offset, NEW s \in Nat, NEW t \in Nat, s <= t
  PROVE  LocalDate(z, s) <= LocalDate(z, t)
<1>1. Offset[z] \in Int /\ DayLength \in Nat BY HouseholdConstants
<1>2. s + Offset[z] <= t + Offset[z] + 0 * DayLength BY <1>1
<1>3. LocalDate(z, s) <= LocalDate(z, t) + 0 BY <1>2, DateGrows
<1> QED BY <1>3, DateIsInt

LEMMA DayBehind ==
  ASSUME NEW z \in DOMAIN Offset, NEW t \in Nat
  PROVE  LocalDate("UTC", t) <= LocalDate(z, t) + 1
<1>1. /\ "UTC" \in DOMAIN Offset /\ Offset["UTC"] = 0 /\ Offset[z] \in Int
      /\ -DayLength <= Offset[z] /\ DayLength \in Nat
  BY HouseholdConstants
<1>2. t + Offset["UTC"] <= t + Offset[z] + 1 * DayLength BY <1>1
<1> QED BY <1>1, <1>2, DateGrows

\* The marker is a day that is not to come, or the day of the creation, which is at most
\* one day after the first.  The zone of an origin that is not confirmed is UTC, and
\* nothing has been rebuilt yet.
Covered ==
  origin # NoOrigin =>
    /\ origin.at <= clock /\ origin.date = LocalDate(origin.zone, origin.at)
    /\ origin.founded <= origin.date + 1
    /\ dirty \in Int /\ (dirty <= Today \/ dirty <= origin.founded)
    /\ ~origin.confirmed =>
         origin.zone = "UTC" /\ origin.founded = origin.date /\ dirty <= origin.founded
    /\ origin.confirmed =>
         \A day \in origin.date .. Today - 1 :
           day \in snapshots \/ dirty <= day \/ MissedByConfirmation(day)

\* A command marks today, unless an earlier day is marked already.
LEMMA MarkedEarlier ==
  ASSUME Types, Covered, origin # NoOrigin
  PROVE  Marked \in Int /\ Marked <= dirty /\ Marked <= Today
<1>1. /\ origin \in Origins /\ clock \in Nat /\ origin.at \in Nat /\ origin.zone \in DOMAIN Offset
      /\ origin.at <= clock /\ origin.date = LocalDate(origin.zone, origin.at) /\ dirty \in Int
  BY DEF Types, Covered, Origins
<1>2. origin.date <= Today /\ Today \in Int /\ origin.date \in Int
  BY <1>1, LaterDate, DateIsInt DEF Today
<1>3. dirty # None BY <1>1, HouseholdConstants
<1>4. Max({Today, origin.date}) = Today BY <1>2 DEF Max
<1>5. Min({dirty, Today}) \in Int /\ Min({dirty, Today}) <= dirty /\ Min({dirty, Today}) <= Today
  BY <1>1, <1>2 DEF Min
<1> QED BY <1>3, <1>4, <1>5 DEF Marked

LEMMA RecordedCovered == ASSUME Types, Covered, Recorded PROVE Covered'
<1>1. /\ origin # NoOrigin /\ UNCHANGED <<clock, origin, snapshots>> /\ dirty' = Marked
  BY DEF Recorded
<1>2. dirty' \in Int /\ dirty' <= dirty /\ dirty' <= Today BY <1>1, MarkedEarlier
<1>3. /\ origin \in Origins /\ origin.founded \in Int /\ dirty \in Int /\ Today \in Int
      /\ origin.date \in Int
  BY <1>1, DateIsInt DEF Types, Covered, Origins, Today
<1>4. Today' = Today /\ LocalDate(origin.zone, origin.at)' = LocalDate(origin.zone, origin.at)
      /\ \A day : MissedByConfirmation(day)' = MissedByConfirmation(day)
  BY <1>1 DEF Today, LocalDate, MissedByConfirmation
<1> QED BY <1>1, <1>2, <1>3, <1>4 DEF Covered

LEMMA FoundedCovered ==
  ASSUME Types, NEW zone \in HostZones, NEW amounts, origin' = NewOrigin(zone, amounts),
         dirty' = origin'.date, clock' = clock
  PROVE  Covered'
<1>1. clock \in Nat /\ Choice(zone) \in DOMAIN Offset BY HouseholdConstants DEF Types, Choice
<1>2. /\ origin'.at = clock /\ origin'.zone = Choice(zone) /\ origin'.confirmed = (zone # None)
      /\ origin'.date = LocalDate(Choice(zone), clock) /\ origin'.founded = origin'.date
  BY DEF NewOrigin
<1>3. LocalDate(Choice(zone), clock) \in Int BY <1>1, DateIsInt
<1>4. Today' = LocalDate(Choice(zone), clock) BY <1>2 DEF Today, LocalDate
<1>5. origin'.date = LocalDate(origin'.zone, origin'.at) BY <1>2
<1>6. LocalDate(origin.zone, origin.at)' = LocalDate(origin'.zone, origin'.at) BY DEF LocalDate
<1>7. ~origin'.confirmed => origin'.zone = "UTC" BY <1>2 DEF Choice
<1>8. dirty' = origin'.date /\ origin'.date = Today' /\ origin'.date \in Int /\ origin'.at <= clock'
  BY <1>1, <1>2, <1>3, <1>4
<1>9. \A day \in origin'.date .. Today' - 1 : FALSE BY <1>8
<1> QED BY <1>2, <1>5, <1>6, <1>7, <1>8, <1>9 DEF Covered

LEMMA ConfirmCovered ==
  ASSUME Types, Covered, NEW zone \in UserZones, ConfirmTimezone(zone)
  PROVE  Covered'
<1>1. /\ origin \in Origins /\ origin # NoOrigin /\ ~origin.confirmed /\ clock \in Nat
      /\ origin' = [origin EXCEPT !.zone = zone, !.confirmed = TRUE,
                                  !.date = LocalDate(zone, origin.at)]
      /\ UNCHANGED <<clock, dirty, snapshots>>
  BY DEF ConfirmTimezone, Types
<1>2. /\ origin.at \in Nat /\ origin.at <= clock
      /\ origin.founded = LocalDate("UTC", origin.at) /\ origin.founded \in Int
      /\ dirty \in Int /\ dirty <= origin.founded
  BY <1>1 DEF Covered, Origins
<1>3. /\ origin'.at = origin.at /\ origin'.zone = zone /\ origin'.confirmed = TRUE
      /\ origin'.date = LocalDate(zone, origin.at) /\ origin'.founded = origin.founded
  BY <1>1 DEF Origins
<1>4. zone \in DOMAIN Offset BY HouseholdConstants
<1>5. Today' = LocalDate(zone, clock) /\ LocalDate(origin.zone, origin.at)' = LocalDate(zone, origin.at)
  BY <1>1, <1>3 DEF Today, LocalDate
<1>6. LocalDate(zone, origin.at) \in Int /\ LocalDate(zone, clock) \in Int
  BY <1>1, <1>2, <1>4, DateIsInt
<1>7. origin'.founded <= origin'.date + 1 BY <1>2, <1>3, <1>4, DayBehind
<1>8. ASSUME NEW day \in origin'.date .. Today' - 1
      PROVE  dirty' <= day \/ MissedByConfirmation(day)'
  <2>1. day \in Int /\ origin'.date <= day BY <1>3, <1>5, <1>6
  <2>2. CASE dirty <= day BY <1>1, <2>2
  <2>3. CASE ~(dirty <= day)
    <3>1. day = origin'.date /\ day < origin'.founded BY <1>2, <1>3, <1>6, <1>7, <2>1, <2>3
    <3> QED BY <3>1 DEF MissedByConfirmation
  <2> QED BY <2>2, <2>3
<1> QED BY <1>1, <1>2, <1>3, <1>5, <1>6, <1>7, <1>8 DEF Covered

LEMMA RebuildCovered == ASSUME Types, Covered, RebuildSnapshots PROVE Covered'
<1> DEFINE first == Max({dirty, origin.date})
<1>1. /\ origin # NoOrigin /\ origin.confirmed /\ first < Today
      /\ snapshots' = snapshots \cup first .. Today - 1 /\ dirty' = Today
      /\ UNCHANGED <<clock, origin>>
  BY DEF RebuildSnapshots, WritesAllowed, rows
<1>2. /\ origin \in Origins /\ clock \in Nat /\ origin.zone \in DOMAIN Offset /\ origin.date \in Int
      /\ origin.at <= clock /\ origin.date = LocalDate(origin.zone, origin.at) /\ dirty \in Int
      /\ origin.founded <= origin.date + 1
      /\ \A day \in origin.date .. Today - 1 :
           day \in snapshots \/ dirty <= day \/ MissedByConfirmation(day)
  BY <1>1 DEF Types, Covered, Origins
<1>3. Today \in Int BY <1>2, DateIsInt DEF Today
<1>4. \A day \in Int : dirty <= day /\ origin.date <= day => first <= day
  <2>1. first = dirty \/ first = origin.date BY <1>2 DEF Max
  <2> QED BY <2>1
<1>5. first \in Int BY <1>2 DEF Max
<1> HIDE DEF first
<1>6. \A day \in origin.date .. Today - 1 : day \in snapshots' \/ MissedByConfirmation(day)
  BY <1>1, <1>2, <1>3, <1>4, <1>5
<1>7. Today' = Today /\ LocalDate(origin.zone, origin.at)' = LocalDate(origin.zone, origin.at)
      /\ \A day : MissedByConfirmation(day)' = MissedByConfirmation(day)
  BY <1>1 DEF Today, LocalDate, MissedByConfirmation
<1> QED BY <1>1, <1>2, <1>3, <1>6, <1>7 DEF Covered

LEMMA TickCovered == ASSUME Types, Covered, Tick PROVE Covered'
<1> SUFFICES ASSUME origin # NoOrigin PROVE Covered' BY DEF Tick, past, Covered
<1>1. /\ clock' = clock + 1 /\ UNCHANGED <<origin, dirty, snapshots>> /\ origin \in Origins
      /\ clock \in Nat /\ origin.at \in Nat /\ origin.zone \in DOMAIN Offset /\ origin.date \in Int
      /\ origin.at <= clock /\ dirty \in Int /\ (dirty <= Today \/ dirty <= origin.founded)
      /\ origin.date = LocalDate(origin.zone, origin.at)
      /\ origin.founded \in Int /\ origin.founded <= origin.date + 1
  BY DEF Tick, past, Types, Covered, Origins
<1>2. Today' = LocalDate(origin.zone, clock + 1) /\ Today = LocalDate(origin.zone, clock)
      /\ LocalDate(origin.zone, origin.at)' = LocalDate(origin.zone, origin.at)
      /\ \A day : MissedByConfirmation(day)' = MissedByConfirmation(day)
  BY <1>1 DEF Today, LocalDate, MissedByConfirmation
<1>3. Today <= Today' /\ Today \in Int /\ Today' \in Int
  <2>1. clock + 1 \in Nat /\ clock <= clock + 1 BY <1>1
  <2> QED BY <1>1, <1>2, <2>1, LaterDate, DateIsInt
<1>4. ASSUME origin.confirmed, NEW day \in origin.date .. Today' - 1
      PROVE  day \in snapshots \/ dirty <= day \/ MissedByConfirmation(day)
  <2>1. day \in Int /\ origin.date <= day BY <1>1, <1>3
  <2>2. CASE day <= Today - 1 BY <1>1, <1>3, <1>4, <2>1, <2>2 DEF Covered
  <2>3. CASE Today <= day /\ dirty <= Today BY <1>1, <1>3, <2>1, <2>3
  <2>4. CASE ~(dirty <= Today)
    <3>1. dirty <= day \/ (day = origin.date /\ day < origin.founded) BY <1>1, <2>1, <2>4
    <3> QED BY <3>1 DEF MissedByConfirmation
  <2> QED BY <1>1, <1>3, <2>1, <2>2, <2>3, <2>4
<1>5. ~origin.confirmed =>
        origin.zone = "UTC" /\ origin.founded = origin.date /\ dirty <= origin.founded
  BY DEF Covered
<1>6. dirty <= Today' \/ dirty <= origin.founded BY <1>1, <1>3
<1> QED BY <1>1, <1>2, <1>3, <1>4, <1>5, <1>6 DEF Covered

\* Every closed day since the origin has a snapshot or is due for one, whatever zone was
\* confirmed: a command marks no day too late and a rebuild leaves none out.  Only the
\* first day can be missed, and only when the zone confirmed after the capture puts it
\* before the day the origin was created on (application/history_origin.rs
\* confirm_history_timezone_in_tx, application/activity_service.rs mark_dirty_at,
\* application/history_snapshot_service.rs).
THEOREM DaysStayCovered == Spec => []DaysCovered
<1>1. Init => Covered BY DEF Init, Covered
<1>2. ASSUME IInv, Covered, [Next]_vars PROVE Covered'
  <2>1. Types BY <1>2 DEF IInv
  <2>2. CASE UNCHANGED <<clock, origin, dirty, snapshots>>
    BY <1>2, <2>2 DEF Covered, Today, LocalDate, MissedByConfirmation
  <2>3. CASE Recorded BY <1>2, <2>1, <2>3, RecordedCovered
  <2>4. ASSUME NEW zone \in HostZones, InitializeOrigin(zone) PROVE Covered'
    BY <2>1, <2>4, FoundedCovered DEF InitializeOrigin
  <2>5. ASSUME NEW zone \in HostZones, NEW members \in SUBSET Members, Onboard(members, zone)
        PROVE  Covered'
    BY <2>1, <2>5, FoundedCovered DEF Onboard
  <2>6. ASSUME NEW zone \in UserZones, ConfirmTimezone(zone) PROVE Covered'
    BY <1>2, <2>1, <2>6, ConfirmCovered
  <2>7. CASE RebuildSnapshots BY <1>2, <2>1, <2>7, RebuildCovered
  <2>8. CASE Commands
    <3>1. ASSUME NEW x, NEW s, SetStanding(x, s)
          PROVE  UNCHANGED <<clock, origin, dirty, snapshots>>
      BY <3>1 DEF SetStanding, past
    <3> QED BY <1>2, <2>2, <2>3, <2>8, <3>1, CommandsRecord
  <2>9. CASE Tick BY <1>2, <2>1, <2>9, TickCovered
  <2>10. CASE UNCHANGED vars BY <2>2, <2>10 DEF vars, rows, past
  <2> QED BY <1>2, <2>4, <2>5, <2>6, <2>7, <2>8, <2>9, <2>10 DEF Next
<1>3. Covered => DaysCovered BY DEF Covered, DaysCovered
<1> QED BY <1>1, <1>2, <1>3, HouseholdInvariance, PTL DEF Spec

=============================================================================
