---------------------------- MODULE EngineProofs ----------------------------
(***************************************************************************)
(* Theorems about the engine, for every number of players, every stack,    *)
(* every betting and rake configuration it accepts and every number of     *)
(* requests in flight.  Four parts: the rules of GameState as lemmas       *)
(* about its operators; HandLifecycle, one use case after another;         *)
(* EngineService, the use cases as requests that interleave and fail; and  *)
(* Evaluator, the comparison of hands and the showdown.                    *)
(***************************************************************************)
EXTENDS EngineService, Evaluator, ChipsProofs

(* Part one: GameState. *)

(* A nonempty set of naturals has a least element. *)
LEMMA LeastExists ==
    ASSUME NEW S, S \subseteq Nat, S # {}
    PROVE  \E x \in S : \A y \in S : x <= y
<1>1. \E x \in S : \A y \in S : ~ (<<y, x>> \in OpToRel(<, Nat))
  BY NatLessThanWellFounded, WFMin
<1>2. PICK x \in S : \A y \in S : ~ (y < x)
  BY <1>1 DEF OpToRel
<1>3. \A y \in S : x \in Nat /\ y \in Nat
  OBVIOUS
<1> QED
  BY <1>2, <1>3

LEMMA SeatsFinite == IsFiniteSet(Seats) /\ \A S \in SUBSET Seats :
                        IsFiniteSet(S) /\ Cardinality(S) \in Nat
<1>1. IsFiniteSet(Seats)
  BY FS_Interval, TableAssumption DEF Seats
<1> QED
  BY <1>1, FS_Subset, FS_CardinalityType

(* FirstAfter returns a seat of S whenever there is one. *)
LEMMA FirstAfterType ==
    ASSUME NEW S \in SUBSET Seats, NEW from \in Seats, NEW default \in Seats
    PROVE  /\ FirstAfter(S, from, default) \in Seats
           /\ S # {} => FirstAfter(S, from, default) \in S
<1>1. CASE S = {}
  BY <1>1 DEF FirstAfter
<1>2. CASE S # {}
  <2> DEFINE D == {Distance(from, x) : x \in S}
  <2>1. D \subseteq Nat /\ D # {}
    <3>1. ASSUME NEW x \in S PROVE Distance(from, x) \in Nat
      <4>1. x \in 0 .. N - 1 /\ from \in 0 .. N - 1 /\ N \in Nat
        BY TableAssumption DEF Seats
      <4> QED
        BY <4>1 DEF Distance
    <3> QED
      BY <1>2, <3>1
  <2>2. PICK d \in D : \A e \in D : d <= e
    <3> HIDE DEF D
    <3> QED
      BY <2>1, LeastExists
  <2>3. \E x \in S : \A y \in S : Distance(from, x) <= Distance(from, y)
    BY <2>2
  <2>4. FirstAfter(S, from, default) \in S
    BY <1>2, <2>3 DEF FirstAfter
  <2> QED
    BY <2>4
<1> QED
  BY <1>1, <1>2
-----------------------------------------------------------------------------
(* Ranked enumerates a finite set of naturals in increasing order: the     *)
(* rank is an injection of S into 1 .. Cardinality(S), hence onto it.      *)
LEMMA RankedExists ==
    ASSUME NEW S, S \subseteq Nat, IsFiniteSet(S), NEW k \in 1 .. Cardinality(S)
    PROVE  /\ Ranked(S, k) \in S
           /\ Cardinality({y \in S : y <= Ranked(S, k)}) = k
<1> DEFINE upTo(x) == {y \in S : y <= x}
           rank == [x \in S |-> Cardinality(upTo(x))]
<1>1. Cardinality(S) \in Nat
  BY FS_CardinalityType
<1>2. ASSUME NEW x \in S
      PROVE  /\ IsFiniteSet(upTo(x)) /\ Cardinality(upTo(x)) \in 1 .. Cardinality(S)
  <2>1. upTo(x) \in SUBSET S /\ x \in upTo(x)
    OBVIOUS
  <2>2. IsFiniteSet(upTo(x)) /\ Cardinality(upTo(x)) <= Cardinality(S)
    <3> HIDE DEF upTo
    <3> QED
      BY <2>1, FS_Subset
  <2>3. Cardinality(upTo(x)) \in Nat /\ Cardinality(upTo(x)) # 0
    <3> HIDE DEF upTo
    <3> QED
      BY <2>1, <2>2, FS_CardinalityType, FS_EmptySet
  <2> QED
    BY <1>1, <2>2, <2>3
<1>3. ASSUME NEW x \in S, NEW y \in S, x < y
      PROVE  Cardinality(upTo(x)) # Cardinality(upTo(y))
  <2>0. \A z \in S : z \in Nat
    OBVIOUS
  <2>1. upTo(x) \in SUBSET upTo(y) /\ y \in upTo(y) /\ y \notin upTo(x)
    <3>1. x \in Nat /\ y \in Nat /\ x < y
      BY <1>3, <2>0
    <3>2. \A z \in S : z <= x => z <= y
      BY <2>0, <3>1
    <3>3. y <= y /\ ~(y <= x)
      BY <3>1
    <3> QED
      BY <3>2, <3>3
  <2>2. IsFiniteSet(upTo(y))
    BY <1>2
  <2> HIDE DEF upTo
  <2> QED
    BY <2>1, <2>2, FS_Subset
<1>4. rank \in Injection(S, 1 .. Cardinality(S))
  <2>1. rank \in [S -> 1 .. Cardinality(S)]
    BY <1>2
  <2>2. ASSUME NEW x \in S, NEW y \in S, rank[x] = rank[y] PROVE x = y
    <3>1. Cardinality(upTo(x)) = Cardinality(upTo(y))
      BY <2>2
    <3>2. ~(x < y) /\ ~(y < x)
      <4> HIDE DEF upTo
      <4> QED
        BY <1>3, <3>1
    <3> QED
      BY <3>2
  <2> HIDE DEF rank
  <2> QED
    BY <2>1, <2>2 DEF Injection, IsInjective
<1>5. rank \in Surjection(S, 1 .. Cardinality(S))
  <2>1. IsFiniteSet(1 .. Cardinality(S))
        /\ Cardinality(1 .. Cardinality(S)) = Cardinality(S)
    BY <1>1, FS_Interval
  <2> HIDE DEF rank
  <2> QED
    BY <1>4, <2>1, FS_Injection
<1>6. \E x \in S : Cardinality(upTo(x)) = k
  BY <1>5 DEF Surjection
<1> QED
  BY <1>6 DEF Ranked

LEMMA RankedIncreases ==
    ASSUME NEW S, S \subseteq Nat, IsFiniteSet(S),
           NEW k \in 1 .. Cardinality(S), NEW j \in 1 .. Cardinality(S), j < k
    PROVE  Ranked(S, j) < Ranked(S, k)
<1> DEFINE upTo(x) == {y \in S : y <= x}
<1>1. Ranked(S, j) \in S /\ Cardinality(upTo(Ranked(S, j))) = j
  BY RankedExists
<1>2. Ranked(S, k) \in S /\ Cardinality(upTo(Ranked(S, k))) = k
  BY RankedExists
<1>0. \A z \in S : z \in Nat
  OBVIOUS
<1> SUFFICES ASSUME Ranked(S, k) <= Ranked(S, j) PROVE FALSE
  <2>1. Ranked(S, k) \in Nat /\ Ranked(S, j) \in Nat
    BY <1>0, <1>1, <1>2
  <2> QED
    BY <2>1
<1>3. upTo(Ranked(S, k)) \in SUBSET upTo(Ranked(S, j))
  <2>1. Ranked(S, k) \in Nat /\ Ranked(S, j) \in Nat
    BY <1>0, <1>1, <1>2
  <2>2. \A z \in S : z <= Ranked(S, k) => z <= Ranked(S, j)
    BY <1>0, <2>1
  <2> QED
    BY <2>2
<1>4. IsFiniteSet(upTo(Ranked(S, j)))
  <2>1. upTo(Ranked(S, j)) \in SUBSET S
    OBVIOUS
  <2> QED
    BY <2>1, FS_Subset
<1>5. k <= j
  <2> HIDE DEF upTo
  <2> QED
    BY <1>1, <1>2, <1>3, <1>4, FS_Subset
<1>6. j \in Int /\ k \in Int
  BY FS_CardinalityType
<1> QED
  BY <1>5, <1>6
-----------------------------------------------------------------------------
(* The distinct positive contributions, the levels of Calculate. *)
Levels(c) == {c[i] : i \in Contributors(c)}

LEMMA LevelsFinite ==
    ASSUME NEW c \in [Seats -> Nat]
    PROVE  /\ IsFiniteSet(Levels(c))
           /\ Cardinality(Levels(c)) \in Nat
           /\ Levels(c) \subseteq Nat \ {0}
<1> DEFINE f == [i \in Contributors(c) |-> c[i]]
<1>1. f \in Surjection(Contributors(c), Levels(c))
  BY DEF Surjection, Levels
<1>2. IsFiniteSet(Contributors(c))
  BY SeatsFinite DEF Contributors
<1>3. IsFiniteSet(Levels(c))
  <2> HIDE DEF f
  <2> QED
    BY <1>1, <1>2, FS_Surjection
<1>4. Levels(c) \subseteq Nat \ {0}
  BY DEF Levels, Contributors
<1> QED
  BY <1>3, <1>4, FS_CardinalityType

(* level(k) of Calculate. *)
Level(c, k) == IF k = 0 THEN 0 ELSE Ranked(Levels(c), k)

LEMMA LevelIncreases ==
    ASSUME NEW c \in [Seats -> Nat], NEW k \in 1 .. Cardinality(Levels(c))
    PROVE  /\ Level(c, k) \in Levels(c)
           /\ Level(c, k) \in Nat /\ Level(c, k - 1) \in Nat
           /\ Level(c, k - 1) < Level(c, k)
<1>1. /\ IsFiniteSet(Levels(c)) /\ Cardinality(Levels(c)) \in Nat
      /\ Levels(c) \subseteq Nat \ {0} /\ Levels(c) \subseteq Nat
  BY LevelsFinite
<1>2. k \in Nat /\ k # 0
  BY <1>1
<1>3. Level(c, k) \in Levels(c) /\ Level(c, k) \in Nat \ {0}
  BY <1>1, <1>2, RankedExists DEF Level
<1>4. CASE k = 1
  BY <1>3, <1>4 DEF Level
<1>5. CASE k # 1
  <2>1. k - 1 \in 1 .. Cardinality(Levels(c)) /\ k - 1 < k /\ k - 1 # 0
    BY <1>1, <1>2, <1>5
  <2>2. Ranked(Levels(c), k - 1) \in Levels(c)
    BY <1>1, <2>1, RankedExists
  <2>3. Ranked(Levels(c), k - 1) < Ranked(Levels(c), k)
    BY <1>1, <2>1, RankedIncreases
  <2> QED
    BY <1>1, <1>2, <1>3, <2>1, <2>2, <2>3 DEF Level
<1> QED
  BY <1>4, <1>5

LEMMA CalculateIsLayers ==
    ASSUME NEW c
    PROVE  Calculate(c) =
             [k \in 1 .. Cardinality(Levels(c)) |->
               [amount   |-> (Level(c, k) - Level(c, k - 1))
                                 * Cardinality({i \in Seats : c[i] >= Level(c, k)}),
                eligible |-> {i \in Seats : c[i] >= Level(c, k)}]]
BY DEF Calculate, Levels, Level

(* Calculate returns pots. *)
LEMMA CalculateType ==
    ASSUME NEW c \in [Seats -> Nat]
    PROVE  Calculate(c) \in Seq(Pot)
<1> DEFINE in(k) == {i \in Seats : c[i] >= Level(c, k)}
           pot(k) == [amount |-> (Level(c, k) - Level(c, k - 1)) * Cardinality(in(k)),
                      eligible |-> in(k)]
<1>1. ASSUME NEW k \in 1 .. Cardinality(Levels(c)) PROVE pot(k) \in Pot
  <2>1. Level(c, k) - Level(c, k - 1) \in Nat
    BY LevelIncreases
  <2>2. in(k) \in SUBSET Seats
    OBVIOUS
  <2>3. Cardinality(in(k)) \in Nat
    <3> HIDE DEF in
    <3> QED
      BY <2>2, SeatsFinite
  <2>4. (Level(c, k) - Level(c, k - 1)) * Cardinality(in(k)) \in Nat
    <3> HIDE DEF in
    <3> QED
      BY <2>1, <2>3
  <2> HIDE DEF in
  <2> QED
    BY <2>2, <2>4 DEF Pot
<1>2. Cardinality(Levels(c)) \in Nat
  BY LevelsFinite
<1>3. [k \in 1 .. Cardinality(Levels(c)) |-> pot(k)] \in Seq(Pot)
  <2> HIDE DEF pot
  <2> QED
    BY <1>1, <1>2
<1> QED
  BY <1>3, CalculateIsLayers

LEMMA PotOf ==
    ASSUME NEW pots \in Seq(Pot), NEW k \in 1 .. Len(pots)
    PROVE  /\ pots[k] \in Pot
           /\ pots[k].amount \in Nat
           /\ pots[k].eligible \in SUBSET Seats
<1>1. pots[k] \in Pot
  OBVIOUS
<1> QED
  BY <1>1 DEF Pot

LEMMA PotAmount ==
    ASSUME NEW q \in Pot, NEW a \in Nat
    PROVE  [q EXCEPT !.amount = a] \in Pot
<1>1. q = [amount |-> q.amount, eligible |-> q.eligible]
  BY DEF Pot
<1>2. [q EXCEPT !.amount = a] = [amount |-> a, eligible |-> q.eligible]
  BY <1>1
<1> QED
  BY <1>1, <1>2 DEF Pot

(* mergePots returns pots. *)
LEMMA mergePotsType ==
    ASSUME NEW existing \in Seq(Pot), NEW newPots \in Seq(Pot)
    PROVE  mergePots(existing, newPots) \in Seq(Pot)
<1>1. CASE existing = << >> \/ newPots = << >>
  BY <1>1 DEF mergePots
<1>2. CASE existing # << >> /\ newPots # << >>
  <2>1. Head(newPots) \in Pot /\ Tail(newPots) \in Seq(Pot)
    BY <1>2
  <2>2. existing[Len(existing)] \in Pot /\ Len(existing) \in 1 .. Len(existing)
    BY <1>2
  <2>3. [existing EXCEPT ![Len(existing)].amount = @ + Head(newPots).amount] \in Seq(Pot)
    <3> DEFINE n == Len(existing)
               p == [existing[n] EXCEPT !.amount = @ + Head(newPots).amount]
    <3>1. p \in Pot
      <4>1. Head(newPots).amount \in Nat
        BY <2>1 DEF Pot
      <4>2. existing[n].amount + Head(newPots).amount \in Nat
        BY <2>2, <4>1 DEF Pot
      <4> QED
        BY <2>2, <4>2, PotAmount
    <3>2. existing \in [1 .. n -> Pot] /\ n \in Nat
      OBVIOUS
    <3>3. [existing EXCEPT ![n] = p] \in [1 .. n -> Pot]
      <4> HIDE DEF p
      <4> QED
        BY <3>1, <3>2
    <3>4. [existing EXCEPT ![n] = p] \in Seq(Pot)
      <4> HIDE DEF p
      <4> QED
        BY <3>2, <3>3
    <3> QED
      BY <3>4
  <2> QED
    BY <1>2, <2>1, <2>3 DEF mergePots
<1> QED
  BY <1>1, <1>2

(* CollectBets keeps the state a state. *)
LEMMA CollectBetsType ==
    ASSUME NEW s \in States
    PROVE  CollectBets(s) \in States
<1>1. mergePots(s.pots, Calculate(s.bet)) \in Seq(Pot)
  BY CalculateType, mergePotsType DEF States
<1> QED
  BY <1>1 DEF CollectBets, States
-----------------------------------------------------------------------------
(* Amounts of the pots. *)
LEMMA TotalType ==
    ASSUME NEW pots \in Seq(Pot)
    PROVE  Total(pots) \in Nat
<1> DEFINE f == [k \in 1 .. Len(pots) |-> pots[k].amount]
<1>1. \A k \in 1 .. Len(pots) : f[k] \in Nat
  BY PotOf
<1>2. 1 \in Int /\ Len(pots) \in Int
  OBVIOUS
<1> HIDE DEF f
<1>3. Sum(f, 1, Len(pots)) \in Nat
  BY <1>1, <1>2, SumType
<1> QED
  BY <1>3 DEF Total, f

(* The rake is a natural, at most the cap and at most the pots. *)
LEMMA RakeType ==
    ASSUME NEW pots \in Seq(Pot), NEW street
    PROVE  /\ CalculateRake(pots, street) \in Nat
           /\ CalculateRake(pots, street) <= RakeCap
           /\ CalculateRake(pots, street) <= Total(pots)
<1> DEFINE r == (Total(pots) * RakePercent) \div 100
<1>1. Total(pots) \in Nat
  BY TotalType
<1>2. RakePercent \in 0 .. 100 /\ RakeCap \in Nat
  BY RakeAssumption
<1>3. Total(pots) * RakePercent \in Nat
  BY <1>1, <1>2
<1>4. Total(pots) * RakePercent <= Total(pots) * 100
  BY <1>1, <1>2
<1>5. r \in Nat /\ r <= Total(pots)
  BY <1>1, <1>3, <1>4
<1> HIDE DEF r
<1>6. Lesser(r, RakeCap) \in Nat /\ Lesser(r, RakeCap) <= RakeCap /\ Lesser(r, RakeCap) <= r
  BY <1>2, <1>5 DEF Lesser
<1> QED
  BY <1>1, <1>2, <1>5, <1>6 DEF CalculateRake, r

LEMMA ApplyRakeType ==
    ASSUME NEW pots \in Seq(Pot), NEW rake \in Nat
    PROVE  ApplyRake(pots, rake) \in Seq(Pot)
<1> DEFINE amount == [k \in 1 .. Len(pots) |-> pots[k].amount]
           left(k) == rake - Sum(amount, k + 1, Len(pots))
           take(k) == IF left(k) <= 0 THEN pots[k].amount
                      ELSE pots[k].amount - Lesser(left(k), pots[k].amount)
<1>1. ASSUME NEW k \in 1 .. Len(pots)
      PROVE  [pots[k] EXCEPT !.amount = take(k)] \in Pot
  <2>1. \A i \in k + 1 .. Len(pots) : amount[i] \in Nat
    <3> SUFFICES ASSUME NEW i \in k + 1 .. Len(pots) PROVE amount[i] \in Nat
      OBVIOUS
    <3>1. i \in 1 .. Len(pots)
      OBVIOUS
    <3> QED
      BY <3>1, PotOf
  <2>2. Sum(amount, k + 1, Len(pots)) \in Nat
    <3> HIDE DEF amount
    <3> QED
      BY <2>1, SumType
  <2>3. left(k) \in Int
    <3> HIDE DEF amount
    <3> QED
      BY <2>2
  <2>4. pots[k] \in Pot /\ pots[k].amount \in Nat
    BY PotOf
  <2>5. take(k) \in Nat
    <3> HIDE DEF left
    <3> QED
      BY <2>3, <2>4 DEF Lesser
  <2> HIDE DEF take
  <2> QED
    BY <2>4, <2>5, PotAmount
<1>2. ApplyRake(pots, rake) =
        [k \in 1 .. Len(pots) |-> [pots[k] EXCEPT !.amount = take(k)]]
  BY DEF ApplyRake
<1>3. Len(pots) \in Nat
  OBVIOUS
<1> DEFINE raked == [k \in 1 .. Len(pots) |-> [pots[k] EXCEPT !.amount = take(k)]]
<1>4. raked \in [1 .. Len(pots) -> Pot]
  <2> HIDE DEF take
  <2> QED
    BY <1>1
<1> HIDE DEF raked
<1>5. raked \in Seq(Pot)
  BY <1>3, <1>4
<1> QED
  BY <1>2, <1>5 DEF raked
-----------------------------------------------------------------------------
(* The betting actions keep the state a state when ValidateAction lets     *)
(* them through.                                                           *)
LEMMA BetSizeType ==
    ASSUME NEW s \in States
    PROVE  /\ BetSizeForStreet(s) \in Nat
           /\ SmallBet \in Nat /\ BigBet \in Nat /\ BigBlind \in Nat
<1>1. SmallBet \in Nat /\ BigBet \in Nat /\ BigBlind \in Nat
  BY BettingAssumption DEF SmallBet, BigBet, BigBlind
<1>2. s.street \in Street
  BY DEF States
<1> QED
  BY <1>1, <1>2 DEF BetSizeForStreet, Street

LEMMA FoldType ==
    ASSUME NEW s \in States
    PROVE  Fold(s) \in States
BY DEF Fold, States, PlayerStatus

LEMMA CallType ==
    ASSUME NEW s \in States, MayCall(s)
    PROVE  Call(s) \in States
<1> DEFINE p == s.activePlayer
           owed == s.currentBet - s.bet[p]
           amount == IF owed >= s.stack[p] THEN s.stack[p] ELSE owed
           stack == [s.stack EXCEPT ![p] = @ - amount]
           bet == [s.bet EXCEPT ![p] = @ + amount]
           status == [s.status EXCEPT ![p] = IF owed >= s.stack[p] THEN "allin" ELSE @]
<1>1. /\ p \in Seats /\ s.stack[p] \in Nat /\ s.bet[p] \in Nat /\ s.currentBet \in Nat
      /\ s.stack \in [Seats -> Nat] /\ s.bet \in [Seats -> Nat]
      /\ s.status \in [Seats -> PlayerStatus] /\ s.status[p] \in PlayerStatus
  BY DEF States
<1>2. s.stack[p] - amount \in Nat /\ s.bet[p] + amount \in Nat
  BY <1>1
<1>3. stack \in [Seats -> Nat] /\ bet \in [Seats -> Nat]
  <2> HIDE DEF amount
  <2> QED
    BY <1>1, <1>2
<1>4. status \in [Seats -> PlayerStatus]
  BY <1>1 DEF PlayerStatus
<1>5. Call(s) = [s EXCEPT !.stack = stack, !.bet = bet, !.status = status]
  BY DEF Call
<1> HIDE DEF stack, bet, status
<1> QED
  BY <1>3, <1>4, <1>5 DEF States

LEMMA RaiseType ==
    ASSUME NEW s \in States, MayRaise(s)
    PROVE  Raise(s) \in States
<1> DEFINE p == s.activePlayer
           amount == RaiseTo(s) - s.bet[p]
           stack == [s.stack EXCEPT ![p] = @ - amount]
           bet == [s.bet EXCEPT ![p] = RaiseTo(s)]
           status == [s.status EXCEPT ![p] = IF s.stack[p] = amount THEN "allin" ELSE @]
<1>1. /\ p \in Seats /\ s.stack[p] \in Nat /\ s.bet[p] \in Nat /\ s.raises \in Nat
      /\ s.stack \in [Seats -> Nat] /\ s.bet \in [Seats -> Nat]
      /\ s.status \in [Seats -> PlayerStatus] /\ s.status[p] \in PlayerStatus
  BY DEF States
<1>2. RaiseTo(s) \in Nat
  <2>1. BetSizeForStreet(s) \in Nat
    BY BetSizeType
  <2>2. s.currentBet \in Nat
    BY DEF States
  <2> QED
    BY <2>1, <2>2 DEF RaiseTo
<1>3. s.stack[p] - amount \in Nat
  BY <1>1, <1>2 DEF MayRaise
<1>4. stack \in [Seats -> Nat] /\ bet \in [Seats -> Nat]
  <2> HIDE DEF amount
  <2> QED
    BY <1>1, <1>2, <1>3
<1>5. status \in [Seats -> PlayerStatus]
  BY <1>1 DEF PlayerStatus
<1>6. Raise(s) = [s EXCEPT !.stack = stack, !.bet = bet, !.currentBet = RaiseTo(s),
                           !.raises = @ + 1, !.status = status]
  BY DEF Raise
<1>7. s.raises + 1 \in Nat
  BY <1>1
<1> HIDE DEF stack, bet, status
<1> QED
  BY <1>2, <1>4, <1>5, <1>6, <1>7 DEF States

LEMMA AdvanceEventSequenceType ==
    ASSUME NEW s \in States
    PROVE  AdvanceEventSequence(s) \in States
<1>1. s.eventSequence + 1 \in Nat
  BY DEF States
<1> QED
  BY <1>1 DEF AdvanceEventSequence, States

LEMMA PassTurnType ==
    ASSUME NEW s \in States
    PROVE  [s EXCEPT !.activePlayer = NextActivePlayer(s)] \in States
<1>1. PlayersWhoCanAct(s) \in SUBSET Seats /\ s.activePlayer \in Seats
  BY DEF PlayersWhoCanAct, States
<1>2. NextActivePlayer(s) \in Seats
  BY <1>1, FirstAfterType DEF NextActivePlayer
<1> QED
  BY <1>2 DEF States

LEMMA advanceStreetType ==
    ASSUME NEW s \in States, CanDeal(s)
    PROVE  advanceStreet(s) \in States
<1> DEFINE c == CollectBets(s)
<1>1. c \in States /\ c.deck = s.deck
  BY CollectBetsType DEF CollectBets, States
<1>2. FirstActiveAfterButton(c) \in Seats
  <2>1. ActivePlayers(c) \in SUBSET Seats /\ c.button \in Seats
    <3> HIDE DEF c
    <3> QED
      BY <1>1 DEF ActivePlayers, States
  <2> HIDE DEF c
  <2> QED
    BY <2>1, FirstAfterType DEF FirstActiveAfterButton
<1>3. /\ s.street \in Street
      /\ c.board \in Nat /\ c.deck \in Nat
  <2> HIDE DEF c
  <2> QED
    BY <1>1 DEF States
<1>4. NextStreet(s.street) \in Street
  BY <1>3 DEF NextStreet, Street
<1>5. CardsToDeal(s.street) \in Nat
  BY <1>3 DEF CardsToDeal, Street
<1>6. c.board + CardsToDeal(s.street) \in Nat /\ c.deck - CardsToDeal(s.street) \in Nat
  <2> HIDE DEF c
  <2> QED
    BY <1>1, <1>3, <1>5 DEF CanDeal
<1> HIDE DEF c
<1> QED
  BY <1>1, <1>2, <1>4, <1>6 DEF advanceStreet, c, States
-----------------------------------------------------------------------------
(* StartHand.Execute builds a state from stacks that cover the blinds. *)
LEMMA BlindIndexType ==
    ASSUME NEW button \in Seats
    PROVE  /\ SmallBlindIndex(button) \in Seats
           /\ BigBlindIndex(button) \in Seats
           /\ SmallBlindIndex(button) # BigBlindIndex(button)
<1>1. N \in Nat /\ N >= 2 /\ button \in 0 .. N - 1
  BY TableAssumption DEF Seats
<1>2. ASSUME NEW k \in 1 .. 2
      PROVE  /\ Clockwise(button, k) \in Seats
             /\ Clockwise(button, k) = IF button + k < N THEN button + k ELSE button + k - N
  <2>1. button + k \in Nat /\ button + k < 2 * N /\ button + k - N \in Int
    BY <1>1
  <2>2. CASE button + k < N
    BY <1>1, <2>1, <2>2 DEF Clockwise, Seats
  <2>3. CASE button + k >= N
    <3>1. (button + k) % N = button + k - N
      BY <1>1, <2>1, <2>3
    <3> QED
      BY <1>1, <2>1, <2>3, <3>1 DEF Clockwise, Seats
  <2> QED
    BY <1>1, <2>1, <2>2, <2>3
<1>3. CASE N = 2
  <2>1. SmallBlindIndex(button) = button /\ BigBlindIndex(button) = Clockwise(button, 1)
    BY <1>3 DEF SmallBlindIndex, BigBlindIndex
  <2> QED
    BY <1>1, <1>2, <1>3, <2>1
<1>4. CASE N # 2
  <2>1. /\ SmallBlindIndex(button) = Clockwise(button, 1)
        /\ BigBlindIndex(button) = Clockwise(button, 2)
    BY <1>4 DEF SmallBlindIndex, BigBlindIndex
  <2> QED
    BY <1>1, <1>2, <1>4, <2>1
<1> QED
  BY <1>3, <1>4

LEMMA NewHandType ==
    ASSUME NEW stacks \in [Seats -> Nat], NEW button \in Seats,
           CanPostBlinds(stacks, button), 2 * N <= DeckSize
    PROVE  NewHand(stacks, button) \in States
<1> DEFINE blinds == postBlinds(button)
           bb == BigBlindIndex(button)
           left == [i \in Seats |-> stacks[i] - blinds[i]]
<1>1. SmallBlind \in Nat /\ BigBlind \in Nat
  BY BettingAssumption DEF BigBlind
<1>2. blinds \in [Seats -> Nat]
  BY <1>1 DEF postBlinds
<1>3. ASSUME NEW i \in Seats PROVE stacks[i] - blinds[i] \in Nat
  <2>1. stacks[i] \in Nat
    OBVIOUS
  <2>2. stacks[i] >= blinds[i]
    BY <1>1, <2>1 DEF postBlinds, CanPostBlinds
  <2> HIDE DEF blinds
  <2> QED
    BY <1>2, <2>1, <2>2
<1>4. left \in [Seats -> Nat]
  <2> HIDE DEF blinds
  <2> QED
    BY <1>3
<1>5. bb \in Seats
  BY BlindIndexType
<1>6. FirstAfter({i \in Seats : left[i] > 0}, bb, bb) \in Seats
  <2>1. {i \in Seats : left[i] > 0} \in SUBSET Seats
    OBVIOUS
  <2> HIDE DEF left, bb
  <2> QED
    BY <1>5, <2>1, FirstAfterType
<1>7. DeckSize - 2 * N \in Nat
  BY DeckAssumption, TableAssumption
<1>8. << >> \in Seq(Pot) /\ [i \in Seats |-> "active"] \in [Seats -> PlayerStatus]
  BY DEF PlayerStatus
<1>9. NewHand(stacks, button) =
        [stack |-> left, status |-> [i \in Seats |-> "active"], bet |-> blinds,
         pots |-> << >>, street |-> "preflop", currentBet |-> BigBlind,
         activePlayer |-> FirstAfter({i \in Seats : left[i] > 0}, bb, bb),
         button |-> button, eventSequence |-> 1, raises |-> 0, board |-> 0,
         deck |-> DeckSize - 2 * N]
  BY DEF NewHand
<1> HIDE DEF left, blinds, bb
<1> QED
  BY <1>1, <1>2, <1>4, <1>6, <1>7, <1>8, <1>9 DEF States, Street
-----------------------------------------------------------------------------
(* FinishHand.Execute ends in a state and pays naturals. *)
LEMMA RakedHandType ==
    ASSUME NEW s \in States
    PROVE  RakedHand(s) \in States
<1> DEFINE c == CollectBets(s)
           pots == ApplyRake(c.pots, CalculateRake(c.pots, s.street))
<1>1. c \in States
  BY CollectBetsType
<1>2. c.pots \in Seq(Pot)
  <2> HIDE DEF c
  <2> QED
    BY <1>1 DEF States
<1>3. pots \in Seq(Pot)
  <2> HIDE DEF c
  <2> QED
    BY <1>2, RakeType, ApplyRakeType
<1>4. [c EXCEPT !.pots = pots] \in States
  <2> HIDE DEF c, pots
  <2> QED
    BY <1>1, <1>3 DEF States
<1>5. RakedHand(s) = AdvanceEventSequence([c EXCEPT !.pots = pots])
  BY DEF RakedHand
<1> HIDE DEF c, pots
<1> QED
  BY <1>4, <1>5, AdvanceEventSequenceType

LEMMA WinningsType ==
    ASSUME NEW s \in States, NEW rank, NEW oddChips
    PROVE  Winnings(s, rank, oddChips) \in [Seats -> Nat]
<1> DEFINE winners(k) == bestHandsInPot(s.pots[k], rank)
           share(k, i) == IF i \notin winners(k) THEN 0
                          ELSE s.pots[k].amount \div Cardinality(winners(k))
                                   + (IF i \in oddChips[k] THEN 1 ELSE 0)
           shares(i) == [k \in 1 .. Len(s.pots) |-> share(k, i)]
<1>1. s.pots \in Seq(Pot)
  BY DEF States
<1>2. ASSUME NEW i \in Seats, NEW k \in 1 .. Len(s.pots)
      PROVE  share(k, i) \in Nat
  <2>1. s.pots[k].amount \in Nat /\ s.pots[k].eligible \in SUBSET Seats
    BY <1>1, PotOf
  <2>2. winners(k) \in SUBSET Seats
    BY <2>1 DEF bestHandsInPot
  <2>3. IsFiniteSet(winners(k)) /\ Cardinality(winners(k)) \in Nat
    <3> HIDE DEF winners
    <3> QED
      BY <2>2, SeatsFinite
  <2>4. CASE i \in winners(k)
    <3>1. Cardinality(winners(k)) # 0
      <4> HIDE DEF winners
      <4> QED
        BY <2>3, <2>4, FS_EmptySet
    <3>2. s.pots[k].amount \div Cardinality(winners(k)) \in Nat
      <4> HIDE DEF winners
      <4> QED
        BY <2>1, <2>3, <3>1
    <3> HIDE DEF winners
    <3> QED
      BY <2>4, <3>2
  <2>5. CASE i \notin winners(k)
    <3> HIDE DEF winners
    <3> QED
      BY <2>5
  <2> QED
    BY <2>4, <2>5
<1>3. ASSUME NEW i \in Seats PROVE Sum(shares(i), 1, Len(s.pots)) \in Nat
  <2>1. \A k \in 1 .. Len(s.pots) : shares(i)[k] \in Nat
    <3> HIDE DEF share
    <3> QED
      BY <1>2
  <2>2. Len(s.pots) \in Int
    BY <1>1
  <2> HIDE DEF shares
  <2> QED
    BY <2>1, <2>2, SumType
<1>4. Total(s.pots) \in Nat
  BY <1>1, TotalType
<1>5. Winnings(s, rank, oddChips) =
        [i \in Seats |->
            IF Cardinality(ActivePlayers(s)) = 1
            THEN IF i \in ActivePlayers(s) THEN Total(s.pots) ELSE 0
            ELSE Sum(shares(i), 1, Len(s.pots))]
  BY DEF Winnings
<1> HIDE DEF shares
<1> QED
  BY <1>3, <1>4, <1>5

LEMMA AwardType ==
    ASSUME NEW s \in States, NEW winnings \in [Seats -> Nat]
    PROVE  Award(s, winnings) \in States
<1> DEFINE stack == [i \in Seats |-> s.stack[i] + winnings[i]]
<1>1. stack \in [Seats -> Nat]
  BY SMTT(40) DEF States
<1>2. Award(s, winnings) = [s EXCEPT !.stack = stack, !.street = "showdown"]
  BY DEF Award
<1> HIDE DEF stack
<1> QED
  BY <1>1, <1>2 DEF States, Street
-----------------------------------------------------------------------------
(* Calculate: the layers hold exactly the bets. *)

(* Every element of a finite set of naturals is one of the ranked ones. *)
LEMMA RankedOnto ==
    ASSUME NEW S, S \subseteq Nat, IsFiniteSet(S), NEW x \in S
    PROVE  \E j \in 1 .. Cardinality(S) : Ranked(S, j) = x
<1> DEFINE upTo(z) == {y \in S : y <= z}
           j == Cardinality(upTo(x))
<1>1. \A z \in S : z \in Nat
  OBVIOUS
<1>2. upTo(x) \in SUBSET S /\ x \in upTo(x)
  BY <1>1
<1>3. j \in 1 .. Cardinality(S)
  <2> HIDE DEF upTo
  <2>1. IsFiniteSet(upTo(x)) /\ Cardinality(upTo(x)) <= Cardinality(S)
    BY <1>2, FS_Subset
  <2>2. Cardinality(upTo(x)) \in Nat /\ Cardinality(upTo(x)) # 0 /\ Cardinality(S) \in Nat
    BY <1>2, <2>1, FS_CardinalityType, FS_EmptySet
  <2> QED
    BY <2>1, <2>2
<1> DEFINE r == Ranked(S, j)
<1>4. r \in S /\ Cardinality(upTo(r)) = j
  <2> HIDE DEF j
  <2> QED
    BY <1>3, RankedExists
<1>5. ASSUME NEW y \in S, NEW z \in S, y < z
      PROVE  Cardinality(upTo(y)) # Cardinality(upTo(z))
  <2>1. y \in Nat /\ z \in Nat
    BY <1>1
  <2>2. upTo(y) \in SUBSET upTo(z)
    <3>1. \A w \in S : w <= y => w <= z
      BY <1>1, <1>5, <2>1
    <3> QED
      BY <3>1
  <2>3. z \in upTo(z) /\ z \notin upTo(y)
    BY <1>5, <2>1
  <2>4. IsFiniteSet(upTo(z))
    <3>1. upTo(z) \in SUBSET S
      OBVIOUS
    <3> HIDE DEF upTo
    <3> QED
      BY <3>1, FS_Subset
  <2> HIDE DEF upTo
  <2> QED
    BY <2>2, <2>3, <2>4, FS_Subset
<1>6. ~(r < x) /\ ~(x < r)
  <2> HIDE DEF upTo, r
  <2> QED
    BY <1>4, <1>5 DEF j
<1>7. r = x
  <2> HIDE DEF r
  <2> QED
    BY <1>1, <1>4, <1>6
<1> HIDE DEF j
<1> QED
  BY <1>3, <1>7

LEMMA LevelOnto ==
    ASSUME NEW c \in [Seats -> Nat], NEW i \in Seats, c[i] > 0
    PROVE  \E j \in 1 .. Cardinality(Levels(c)) : Level(c, j) = c[i]
<1>1. /\ IsFiniteSet(Levels(c)) /\ Levels(c) \subseteq Nat
      /\ Cardinality(Levels(c)) \in Nat
  BY LevelsFinite
<1>2. c[i] \in Levels(c)
  BY DEF Levels, Contributors
<1>3. PICK j \in 1 .. Cardinality(Levels(c)) : Ranked(Levels(c), j) = c[i]
  BY <1>1, <1>2, RankedOnto
<1>4. j # 0
  BY <1>1
<1> QED
  BY <1>3, <1>4 DEF Level

LEMMA LevelMonotone ==
    ASSUME NEW c \in [Seats -> Nat], NEW j \in 1 .. Cardinality(Levels(c)),
           NEW k \in 1 .. Cardinality(Levels(c)), j <= k
    PROVE  Level(c, j) <= Level(c, k)
<1>1. /\ IsFiniteSet(Levels(c)) /\ Levels(c) \subseteq Nat
      /\ Cardinality(Levels(c)) \in Nat
  BY LevelsFinite
<1>2. j # 0 /\ k # 0 /\ j \in Int /\ k \in Int
  BY <1>1
<1>3. Level(c, j) \in Nat /\ Level(c, k) \in Nat
  BY LevelIncreases
<1>4. CASE j = k
  BY <1>3, <1>4
<1>5. CASE j < k
  <2>1. Ranked(Levels(c), j) < Ranked(Levels(c), k)
    BY <1>1, <1>5, RankedIncreases
  <2> QED
    BY <1>2, <1>3, <2>1 DEF Level
<1> QED
  BY <1>2, <1>4, <1>5

(* What the first n layers take of seat i's bet is the smaller of the bet  *)
(* and the n-th level; all layers together take the bet.                   *)
LEMMA LayersOfABet ==
    ASSUME NEW c \in [Seats -> Nat], NEW i \in Seats, NEW g,
           \A k \in 1 .. Cardinality(Levels(c)) :
               g[k] = IF c[i] >= Level(c, k) THEN Level(c, k) - Level(c, k - 1) ELSE 0
    PROVE  Sum(g, 1, Cardinality(Levels(c))) = c[i]
<1> DEFINE m == Cardinality(Levels(c))
           S == {n \in 0 .. m : Sum(g, 1, n) = Lesser(c[i], Level(c, n))}
<1>1. m \in Nat /\ c[i] \in Nat
  BY LevelsFinite
<1> HIDE DEF m
<1>2. ASSUME NEW k \in 1 .. m
      PROVE  /\ Level(c, k) \in Nat /\ Level(c, k - 1) \in Nat
             /\ Level(c, k - 1) < Level(c, k)
  BY LevelIncreases DEF m
<1>3. 1 - 1 \in S
  <2>1. Level(c, 0) = 0 /\ Sum(g, 1, 0) = 0
    BY SumEmpty DEF Level
  <2> QED
    BY <1>1, <2>1 DEF Lesser
<1>4. ASSUME NEW n \in 1 .. m, n - 1 \in S PROVE n \in S
  <2>1. Sum(g, 1, n) = Sum(g, 1, n - 1) + g[n]
    BY <1>1, SumStep
  <2>2. Sum(g, 1, n - 1) = Lesser(c[i], Level(c, n - 1))
    BY <1>4
  <2>3. g[n] = IF c[i] >= Level(c, n) THEN Level(c, n) - Level(c, n - 1) ELSE 0
    BY DEF m
  <2>4. c[i] < Level(c, n) => c[i] <= Level(c, n - 1)
    <3> SUFFICES ASSUME c[i] < Level(c, n), c[i] > 0 PROVE c[i] <= Level(c, n - 1)
      BY <1>1, <1>2
    <3>1. PICK j \in 1 .. m : Level(c, j) = c[i]
      BY LevelOnto DEF m
    <3>2. ~(n <= j)
      <4> SUFFICES ASSUME n <= j PROVE FALSE
        OBVIOUS
      <4>1. Level(c, n) <= Level(c, j)
        BY LevelMonotone DEF m
      <4> QED
        BY <1>1, <1>2, <3>1, <4>1
    <3>3. n - 1 \in 1 .. m /\ j <= n - 1
      BY <1>1, <3>2
    <3> QED
      BY <3>1, <3>3, LevelMonotone DEF m
  <2>5. Sum(g, 1, n) = Lesser(c[i], Level(c, n))
    BY <1>1, <1>2, <2>1, <2>2, <2>3, <2>4 DEF Lesser
  <2> QED
    BY <1>1, <2>5
<1>5. \A n \in (1 - 1) .. m : n \in S
  <2>1. 1 \in Int /\ m \in Int
    BY <1>1
  <2> HIDE DEF S
  <2> QED
    BY <1>3, <1>4, <2>1, RangeInduction
<1>6. m \in S
  <2>1. m \in (1 - 1) .. m
    BY <1>1
  <2> HIDE DEF S
  <2> QED
    BY <1>5, <2>1
<1>7. c[i] <= Level(c, m)
  <2>1. CASE c[i] = 0
    <3>1. Level(c, m) \in Nat
      <4>1. CASE m = 0
        BY <4>1 DEF Level
      <4>2. CASE m # 0
        BY <1>1, <1>2, <4>2
      <4> QED
        BY <4>1, <4>2
    <3> QED
      BY <2>1, <3>1
  <2>2. CASE c[i] > 0
    <3>1. PICK j \in 1 .. m : Level(c, j) = c[i]
      BY <2>2, LevelOnto DEF m
    <3>2. m \in 1 .. m /\ j <= m
      BY <1>1
    <3> QED
      BY <3>1, <3>2, LevelMonotone DEF m
  <2> QED
    BY <1>1, <2>1, <2>2
<1> QED
  BY <1>6, <1>7 DEF Lesser, m

(* What comes after the first of two concatenated sequences. *)
LEMMA ConcatTail ==
    ASSUME NEW S, NEW a \in Seq(S), NEW b \in Seq(S), NEW i \in 1 .. Len(b)
    PROVE  (a \o b)[Len(a) + i] = b[i]
OBVIOUS

(* The pots of Calculate add up to the bets they were made of. *)
LEMMA CalculateTotal ==
    ASSUME NEW c \in [Seats -> Nat]
    PROVE  Total(Calculate(c)) = Sum(c, 0, N - 1)
<1> DEFINE m == Cardinality(Levels(c))
           in(k) == {i \in Seats : c[i] >= Level(c, k)}
           d(k) == Level(c, k) - Level(c, k - 1)
           a == [k \in 1 .. m |-> [i \in Seats |-> IF i \in in(k) THEN d(k) ELSE 0]]
           b == [i \in Seats |-> [k \in 1 .. m |-> a[k][i]]]
           row == [k \in 1 .. m |-> d(k) * Cardinality(in(k))]
<1>1. m \in Nat /\ N - 1 \in Int /\ 0 <= (N - 1) + 1 /\ Seats = 0 .. N - 1
  BY LevelsFinite, TableAssumption DEF Seats
<1>2. \A k \in 1 .. m : d(k) \in Int
  BY LevelIncreases
<1> HIDE DEF m
<1>3. ASSUME NEW k \in 1 .. m PROVE row[k] = Sum(a[k], 0, N - 1)
  <2>1. in(k) \subseteq 0 .. N - 1
    BY <1>1
  <2>2. \A i \in 0 .. N - 1 : a[k][i] = IF i \in in(k) THEN d(k) ELSE 0
    BY <1>1
  <2>3. row[k] = d(k) * Cardinality(in(k)) /\ d(k) \in Int
    BY <1>2
  <2> HIDE DEF a, in, d, row
  <2>4. PerMember(a[k], in(k), d(k), 0, N - 1)
    BY <1>1, <2>1, <2>2, <2>3 DEF PerMember
  <2>5. Sum(a[k], 0, N - 1) = d(k) * Cardinality(in(k))
    BY <2>4, SumOfMembers
  <2> QED
    BY <2>3, <2>5
<1>4. ASSUME NEW i \in 0 .. N - 1 PROVE c[i] = Sum(b[i], 1, m)
  <2>1. i \in Seats
    BY <1>1
  <2>2. \A k \in 1 .. m :
          b[i][k] = IF c[i] >= Level(c, k) THEN Level(c, k) - Level(c, k - 1) ELSE 0
    BY <2>1
  <2> HIDE DEF b
  <2> QED
    BY <2>1, <2>2, LayersOfABet DEF m
<1>5. \A k \in 1 .. m : \A i \in 0 .. N - 1 : a[k][i] \in Int /\ b[i][k] = a[k][i]
  <2> SUFFICES ASSUME NEW k \in 1 .. m, NEW i \in 0 .. N - 1
               PROVE  a[k][i] \in Int /\ b[i][k] = a[k][i]
    OBVIOUS
  <2>1. d(k) \in Int /\ i \in Seats
    BY <1>1, <1>2
  <2> HIDE DEF d, in
  <2> QED
    BY <2>1
<1>6. Sum(row, 1, m) = Sum(c, 0, N - 1)
  <2>1. \A k \in 1 .. m : row[k] = Sum(a[k], 0, N - 1)
    BY <1>3
  <2>2. \A i \in 0 .. N - 1 : c[i] = Sum(b[i], 1, m)
    BY <1>4
  <2>3. 0 \in Int /\ m \in Nat /\ N - 1 \in Int /\ 0 <= (N - 1) + 1
    BY <1>1
  <2> HIDE DEF a, b, row
  <2>4. Tabulated(a, b, row, c, m, 0, N - 1)
    BY <1>5, <2>1, <2>2, <2>3 DEF Tabulated
  <2> QED
    BY <2>4, SumByRowsAndColumns
<1>7. Calculate(c) = [k \in 1 .. m |-> [amount |-> d(k) * Cardinality(in(k)), eligible |-> in(k)]]
  BY CalculateIsLayers DEF m
<1>8. Total(Calculate(c)) = Sum(row, 1, m)
  <2> DEFINE pots == Calculate(c)
             f == [k \in 1 .. Len(pots) |-> pots[k].amount]
  <2>1. Len(pots) = m
    BY <1>1, <1>7
  <2>2. ASSUME NEW k \in 1 .. m PROVE f[k] = row[k]
    <3>1. f[k] = pots[k].amount
      BY <2>1
    <3>2. pots[k].amount = d(k) * Cardinality(in(k))
      <4> HIDE DEF d, in
      <4> QED
        BY <1>7
    <3> QED
      BY <3>1, <3>2
  <2>3. Total(pots) = Sum(f, 1, m)
    BY <2>1 DEF Total
  <2> HIDE DEF f, row
  <2>4. Sum(f, 1, m) = Sum(row, 1, m)
    BY <1>1, <2>2, SumEqual
  <2> QED
    BY <2>3, <2>4
<1> QED
  BY <1>6, <1>8
-----------------------------------------------------------------------------
(* mergePots: the existing pots stay, the last of them takes the first new *)
(* pot, and the other new pots follow.                                     *)
LEMMA mergePotsAt ==
    ASSUME NEW existing \in Seq(Pot), NEW newPots \in Seq(Pot),
           existing # << >>, newPots # << >>
    PROVE  LET merged == mergePots(existing, newPots)
               e == Len(existing)
           IN  /\ Len(merged) = e + Len(newPots) - 1
               /\ \A k \in 1 .. e : merged[k].eligible = existing[k].eligible
               /\ \A k \in 1 .. e - 1 : merged[k].amount = existing[k].amount
               /\ merged[e].amount = existing[e].amount + newPots[1].amount
               /\ \A j \in 2 .. Len(newPots) : merged[e + j - 1] = newPots[j]
<1> DEFINE e == Len(existing)
           p == [existing[e] EXCEPT !.amount = @ + Head(newPots).amount]
           updated == [existing EXCEPT ![e] = p]
           merged == mergePots(existing, newPots)
<1>1. /\ existing \in [1 .. e -> Pot] /\ e \in Nat /\ e \in 1 .. e /\ Len(newPots) \in Nat
      /\ Head(newPots) = newPots[1] /\ newPots[1] \in Pot /\ existing[e] \in Pot
      /\ Tail(newPots) \in Seq(Pot) /\ Len(Tail(newPots)) = Len(newPots) - 1
      /\ Len(newPots) >= 1
  OBVIOUS
<1>2. /\ p.amount = existing[e].amount + newPots[1].amount
      /\ p.eligible = existing[e].eligible /\ p \in Pot
  <2>1. existing[e].amount + Head(newPots).amount \in Nat
    BY <1>1 DEF Pot
  <2> QED
    BY <1>1, <2>1 DEF Pot
<1>3. merged = updated \o Tail(newPots)
  BY DEF mergePots
<1> HIDE DEF p
<1>4. updated \in Seq(Pot) /\ Len(updated) = e
  <2>1. updated \in [1 .. e -> Pot]
    BY <1>1, <1>2
  <2> HIDE DEF updated, e
  <2> QED
    BY <1>1, <2>1
<1>5. \A k \in 1 .. e : updated[k] = IF k = e THEN p ELSE existing[k]
  BY <1>1
<1> HIDE DEF merged, updated, e
<1>6. Len(merged) = e + Len(newPots) - 1
  <2>1. Len(updated \o Tail(newPots)) = Len(updated) + Len(Tail(newPots))
    BY <1>1, <1>4
  <2> QED
    BY <1>1, <1>3, <1>4, <2>1
<1>7. \A k \in 1 .. e : merged[k] = updated[k]
  BY <1>1, <1>3, <1>4
<1>8. ASSUME NEW j \in 2 .. Len(newPots) PROVE merged[e + j - 1] = newPots[j]
  <2>1. /\ e + j - 1 \in (e + 1) .. (e + Len(Tail(newPots)))
        /\ (e + j - 1) - e \in 1 .. Len(Tail(newPots))
        /\ (e + j - 1) - e = j - 1
    BY <1>1
  <2>2. merged[e + j - 1] = Tail(newPots)[j - 1]
    <3>1. (updated \o Tail(newPots))[Len(updated) + (j - 1)] = Tail(newPots)[j - 1]
      <4>1. j - 1 \in 1 .. Len(Tail(newPots)) /\ Tail(newPots) \in Seq(Pot)
        BY <1>1, <2>1
      <4>2. updated \in Seq(Pot)
        BY <1>4
      <4> HIDE DEF e
      <4> QED
        BY <4>1, <4>2, ConcatTail
    <3>2. Len(updated) + (j - 1) = e + j - 1
      BY <1>1, <1>4
    <3> QED
      BY <1>3, <3>1, <3>2
  <2>3. Tail(newPots)[j - 1] = newPots[j]
    BY <1>1, <2>1
  <2> QED
    BY <2>2, <2>3
<1>9. ASSUME NEW k \in 1 .. e
      PROVE  /\ merged[k].eligible = existing[k].eligible
             /\ k # e => merged[k].amount = existing[k].amount
             /\ k = e => merged[k].amount = existing[k].amount + newPots[1].amount
  BY <1>2, <1>5, <1>7
<1>10. \A k \in 1 .. e - 1 : k \in 1 .. e /\ k # e
  BY <1>1
<1> QED
  BY <1>1, <1>6, <1>8, <1>9, <1>10 DEF merged, e

(* mergePots takes no claim to a pot away, and every pot it returns is     *)
(* claimed by the players of an existing or of a new pot.                  *)
LEMMA mergePotsEligible ==
    ASSUME NEW existing \in Seq(Pot), NEW newPots \in Seq(Pot)
    PROVE  LET merged == mergePots(existing, newPots)
           IN  /\ Len(existing) <= Len(merged)
               /\ \A k \in 1 .. Len(existing) : merged[k].eligible = existing[k].eligible
               /\ \A k \in 1 .. Len(merged) :
                     \/ k \in 1 .. Len(existing)
                     \/ \E j \in 1 .. Len(newPots) : merged[k].eligible = newPots[j].eligible
<1> DEFINE merged == mergePots(existing, newPots)
           e == Len(existing)
<1>0. e \in Nat /\ Len(newPots) \in Nat
  OBVIOUS
<1>1. CASE existing = << >>
  <2>1. merged = newPots /\ e = 0
    BY <1>1 DEF mergePots
  <2> QED
    BY <1>0, <2>1
<1>2. CASE existing # << >> /\ newPots = << >>
  BY <1>0, <1>2 DEF mergePots
<1>3. CASE existing # << >> /\ newPots # << >>
  <2>1. /\ Len(merged) = e + Len(newPots) - 1
        /\ \A k \in 1 .. e : merged[k].eligible = existing[k].eligible
        /\ \A j \in 2 .. Len(newPots) : merged[e + j - 1] = newPots[j]
    BY <1>3, mergePotsAt
  <2>2. Len(newPots) >= 1
    BY <1>3
  <2> HIDE DEF merged, e
  <2>3. ASSUME NEW k \in 1 .. Len(merged), k \notin 1 .. e
        PROVE  \E j \in 1 .. Len(newPots) : merged[k].eligible = newPots[j].eligible
    <3> DEFINE j == k - e + 1
    <3>1. j \in 2 .. Len(newPots) /\ e + j - 1 = k /\ j \in 1 .. Len(newPots)
      BY <1>0, <2>1, <2>3
    <3>2. merged[k] = newPots[j]
      <4> HIDE DEF j
      <4> QED
        BY <2>1, <3>1
    <3> QED
      BY <3>1, <3>2
  <2>4. Len(merged) >= e
    BY <1>0, <2>1, <2>2
  <2> QED
    BY <2>1, <2>3, <2>4 DEF merged, e
<1> QED
  BY <1>1, <1>2, <1>3

(* mergePots loses no chip. *)
LEMMA mergePotsTotal ==
    ASSUME NEW existing \in Seq(Pot), NEW newPots \in Seq(Pot)
    PROVE  Total(mergePots(existing, newPots)) = Total(existing) + Total(newPots)
<1> DEFINE merged == mergePots(existing, newPots)
           e == Len(existing)
           n == Len(newPots)
           f == [k \in 1 .. e |-> existing[k].amount]
           g == [k \in 1 .. n |-> newPots[k].amount]
           h == [k \in 1 .. Len(merged) |-> merged[k].amount]
<1>1. Total(existing) \in Nat /\ Total(newPots) \in Nat /\ e \in Nat /\ n \in Nat
  BY TotalType
<1>2. Total(<< >>) = 0
  BY SumEmpty DEF Total
<1>3. CASE existing = << >>
  BY <1>1, <1>2, <1>3 DEF mergePots
<1>4. CASE existing # << >> /\ newPots = << >>
  BY <1>1, <1>2, <1>4 DEF mergePots
<1>5. CASE existing # << >> /\ newPots # << >>
  <2>1. /\ Len(merged) = e + n - 1
        /\ \A k \in 1 .. e - 1 : merged[k].amount = existing[k].amount
        /\ merged[e].amount = existing[e].amount + newPots[1].amount
        /\ \A j \in 2 .. n : merged[e + j - 1] = newPots[j]
    BY <1>5, mergePotsAt
  <2>2. e >= 1 /\ n >= 1
    BY <1>5
  <2>3. \A k \in 1 .. e : f[k] \in Int /\ f[k] = existing[k].amount
    BY PotOf
  <2>4. \A k \in 1 .. n : g[k] \in Int /\ g[k] = newPots[k].amount
    BY PotOf
  <2>5. \A k \in 1 .. Len(merged) : h[k] \in Int /\ h[k] = merged[k].amount
    <3>1. merged \in Seq(Pot)
      BY mergePotsType
    <3> HIDE DEF merged
    <3> QED
      BY <3>1, PotOf
  <2>6. Total(merged) = Sum(h, 1, Len(merged)) /\ Total(existing) = Sum(f, 1, e)
        /\ Total(newPots) = Sum(g, 1, n)
    BY DEF Total
  <2> HIDE DEF f, g, h, merged, e, n
  <2>7. Sum(h, 1, Len(merged)) = Sum(h, 1, e) + Sum(h, e + 1, Len(merged))
    <3>1. 1 - 1 <= e /\ e <= Len(merged) /\ Len(merged) \in Int /\ 1 \in Int /\ e \in Int
      BY <1>1, <2>1, <2>2
    <3> QED
      BY <2>5, <3>1, SumSplit
  <2>8. Sum(h, 1, e) = Sum(f, 1, e) + (h[e] - f[e])
    <3>1. \A k \in 1 .. e : f[k] \in Int /\ (k # e => h[k] = f[k])
      BY <1>1, <2>1, <2>2, <2>3, <2>5
    <3>2. e \in 1 .. e /\ e \in 1 .. Len(merged) /\ e \in Int /\ 1 \in Int
      BY <1>1, <2>1, <2>2
    <3>3. h[e] \in Int
      BY <2>5, <3>2
    <3> QED
      BY <3>1, <3>2, <3>3, SumChange
  <2>9. Sum(h, e + 1, Len(merged)) = Sum(g, 2, n)
    <3>1. ASSUME NEW j \in 2 .. n PROVE h[j + (e - 1)] = g[j]
      <4>1. e + j - 1 \in 1 .. Len(merged) /\ j \in 1 .. n /\ j + (e - 1) = e + j - 1
        BY <1>1, <2>1, <2>2
      <4> QED
        BY <2>1, <2>4, <2>5, <4>1
    <3>2. Renumbered(g, h, 2, n, e - 1)
      BY <3>1 DEF Renumbered
    <3>3. 2 <= n + 1 /\ e - 1 \in Int /\ e + 1 \in Int /\ 2 \in Int /\ n \in Int
      BY <1>1, <2>2
    <3>4. Len(merged) \in Int /\ Len(merged) = n + (e - 1) /\ e + 1 = 2 + (e - 1)
      BY <1>1, <2>1
    <3> QED
      BY <3>2, <3>3, <3>4, SumShift
  <2>10. Sum(g, 1, n) = g[1] + Sum(g, 1 + 1, n)
    <3>1. 1 \in Int /\ n \in Int /\ 1 <= n
      BY <1>1, <2>2
    <3> QED
      BY <2>4, <3>1, SumFirst
  <2>11. Sum(g, 1 + 1, n) = Sum(g, 2, n)
    OBVIOUS
  <2>12. h[e] - f[e] = g[1] /\ g[1] \in Int
    <3>1. e \in 1 .. e /\ e \in 1 .. Len(merged) /\ 1 \in 1 .. n
      BY <1>1, <2>1, <2>2
    <3> QED
      BY <2>1, <2>3, <2>4, <2>5, <3>1
  <2>13. Sum(g, 2, n) \in Int
    <3>1. \A j \in 2 .. n : g[j] \in Int
      BY <2>4
    <3> QED
      BY <1>1, <3>1, SumInt
  <2> QED
    BY <1>1, <2>6, <2>7, <2>8, <2>9, <2>10, <2>11, <2>12, <2>13 DEF merged
<1> QED
  BY <1>3, <1>4, <1>5

(* CollectBets moves every bet into the pots. *)
LEMMA CollectBetsTotal ==
    ASSUME NEW s \in States
    PROVE  Total(CollectBets(s).pots) = Total(s.pots) + Sum(s.bet, 0, N - 1)
<1>1. s.pots \in Seq(Pot) /\ s.bet \in [Seats -> Nat]
  BY DEF States
<1>2. CollectBets(s).pots = mergePots(s.pots, Calculate(s.bet))
  BY DEF CollectBets, States
<1>3. Calculate(s.bet) \in Seq(Pot)
  BY <1>1, CalculateType
<1> QED
  BY <1>1, <1>2, <1>3, mergePotsTotal, CalculateTotal
-----------------------------------------------------------------------------
(* ApplyRake charges the pots exactly the rake and leaves every claim.     *)

LEMMA ApplyRakeEligible ==
    ASSUME NEW pots \in Seq(Pot), NEW rake \in Nat
    PROVE  /\ Len(ApplyRake(pots, rake)) = Len(pots)
           /\ \A k \in 1 .. Len(pots) :
                 ApplyRake(pots, rake)[k].eligible = pots[k].eligible
<1> DEFINE amount == [k \in 1 .. Len(pots) |-> pots[k].amount]
           left(k) == rake - Sum(amount, k + 1, Len(pots))
           take(k) == IF left(k) <= 0 THEN pots[k].amount
                      ELSE pots[k].amount - Lesser(left(k), pots[k].amount)
           raked == [k \in 1 .. Len(pots) |-> [pots[k] EXCEPT !.amount = take(k)]]
<1>1. ApplyRake(pots, rake) = raked
  BY DEF ApplyRake
<1>2. Len(raked) = Len(pots)
  <2>1. Len(pots) \in Nat /\ DOMAIN raked = 1 .. Len(pots)
    OBVIOUS
  <2> HIDE DEF take
  <2> QED
    BY <2>1
<1>3. ASSUME NEW k \in 1 .. Len(pots) PROVE raked[k].eligible = pots[k].eligible
  <2>1. pots[k] \in Pot
    BY PotOf
  <2>2. raked[k] = [pots[k] EXCEPT !.amount = take(k)]
    OBVIOUS
  <2> HIDE DEF take, raked
  <2> QED
    BY <2>1, <2>2 DEF Pot
<1> HIDE DEF raked
<1> QED
  BY <1>1, <1>2, <1>3

(* The pots behind pot k keep what they held above the rake. *)
LEMMA ApplyRakeTotal ==
    ASSUME NEW pots \in Seq(Pot), NEW rake \in Nat, rake <= Total(pots)
    PROVE  Total(ApplyRake(pots, rake)) = Total(pots) - rake
<1> DEFINE n == Len(pots)
           a == [k \in 1 .. n |-> pots[k].amount]
           left(k) == rake - Sum(a, k + 1, n)
           take(k) == IF left(k) <= 0 THEN pots[k].amount
                      ELSE pots[k].amount - Lesser(left(k), pots[k].amount)
           raked == ApplyRake(pots, rake)
           b == [k \in 1 .. Len(raked) |-> raked[k].amount]
<1>1. n \in Nat /\ Total(pots) = Sum(a, 1, n)
  BY DEF Total
<1>2. \A k \in 1 .. n : a[k] \in Nat /\ a[k] = pots[k].amount
  BY PotOf
<1>3. Len(raked) = n /\ Total(raked) = Sum(b, 1, n)
  BY ApplyRakeEligible DEF Total
<1>4. ASSUME NEW k \in 1 .. n PROVE b[k] = take(k)
  <2>1. raked[k] = [pots[k] EXCEPT !.amount = take(k)]
    BY DEF ApplyRake
  <2>2. pots[k] \in Pot
    BY PotOf
  <2>3. b[k] = raked[k].amount
    BY <1>3
  <2> HIDE DEF take, raked, b
  <2> QED
    BY <2>1, <2>2, <2>3 DEF Pot
<1>5. \A k \in 0 .. n : Sum(a, k + 1, n) \in Nat
  <2> SUFFICES ASSUME NEW k \in 0 .. n PROVE Sum(a, k + 1, n) \in Nat
    OBVIOUS
  <2>1. \A i \in k + 1 .. n : a[i] \in Nat
    BY <1>1, <1>2
  <2>2. k + 1 \in Int /\ n \in Int
    BY <1>1
  <2> HIDE DEF a, n
  <2> QED
    BY <2>1, <2>2, SumType
<1> HIDE DEF a, raked, n
<1>6. \A k \in 1 .. n : b[k] \in Int
  <2> SUFFICES ASSUME NEW k \in 1 .. n PROVE b[k] \in Int
    OBVIOUS
  <2>1. k \in 0 .. n /\ pots[k].amount \in Nat
    BY <1>1, <1>2
  <2>2. left(k) \in Int
    BY <1>5, <2>1
  <2> HIDE DEF left, b
  <2> QED
    BY <1>4, <2>1, <2>2 DEF Lesser
<1> HIDE DEF b
<1> DEFINE above(x) == IF x >= rake THEN x - rake ELSE 0
           S == {j \in 0 .. n : Sum(b, n - j + 1, n) = above(Sum(a, n - j + 1, n))}
<1>7. 1 - 1 \in S
  BY <1>1, SumEmpty
<1>8. ASSUME NEW j \in 1 .. n, j - 1 \in S PROVE j \in S
  <2> DEFINE k == n - j + 1
  <2>1. k \in 1 .. n /\ k \in 0 .. n /\ n - (j - 1) + 1 = k + 1 /\ k \in Int /\ n \in Int
    BY <1>1
  <2> HIDE DEF k
  <2>2. Sum(b, k, n) = b[k] + Sum(b, k + 1, n)
    <3>1. \A i \in k .. n : b[i] \in Int
      BY <1>6, <2>1
    <3> QED
      BY <2>1, <3>1, SumFirst
  <2>3. Sum(a, k, n) = a[k] + Sum(a, k + 1, n)
    <3>1. \A i \in k .. n : a[i] \in Int
      BY <1>2, <2>1
    <3> QED
      BY <2>1, <3>1, SumFirst
  <2>4. Sum(b, k + 1, n) = above(Sum(a, k + 1, n))
    BY <1>8, <2>1
  <2>5. Sum(a, k + 1, n) \in Nat /\ a[k] \in Nat /\ b[k] = take(k) /\ pots[k].amount = a[k]
    BY <1>2, <1>4, <1>5, <2>1
  <2>6. Sum(b, k, n) = above(Sum(a, k, n))
    BY <2>2, <2>3, <2>4, <2>5 DEF Lesser
  <2> QED
    BY <1>1, <2>6 DEF k
<1>9. \A j \in (1 - 1) .. n : j \in S
  <2>1. 1 \in Int /\ n \in Int
    BY <1>1
  <2> HIDE DEF S
  <2> QED
    BY <1>7, <1>8, <2>1, RangeInduction
<1>10. Sum(b, 1, n) = above(Sum(a, 1, n))
  <2>1. n \in (1 - 1) .. n /\ n - n + 1 = 1
    BY <1>1
  <2>2. n \in S
    <3> HIDE DEF S
    <3> QED
      BY <1>9, <2>1
  <2> QED
    BY <2>1, <2>2
<1>11. Total(pots) \in Nat
  BY TotalType
<1> QED
  BY <1>1, <1>3, <1>10, <1>11 DEF raked
-----------------------------------------------------------------------------
(* Who is paid.  A ranking gives every contender a natural number. *)
LEMMA RankingsType ==
    ASSUME NEW s \in States, NEW rank \in Rankings(s)
    PROVE  /\ DOMAIN rank = ActivePlayers(s)
           /\ ActivePlayers(s) \in SUBSET Seats
           /\ \E bound \in Nat : \A i \in ActivePlayers(s) : rank[i] \in 0 .. bound
<1>1. ActivePlayers(s) \in SUBSET Seats
  BY DEF ActivePlayers
<1>2. Cardinality(ActivePlayers(s)) \in Nat
  BY <1>1, SeatsFinite
<1>3. CASE rank = [i \in ActivePlayers(s) |-> 1]
  <2>1. 1 \in Nat /\ \A i \in ActivePlayers(s) : rank[i] \in 0 .. 1
    BY <1>3
  <2> QED
    BY <1>1, <1>3, <2>1
<1>4. CASE rank \in [ActivePlayers(s) -> 1 .. Cardinality(ActivePlayers(s))]
  <2>1. \A i \in ActivePlayers(s) : rank[i] \in 0 .. Cardinality(ActivePlayers(s))
    BY <1>2, <1>4
  <2> QED
    BY <1>1, <1>2, <1>4, <2>1
<1> QED
  BY <1>3, <1>4 DEF Rankings

(* A pot that some contender is eligible for has a winner. *)
LEMMA bestHandsExist ==
    ASSUME NEW s \in States, NEW rank \in Rankings(s), NEW pot \in Pot,
           NEW q \in ActivePlayers(s), q \in pot.eligible
    PROVE  bestHandsInPot(pot, rank) # {}
<1> DEFINE in == pot.eligible \cap DOMAIN rank
<1>1. PICK bound \in Nat : \A i \in ActivePlayers(s) : rank[i] \in 0 .. bound
  BY RankingsType
<1>2. DOMAIN rank = ActivePlayers(s)
  BY RankingsType
<1> DEFINE D == {bound - rank[i] : i \in in}
<1>3. D \subseteq Nat /\ D # {}
  BY <1>1, <1>2
<1>4. PICK d \in D : \A e \in D : d <= e
  <2> HIDE DEF D
  <2> QED
    BY <1>3, LeastExists
<1>5. PICK i \in in : d = bound - rank[i]
  BY <1>4
<1>6. \A j \in in : bound - rank[i] <= bound - rank[j]
  BY <1>4, <1>5
<1>7. \A j \in in : rank[j] <= rank[i]
  BY <1>1, <1>2, <1>6
<1> QED
  BY <1>5, <1>7 DEF bestHandsInPot

(* singleWinner and winnersToMap, pot by pot. *)
Share(s, rank, oddChips, k, i) ==
    IF i \notin bestHandsInPot(s.pots[k], rank) THEN 0
    ELSE s.pots[k].amount \div Cardinality(bestHandsInPot(s.pots[k], rank))
             + (IF i \in oddChips[k] THEN 1 ELSE 0)

LEMMA WinningsAreShares ==
    ASSUME NEW s \in States, NEW rank, NEW oddChips, NEW i \in Seats
    PROVE  Winnings(s, rank, oddChips)[i] =
             IF Cardinality(ActivePlayers(s)) = 1
             THEN IF i \in ActivePlayers(s) THEN Total(s.pots) ELSE 0
             ELSE Sum([k \in 1 .. Len(s.pots) |-> Share(s, rank, oddChips, k, i)],
                      1, Len(s.pots))
BY DEF Winnings, Share

LEMMA singleWinner ==
    ASSUME NEW s \in States, NEW rank, NEW oddChips, Cardinality(ActivePlayers(s)) = 1,
           NEW i \in Seats
    PROVE  Winnings(s, rank, oddChips)[i] =
             IF i \in ActivePlayers(s) THEN Total(s.pots) ELSE 0
BY DEF Winnings

(* The winners of a pot share it exactly, and nobody gets more than it. *)
LEMMA ShareOfPot ==
    ASSUME NEW s \in States, NEW rank \in Rankings(s),
           NEW oddChips \in OddChipChoices(s.pots, rank),
           NEW k \in 1 .. Len(s.pots), bestHandsInPot(s.pots[k], rank) # {}
    PROVE  /\ \A i \in Seats : Share(s, rank, oddChips, k, i) \in Nat
           /\ \A i \in Seats : Share(s, rank, oddChips, k, i) <= s.pots[k].amount
           /\ Sum([i \in Seats |-> Share(s, rank, oddChips, k, i)], 0, N - 1)
                 = s.pots[k].amount
<1> DEFINE w == bestHandsInPot(s.pots[k], rank)
           odd == oddChips[k]
           m == s.pots[k].amount
           c == Cardinality(w)
           q == m \div c
           f == [i \in Seats |-> IF i \in w THEN q ELSE 0]
           g == [i \in Seats |-> IF i \in odd THEN 1 ELSE 0]
           h == [i \in Seats |-> Share(s, rank, oddChips, k, i)]
<1>1. m \in Nat /\ s.pots[k].eligible \in SUBSET Seats
  <2>1. s.pots \in Seq(Pot)
    BY DEF States
  <2> QED
    BY <2>1, PotOf
<1>2. w \in SUBSET Seats /\ w # {}
  BY <1>1 DEF bestHandsInPot
<1>3. odd \subseteq w /\ Cardinality(odd) = m % c
  BY DEF OddChipChoices
<1>4. \A i \in Seats : h[i] = IF i \notin w THEN 0 ELSE q + (IF i \in odd THEN 1 ELSE 0)
  BY DEF Share
<1>5. IsFiniteSet(w) /\ c \in Nat /\ IsFiniteSet(odd) /\ Cardinality(odd) \in Nat
  <2> HIDE DEF w, odd
  <2> QED
    BY <1>2, <1>3, SeatsFinite
<1>6. c > 0
  <2> HIDE DEF w
  <2> QED
    BY <1>2, <1>5, FS_EmptySet
<1> HIDE DEF w, odd, m
<1> DEFINE r == m % c
<1>7. q \in Nat /\ r \in Nat /\ m = q * c + r
  <2> HIDE DEF c
  <2>1. PICK x, y \in Nat : x = m \div c /\ y = m % c /\ m = x * c + y
    BY <1>1, <1>5, <1>6, Division
  <2>2. x = q /\ y = r
    BY <2>1
  <2> HIDE DEF q, r
  <2> QED
    BY <2>1, <2>2
<1>8. Cardinality(odd) = r
  BY <1>3
<1> HIDE DEF c, q, r
<1>9. Seats = 0 .. N - 1 /\ 0 \in Int /\ N - 1 \in Int /\ 0 <= (N - 1) + 1
  BY TableAssumption DEF Seats
<1>10. Sum(f, 0, N - 1) = q * c
  <2>1. w \subseteq 0 .. N - 1 /\ \A i \in 0 .. N - 1 : f[i] = IF i \in w THEN q ELSE 0
    BY <1>2, <1>9
  <2>2. q \in Int
    BY <1>7
  <2> HIDE DEF f
  <2>3. PerMember(f, w, q, 0, N - 1)
    BY <1>9, <2>1, <2>2 DEF PerMember
  <2> QED
    BY <2>3, SumOfMembers DEF c
<1>11. Sum(g, 0, N - 1) = 1 * Cardinality(odd)
  <2>1. odd \subseteq 0 .. N - 1 /\ \A i \in 0 .. N - 1 : g[i] = IF i \in odd THEN 1 ELSE 0
    BY <1>2, <1>3, <1>9
  <2>2. 1 \in Int
    OBVIOUS
  <2> HIDE DEF g
  <2>3. PerMember(g, odd, 1, 0, N - 1)
    BY <1>9, <2>1, <2>2 DEF PerMember
  <2> QED
    BY <2>3, SumOfMembers
<1>12. ASSUME NEW i \in 0 .. N - 1
       PROVE  f[i] \in Int /\ g[i] \in Int /\ h[i] = f[i] + g[i] /\ h[i] \in Nat
  <2>1. i \in Seats
    BY <1>9
  <2> HIDE DEF h
  <2> QED
    BY <1>3, <1>4, <1>7, <2>1
<1>13. Sum(h, 0, N - 1) = Sum(f, 0, N - 1) + Sum(g, 0, N - 1)
  <2> HIDE DEF f, g, h
  <2> QED
    BY <1>9, <1>12, SumAdd
<1>14. Sum(h, 0, N - 1) = m
  <2> HIDE DEF f, g, h
  <2> QED
    BY <1>5, <1>7, <1>10, <1>11, <1>13, <1>8
<1>15. ASSUME NEW i \in Seats PROVE h[i] <= m
  <2>1. q <= q * c
    BY <1>5, <1>6, <1>7
  <2>2. q * c \in Nat
    BY <1>5, <1>7
  <2>3. CASE i \in odd
    <3>1. Cardinality(odd) # 0
      BY <1>5, <2>3, FS_EmptySet
    <3> HIDE DEF h
    <3> QED
      BY <1>3, <1>4, <1>5, <1>7, <1>8, <2>1, <2>2, <2>3, <3>1
  <2>4. CASE i \notin odd
    <3> HIDE DEF h
    <3> QED
      BY <1>4, <1>7, <2>1, <2>2, <2>4
  <2> QED
    BY <2>3, <2>4
<1> QED
  BY <1>9, <1>12, <1>14, <1>15 DEF m

(* Somebody can claim every pot of the hand, or nobody else is left. *)
Claimed(s) ==
    \/ Cardinality(ActivePlayers(s)) = 1
    \/ \E i \in ActivePlayers(s) : \A k \in 1 .. Len(s.pots) : i \in s.pots[k].eligible

(* winnersToMap and singleWinner pay out the pots, no more and no less. *)
LEMMA WinningsTotal ==
    ASSUME NEW s \in States, NEW rank \in Rankings(s),
           NEW oddChips \in OddChipChoices(s.pots, rank), Claimed(s)
    PROVE  Sum(Winnings(s, rank, oddChips), 0, N - 1) = Total(s.pots)
<1> DEFINE won == Winnings(s, rank, oddChips)
           n == Len(s.pots)
           amount == [k \in 1 .. n |-> s.pots[k].amount]
           share(k, i) == Share(s, rank, oddChips, k, i)
           a == [k \in 1 .. n |-> [i \in Seats |-> share(k, i)]]
           b == [i \in Seats |-> [k \in 1 .. n |-> share(k, i)]]
<1>1. /\ Seats = 0 .. N - 1 /\ 0 \in Int /\ N - 1 \in Int /\ 0 <= (N - 1) + 1
      /\ s.pots \in Seq(Pot) /\ n \in Nat
  BY TableAssumption DEF Seats, States
<1>2. ActivePlayers(s) \in SUBSET Seats /\ Total(s.pots) \in Nat
  BY <1>1, TotalType DEF ActivePlayers
<1>3. CASE Cardinality(ActivePlayers(s)) = 1
  <2>1. PerMember(won, ActivePlayers(s), Total(s.pots), 0, N - 1)
    <3>1. \A i \in Seats : won[i] = IF i \in ActivePlayers(s) THEN Total(s.pots) ELSE 0
      BY <1>3, singleWinner
    <3> HIDE DEF won
    <3> QED
      BY <1>1, <1>2, <3>1 DEF PerMember
  <2>2. Total(s.pots) * 1 = Total(s.pots)
    BY <1>2
  <2> HIDE DEF won
  <2>3. Sum(won, 0, N - 1) = Total(s.pots) * Cardinality(ActivePlayers(s))
    BY <2>1, SumOfMembers
  <2> QED
    BY <1>3, <2>2, <2>3 DEF won
<1>4. CASE Cardinality(ActivePlayers(s)) # 1
  <2>1. ASSUME NEW k \in 1 .. n
        PROVE  /\ \A i \in Seats : share(k, i) \in Int
               /\ amount[k] = Sum(a[k], 0, N - 1)
    <3>1. PICK q \in ActivePlayers(s) : q \in s.pots[k].eligible
      BY <1>4 DEF Claimed
    <3>2. bestHandsInPot(s.pots[k], rank) # {}
      BY <1>1, <3>1, PotOf, bestHandsExist
    <3>3. /\ \A i \in Seats : share(k, i) \in Nat
          /\ Sum([i \in Seats |-> share(k, i)], 0, N - 1) = s.pots[k].amount
      BY <3>2, ShareOfPot
    <3> HIDE DEF share
    <3> QED
      BY <3>3
  <2>2. ASSUME NEW i \in 0 .. N - 1 PROVE won[i] = Sum(b[i], 1, n)
    <3>1. i \in Seats
      BY <1>1
    <3>2. won[i] = Sum([k \in 1 .. n |-> share(k, i)], 1, n)
      BY <1>4, <3>1, WinningsAreShares
    <3> HIDE DEF won, share
    <3> QED
      BY <3>1, <3>2
  <2>3. \A k \in 1 .. n : \A i \in 0 .. N - 1 : a[k][i] \in Int /\ b[i][k] = a[k][i]
    <3> HIDE DEF share
    <3> QED
      BY <1>1, <2>1
  <2>4. Tabulated(a, b, amount, won, n, 0, N - 1)
    <3> HIDE DEF a, b, amount, won, n
    <3> QED
      BY <1>1, <2>1, <2>2, <2>3 DEF Tabulated
  <2>5. Sum(amount, 1, n) = Sum(won, 0, N - 1)
    <3> HIDE DEF a, b, amount, won, n
    <3> QED
      BY <2>4, SumByRowsAndColumns
  <2> QED
    BY <2>5 DEF Total
<1> QED
  BY <1>3, <1>4

(* Only contenders are paid, and a contested hand pays nobody more than    *)
(* the pots the player was eligible for.                                   *)
LEMMA WinningsAreClaimed ==
    ASSUME NEW s \in States, NEW rank \in Rankings(s),
           NEW oddChips \in OddChipChoices(s.pots, rank), Claimed(s), NEW i \in Seats
    PROVE  LET won    == Winnings(s, rank, oddChips)
               claims == [k \in 1 .. Len(s.pots) |->
                             IF i \in s.pots[k].eligible THEN s.pots[k].amount ELSE 0]
           IN  /\ won[i] > 0 => i \in ActivePlayers(s)
               /\ Cardinality(ActivePlayers(s)) # 1 => won[i] <= Sum(claims, 1, Len(s.pots))
<1> DEFINE won == Winnings(s, rank, oddChips)
           n == Len(s.pots)
           share(k) == Share(s, rank, oddChips, k, i)
           shares == [k \in 1 .. n |-> share(k)]
           claims == [k \in 1 .. n |->
                         IF i \in s.pots[k].eligible THEN s.pots[k].amount ELSE 0]
<1>1. s.pots \in Seq(Pot) /\ n \in Nat
  BY DEF States
<1>2. DOMAIN rank = ActivePlayers(s)
  BY RankingsType
<1>3. CASE Cardinality(ActivePlayers(s)) = 1
  <2>1. won[i] = IF i \in ActivePlayers(s) THEN Total(s.pots) ELSE 0
    BY <1>3, singleWinner
  <2> HIDE DEF won
  <2> QED
    BY <1>3, <2>1 DEF won
<1>4. CASE Cardinality(ActivePlayers(s)) # 1
  <2>1. won[i] = Sum(shares, 1, n)
    BY <1>4, WinningsAreShares
  <2>2. ASSUME NEW k \in 1 .. n
        PROVE  /\ shares[k] \in Int /\ claims[k] \in Int /\ shares[k] <= claims[k]
               /\ i \notin ActivePlayers(s) => shares[k] = 0
    <3>1. PICK q \in ActivePlayers(s) : q \in s.pots[k].eligible
      BY <1>4 DEF Claimed
    <3>2. s.pots[k] \in Pot /\ s.pots[k].amount \in Nat
      BY <1>1, PotOf
    <3>3. bestHandsInPot(s.pots[k], rank) # {}
      BY <3>1, <3>2, bestHandsExist
    <3>4. share(k) \in Nat /\ share(k) <= s.pots[k].amount
      BY <3>3, ShareOfPot
    <3>5. share(k) # 0 => i \in s.pots[k].eligible /\ i \in ActivePlayers(s)
      BY <1>2 DEF Share, bestHandsInPot
    <3>6. /\ shares[k] = share(k)
          /\ claims[k] = IF i \in s.pots[k].eligible THEN s.pots[k].amount ELSE 0
      OBVIOUS
    <3> HIDE DEF share, shares, claims
    <3> QED
      BY <3>2, <3>4, <3>5, <3>6
  <2> HIDE DEF shares, claims, n
  <2>3. Sum(shares, 1, n) <= Sum(claims, 1, n)
    <3>1. 1 \in Int /\ n \in Int
      BY <1>1
    <3> QED
      BY <2>2, <3>1, SumMonotone
  <2>4. i \notin ActivePlayers(s) => Sum(shares, 1, n) = 0
    <3> SUFFICES ASSUME i \notin ActivePlayers(s) PROVE Sum(shares, 1, n) = 0
      OBVIOUS
    <3>1. PerMember(shares, {}, 0, 1, n)
      BY <1>1, <2>2 DEF PerMember
    <3> QED
      BY <3>1, SumOfMembers
  <2>5. won[i] > 0 => i \in ActivePlayers(s)
    <3> HIDE DEF won
    <3> QED
      BY <2>1, <2>4
  <2> QED
    BY <1>4, <2>1, <2>3, <2>5 DEF claims, n
<1> QED
  BY <1>3, <1>4
-----------------------------------------------------------------------------
(* The order of turns: distances clockwise from a seat. *)

LEMMA DistanceFacts ==
    ASSUME NEW a \in Seats, NEW x \in Seats, NEW y \in Seats
    PROVE  /\ Distance(a, x) \in 1 .. N
           /\ Distance(a, x) = N <=> x = a
           /\ Distance(a, x) = Distance(a, y) => x = y
           /\ Distance(a, x) < Distance(a, y)
                 => Distance(x, y) = Distance(a, y) - Distance(a, x)
<1>1. N \in Nat /\ a \in 0 .. N - 1 /\ x \in 0 .. N - 1 /\ y \in 0 .. N - 1
  BY TableAssumption DEF Seats
<1> QED
  BY <1>1 DEF Distance

(* FirstAfter returns the nearest seat of S. *)
LEMMA FirstAfterIsNearest ==
    ASSUME NEW S \in SUBSET Seats, NEW from \in Seats, NEW default, S # {}
    PROVE  /\ FirstAfter(S, from, default) \in S
           /\ \A y \in S : Distance(from, FirstAfter(S, from, default)) <= Distance(from, y)
<1> DEFINE D == {Distance(from, x) : x \in S}
<1>1. D \subseteq Nat /\ D # {}
  <2>1. \A x \in S : Distance(from, x) \in 1 .. N
    BY DistanceFacts
  <2>2. 1 .. N \subseteq Nat
    BY TableAssumption
  <2> QED
    BY <2>1, <2>2
<1>2. PICK d \in D : \A e \in D : d <= e
  <2> HIDE DEF D
  <2> QED
    BY <1>1, LeastExists
<1>3. \E x \in S : \A y \in S : Distance(from, x) <= Distance(from, y)
  BY <1>2
<1> QED
  BY <1>3 DEF FirstAfter

(* Seen from the nearest seat of S, the seats of S keep their order and    *)
(* the nearest seat comes last.                                            *)
LEMMA TurnKeepsOrder ==
    ASSUME NEW S \in SUBSET Seats, NEW a \in Seats, NEW q \in S,
           \A y \in S : Distance(a, q) <= Distance(a, y),
           NEW i \in S \ {q}, NEW j \in S \ {q}, Distance(q, i) < Distance(q, j)
    PROVE  Distance(a, i) < Distance(a, j)
<1>1. q \in Seats /\ i \in Seats /\ j \in Seats /\ N \in Nat
  BY TableAssumption
<1>2. /\ Distance(a, i) \in 1 .. N /\ Distance(a, j) \in 1 .. N /\ Distance(a, q) \in 1 .. N
      /\ Distance(a, q) # Distance(a, i) /\ Distance(a, q) # Distance(a, j)
  BY <1>1, DistanceFacts
<1>3. Distance(a, q) < Distance(a, i) /\ Distance(a, q) < Distance(a, j)
  BY <1>2
<1>4. /\ Distance(q, i) = Distance(a, i) - Distance(a, q)
      /\ Distance(q, j) = Distance(a, j) - Distance(a, q)
  BY <1>1, <1>3, DistanceFacts
<1> QED
  BY <1>1, <1>2, <1>4

(* A hand that is not over has two players who can act; one that is over   *)
(* has at most one.                                                        *)
LEMMA HandOver ==
    ASSUME NEW s
    PROVE  /\ ~IsHandOver(s) => \E i, j \in PlayersWhoCanAct(s) : i # j
           /\ IsHandOver(s) => \A i, j \in PlayersWhoCanAct(s) : i = j
<1> DEFINE S == PlayersWhoCanAct(s)
<1>1. IsFiniteSet(S) /\ Cardinality(S) \in Nat
  <2>1. S \in SUBSET Seats
    BY DEF PlayersWhoCanAct
  <2> HIDE DEF S
  <2> QED
    BY <2>1, SeatsFinite
<1>2. ASSUME ~IsHandOver(s) PROVE \E i, j \in S : i # j
  <2>1. Cardinality(S) > 1
    BY <1>1, <1>2 DEF IsHandOver
  <2> HIDE DEF S
  <2>2. S # {} /\ ~ \E x : S = {x}
    BY <1>1, <2>1, FS_EmptySet, FS_Singleton
  <2> QED
    BY <2>2
<1>3. ASSUME IsHandOver(s), NEW i \in S, NEW j \in S, i # j PROVE FALSE
  <2>1. Cardinality(S) <= 1
    BY <1>3 DEF IsHandOver
  <2> HIDE DEF S
  <2>2. Cardinality(S) # 0
    BY <1>1, <1>3, FS_EmptySet
  <2>3. Cardinality(S) # 1
    <3> SUFFICES ASSUME Cardinality(S) = 1 PROVE FALSE
      OBVIOUS
    <3>1. PICK x : S = {x}
      BY <1>1, FS_Singleton
    <3> QED
      BY <1>3, <3>1
  <2> QED
    BY <1>1, <2>1, <2>2, <2>3
<1> QED
  BY <1>2, <1>3
-----------------------------------------------------------------------------
(* Who is eligible for what after CollectBets. *)

(* Player i is eligible for every pot of the hand. *)
SharesEveryPot(s, i) == \A k \in 1 .. Len(s.pots) : i \in s.pots[k].eligible

(* The highest bet is eligible for every pot that Calculate makes. *)
LEMMA CalculateEligible ==
    ASSUME NEW c \in [Seats -> Nat], NEW i \in Seats, \A j \in Seats : c[j] <= c[i]
    PROVE  \A k \in 1 .. Len(Calculate(c)) : i \in Calculate(c)[k].eligible
<1> DEFINE m == Cardinality(Levels(c))
           in(k) == {x \in Seats : c[x] >= Level(c, k)}
           d(k) == (Level(c, k) - Level(c, k - 1)) * Cardinality(in(k))
<1>1. Calculate(c) = [k \in 1 .. m |-> [amount |-> d(k), eligible |-> in(k)]]
  BY CalculateIsLayers
<1>2. m \in Nat
  BY LevelsFinite
<1>3. ASSUME NEW k \in 1 .. m PROVE i \in in(k)
  <2>1. Level(c, k) \in Levels(c)
    BY LevelIncreases
  <2>2. PICK x \in Seats : c[x] = Level(c, k)
    BY <2>1 DEF Levels, Contributors
  <2> QED
    BY <2>2
<1> HIDE DEF m, in, d
<1>4. Len(Calculate(c)) = m
  BY <1>1, <1>2
<1>5. \A k \in 1 .. m : Calculate(c)[k].eligible = in(k)
  BY <1>1
<1> QED
  BY <1>3, <1>4, <1>5

(* CollectBets keeps the pots and who is eligible for them, and the        *)
(* highest bettor who was eligible for every pot still is.                 *)
LEMMA CollectBetsEligible ==
    ASSUME NEW s \in States
    PROVE  LET pots == CollectBets(s).pots
           IN  /\ Len(s.pots) <= Len(pots)
               /\ \A k \in 1 .. Len(s.pots) : pots[k].eligible = s.pots[k].eligible
               /\ \A i \in Seats :
                     SharesEveryPot(s, i) /\ (\A j \in Seats : s.bet[j] <= s.bet[i])
                         => SharesEveryPot(CollectBets(s), i)
<1> DEFINE new == Calculate(s.bet)
           pots == mergePots(s.pots, new)
<1>1. s.pots \in Seq(Pot) /\ s.bet \in [Seats -> Nat]
  BY DEF States
<1>2. CollectBets(s).pots = pots
  BY DEF CollectBets, States
<1>3. new \in Seq(Pot)
  BY <1>1, CalculateType
<1>4. /\ Len(s.pots) <= Len(pots)
      /\ \A k \in 1 .. Len(s.pots) : pots[k].eligible = s.pots[k].eligible
      /\ \A k \in 1 .. Len(pots) :
            \/ k \in 1 .. Len(s.pots)
            \/ \E j \in 1 .. Len(new) : pots[k].eligible = new[j].eligible
  <2> HIDE DEF new
  <2> QED
    BY <1>1, <1>3, mergePotsEligible
<1>5. ASSUME NEW i \in Seats, SharesEveryPot(s, i), \A j \in Seats : s.bet[j] <= s.bet[i],
             NEW k \in 1 .. Len(pots)
      PROVE  i \in pots[k].eligible
  <2>1. \A j \in 1 .. Len(new) : i \in new[j].eligible
    BY <1>1, <1>5, CalculateEligible
  <2> HIDE DEF new, pots
  <2> QED
    BY <1>4, <1>5, <2>1 DEF SharesEveryPot
<1> HIDE DEF new, pots
<1> QED
  BY <1>2, <1>4, <1>5 DEF SharesEveryPot
-----------------------------------------------------------------------------
(* Part two: HandLifecycle. *)

(* The hand.ended event has its type. *)
LEMMA HandEndedEventType ==
    ASSUME NEW s \in States, NEW w \in [Seats -> Nat]
    PROVE  HandEndedEvent(s, w) \in HandEndedEvents
<1> DEFINE pots == CollectBets(s).pots
<1>1. pots \in Seq(Pot) /\ RakedHand(s).pots \in Seq(Pot)
  BY CollectBetsType, RakedHandType DEF States
<1>2. Total(pots) \in Nat /\ Total(RakedHand(s).pots) \in Nat
  <2> HIDE DEF pots
  <2> QED
    BY <1>1, TotalType
<1>3. CalculateRake(pots, s.street) \in Nat
  <2> HIDE DEF pots
  <2> QED
    BY <1>1, RakeType
<1>4. s.board \in Nat /\ (s.street = "showdown") \in BOOLEAN
  BY DEF States
<1> QED
  BY <1>2, <1>3, <1>4 DEF HandEndedEvent, HandEndedEvents

(* FinishHand.Execute leaves a finished hand and a hand.ended event. *)
LEMMA FinishHandType ==
    ASSUME NEW s \in States, FinishHand(s)
    PROVE  /\ hand' \in States
           /\ hand'.street = "showdown"
           /\ handEnded' \in HandEndedEvents
<1> DEFINE raked == RakedHand(s)
           won(rank, oddChips) == Winnings(raked, rank, oddChips)
<1>1. raked \in States
  BY RakedHandType
<1>2. PICK rank \in Rankings(raked) :
        \E oddChips \in OddChipChoices(raked.pots, rank) :
            /\ hand' = Award(raked, won(rank, oddChips))
            /\ handEnded' = HandEndedEvent(s, won(rank, oddChips))
  BY DEF FinishHand
<1>3. PICK oddChips \in OddChipChoices(raked.pots, rank) :
        /\ hand' = Award(raked, won(rank, oddChips))
        /\ handEnded' = HandEndedEvent(s, won(rank, oddChips))
  BY <1>2
<1> DEFINE w == won(rank, oddChips)
<1>4. w \in [Seats -> Nat]
  <2> HIDE DEF raked
  <2> QED
    BY <1>1, WinningsType
<1>5. hand' \in States /\ hand'.street = "showdown"
  <2> HIDE DEF raked, w
  <2>1. Award(raked, w) \in States
    BY <1>1, <1>4, AwardType
  <2>2. Award(raked, w).street = "showdown"
    BY <1>1 DEF Award, States
  <2> QED
    BY <1>3, <2>1, <2>2 DEF w
<1>6. HandEndedEvent(s, w) \in HandEndedEvents
  <2> HIDE DEF w
  <2> QED
    BY <1>4, HandEndedEventType
<1> QED
  BY <1>3, <1>5, <1>6

(* ApplyAction.Execute, after an action that leaves a state, does too. *)
LEMMA ExecuteType ==
    ASSUME TypeOK, NEW s \in States, Execute(s)
    PROVE  TypeOK'
<1> DEFINE acted == AdvanceEventSequence(s)
<1>1. acted \in States
  BY AdvanceEventSequenceType
<1> HIDE DEF acted
<1>2. CASE EndByAction(acted)
  BY <1>1, <1>2, FinishHandType DEF EndByAction, TypeOK, Execute
<1>3. CASE EndByShowdown(acted)
  <2>1. advanceStreet(acted) \in States
    BY <1>1, <1>3, advanceStreetType DEF EndByShowdown
  <2> QED
    BY <1>3, <2>1, FinishHandType DEF EndByShowdown, TypeOK, Execute
<1>4. CASE GoToNextStreet(acted)
  BY <1>1, <1>4, advanceStreetType DEF GoToNextStreet, TypeOK, Execute
<1>5. CASE PassTurn(acted)
  BY <1>1, <1>5, PassTurnType DEF PassTurn, TypeOK, Execute
<1> QED
  BY <1>2, <1>3, <1>4, <1>5 DEF Execute, acted

(* The state of the table has its type in every reachable state: no stack, *)
(* bet, pot, deck or payout of StartHand, ApplyAction and FinishHand goes  *)
(* below zero, and the active player is always a seat.                     *)
THEOREM TypeCorrect == Spec => []TypeOK
<1>1. Init => TypeOK
  BY DEF Init, TypeOK
<1>2. TypeOK /\ [Next]_vars => TypeOK'
  <2> SUFFICES ASSUME TypeOK, [Next]_vars PROVE TypeOK'
    OBVIOUS
  <2>1. CASE StartHand
    <3>1. PICK stacks \in [Seats -> StartStacks], button \in Seats :
            /\ CanPostBlinds(stacks, button)
            /\ hand' = NewHand(stacks, button)
            /\ buyIn' = stacks
      BY <2>1 DEF StartHand
    <3>2. stacks \in [Seats -> Nat] /\ 2 * N <= DeckSize
      BY <2>1, StacksAssumption DEF StartHand
    <3>3. hand' \in States
      BY <3>1, <3>2, NewHandType
    <3> QED
      BY <2>1, <3>1, <3>2, <3>3 DEF StartHand, TypeOK
  <2>2. ASSUME Running PROVE hand \in States
    BY <2>2 DEF Running, TypeOK
  <2>3. CASE Running /\ PlayerFolds
    BY <2>2, <2>3, FoldType, ExecuteType DEF PlayerFolds
  <2>4. CASE Running /\ PlayerChecks
    BY <2>2, <2>4, ExecuteType DEF PlayerChecks
  <2>5. CASE Running /\ PlayerCalls
    BY <2>2, <2>5, CallType, ExecuteType DEF PlayerCalls
  <2>6. CASE Running /\ PlayerRaises
    BY <2>2, <2>6, RaiseType, ExecuteType DEF PlayerRaises
  <2>7. CASE UNCHANGED vars
    BY <2>7 DEF vars, TypeOK
  <2> QED
    BY <2>1, <2>3, <2>4, <2>5, <2>6, <2>7 DEF Next, PlayerActs
<1> QED
  BY <1>1, <1>2, PTL DEF Spec
-----------------------------------------------------------------------------
(* The fixed-limit structure and the cards. *)

LEMMA CallWithinLimit ==
    ASSUME NEW s \in States, WithinLimit(s), MayCall(s)
    PROVE  WithinLimit(Call(s))
<1> DEFINE p == s.activePlayer
           owed == s.currentBet - s.bet[p]
           amount == IF owed >= s.stack[p] THEN s.stack[p] ELSE owed
<1>1. /\ p \in Seats /\ s.currentBet \in Nat
      /\ \A i \in Seats : s.stack[i] \in Nat /\ s.bet[i] \in Nat
      /\ s.stack \in [Seats -> Nat] /\ s.bet \in [Seats -> Nat]
      /\ s.status \in [Seats -> PlayerStatus]
  BY DEF States
<1>2. /\ Call(s).raises = s.raises /\ Call(s).street = s.street
      /\ Call(s).currentBet = s.currentBet
  BY DEF Call, States
<1>3. BetSizeForStreet(Call(s)) = BetSizeForStreet(s)
  BY <1>2 DEF BetSizeForStreet
<1>4. ASSUME NEW i \in Seats
      PROVE  /\ Call(s).bet[i] <= s.currentBet
             /\ Call(s).status[i] = "allin" => Call(s).stack[i] = 0
  <2>1. s.bet[i] <= s.currentBet /\ (s.status[i] = "allin" => s.stack[i] = 0)
    BY DEF WithinLimit
  <2>2. CASE i = p
    <3>1. /\ Call(s).bet[i] = s.bet[i] + amount
          /\ Call(s).stack[i] = s.stack[i] - amount
          /\ Call(s).status[i] = IF owed >= s.stack[p] THEN "allin" ELSE s.status[i]
      BY <1>1, <2>2 DEF Call, States
    <3>2. s.status[i] # "allin"
      BY <1>1, <2>2 DEF MayCall, MayAct, CanAct
    <3> QED
      BY <1>1, <2>1, <2>2, <3>1, <3>2
  <2>3. CASE i # p
    <3>1. /\ Call(s).bet[i] = s.bet[i] /\ Call(s).stack[i] = s.stack[i]
          /\ Call(s).status[i] = s.status[i]
      BY <1>1, <2>3 DEF Call, States
    <3> QED
      BY <2>1, <3>1
  <2> QED
    BY <2>2, <2>3
<1> QED
  BY <1>2, <1>3, <1>4 DEF WithinLimit

LEMMA RaiseWithinLimit ==
    ASSUME NEW s \in States, WithinLimit(s), MayRaise(s)
    PROVE  WithinLimit(Raise(s))
<1> DEFINE p == s.activePlayer
           amount == RaiseTo(s) - s.bet[p]
           size == BetSizeForStreet(s)
           opening == IF s.street = "preflop" THEN BigBlind ELSE 0
<1>1. /\ p \in Seats /\ s.currentBet \in Nat /\ s.raises \in Nat
      /\ \A i \in Seats : s.stack[i] \in Nat /\ s.bet[i] \in Nat
      /\ s.stack \in [Seats -> Nat] /\ s.bet \in [Seats -> Nat]
      /\ s.status \in [Seats -> PlayerStatus]
  BY DEF States
<1>2. /\ size \in Nat /\ BigBlind \in Nat /\ MaxRaisesPerStreet \in Nat
      /\ RaiseTo(s) = s.currentBet + size
  BY BetSizeType, BettingAssumption DEF RaiseTo
<1>3. /\ Raise(s).raises = s.raises + 1 /\ Raise(s).street = s.street
      /\ Raise(s).currentBet = RaiseTo(s)
  BY DEF Raise, States
<1>4. BetSizeForStreet(Raise(s)) = size
  BY <1>3 DEF BetSizeForStreet
<1>5. s.currentBet + size = opening + (s.raises + 1) * size
  <2>1. s.currentBet = opening + s.raises * size
    BY DEF WithinLimit
  <2>2. opening \in Nat
    BY <1>2
  <2> HIDE DEF size, opening
  <2>3. (s.raises + 1) * size = s.raises * size + size
    BY <1>1, <1>2
  <2>4. s.raises * size \in Nat
    BY <1>1, <1>2
  <2> QED
    BY <1>1, <1>2, <2>1, <2>2, <2>3, <2>4
<1>6. s.raises + 1 <= MaxRaisesPerStreet
  BY <1>1, <1>2 DEF MayRaise
<1>7. ASSUME NEW i \in Seats
      PROVE  /\ Raise(s).bet[i] <= RaiseTo(s)
             /\ Raise(s).status[i] = "allin" => Raise(s).stack[i] = 0
  <2>1. s.bet[i] <= s.currentBet /\ (s.status[i] = "allin" => s.stack[i] = 0)
    BY DEF WithinLimit
  <2>2. CASE i = p
    <3>1. /\ Raise(s).bet[i] = RaiseTo(s)
          /\ Raise(s).stack[i] = s.stack[i] - amount
          /\ Raise(s).status[i] = IF s.stack[p] = amount THEN "allin" ELSE s.status[i]
      BY <1>1, <2>2 DEF Raise, States
    <3>2. s.status[i] # "allin"
      BY <1>1, <2>2 DEF MayRaise, MayAct, CanAct
    <3> HIDE DEF size
    <3> QED
      BY <1>1, <1>2, <2>1, <2>2, <3>1, <3>2
  <2>3. CASE i # p
    <3>1. /\ Raise(s).bet[i] = s.bet[i] /\ Raise(s).stack[i] = s.stack[i]
          /\ Raise(s).status[i] = s.status[i]
      BY <1>1, <2>3 DEF Raise, States
    <3> HIDE DEF size
    <3> QED
      BY <1>1, <1>2, <2>1, <3>1
  <2> QED
    BY <2>2, <2>3
<1> HIDE DEF size
<1> QED
  BY <1>2, <1>3, <1>4, <1>5, <1>6, <1>7 DEF WithinLimit, size

LEMMA FoldWithinLimit ==
    ASSUME NEW s \in States, WithinLimit(s)
    PROVE  WithinLimit(Fold(s))
<1>1. /\ Fold(s).raises = s.raises /\ Fold(s).street = s.street
      /\ Fold(s).currentBet = s.currentBet
      /\ Fold(s).bet = s.bet /\ Fold(s).stack = s.stack
  BY DEF Fold, States
<1>2. \A i \in Seats : Fold(s).status[i] = "allin" => s.status[i] = "allin"
  BY DEF Fold, States
<1>3. BetSizeForStreet(Fold(s)) = BetSizeForStreet(s)
  BY <1>1 DEF BetSizeForStreet
<1> QED
  BY <1>1, <1>2, <1>3 DEF WithinLimit

LEMMA CollectBetsFields ==
    ASSUME NEW s \in States
    PROVE  LET c == CollectBets(s)
           IN  /\ c.stack = s.stack /\ c.status = s.status
               /\ c.bet = [i \in Seats |-> 0]
               /\ c.pots = mergePots(s.pots, Calculate(s.bet))
               /\ c.street = s.street /\ c.button = s.button
               /\ c.board = s.board /\ c.deck = s.deck
BY DEF CollectBets, States

LEMMA advanceStreetFields ==
    ASSUME NEW s \in States
    PROVE  LET a == advanceStreet(s)
           IN  /\ a.stack = s.stack /\ a.status = s.status
               /\ a.bet = [i \in Seats |-> 0] /\ a.currentBet = 0 /\ a.raises = 0
               /\ a.pots = CollectBets(s).pots
               /\ a.street = NextStreet(s.street)
               /\ a.board = s.board + CardsToDeal(s.street)
               /\ a.deck = s.deck - CardsToDeal(s.street)
<1>1. CollectBets(s) \in States
  BY CollectBetsType
<1>2. /\ advanceStreet(s).stack = CollectBets(s).stack
      /\ advanceStreet(s).status = CollectBets(s).status
      /\ advanceStreet(s).bet = CollectBets(s).bet
      /\ advanceStreet(s).pots = CollectBets(s).pots
      /\ advanceStreet(s).currentBet = 0 /\ advanceStreet(s).raises = 0
      /\ advanceStreet(s).street = NextStreet(s.street)
      /\ advanceStreet(s).board = CollectBets(s).board + CardsToDeal(s.street)
      /\ advanceStreet(s).deck = CollectBets(s).deck - CardsToDeal(s.street)
  BY <1>1 DEF advanceStreet, States
<1> QED
  BY <1>2, CollectBetsFields

LEMMA advanceStreetWithinLimit ==
    ASSUME NEW s \in States, CanDeal(s), WithinLimit(s), s.street # "showdown"
    PROVE  WithinLimit(advanceStreet(s))
<1> DEFINE a == advanceStreet(s)
<1>1. a \in States
  BY advanceStreetType
<1>2. /\ a.stack = s.stack /\ a.status = s.status
      /\ a.bet = [i \in Seats |-> 0] /\ a.currentBet = 0 /\ a.raises = 0
      /\ a.street = NextStreet(s.street)
  BY advanceStreetFields
<1>3. a.street # "preflop"
  BY <1>2 DEF NextStreet, States, Street
<1>4. BetSizeForStreet(a) \in Nat
  <2> HIDE DEF a
  <2> QED
    BY <1>1, BetSizeType
<1>5. 0 * BetSizeForStreet(a) = 0 /\ MaxRaisesPerStreet \in Nat
  <2> HIDE DEF a
  <2> QED
    BY <1>4, BettingAssumption
<1>6. \A i \in Seats : a.bet[i] <= a.currentBet /\ (a.status[i] = "allin" => a.stack[i] = 0)
  <2> HIDE DEF a
  <2> QED
    BY <1>2 DEF WithinLimit
<1> HIDE DEF a
<1> QED
  BY <1>2, <1>3, <1>5, <1>6 DEF WithinLimit, a

LEMMA advanceStreetCards ==
    ASSUME NEW s \in States, CanDeal(s), CardsAccounted(s), s.street # "showdown"
    PROVE  CardsAccounted(advanceStreet(s))
<1> DEFINE a == advanceStreet(s)
<1>1. /\ a.street = NextStreet(s.street)
      /\ a.board = s.board + CardsToDeal(s.street)
      /\ a.deck = s.deck - CardsToDeal(s.street)
  BY advanceStreetFields
<1>2. s.street \in Street /\ s.board \in Nat /\ s.deck \in Nat /\ N \in Nat
  BY TableAssumption DEF States
<1>3. CardsToDeal(s.street) \in Nat
  BY <1>2 DEF CardsToDeal, Street
<1>4. BoardSize(NextStreet(s.street)) = BoardSize(s.street) + CardsToDeal(s.street)
  BY <1>2 DEF BoardSize, NextStreet, CardsToDeal, Street
<1> HIDE DEF a
<1>5. a.board = BoardSize(a.street)
  BY <1>1, <1>4 DEF CardsAccounted
<1>6. 2 * N + a.board + a.deck = DeckSize
  BY <1>1, <1>2, <1>3 DEF CardsAccounted
<1> QED
  BY <1>5, <1>6 DEF CardsAccounted, a

LEMMA NewHandWithinLimit ==
    ASSUME NEW stacks \in [Seats -> Nat], NEW button \in Seats
    PROVE  WithinLimit(NewHand(stacks, button)) /\ CardsAccounted(NewHand(stacks, button))
<1> DEFINE h == NewHand(stacks, button)
<1>1. /\ h.raises = 0 /\ h.street = "preflop" /\ h.currentBet = BigBlind
      /\ h.bet = postBlinds(button) /\ h.status = [i \in Seats |-> "active"]
      /\ h.board = 0 /\ h.deck = DeckSize - 2 * N
  BY DEF NewHand
<1>2. SmallBlind \in Nat /\ BigBlind \in Nat /\ SmallBlind <= BigBlind
  BY BettingAssumption DEF BigBlind
<1>3. \A i \in Seats : postBlinds(button)[i] <= BigBlind
  BY <1>2 DEF postBlinds
<1>4. BetSizeForStreet(h) = SmallBet /\ SmallBet \in Nat
  <2> HIDE DEF h
  <2> QED
    BY <1>1, <1>2 DEF BetSizeForStreet, SmallBet
<1> HIDE DEF h
<1>5. WithinLimit(h)
  BY <1>1, <1>2, <1>3, <1>4, BettingAssumption DEF WithinLimit
<1>6. CardsAccounted(h)
  BY <1>1, DeckAssumption, TableAssumption DEF CardsAccounted, BoardSize
<1> QED
  BY <1>5, <1>6 DEF h

(* ApplyAction.Execute, after an action that kept the hand within its      *)
(* limits, leaves it within its limits or ends it.                         *)
LEMMA ExecuteWithinLimit ==
    ASSUME NEW s \in States, WithinLimit(s), CardsAccounted(s),
           s.street # "showdown", Execute(s)
    PROVE  FixedLimit' /\ BoardFollowsStreet'
<1> DEFINE acted == AdvanceEventSequence(s)
<1>1. acted \in States
  BY AdvanceEventSequenceType
<1>2. /\ acted.raises = s.raises /\ acted.street = s.street
      /\ acted.currentBet = s.currentBet /\ acted.bet = s.bet
      /\ acted.stack = s.stack /\ acted.status = s.status
      /\ acted.board = s.board /\ acted.deck = s.deck
  BY DEF AdvanceEventSequence, States
<1>3. WithinLimit(acted) /\ CardsAccounted(acted) /\ acted.street # "showdown"
  <2> HIDE DEF acted
  <2>1. BetSizeForStreet(acted) = BetSizeForStreet(s)
    BY <1>2 DEF BetSizeForStreet
  <2> QED
    BY <1>2, <2>1 DEF WithinLimit, CardsAccounted
<1> HIDE DEF acted
<1>4. CASE EndByAction(acted)
  BY <1>1, <1>4, FinishHandType DEF EndByAction, FixedLimit, BoardFollowsStreet, Running
<1>5. CASE EndByShowdown(acted)
  <2>1. advanceStreet(acted) \in States
    BY <1>1, <1>5, advanceStreetType DEF EndByShowdown
  <2> QED
    BY <1>5, <2>1, FinishHandType DEF EndByShowdown, FixedLimit, BoardFollowsStreet, Running
<1>6. CASE GoToNextStreet(acted)
  <2>1. CanDeal(acted) /\ hand' = advanceStreet(acted)
    BY <1>6 DEF GoToNextStreet
  <2> QED
    BY <1>1, <1>3, <2>1, advanceStreetWithinLimit, advanceStreetCards
    DEF FixedLimit, BoardFollowsStreet
<1>7. CASE PassTurn(acted)
  <2>1. hand' = [acted EXCEPT !.activePlayer = NextActivePlayer(acted)]
    BY <1>7 DEF PassTurn
  <2>2. /\ hand'.raises = acted.raises /\ hand'.street = acted.street
        /\ hand'.currentBet = acted.currentBet /\ hand'.bet = acted.bet
        /\ hand'.stack = acted.stack /\ hand'.status = acted.status
        /\ hand'.board = acted.board /\ hand'.deck = acted.deck
    BY <1>1, <2>1 DEF States
  <2>3. BetSizeForStreet(hand') = BetSizeForStreet(acted)
    BY <2>2 DEF BetSizeForStreet
  <2>4. WithinLimit(hand') /\ CardsAccounted(hand')
    BY <1>3, <2>2, <2>3 DEF WithinLimit, CardsAccounted
  <2> QED
    BY <2>4 DEF FixedLimit, BoardFollowsStreet
<1> QED
  BY <1>4, <1>5, <1>6, <1>7 DEF Execute, acted

(* The inductive invariant behind the two theorems below: the board must   *)
(* be known to follow the street for the deal to succeed, and the bets to  *)
(* be within the bet to match for a call to stay within it.                *)
LimitInv == TypeOK /\ FixedLimit /\ BoardFollowsStreet

LEMMA NextKeepsLimit ==
    TypeOK /\ FixedLimit /\ BoardFollowsStreet /\ [Next]_vars
        => FixedLimit' /\ BoardFollowsStreet'
<1> SUFFICES ASSUME TypeOK, FixedLimit, BoardFollowsStreet, [Next]_vars
             PROVE  FixedLimit' /\ BoardFollowsStreet'
  OBVIOUS
<1>1. CASE StartHand
  <2>1. PICK stacks \in [Seats -> StartStacks], button \in Seats :
          hand' = NewHand(stacks, button)
    BY <1>1 DEF StartHand
  <2>2. stacks \in [Seats -> Nat]
    BY StacksAssumption
  <2>3. WithinLimit(hand') /\ CardsAccounted(hand')
    BY <2>1, <2>2, NewHandWithinLimit
  <2> QED
    BY <2>3 DEF FixedLimit, BoardFollowsStreet
<1>2. ASSUME Running
      PROVE  /\ hand \in States /\ WithinLimit(hand) /\ CardsAccounted(hand)
             /\ hand.street # "showdown"
  BY <1>2 DEF Running, TypeOK, FixedLimit, BoardFollowsStreet
<1>3. CASE Running /\ PlayerFolds
  <2>1. Fold(hand).street = hand.street /\ Fold(hand).board = hand.board
        /\ Fold(hand).deck = hand.deck
    BY <1>2, <1>3 DEF Fold, States
  <2>2. CardsAccounted(Fold(hand))
    BY <1>2, <1>3, <2>1 DEF CardsAccounted
  <2> QED
    BY <1>2, <1>3, <2>1, <2>2, FoldType, FoldWithinLimit, ExecuteWithinLimit
    DEF PlayerFolds
<1>4. CASE Running /\ PlayerChecks
  BY <1>2, <1>4, ExecuteWithinLimit DEF PlayerChecks
<1>5. CASE Running /\ PlayerCalls
  <2>1. Call(hand).street = hand.street /\ Call(hand).board = hand.board
        /\ Call(hand).deck = hand.deck
    BY <1>2, <1>5 DEF Call, States
  <2>2. CardsAccounted(Call(hand))
    BY <1>2, <1>5, <2>1 DEF CardsAccounted
  <2> QED
    BY <1>2, <1>5, <2>1, <2>2, CallType, CallWithinLimit, ExecuteWithinLimit
    DEF PlayerCalls
<1>6. CASE Running /\ PlayerRaises
  <2>1. Raise(hand).street = hand.street /\ Raise(hand).board = hand.board
        /\ Raise(hand).deck = hand.deck
    BY <1>2, <1>6 DEF Raise, States
  <2>2. CardsAccounted(Raise(hand))
    BY <1>2, <1>6, <2>1 DEF CardsAccounted
  <2> QED
    BY <1>2, <1>6, <2>1, <2>2, RaiseType, RaiseWithinLimit, ExecuteWithinLimit
    DEF PlayerRaises
<1>7. CASE UNCHANGED vars
  BY <1>7 DEF vars, FixedLimit, BoardFollowsStreet, Running
<1> QED
  BY <1>1, <1>3, <1>4, <1>5, <1>6, <1>7 DEF Next, PlayerActs

LEMMA LimitInvariant == Spec => []LimitInv
<1>1. Init => FixedLimit /\ BoardFollowsStreet
  BY DEF Init, FixedLimit, BoardFollowsStreet, Running
<1> QED
  BY <1>1, NextKeepsLimit, TypeCorrect, PTL DEF Spec, LimitInv

(* The betting of every hand stays within fixed limit: the bet to match is *)
(* the opening bet and one bet size for each raise, the raises respect the *)
(* cap, no bet exceeds the bet to match, and all-in players have no chips. *)
THEOREM FixedLimitHolds == Spec => []FixedLimit
BY LimitInvariant, PTL DEF LimitInv

(* The board always has the cards of its street, and hole cards, board and *)
(* deck make up the deck.                                                  *)
THEOREM BoardFollowsStreetHolds == Spec => []BoardFollowsStreet
BY LimitInvariant, PTL DEF LimitInv

(* Every hand, of any number of players and with any stacks, keeps its     *)
(* types, the fixed limit and the cards, whatever the players do.          *)
THEOREM HandIsSoundHolds == Spec => []HandIsSound
BY TypeCorrect, FixedLimitHolds, BoardFollowsStreetHolds, PTL DEF HandIsSound
-----------------------------------------------------------------------------
(* The invariant behind the chips, the pots and the turns.  s is a hand    *)
(* and b the stacks it was started with.                                   *)

HasMatched(s, i) == s.bet[i] = s.currentBet

(* What an action of the active player may not disturb: the chips, the     *)
(* live players' claims, and what they paid on earlier streets.            *)
PotsAreFair(s, b) ==
    /\ StackTotal(b) = StackTotal(s.stack) + StackTotal(s.bet) + Total(s.pots)
    /\ \A i \in PlayersWhoCanAct(s) : SharesEveryPot(s, i)
    /\ \A i \in PlayersWhoCanAct(s), j \in Seats :
          b[j] - s.stack[j] - s.bet[j] <= b[i] - s.stack[i] - s.bet[i]

(* A contender who matched the bet and can claim every pot. *)
Leads(s, i) ==
    i \in ActivePlayers(s) /\ HasMatched(s, i) /\ SharesEveryPot(s, i)

(* When the hand ends now, every pot has somebody to go to. *)
Payable(s) == Cardinality(ActivePlayers(s)) = 1 \/ \E i \in Seats : Leads(s, i)

(* Going round from the active player, the players of S who have not       *)
(* matched the bet come before those who have.                             *)
InTurn(s, S) ==
    \A i, j \in S :
        Distance(s.activePlayer, i) < Distance(s.activePlayer, j) /\ HasMatched(s, i)
            => HasMatched(s, j)

(* A running hand between two actions.  The last conjunct is the one case  *)
(* in which the active player may leave without a bet to match: heads up,  *)
(* when the small blind went all-in with the blind.                        *)
Waiting(s, b) ==
    /\ PotsAreFair(s, b)
    /\ \E i \in Seats : Leads(s, i)
    /\ InTurn(s, PlayersWhoCanAct(s) \ {s.activePlayer})
    /\ ~IsHandOver(s) /\ MayAct(s) /\ s.currentBet > 0
          => s.bet[s.activePlayer] < s.currentBet
    /\ IsHandOver(s) /\ MayAct(s) /\ HasMatched(s, s.activePlayer)
          => \E q \in Seats \ {s.activePlayer} : ActivePlayers(s) = {s.activePlayer, q}

(* The hand right after the active player's action. *)
Acted(s, b) ==
    /\ PotsAreFair(s, b)
    /\ Payable(s)
    /\ InTurn(s, PlayersWhoCanAct(s))

(* FinishHand.Execute pays out what the hand holds, and nothing else. *)
LEMMA RakedHandFields ==
    ASSUME NEW s \in States
    PROVE  LET c == CollectBets(s)
               raked == RakedHand(s)
           IN  /\ raked.stack = s.stack /\ raked.status = s.status
               /\ raked.bet = [i \in Seats |-> 0]
               /\ raked.pots = ApplyRake(c.pots, CalculateRake(c.pots, s.street))
               /\ raked.board = s.board
               /\ raked.eventSequence = s.eventSequence + 1
<1> DEFINE c == CollectBets(s)
           pots == ApplyRake(c.pots, CalculateRake(c.pots, s.street))
           d == [c EXCEPT !.pots = pots]
<1>1. c \in States
  BY CollectBetsType
<1>2. /\ c.stack = s.stack /\ c.status = s.status /\ c.bet = [i \in Seats |-> 0]
      /\ c.board = s.board /\ c.eventSequence = s.eventSequence
  BY DEF CollectBets, States
<1>3. RakedHand(s) = [d EXCEPT !.eventSequence = d.eventSequence + 1]
  BY DEF RakedHand, AdvanceEventSequence
<1>4. pots \in Seq(Pot)
  <2>1. c.pots \in Seq(Pot)
    BY <1>1 DEF States
  <2> HIDE DEF c
  <2> QED
    BY <2>1, RakeType, ApplyRakeType
<1> HIDE DEF c, pots
<1>5. /\ d \in States /\ d.stack = c.stack /\ d.status = c.status /\ d.bet = c.bet
      /\ d.pots = pots /\ d.board = c.board /\ d.eventSequence = c.eventSequence
  BY <1>1, <1>4 DEF States
<1> HIDE DEF d
<1>6. LET r == [d EXCEPT !.eventSequence = d.eventSequence + 1]
      IN  /\ r.stack = d.stack /\ r.status = d.status /\ r.bet = d.bet
          /\ r.pots = d.pots /\ r.board = d.board
          /\ r.eventSequence = d.eventSequence + 1
  BY <1>5 DEF States
<1> QED
  BY <1>2, <1>3, <1>5, <1>6 DEF c, pots

LEMMA RakedHandClaimed ==
    ASSUME NEW s \in States, WithinLimit(s), Payable(s)
    PROVE  Claimed(RakedHand(s))
<1> DEFINE raked == RakedHand(s)
           pots == CollectBets(s).pots
           rake == CalculateRake(pots, s.street)
<1>1. /\ raked.status = s.status
      /\ raked.pots = ApplyRake(pots, rake)
  BY RakedHandFields
<1>2. ActivePlayers(raked) = ActivePlayers(s)
  BY <1>1 DEF ActivePlayers
<1>3. CASE Cardinality(ActivePlayers(s)) = 1
  BY <1>2, <1>3 DEF Claimed
<1>4. CASE \E i \in Seats : Leads(s, i)
  <2>1. PICK i \in Seats : Leads(s, i)
    BY <1>4
  <2>2. \A j \in Seats : s.bet[j] <= s.bet[i]
    BY <2>1 DEF WithinLimit, Leads, HasMatched
  <2>3. SharesEveryPot(CollectBets(s), i)
    BY <2>1, <2>2, CollectBetsEligible DEF Leads
  <2>4. pots \in Seq(Pot)
    BY CollectBetsType DEF States
  <2>5. rake \in Nat
    <3> HIDE DEF pots
    <3> QED
      BY <2>4, RakeType
  <2>6. /\ Len(raked.pots) = Len(pots)
        /\ \A k \in 1 .. Len(pots) : raked.pots[k].eligible = pots[k].eligible
    <3> HIDE DEF raked, pots, rake
    <3> QED
      BY <1>1, <2>4, <2>5, ApplyRakeEligible
  <2>7. i \in ActivePlayers(raked)
    BY <1>2, <2>1 DEF Leads
  <2> HIDE DEF raked
  <2> QED
    BY <2>3, <2>6, <2>7 DEF Claimed, SharesEveryPot, raked
<1> QED
  BY <1>3, <1>4 DEF Payable

LEMMA StackTotalType ==
    ASSUME NEW f \in [Seats -> Nat]
    PROVE  StackTotal(f) \in Nat
<1>1. Seats = 0 .. N - 1 /\ 0 \in Int /\ N - 1 \in Int
  BY TableAssumption DEF Seats
<1>2. \A i \in 0 .. N - 1 : f[i] \in Nat
  BY <1>1
<1> QED
  BY <1>1, <1>2, SumType DEF StackTotal

LEMMA StackTotalOfNothing == StackTotal([i \in Seats |-> 0]) = 0
<1> DEFINE f == [i \in Seats |-> 0]
<1>1. PerMember(f, {}, 0, 0, N - 1)
  BY TableAssumption DEF PerMember, Seats
<1>2. Sum(f, 0, N - 1) = 0 * Cardinality({}) /\ Cardinality({}) \in Nat
  <2> HIDE DEF f
  <2> QED
    BY <1>1, SumOfMembers
<1> QED
  BY <1>2 DEF StackTotal

(* Who had what keeps it: the stacks do not fall, nobody's status changes  *)
(* and no claim to a pot is lost.                                          *)
Keeps(s, t) ==
    /\ \A i \in Seats : t.stack[i] >= s.stack[i]
    /\ t.status = s.status
    /\ Len(s.pots) <= Len(t.pots)
    /\ \A k \in 1 .. Len(s.pots) : t.pots[k].eligible = s.pots[k].eligible

LEMMA FinishHandPays ==
    ASSUME NEW s \in States, WithinLimit(s), CardsAccounted(s), Payable(s), FinishHand(s)
    PROVE  /\ StackTotal(hand'.stack) + StackTotal(hand'.bet) + handEnded'.rake
                 = StackTotal(s.stack) + StackTotal(s.bet) + Total(s.pots)
           /\ HandEndedAddsUp'
           /\ Keeps(s, hand')
           /\ hand'.eventSequence = s.eventSequence + 1
<1> DEFINE raked == RakedHand(s)
           pots == CollectBets(s).pots
           rake == CalculateRake(pots, s.street)
<1>1. raked \in States
  BY RakedHandType
<1> DEFINE won(rank, oddChips) == Winnings(raked, rank, oddChips)
<1>2. PICK rank \in Rankings(raked) :
        \E oddChips \in OddChipChoices(raked.pots, rank) :
            /\ hand' = Award(raked, won(rank, oddChips))
            /\ handEnded' = HandEndedEvent(s, won(rank, oddChips))
  BY DEF FinishHand
<1>20. PICK oddChips \in OddChipChoices(raked.pots, rank) :
        /\ hand' = Award(raked, won(rank, oddChips))
        /\ handEnded' = HandEndedEvent(s, won(rank, oddChips))
  BY <1>2
<1> DEFINE paid == Winnings(raked, rank, oddChips)
<1>3. /\ raked.stack = s.stack /\ raked.status = s.status
      /\ raked.bet = [i \in Seats |-> 0]
      /\ raked.pots = ApplyRake(pots, rake)
      /\ raked.board = s.board /\ raked.eventSequence = s.eventSequence + 1
  BY RakedHandFields
<1>4. /\ pots \in Seq(Pot)
      /\ Total(pots) = Total(s.pots) + StackTotal(s.bet)
      /\ Len(s.pots) <= Len(pots)
      /\ \A k \in 1 .. Len(s.pots) : pots[k].eligible = s.pots[k].eligible
  BY CollectBetsType, CollectBetsTotal, CollectBetsEligible DEF States, StackTotal
<1>5. Claimed(raked)
  BY RakedHandClaimed
<1> HIDE DEF raked, pots
<1>6. rake \in Nat /\ rake <= RakeCap /\ rake <= Total(pots) /\ Total(pots) \in Nat
  BY <1>4, RakeType, TotalType
<1>7. NoFlopNoDrop /\ s.board = 0 => rake = 0
  <2>1. s.board = 0 => s.street = "preflop"
    BY DEF CardsAccounted, BoardSize, States, Street
  <2> QED
    BY <2>1 DEF CalculateRake
<1> HIDE DEF rake
<1>8. /\ Total(raked.pots) = Total(pots) - rake
      /\ Len(raked.pots) = Len(pots)
      /\ \A k \in 1 .. Len(pots) : raked.pots[k].eligible = pots[k].eligible
  BY <1>3, <1>4, <1>6, ApplyRakeTotal, ApplyRakeEligible
<1>9. paid \in [Seats -> Nat] /\ StackTotal(paid) = Total(raked.pots)
  BY <1>1, <1>5, WinningsType, WinningsTotal DEF StackTotal
<1>10. /\ hand'.stack = [i \in Seats |-> raked.stack[i] + paid[i]]
       /\ hand'.status = raked.status /\ hand'.bet = raked.bet /\ hand'.pots = raked.pots
       /\ hand'.board = raked.board /\ hand'.eventSequence = raked.eventSequence
  <2> HIDE DEF paid
  <2>1. hand' = Award(raked, paid)
    BY <1>20 DEF paid
  <2> QED
    BY <1>1, <2>1 DEF Award, States
<1>11. /\ handEnded'.grossPot = Total(pots) /\ handEnded'.netPot = Total(raked.pots)
       /\ handEnded'.rake = rake /\ handEnded'.winners = paid /\ handEnded'.board = s.board
  <2> HIDE DEF paid
  <2>1. handEnded' = HandEndedEvent(s, paid)
    BY <1>20 DEF paid
  <2> QED
    BY <2>1 DEF HandEndedEvent, raked, pots, rake
<1>12. \A i \in Seats : s.stack[i] \in Nat
  BY DEF States
<1>13. StackTotal(hand'.stack) = StackTotal(s.stack) + StackTotal(paid)
  <2>1. Seats = 0 .. N - 1 /\ 0 \in Int /\ N - 1 \in Int
    BY TableAssumption DEF Seats
  <2> HIDE DEF paid
  <2>2. ASSUME NEW i \in 0 .. N - 1
        PROVE  s.stack[i] \in Int /\ paid[i] \in Int /\ hand'.stack[i] = s.stack[i] + paid[i]
    BY <1>3, <1>9, <1>10, <1>12, <2>1
  <2> QED
    BY <2>1, <2>2, SumAdd DEF StackTotal
<1>14. StackTotal(hand'.bet) = 0
  BY <1>3, <1>10, StackTotalOfNothing
<1>15. StackTotal(s.stack) \in Nat /\ StackTotal(s.bet) \in Nat /\ Total(s.pots) \in Nat
  BY StackTotalType, TotalType DEF States
<1>16. Keeps(s, hand')
  <2> HIDE DEF paid
  <2>1. \A i \in Seats : hand'.stack[i] >= s.stack[i]
    BY <1>3, <1>9, <1>10, <1>12
  <2> QED
    BY <1>3, <1>4, <1>8, <1>10, <2>1 DEF Keeps
<1>17. ASSUME NEW i \in Seats
       PROVE  LET claims == [k \in DOMAIN hand'.pots |->
                                IF i \in hand'.pots[k].eligible
                                THEN hand'.pots[k].amount ELSE 0]
              IN  /\ handEnded'.winners[i] > 0 => i \in ActivePlayers(hand')
                  /\ Cardinality(ActivePlayers(hand')) > 1
                        => handEnded'.winners[i] <= Sum(claims, 1, Len(hand'.pots))
  <2>1. ActivePlayers(hand') = ActivePlayers(raked)
    BY <1>10 DEF ActivePlayers
  <2>2. DOMAIN raked.pots = 1 .. Len(raked.pots)
    BY <1>1 DEF States
  <2> DEFINE claims == [k \in 1 .. Len(raked.pots) |->
                           IF i \in raked.pots[k].eligible THEN raked.pots[k].amount ELSE 0]
  <2>3. /\ paid[i] > 0 => i \in ActivePlayers(raked)
        /\ Cardinality(ActivePlayers(raked)) # 1 => paid[i] <= Sum(claims, 1, Len(raked.pots))
    BY <1>1, <1>5, WinningsAreClaimed
  <2> HIDE DEF paid
  <2> QED
    BY <1>10, <1>11, <2>1, <2>2, <2>3
<1>18. HandEndedAddsUp'
  <2> HIDE DEF paid
  <2>1. handEnded'.grossPot = handEnded'.netPot + handEnded'.rake
    BY <1>6, <1>8, <1>11
  <2>2. StackTotal(handEnded'.winners) = handEnded'.netPot
    BY <1>8, <1>9, <1>11
  <2>3. /\ handEnded'.rake <= RakeCap
        /\ NoFlopNoDrop /\ handEnded'.board = 0 => handEnded'.rake = 0
    BY <1>6, <1>7, <1>11
  <2> QED
    BY <1>17, <2>1, <2>2, <2>3 DEF HandEndedAddsUp
<1> HIDE DEF paid
<1> QED
  BY <1>3, <1>4, <1>6, <1>8, <1>9, <1>10, <1>11, <1>13, <1>14, <1>15, <1>16, <1>18

(* StartHand.Execute leaves a hand waiting for its first player: the big   *)
(* blind leads, and everybody else comes before that player in the turn.   *)
LEMMA NewHandWaits ==
    ASSUME NEW stacks \in [Seats -> Nat \ {0}], NEW button \in Seats,
           CanPostBlinds(stacks, button), 2 * N <= DeckSize
    PROVE  Waiting(NewHand(stacks, button), stacks)
<1> DEFINE h == NewHand(stacks, button)
           blinds == postBlinds(button)
           bb == BigBlindIndex(button)
           sb == SmallBlindIndex(button)
           a == h.activePlayer
<1>1. /\ h.stack = [i \in Seats |-> stacks[i] - blinds[i]]
      /\ h.status = [i \in Seats |-> "active"]
      /\ h.bet = blinds /\ h.pots = << >> /\ h.currentBet = BigBlind
      /\ h.activePlayer = FirstAfter({i \in Seats : h.stack[i] > 0}, bb, bb)
  BY DEF NewHand
<1>2. /\ bb \in Seats /\ sb \in Seats /\ bb # sb
      /\ BigBlind \in Nat /\ SmallBlind \in Nat /\ SmallBlind < BigBlind /\ 0 < BigBlind
  BY BlindIndexType, BettingAssumption DEF BigBlind
<1>3. /\ blinds \in [Seats -> Nat] /\ blinds[bb] = BigBlind
      /\ \A i \in Seats : i # bb => blinds[i] < BigBlind
      /\ \A i \in Seats : i # bb /\ i # sb => blinds[i] = 0
  BY <1>2 DEF postBlinds
<1>4. h \in States
  <2>1. stacks \in [Seats -> Nat]
    OBVIOUS
  <2> QED
    BY <2>1, NewHandType
<1> HIDE DEF h, blinds, bb, sb
<1>5. /\ \A i \in Seats : stacks[i] \in Nat \ {0} /\ blinds[i] \in Nat
      /\ \A i \in Seats : h.stack[i] = stacks[i] - blinds[i]
  BY <1>1, <1>3
<1>6. PlayersWhoCanAct(h) = {i \in Seats : h.stack[i] > 0} /\ ActivePlayers(h) = Seats
  BY <1>1 DEF PlayersWhoCanAct, CanAct, ActivePlayers
<1>7. \A i \in Seats : SharesEveryPot(h, i)
  BY <1>1 DEF SharesEveryPot
<1>8. a = FirstAfter(PlayersWhoCanAct(h), bb, bb)
  BY <1>1, <1>6
<1>9. \A i \in Seats : HasMatched(h, i) => i = bb
  BY <1>1, <1>2, <1>3 DEF HasMatched
<1>10. PotsAreFair(h, stacks)
  <2>1. StackTotal(stacks) = StackTotal(h.stack) + StackTotal(h.bet)
    <3>1. Seats = 0 .. N - 1 /\ 0 \in Int /\ N - 1 \in Int
      BY TableAssumption DEF Seats
    <3>2. ASSUME NEW i \in 0 .. N - 1
          PROVE  h.stack[i] \in Int /\ h.bet[i] \in Int /\ stacks[i] = h.stack[i] + h.bet[i]
      BY <1>1, <1>5, <3>1
    <3> QED
      BY <3>1, <3>2, SumAdd DEF StackTotal
  <2>2. Total(h.pots) = 0
    BY <1>1, SumEmpty DEF Total
  <2>3. StackTotal(h.stack) \in Nat /\ StackTotal(h.bet) \in Nat
    BY <1>4, StackTotalType DEF States
  <2>4. \A i \in Seats : stacks[i] - h.stack[i] - h.bet[i] = 0
    BY <1>1, <1>5
  <2>5. PlayersWhoCanAct(h) \subseteq Seats
    BY <1>6
  <2> QED
    BY <1>7, <2>1, <2>2, <2>3, <2>4, <2>5 DEF PotsAreFair
<1>11. Leads(h, bb)
  BY <1>1, <1>2, <1>3, <1>6, <1>7 DEF Leads, HasMatched
<1>12. ASSUME PlayersWhoCanAct(h) # {}
       PROVE  /\ a \in PlayersWhoCanAct(h)
              /\ \A y \in PlayersWhoCanAct(h) : Distance(bb, a) <= Distance(bb, y)
  BY <1>2, <1>6, <1>8, <1>12, FirstAfterIsNearest
<1>13. \A y \in Seats : Distance(bb, y) \in 1 .. N /\ (Distance(bb, y) = N <=> y = bb)
  BY <1>2, DistanceFacts
<1>14. InTurn(h, PlayersWhoCanAct(h) \ {a})
  <2> SUFFICES ASSUME NEW i \in PlayersWhoCanAct(h) \ {a}, NEW j \in PlayersWhoCanAct(h) \ {a},
                      Distance(a, i) < Distance(a, j), HasMatched(h, i)
               PROVE  FALSE
    BY DEF InTurn
  <2>1. i = bb
    BY <1>6, <1>9
  <2>2. Distance(bb, i) < Distance(bb, j)
    <3>1. PlayersWhoCanAct(h) \in SUBSET Seats
      BY <1>6
    <3> HIDE DEF a
    <3> QED
      BY <1>2, <1>12, <3>1, TurnKeepsOrder
  <2> QED
    BY <1>2, <1>6, <1>13, <2>1, <2>2, TableAssumption
<1>15. ~IsHandOver(h) => h.bet[a] < h.currentBet
  <2> SUFFICES ASSUME ~IsHandOver(h) PROVE h.bet[a] < h.currentBet
    OBVIOUS
  <2>1. PICK y \in PlayersWhoCanAct(h) : y # bb
    BY HandOver
  <2>2. a # bb
    BY <1>2, <1>6, <1>12, <1>13, <2>1, TableAssumption
  <2>3. a \in Seats
    BY <1>4 DEF States
  <2> QED
    BY <1>1, <1>3, <2>2, <2>3
<1>16. ASSUME IsHandOver(h), MayAct(h), HasMatched(h, a)
       PROVE  \E q \in Seats \ {a} : ActivePlayers(h) = {a, q}
  <2>1. a \in Seats /\ a \in PlayersWhoCanAct(h)
    BY <1>4, <1>16 DEF MayAct, PlayersWhoCanAct, States
  <2>2. a = bb
    BY <1>9, <1>16, <2>1
  <2>3. \A i \in Seats : i # bb /\ i # sb => i = a
    BY <1>3, <1>5, <1>6, <1>16, <2>1, HandOver
  <2>4. Seats = {a, sb}
    BY <1>2, <2>2, <2>3
  <2> QED
    BY <1>2, <1>6, <2>2, <2>4
<1> QED
  BY <1>2, <1>10, <1>11, <1>14, <1>15, <1>16 DEF Waiting, h
-----------------------------------------------------------------------------
(* ApplyAction: t is s with an action of s's active player applied, which  *)
(* moves chips from that player's stack to that player's bet.              *)
ByActor(s, t) ==
    /\ MayAct(s)
    /\ \A i \in Seats \ {s.activePlayer} :
          t.stack[i] = s.stack[i] /\ t.bet[i] = s.bet[i] /\ t.status[i] = s.status[i]
    /\ t.stack[s.activePlayer] + t.bet[s.activePlayer]
          = s.stack[s.activePlayer] + s.bet[s.activePlayer]
    /\ t.pots = s.pots /\ t.activePlayer = s.activePlayer
    /\ t.eventSequence = s.eventSequence

LEMMA ActionKeepsPots ==
    ASSUME NEW s \in States, NEW t \in States, ByActor(s, t),
           NEW b \in [Seats -> Nat], PotsAreFair(s, b)
    PROVE  PotsAreFair(t, b)
<1> DEFINE p == s.activePlayer
<1>1. /\ p \in Seats
      /\ \A i \in Seats : s.stack[i] \in Nat /\ s.bet[i] \in Nat
      /\ \A i \in Seats : t.stack[i] \in Nat /\ t.bet[i] \in Nat
      /\ \A i \in Seats : b[i] \in Nat
  BY DEF States
<1> HIDE DEF p
<1>2. /\ \A i \in Seats : i # p => /\ t.stack[i] = s.stack[i] /\ t.bet[i] = s.bet[i]
                                   /\ t.status[i] = s.status[i]
      /\ t.stack[p] + t.bet[p] = s.stack[p] + s.bet[p]
      /\ t.pots = s.pots
      /\ p \in PlayersWhoCanAct(s)
  BY <1>1 DEF ByActor, MayAct, PlayersWhoCanAct, p
<1>3. StackTotal(t.stack) + StackTotal(t.bet) = StackTotal(s.stack) + StackTotal(s.bet)
  <2>1. Seats = 0 .. N - 1 /\ 0 \in Int /\ N - 1 \in Int
    BY TableAssumption DEF Seats
  <2>2. ASSUME NEW f, NEW g, \A i \in Seats : f[i] \in Int /\ (i # p => g[i] = f[i]), g[p] \in Int
        PROVE  StackTotal(g) = StackTotal(f) + (g[p] - f[p])
    <3>1. p \in 0 .. N - 1 /\ \A i \in 0 .. N - 1 : f[i] \in Int /\ (i # p => g[i] = f[i])
      BY <1>1, <2>1, <2>2
    <3>2. Sum(g, 0, N - 1) = Sum(f, 0, N - 1) + (g[p] - f[p])
      BY <2>1, <2>2, <3>1, SumChange, ZenonT(30)
    <3> QED
      BY <3>2 DEF StackTotal
  <2>3. /\ StackTotal(t.stack) = StackTotal(s.stack) + (t.stack[p] - s.stack[p])
        /\ StackTotal(t.bet) = StackTotal(s.bet) + (t.bet[p] - s.bet[p])
    BY <1>1, <1>2, <2>2
  <2>4. StackTotal(s.stack) \in Nat /\ StackTotal(s.bet) \in Nat
    BY StackTotalType DEF States
  <2> QED
    BY <1>1, <1>2, <2>3, <2>4
<1>4. PlayersWhoCanAct(t) \subseteq PlayersWhoCanAct(s)
  BY <1>2 DEF PlayersWhoCanAct, CanAct
<1>5. \A i \in Seats : b[i] - t.stack[i] - t.bet[i] = b[i] - s.stack[i] - s.bet[i]
  BY <1>1, <1>2
<1>6. \A i \in Seats : SharesEveryPot(t, i) <=> SharesEveryPot(s, i)
  BY <1>2 DEF SharesEveryPot
<1>7. PlayersWhoCanAct(s) \subseteq Seats
  BY DEF PlayersWhoCanAct
<1> QED
  BY <1>2, <1>3, <1>4, <1>5, <1>6, <1>7 DEF PotsAreFair

(* A leader other than the actor still leads while the bet stays the same. *)
LEMMA LeaderStays ==
    ASSUME NEW s \in States, NEW t \in States, ByActor(s, t), t.currentBet = s.currentBet,
           NEW i \in Seats \ {s.activePlayer}, Leads(s, i)
    PROVE  Leads(t, i)
<1>1. t.status[i] = s.status[i] /\ t.bet[i] = s.bet[i] /\ t.pots = s.pots
  BY DEF ByActor
<1> QED
  BY <1>1 DEF Leads, HasMatched, ActivePlayers, SharesEveryPot

(* While the bet stays the same, the actor, who is last in the order, only *)
(* has to match it to keep the order.                                      *)
LEMMA OrderStays ==
    ASSUME NEW s \in States, NEW t \in States, ByActor(s, t), t.currentBet = s.currentBet,
           InTurn(s, PlayersWhoCanAct(s) \ {s.activePlayer}),
           s.activePlayer \in PlayersWhoCanAct(t) => HasMatched(t, s.activePlayer)
    PROVE  InTurn(t, PlayersWhoCanAct(t))
<1> DEFINE p == s.activePlayer
<1> SUFFICES ASSUME NEW i \in PlayersWhoCanAct(t), NEW j \in PlayersWhoCanAct(t),
                    Distance(p, i) < Distance(p, j), HasMatched(t, i)
             PROVE  HasMatched(t, j)
  BY DEF InTurn, ByActor
<1>1. p \in Seats /\ i \in Seats /\ j \in Seats
  BY DEF States, PlayersWhoCanAct
<1>2. i # p
  BY <1>1, DistanceFacts, TableAssumption
<1>3. CASE j = p
  BY <1>3
<1>4. CASE j # p
  <2>1. /\ t.status[i] = s.status[i] /\ t.bet[i] = s.bet[i] /\ t.stack[i] = s.stack[i]
        /\ t.status[j] = s.status[j] /\ t.bet[j] = s.bet[j] /\ t.stack[j] = s.stack[j]
    BY <1>1, <1>2, <1>4 DEF ByActor
  <2>2. i \in PlayersWhoCanAct(s) /\ j \in PlayersWhoCanAct(s)
    BY <2>1 DEF PlayersWhoCanAct, CanAct
  <2> QED
    BY <1>2, <1>4, <2>1, <2>2 DEF InTurn, HasMatched
<1> QED
  BY <1>3, <1>4

LEMMA FoldActs ==
    ASSUME NEW s \in States, NEW b \in [Seats -> Nat], Waiting(s, b), WithinLimit(s),
           MayFold(s)
    PROVE  ByActor(s, Fold(s)) /\ Acted(Fold(s), b)
<1> DEFINE p == s.activePlayer
           t == Fold(s)
<1>1. t \in States /\ p \in Seats /\ p \in PlayersWhoCanAct(s)
  BY FoldType DEF States, MayFold, MayAct, PlayersWhoCanAct
<1>2. /\ t.stack = s.stack /\ t.bet = s.bet /\ t.pots = s.pots
      /\ t.currentBet = s.currentBet /\ t.activePlayer = s.activePlayer
      /\ t.eventSequence = s.eventSequence
      /\ t.status[p] = "folded" /\ \A i \in Seats : i # p => t.status[i] = s.status[i]
  BY DEF Fold, States
<1>3. \A i \in Seats : s.stack[i] \in Nat /\ s.bet[i] \in Nat /\ s.bet[i] <= s.currentBet
  BY DEF States, WithinLimit
<1> HIDE DEF t
<1>4. ByActor(s, t)
  BY <1>1, <1>2, <1>3 DEF ByActor, MayFold
<1>5. PotsAreFair(t, b)
  BY <1>1, <1>4, ActionKeepsPots DEF Waiting
<1>6. InTurn(t, PlayersWhoCanAct(t))
  <2>1. p \notin PlayersWhoCanAct(t)
    BY <1>1, <1>2 DEF PlayersWhoCanAct, CanAct
  <2> QED
    BY <1>1, <1>2, <1>4, <2>1, OrderStays DEF Waiting
<1>7. Payable(t)
  <2>1. PICK l \in Seats : Leads(s, l)
    BY DEF Waiting
  <2>2. CASE l # p
    BY <1>1, <1>2, <1>4, <2>1, <2>2, LeaderStays DEF Payable
  <2>3. CASE l = p /\ ~IsHandOver(s)
    <3>1. s.currentBet = 0
      BY <1>3, <2>1, <2>3 DEF Waiting, MayFold, Leads, HasMatched, States
    <3>2. PICK x \in PlayersWhoCanAct(s) : x # p
      BY <2>3, HandOver
    <3>3. x \in Seats /\ x \in ActivePlayers(s)
      BY DEF PlayersWhoCanAct, CanAct, ActivePlayers
    <3>4. Leads(s, x)
      BY <1>3, <3>1, <3>3 DEF Leads, HasMatched, Waiting, PotsAreFair
    <3> QED
      BY <1>1, <1>2, <1>4, <3>2, <3>3, <3>4, LeaderStays DEF Payable
  <2>4. CASE l = p /\ IsHandOver(s)
    <3>1. PICK q \in Seats \ {p} : ActivePlayers(s) = {p, q}
      BY <2>1, <2>4 DEF Waiting, MayFold, Leads
    <3>2. ActivePlayers(t) = {q}
      BY <1>1, <1>2, <3>1 DEF ActivePlayers
    <3> QED
      BY <3>2, FS_Singleton DEF Payable
  <2> QED
    BY <2>2, <2>3, <2>4
<1> QED
  BY <1>4, <1>5, <1>6, <1>7 DEF Acted, t

LEMMA CheckActs ==
    ASSUME NEW s \in States, NEW b \in [Seats -> Nat], Waiting(s, b), WithinLimit(s),
           MayCheck(s)
    PROVE  ByActor(s, s) /\ Acted(s, b)
<1>1. ByActor(s, s)
  BY DEF ByActor, MayCheck
<1>2. HasMatched(s, s.activePlayer)
  BY DEF MayCheck, WithinLimit, HasMatched, States
<1>3. InTurn(s, PlayersWhoCanAct(s))
  BY <1>1, <1>2, OrderStays DEF Waiting
<1> QED
  BY <1>1, <1>3 DEF Waiting, Acted, Payable

LEMMA CallActs ==
    ASSUME NEW s \in States, NEW b \in [Seats -> Nat], Waiting(s, b), WithinLimit(s),
           MayCall(s)
    PROVE  ByActor(s, Call(s)) /\ Acted(Call(s), b)
<1> DEFINE p == s.activePlayer
           t == Call(s)
           owed == s.currentBet - s.bet[p]
           amount == IF owed >= s.stack[p] THEN s.stack[p] ELSE owed
<1>1. /\ t \in States /\ p \in Seats /\ s.bet[p] # s.currentBet
      /\ s.currentBet \in Nat /\ s.stack[p] \in Nat /\ s.bet[p] \in Nat
      /\ s.stack \in [Seats -> Nat] /\ s.bet \in [Seats -> Nat]
      /\ s.status \in [Seats -> PlayerStatus]
  BY CallType DEF States, MayCall
<1>2. /\ t.pots = s.pots /\ t.currentBet = s.currentBet /\ t.activePlayer = s.activePlayer
      /\ t.eventSequence = s.eventSequence
      /\ t.stack = [s.stack EXCEPT ![p] = @ - amount]
      /\ t.bet = [s.bet EXCEPT ![p] = @ + amount]
      /\ t.status = [s.status EXCEPT ![p] = IF owed >= s.stack[p] THEN "allin" ELSE @]
  BY DEF Call, States
<1> HIDE DEF t
<1>3. /\ \A i \in Seats \ {p} : /\ t.stack[i] = s.stack[i] /\ t.bet[i] = s.bet[i]
                                /\ t.status[i] = s.status[i]
      /\ t.stack[p] = s.stack[p] - amount /\ t.bet[p] = s.bet[p] + amount
      /\ owed >= s.stack[p] => t.status[p] = "allin"
  BY <1>1, <1>2
<1>4. ByActor(s, t)
  <2>1. t.stack[p] + t.bet[p] = s.stack[p] + s.bet[p]
    BY <1>1, <1>3
  <2> QED
    BY <1>2, <1>3, <2>1 DEF ByActor, MayCall
<1>5. PotsAreFair(t, b)
  BY <1>1, <1>4, ActionKeepsPots DEF Waiting
<1>6. InTurn(t, PlayersWhoCanAct(t))
  <2>1. p \in PlayersWhoCanAct(t) => HasMatched(t, p)
    BY <1>1, <1>2, <1>3 DEF PlayersWhoCanAct, CanAct, HasMatched
  <2> QED
    BY <1>1, <1>2, <1>4, <2>1, OrderStays DEF Waiting
<1>7. Payable(t)
  <2>1. PICK l \in Seats : Leads(s, l)
    BY DEF Waiting
  <2>2. l # p
    BY <1>1, <2>1 DEF Leads, HasMatched
  <2> QED
    BY <1>1, <1>2, <1>4, <2>1, <2>2, LeaderStays DEF Payable
<1> QED
  BY <1>4, <1>5, <1>6, <1>7 DEF Acted, t

LEMMA RaiseActs ==
    ASSUME NEW s \in States, NEW b \in [Seats -> Nat], Waiting(s, b), WithinLimit(s),
           s.street # "showdown", MayRaise(s)
    PROVE  ByActor(s, Raise(s)) /\ Acted(Raise(s), b)
<1> DEFINE p == s.activePlayer
           t == Raise(s)
           amount == RaiseTo(s) - s.bet[p]
<1>1. /\ t \in States /\ p \in Seats /\ p \in PlayersWhoCanAct(s)
      /\ s.currentBet \in Nat /\ s.stack[p] \in Nat /\ s.bet[p] \in Nat
      /\ s.stack \in [Seats -> Nat] /\ s.bet \in [Seats -> Nat]
      /\ s.status \in [Seats -> PlayerStatus]
  BY RaiseType DEF States, MayRaise, MayAct, PlayersWhoCanAct
<1>2. RaiseTo(s) \in Nat /\ RaiseTo(s) > s.currentBet
  <2>1. BetSizeForStreet(s) \in Nat
    BY BetSizeType
  <2>2. BetSizeForStreet(s) > 0
    BY BettingAssumption, SMTT(40) DEF States, Street, BetSizeForStreet, SmallBet, BigBet, BigBlind
  <2> QED
    BY <1>1, <2>1, <2>2 DEF RaiseTo
<1>3. /\ t.pots = s.pots /\ t.currentBet = RaiseTo(s) /\ t.activePlayer = s.activePlayer
      /\ t.eventSequence = s.eventSequence
      /\ t.stack = [s.stack EXCEPT ![p] = @ - amount]
      /\ t.bet = [s.bet EXCEPT ![p] = RaiseTo(s)]
      /\ t.status = [s.status EXCEPT ![p] = IF s.stack[p] = amount THEN "allin" ELSE @]
  BY DEF Raise, States
<1> HIDE DEF t
<1>4. /\ \A i \in Seats \ {p} : /\ t.stack[i] = s.stack[i] /\ t.bet[i] = s.bet[i]
                                /\ t.status[i] = s.status[i]
      /\ t.stack[p] = s.stack[p] - amount /\ t.bet[p] = RaiseTo(s)
      /\ t.status[p] \in {"active", "allin"}
  BY <1>1, <1>3 DEF PlayersWhoCanAct, CanAct
<1>5. ByActor(s, t)
  BY <1>1, <1>2, <1>3, <1>4 DEF ByActor, MayRaise
<1>6. PotsAreFair(t, b)
  BY <1>1, <1>5, ActionKeepsPots DEF Waiting
<1>7. InTurn(t, PlayersWhoCanAct(t))
  <2> SUFFICES ASSUME NEW i \in PlayersWhoCanAct(t), NEW j \in PlayersWhoCanAct(t),
                      Distance(p, i) < Distance(p, j), HasMatched(t, i)
               PROVE  FALSE
    BY <1>3 DEF InTurn
  <2>1. i \in Seats /\ j \in Seats
    BY DEF PlayersWhoCanAct
  <2>2. i # p
    BY <1>1, <2>1, DistanceFacts, TableAssumption
  <2>3. t.bet[i] = s.bet[i] /\ s.bet[i] \in Nat /\ s.bet[i] <= s.currentBet
    BY <1>1, <1>4, <2>1, <2>2 DEF WithinLimit
  <2> QED
    BY <1>1, <1>2, <1>3, <2>3 DEF HasMatched
<1>8. Leads(t, p)
  BY <1>1, <1>3, <1>4 DEF Leads, HasMatched, ActivePlayers, Waiting, PotsAreFair, SharesEveryPot
<1> QED
  BY <1>1, <1>5, <1>6, <1>7, <1>8 DEF Acted, Payable, t
-----------------------------------------------------------------------------
(* ApplyAction.Execute, after the action. *)

(* Two players can still act, so the pots have a leader. *)
LEMMA SomebodyLeads ==
    ASSUME NEW s \in States, ~IsHandOver(s), Payable(s)
    PROVE  \E i \in Seats : Leads(s, i)
<1>1. PICK i, j \in PlayersWhoCanAct(s) : i # j
  BY HandOver
<1>2. i \in ActivePlayers(s) /\ j \in ActivePlayers(s)
  BY DEF PlayersWhoCanAct, CanAct, ActivePlayers
<1>3. IsFiniteSet(ActivePlayers(s))
  BY SeatsFinite DEF ActivePlayers
<1>4. Cardinality(ActivePlayers(s)) # 1
  BY <1>1, <1>2, <1>3, FS_Singleton
<1> QED
  BY <1>4 DEF Payable

LEMMA PassTurnWaits ==
    ASSUME NEW s \in States, WithinLimit(s), NEW b, Acted(s, b),
           ~IsHandOver(s), ~IsBettingRoundOver(s)
    PROVE  LET t == [s EXCEPT !.activePlayer = NextActivePlayer(s)]
           IN  Waiting(t, b) /\ Keeps(s, t) /\ t.eventSequence = s.eventSequence
<1> DEFINE t == [s EXCEPT !.activePlayer = NextActivePlayer(s)]
           a == s.activePlayer
           q == NextActivePlayer(s)
           S == PlayersWhoCanAct(s)
<1>1. /\ t.stack = s.stack /\ t.status = s.status /\ t.bet = s.bet /\ t.pots = s.pots
      /\ t.currentBet = s.currentBet /\ t.eventSequence = s.eventSequence
      /\ t.activePlayer = q
  BY DEF States
<1>2. /\ S \in SUBSET Seats /\ S # {} /\ a \in Seats
      /\ \A i \in Seats : s.stack[i] \in Nat /\ s.bet[i] \in Nat /\ s.bet[i] <= s.currentBet
      /\ s.currentBet \in Nat
  BY HandOver DEF PlayersWhoCanAct, States, WithinLimit
<1> HIDE DEF t
<1>3. PlayersWhoCanAct(t) = S /\ ActivePlayers(t) = ActivePlayers(s)
  BY <1>1 DEF PlayersWhoCanAct, CanAct, ActivePlayers
<1>4. q \in S /\ \A y \in S : Distance(a, q) <= Distance(a, y)
  <2> HIDE DEF S, a
  <2>1. q = FirstAfter(S, a, a)
    BY DEF NextActivePlayer, S, a
  <2> HIDE DEF q
  <2> QED
    BY <1>2, <2>1, FirstAfterIsNearest
<1> HIDE DEF q
<1>5. PotsAreFair(t, b)
  BY <1>1, <1>3 DEF Acted, PotsAreFair, SharesEveryPot
<1>6. \E i \in Seats : Leads(t, i)
  BY <1>1, <1>3, SomebodyLeads DEF Acted, Leads, HasMatched, SharesEveryPot
<1>7. InTurn(t, S \ {q})
  <2> SUFFICES ASSUME NEW i \in S \ {q}, NEW j \in S \ {q},
                      Distance(q, i) < Distance(q, j), HasMatched(t, i)
               PROVE  HasMatched(t, j)
    BY <1>1 DEF InTurn
  <2>1. Distance(a, i) < Distance(a, j)
    <3> HIDE DEF S, a
    <3> QED
      BY <1>2, <1>4, TurnKeepsOrder
  <2> QED
    BY <1>1, <2>1 DEF Acted, InTurn, HasMatched
<1>8. s.bet[q] < s.currentBet
  <2>1. PICK i \in S : s.bet[i] < s.currentBet
    BY <1>2 DEF IsBettingRoundOver
  <2>2. ~HasMatched(s, i)
    BY <1>2, <2>1 DEF HasMatched
  <2>3. ~HasMatched(s, q)
    <3>1. CASE i = q
      BY <2>2, <3>1
    <3>2. CASE i # q
      <4>1. Distance(a, q) < Distance(a, i)
        BY <1>2, <1>4, <3>2, DistanceFacts, TableAssumption
      <4> QED
        BY <1>4, <2>2, <4>1 DEF Acted, InTurn
    <3> QED
      BY <3>1, <3>2
  <2> QED
    BY <1>2, <1>4, <2>3 DEF HasMatched
<1>9. ~IsHandOver(t)
  BY <1>3 DEF IsHandOver
<1>10. Keeps(s, t)
  <2>1. Len(s.pots) \in Nat
    BY DEF States
  <2> QED
    BY <1>1, <1>2, <2>1 DEF Keeps
<1> QED
  BY <1>1, <1>3, <1>5, <1>6, <1>7, <1>8, <1>9, <1>10 DEF Waiting, t

LEMMA advanceStreetWaits ==
    ASSUME NEW s \in States, CanDeal(s), WithinLimit(s), NEW b \in [Seats -> Nat],
           PotsAreFair(s, b), ~IsHandOver(s), IsBettingRoundOver(s)
    PROVE  LET t == advanceStreet(s)
           IN  Waiting(t, b) /\ Keeps(s, t) /\ t.eventSequence = s.eventSequence
<1> DEFINE t == advanceStreet(s)
           c == CollectBets(s)
           S == PlayersWhoCanAct(s)
<1>1. /\ t.stack = s.stack /\ t.status = s.status
      /\ t.bet = [i \in Seats |-> 0] /\ t.currentBet = 0 /\ t.pots = c.pots
  BY advanceStreetFields
<1>2. t.eventSequence = s.eventSequence
  BY CollectBetsType DEF advanceStreet, CollectBets, States
<1>3. /\ S \in SUBSET Seats
      /\ \A i \in Seats : s.stack[i] \in Nat /\ s.bet[i] \in Nat /\ s.bet[i] <= s.currentBet
      /\ \A i \in Seats : b[i] \in Nat
      /\ s.currentBet \in Nat
      /\ \A i \in S : s.bet[i] = s.currentBet
  <2>1. S \in SUBSET Seats
    BY DEF PlayersWhoCanAct
  <2>2. /\ \A i \in Seats : s.stack[i] \in Nat /\ s.bet[i] \in Nat
        /\ \A i \in Seats : b[i] \in Nat
        /\ s.currentBet \in Nat
    BY DEF States
  <2>3. \A i \in Seats : s.bet[i] <= s.currentBet
    BY DEF WithinLimit
  <2>4. \A i \in S : s.bet[i] >= s.currentBet
    BY DEF IsBettingRoundOver
  <2> HIDE DEF S
  <2> QED
    BY <2>1, <2>2, <2>3, <2>4
<1> HIDE DEF t, c
<1>4. PlayersWhoCanAct(t) = S
  BY <1>1 DEF PlayersWhoCanAct, CanAct
<1>5. /\ Len(s.pots) <= Len(t.pots)
      /\ \A k \in 1 .. Len(s.pots) : t.pots[k].eligible = s.pots[k].eligible
      /\ \A i \in S : SharesEveryPot(t, i)
  <2>1. /\ Len(s.pots) <= Len(c.pots)
        /\ \A k \in 1 .. Len(s.pots) : c.pots[k].eligible = s.pots[k].eligible
        /\ \A i \in Seats :
              SharesEveryPot(s, i) /\ (\A j \in Seats : s.bet[j] <= s.bet[i])
                  => SharesEveryPot(c, i)
    BY CollectBetsEligible DEF c
  <2>2. \A i \in S : SharesEveryPot(s, i)
    BY DEF PotsAreFair
  <2> QED
    BY <1>1, <1>3, <2>1, <2>2 DEF SharesEveryPot
<1>6. \A i \in Seats : HasMatched(t, i)
  BY <1>1 DEF HasMatched
<1>7. PotsAreFair(t, b)
  <2>1. Total(t.pots) = Total(s.pots) + StackTotal(s.bet)
    BY <1>1, CollectBetsTotal DEF StackTotal, c
  <2>2. StackTotal(t.bet) = 0
    BY <1>1, StackTotalOfNothing
  <2>3. StackTotal(s.stack) \in Nat /\ StackTotal(s.bet) \in Nat /\ Total(s.pots) \in Nat
    BY StackTotalType, TotalType DEF States
  <2>4. StackTotal(b) = StackTotal(t.stack) + StackTotal(t.bet) + Total(t.pots)
    BY <1>1, <2>1, <2>2, <2>3 DEF PotsAreFair
  <2>5. ASSUME NEW i \in S, NEW j \in Seats
        PROVE  b[j] - t.stack[j] - t.bet[j] <= b[i] - t.stack[i] - t.bet[i]
    <3>1. b[j] - s.stack[j] - s.bet[j] <= b[i] - s.stack[i] - s.bet[i]
      BY DEF PotsAreFair
    <3>2. t.bet[i] = 0 /\ t.bet[j] = 0 /\ t.stack[i] = s.stack[i] /\ t.stack[j] = s.stack[j]
      BY <1>1, <1>3
    <3> QED
      BY <1>3, <3>1, <3>2
  <2> QED
    BY <1>4, <1>5, <2>4, <2>5 DEF PotsAreFair
<1>8. \E i \in Seats : Leads(t, i)
  <2>1. PICK i \in S : TRUE
    BY HandOver
  <2>2. i \in Seats /\ i \in ActivePlayers(t)
    BY <1>1 DEF PlayersWhoCanAct, CanAct, ActivePlayers
  <2> QED
    BY <1>5, <1>6, <2>2 DEF Leads
<1>9. InTurn(t, PlayersWhoCanAct(t) \ {t.activePlayer})
  BY <1>3, <1>4, <1>6 DEF InTurn
<1>10. ~IsHandOver(t) /\ ~(t.currentBet > 0)
  BY <1>1, <1>4 DEF IsHandOver
<1>11. Keeps(s, t)
  BY <1>1, <1>3, <1>5 DEF Keeps
<1> QED
  BY <1>2, <1>7, <1>8, <1>9, <1>10, <1>11 DEF Waiting, t

(* What Keeps says also holds from the first to the last of three hands. *)
LEMMA KeepsOn ==
    ASSUME NEW s \in States, NEW t \in States, NEW u \in States, Keeps(s, t), Keeps(t, u)
    PROVE  Keeps(s, u)
<1>1. \A i \in Seats : s.stack[i] \in Nat /\ t.stack[i] \in Nat /\ u.stack[i] \in Nat
  BY DEF States
<1>2. ASSUME NEW v \in States PROVE Len(v.pots) \in Nat
  BY DEF States
<1>3. \A i \in Seats : u.stack[i] >= s.stack[i]
  BY <1>1 DEF Keeps
<1>4. /\ Len(s.pots) <= Len(u.pots)
      /\ \A k \in 1 .. Len(s.pots) : u.pots[k].eligible = s.pots[k].eligible
  BY <1>2 DEF Keeps
<1> QED
  BY <1>3, <1>4 DEF Keeps

(* ApplyAction.Execute passes the turn, goes to the next street or ends    *)
(* the hand; the pots are paid to their claimants when it does.            *)
LEMMA ExecuteKeeps ==
    ASSUME TypeOK, NEW s \in States, WithinLimit(s), CardsAccounted(s),
           s.street # "showdown", Acted(s, buyIn), handEnded = NoHand, Execute(s)
    PROVE  /\ Running' => Waiting(hand, buyIn)' /\ handEnded' = NoHand
           /\ ChipConservation' /\ HandEndedAddsUp'
           /\ hand' \in States /\ Keeps(s, hand') /\ hand'.eventSequence > s.eventSequence
<1> DEFINE t == AdvanceEventSequence(s)
<1>1. t \in States /\ buyIn \in [Seats -> Nat] /\ buyIn' = buyIn
  BY AdvanceEventSequenceType DEF TypeOK, Execute
<1>2. /\ t.stack = s.stack /\ t.status = s.status /\ t.bet = s.bet /\ t.pots = s.pots
      /\ t.street = s.street /\ t.currentBet = s.currentBet /\ t.activePlayer = s.activePlayer
      /\ t.raises = s.raises /\ t.board = s.board /\ t.deck = s.deck
      /\ t.eventSequence = s.eventSequence + 1 /\ s.eventSequence \in Nat
  BY DEF AdvanceEventSequence, States
<1> HIDE DEF t
<1>3. WithinLimit(t) /\ CardsAccounted(t) /\ t.street # "showdown"
  <2>1. BetSizeForStreet(t) = BetSizeForStreet(s)
    BY <1>2 DEF BetSizeForStreet
  <2> QED
    BY <1>2, <2>1 DEF WithinLimit, CardsAccounted
<1>4. PlayersWhoCanAct(t) = PlayersWhoCanAct(s) /\ ActivePlayers(t) = ActivePlayers(s)
  BY <1>2 DEF PlayersWhoCanAct, CanAct, ActivePlayers
<1>5. Acted(t, buyIn)
  <2>1. PotsAreFair(t, buyIn)
    BY <1>2, <1>4 DEF Acted, PotsAreFair, SharesEveryPot
  <2>2. Payable(t)
    BY <1>2, <1>4 DEF Acted, Payable, Leads, HasMatched, SharesEveryPot
  <2>3. InTurn(t, PlayersWhoCanAct(t))
    BY <1>2, <1>4 DEF Acted, InTurn, HasMatched
  <2> QED
    BY <2>1, <2>2, <2>3 DEF Acted
<1>6. \A u : Keeps(t, u) => Keeps(s, u)
  BY <1>2 DEF Keeps
<1>7. ASSUME NEW u \in States, WithinLimit(u), CardsAccounted(u), Payable(u),
             PotsAreFair(u, buyIn), Keeps(t, u), u.eventSequence = t.eventSequence,
             FinishHand(u)
      PROVE  /\ ~Running' /\ ChipConservation' /\ HandEndedAddsUp'
             /\ hand' \in States /\ Keeps(s, hand') /\ hand'.eventSequence > s.eventSequence
  <2>1. /\ StackTotal(hand'.stack) + StackTotal(hand'.bet) + handEnded'.rake
              = StackTotal(u.stack) + StackTotal(u.bet) + Total(u.pots)
        /\ HandEndedAddsUp'
        /\ Keeps(u, hand')
        /\ hand'.eventSequence = u.eventSequence + 1
    BY <1>7, FinishHandPays
  <2>2. hand' \in States /\ hand'.street = "showdown"
    BY <1>7, FinishHandType
  <2>3. ~Running'
    BY <2>2 DEF Running
  <2>4. ChipConservation'
    BY <1>1, <1>7, <2>1, <2>3 DEF ChipConservation, PotsAreFair
  <2>5. Keeps(s, hand')
    BY <1>1, <1>6, <1>7, <2>1, <2>2, KeepsOn
  <2> QED
    BY <1>2, <1>7, <2>1, <2>2, <2>3, <2>4, <2>5
<1>8. ASSUME NEW u \in States, u.street # "showdown", Waiting(u, buyIn), Keeps(t, u),
             u.eventSequence = t.eventSequence, hand' = u, handEnded' = handEnded
      PROVE  /\ Running' => Waiting(hand, buyIn)' /\ handEnded' = NoHand
             /\ ChipConservation' /\ HandEndedAddsUp'
             /\ hand' \in States /\ Keeps(s, hand') /\ hand'.eventSequence > s.eventSequence
  <2>1. Running'
    BY <1>8, NoHandAssumption DEF Running
  <2>2. ChipConservation'
    BY <1>1, <1>8, <2>1 DEF ChipConservation, Waiting, PotsAreFair
  <2>3. HandEndedAddsUp'
    BY <1>8 DEF HandEndedAddsUp
  <2> QED
    BY <1>1, <1>2, <1>6, <1>8, <2>1, <2>2, <2>3
<1>9. CASE EndByAction(t)
  <2>1. Keeps(t, t)
    BY <1>1 DEF Keeps, States
  <2> QED
    BY <1>1, <1>3, <1>5, <1>7, <1>9, <2>1 DEF EndByAction, Acted
<1>10. ASSUME ~IsHandOver(t), IsBettingRoundOver(t), CanDeal(t)
       PROVE  /\ advanceStreet(t) \in States /\ WithinLimit(advanceStreet(t))
              /\ CardsAccounted(advanceStreet(t))
              /\ Waiting(advanceStreet(t), buyIn) /\ Keeps(t, advanceStreet(t))
              /\ advanceStreet(t).eventSequence = t.eventSequence
              /\ advanceStreet(t).street = NextStreet(t.street)
  BY <1>1, <1>3, <1>5, <1>10, advanceStreetType, advanceStreetFields, advanceStreetWaits,
     advanceStreetWithinLimit, advanceStreetCards DEF Acted
<1>11. CASE EndByShowdown(t)
  <2> DEFINE u == advanceStreet(t)
  <2> HIDE DEF u
  <2>1. FinishHand(u)
    BY <1>11 DEF EndByShowdown, u
  <2>2. /\ u \in States /\ WithinLimit(u) /\ CardsAccounted(u) /\ Waiting(u, buyIn)
        /\ Keeps(t, u) /\ u.eventSequence = t.eventSequence
    BY <1>10, <1>11 DEF EndByShowdown, u
  <2> QED
    BY <1>7, <2>1, <2>2 DEF Waiting, Payable
<1>12. CASE GoToNextStreet(t)
  BY <1>8, <1>10, <1>12 DEF GoToNextStreet
<1>13. CASE PassTurn(t)
  <2> DEFINE u == [t EXCEPT !.activePlayer = NextActivePlayer(t)]
  <2>1. hand' = u /\ handEnded' = handEnded
    BY <1>13 DEF PassTurn
  <2>2. u \in States /\ u.street # "showdown"
    BY <1>1, <1>3, PassTurnType DEF States
  <2>3. Waiting(u, buyIn) /\ Keeps(t, u) /\ u.eventSequence = t.eventSequence
    BY <1>1, <1>3, <1>5, <1>13, PassTurnWaits DEF PassTurn
  <2> HIDE DEF u
  <2> QED
    BY <1>8, <2>1, <2>2, <2>3
<1> QED
  BY <1>9, <1>11, <1>12, <1>13 DEF Execute, t
-----------------------------------------------------------------------------
(* What the use cases keep, one request after another: while a hand runs   *)
(* it waits for its active player, and once it has ended its chips are     *)
(* with the players and the house.                                         *)
HandInv ==
    /\ Running => Waiting(hand, buyIn) /\ handEnded = NoHand
    /\ hand # NoHand => hand.eventSequence >= 1
    /\ ChipConservation /\ HandEndedAddsUp

(* A request that the engine accepts: the action leaves a hand t, from     *)
(* which ApplyAction.Execute goes on.                                      *)
LEMMA PlayerActsOn ==
    ASSUME LimitInv, HandInv, Running, PlayerActs
    PROVE  \E t \in States :
              /\ ByActor(hand, t) /\ Acted(t, buyIn) /\ WithinLimit(t) /\ CardsAccounted(t)
              /\ t.street # "showdown" /\ Execute(t)
<1>1. /\ hand \in States /\ buyIn \in [Seats -> Nat] /\ Waiting(hand, buyIn)
      /\ WithinLimit(hand) /\ CardsAccounted(hand) /\ hand.street # "showdown"
  BY DEF LimitInv, HandInv, Running, TypeOK, FixedLimit, BoardFollowsStreet
<1>2. CASE PlayerFolds
  <2>1. MayFold(hand) /\ Execute(Fold(hand))
    BY <1>2 DEF PlayerFolds
  <2>2. /\ Fold(hand).street = hand.street /\ Fold(hand).board = hand.board
        /\ Fold(hand).deck = hand.deck
    BY <1>1 DEF Fold, States
  <2>3. Fold(hand) \in States /\ WithinLimit(Fold(hand)) /\ CardsAccounted(Fold(hand))
    BY <1>1, <2>2, FoldType, FoldWithinLimit DEF CardsAccounted
  <2>4. ByActor(hand, Fold(hand)) /\ Acted(Fold(hand), buyIn)
    BY <1>1, <2>1, FoldActs
  <2> QED
    BY <1>1, <2>1, <2>2, <2>3, <2>4
<1>3. CASE PlayerChecks
  <2>1. MayCheck(hand) /\ Execute(hand)
    BY <1>3 DEF PlayerChecks
  <2>2. ByActor(hand, hand) /\ Acted(hand, buyIn)
    BY <1>1, <2>1, CheckActs
  <2> QED
    BY <1>1, <2>1, <2>2
<1>4. CASE PlayerCalls
  <2>1. MayCall(hand) /\ Execute(Call(hand))
    BY <1>4 DEF PlayerCalls
  <2>2. /\ Call(hand).street = hand.street /\ Call(hand).board = hand.board
        /\ Call(hand).deck = hand.deck
    BY <1>1 DEF Call, States
  <2>3. Call(hand) \in States /\ WithinLimit(Call(hand)) /\ CardsAccounted(Call(hand))
    BY <1>1, <2>1, <2>2, CallType, CallWithinLimit DEF CardsAccounted
  <2>4. ByActor(hand, Call(hand)) /\ Acted(Call(hand), buyIn)
    BY <1>1, <2>1, CallActs
  <2> QED
    BY <1>1, <2>1, <2>2, <2>3, <2>4
<1>5. CASE PlayerRaises
  <2>1. MayRaise(hand) /\ Execute(Raise(hand))
    BY <1>5 DEF PlayerRaises
  <2>2. /\ Raise(hand).street = hand.street /\ Raise(hand).board = hand.board
        /\ Raise(hand).deck = hand.deck
    BY <1>1 DEF Raise, States
  <2>3. Raise(hand) \in States /\ WithinLimit(Raise(hand)) /\ CardsAccounted(Raise(hand))
    BY <1>1, <2>1, <2>2, RaiseType, RaiseWithinLimit DEF CardsAccounted
  <2>4. ByActor(hand, Raise(hand)) /\ Acted(Raise(hand), buyIn)
    BY <1>1, <2>1, RaiseActs
  <2> QED
    BY <1>1, <2>1, <2>2, <2>3, <2>4
<1> QED
  BY <1>2, <1>3, <1>4, <1>5 DEF PlayerActs

LEMMA ActionKeepsInvariant ==
    ASSUME LimitInv, HandInv, Running, PlayerActs
    PROVE  HandInv' /\ TheActorPays
<1>1. PICK t \in States :
        /\ ByActor(hand, t) /\ Acted(t, buyIn) /\ WithinLimit(t) /\ CardsAccounted(t)
        /\ t.street # "showdown" /\ Execute(t)
  BY PlayerActsOn
<1>2. hand \in States /\ handEnded = NoHand /\ TypeOK
  BY DEF LimitInv, HandInv, Running, TypeOK
<1>3. /\ Running' => Waiting(hand, buyIn)' /\ handEnded' = NoHand
      /\ ChipConservation' /\ HandEndedAddsUp'
      /\ hand' \in States /\ Keeps(t, hand') /\ hand'.eventSequence > t.eventSequence
  BY <1>1, <1>2, ExecuteKeeps
<1>4. HandInv'
  <2>1. hand'.eventSequence >= 1
    BY <1>1, <1>3 DEF States
  <2> QED
    BY <1>3, <2>1 DEF HandInv
<1>5. TheActorPays
  <2>1. \A i \in Seats \ {hand.activePlayer} : hand'.stack[i] >= hand.stack[i]
    BY <1>1, <1>3 DEF ByActor, Keeps
  <2>2. \A i \in Seats : hand.status[i] # "active" => hand'.status[i] = hand.status[i]
    BY <1>1, <1>3 DEF ByActor, Keeps, MayAct, CanAct
  <2>3. \A k \in DOMAIN hand.pots :
          k \in DOMAIN hand'.pots /\ hand.pots[k].eligible = hand'.pots[k].eligible
    <3>1. t.pots = hand.pots
      BY <1>1 DEF ByActor
    <3>2. ASSUME NEW v \in States
          PROVE  DOMAIN v.pots = 1 .. Len(v.pots) /\ Len(v.pots) \in Nat
      BY DEF States
    <3> QED
      BY <1>2, <1>3, <3>1, <3>2 DEF Keeps
  <2> QED
    BY <2>1, <2>2, <2>3 DEF TheActorPays
<1> QED
  BY <1>4, <1>5

LEMMA StartKeepsInvariant ==
    ASSUME TypeOK, HandInv, StartHand
    PROVE  HandInv' /\ TheActorPays
<1>1. PICK stacks \in [Seats -> StartStacks], button \in Seats :
        /\ CanPostBlinds(stacks, button)
        /\ hand' = NewHand(stacks, button)
        /\ buyIn' = stacks
  BY DEF StartHand
<1>2. stacks \in [Seats -> Nat \ {0}] /\ stacks \in [Seats -> Nat] /\ 2 * N <= DeckSize
  BY StacksAssumption DEF StartHand
<1> DEFINE h == NewHand(stacks, button)
<1>3. h \in States /\ Waiting(h, stacks)
  BY <1>1, <1>2, NewHandType, NewHandWaits
<1>4. h.street = "preflop" /\ h.eventSequence = 1
  BY DEF NewHand
<1> HIDE DEF h
<1>5. hand' = h /\ buyIn' = stacks /\ handEnded' = NoHand
  BY <1>1 DEF StartHand, h
<1>6. Running'
  BY <1>3, <1>4, <1>5, NoHandAssumption DEF Running
<1>7. ChipConservation' /\ HandEndedAddsUp'
  BY <1>3, <1>5, <1>6 DEF ChipConservation, HandEndedAddsUp, Waiting, PotsAreFair
<1>8. TheActorPays
  <2>1. hand # NoHand => hand.eventSequence \in Nat /\ hand.eventSequence >= 1
    BY DEF TypeOK, HandInv, States
  <2> QED
    BY <1>4, <1>5, <2>1 DEF TheActorPays, SameHand
<1> QED
  BY <1>3, <1>4, <1>5, <1>7, <1>8 DEF HandInv

LEMMA NextKeepsInvariant ==
    LimitInv /\ HandInv /\ [Next]_vars => HandInv' /\ [TheActorPays]_vars
<1> SUFFICES ASSUME LimitInv, HandInv, [Next]_vars
             PROVE  HandInv' /\ [TheActorPays]_vars
  OBVIOUS
<1>1. CASE StartHand
  BY <1>1, StartKeepsInvariant DEF LimitInv
<1>2. CASE Running /\ PlayerActs
  BY <1>2, ActionKeepsInvariant
<1>3. CASE UNCHANGED vars
  BY <1>3 DEF vars, HandInv, Running, ChipConservation, HandEndedAddsUp
<1> QED
  BY <1>1, <1>2, <1>3 DEF Next

LEMMA HandInvariant == Spec => []HandInv
<1>1. Init => HandInv
  BY DEF Init, HandInv, Running, ChipConservation, HandEndedAddsUp
<1> QED
  BY <1>1, LimitInvariant, NextKeepsInvariant, PTL DEF Spec

(* No chip is created or lost by the blinds, the bets, the side pots, the  *)
(* rake or the payout, whatever the players, the stacks and the rake.      *)
THEOREM ChipConservationHolds == Spec => []ChipConservation
BY HandInvariant, PTL DEF HandInv

(* The hand.ended event of every hand adds up: the winners contended, are  *)
(* paid no more than the pots they may claim, and together the net pot.    *)
THEOREM HandEndedAddsUpHolds == Spec => []HandEndedAddsUp
BY HandInvariant, PTL DEF HandInv

(* The claims and the payments of the invariant are those of the two       *)
(* properties.                                                             *)
LEMMA HandInvShares ==
    TypeOK /\ HandInv => LivePlayersShareEveryPot /\ StreetsCloseEven
<1>1. TypeOK /\ HandInv => LivePlayersShareEveryPot
  <2> SUFFICES ASSUME TypeOK, HandInv, Running,
                      NEW k \in DOMAIN hand.pots, NEW i \in PlayersWhoCanAct(hand)
               PROVE  i \in hand.pots[k].eligible
    BY DEF LivePlayersShareEveryPot
  <2>1. hand \in States /\ SharesEveryPot(hand, i)
    BY DEF Running, TypeOK, HandInv, Waiting, PotsAreFair
  <2>2. DOMAIN hand.pots = 1 .. Len(hand.pots)
    BY <2>1 DEF States
  <2> QED
    BY <2>1, <2>2 DEF SharesEveryPot
<1>2. HandInv => StreetsCloseEven
  BY DEF HandInv, StreetsCloseEven, Waiting, PotsAreFair, PaidBefore
<1> QED
  BY <1>1, <1>2

(* On every street, whoever can still act may claim every pot there is.    *)
THEOREM LivePlayersShareEveryPotHolds == Spec => []LivePlayersShareEveryPot
BY HandInvShares, HandInvariant, TypeCorrect, PTL

(* A street closes only when the players who can act have paid alike, and  *)
(* once there is a bet the turn only comes to a player who has not matched *)
(* it.                                                                     *)
THEOREM StreetsCloseEvenHolds == Spec => []StreetsCloseEven
BY HandInvShares, HandInvariant, TypeCorrect, PTL

(* No accepted request takes chips, a status or a claim to a pot from      *)
(* anybody but the player who made it.                                     *)
THEOREM OnlyTheActorPaysHolds == Spec => OnlyTheActorPays
<1>1. LimitInv /\ HandInv /\ [Next]_vars => [TheActorPays]_vars
  BY NextKeepsInvariant
<1> QED
  BY <1>1, LimitInvariant, HandInvariant, PTL DEF Spec, OnlyTheActorPays
-----------------------------------------------------------------------------
(* A hand cannot go on for ever.  HandEnds is a liveness property; this is *)
(* the measure it rests on.                                                *)

StreetNumber(street) ==
    CASE street = "preflop" -> 0
      [] street = "flop"    -> 1
      [] street = "turn"    -> 2
      [] street = "river"   -> 3
      [] street = "showdown" -> 4

(* The players who can act and have not matched the bet. *)
Behind(s) == {i \in PlayersWhoCanAct(s) : s.bet[i] < s.currentBet}

(* Hand t is further than s: a later street, or on the same street one     *)
(* more raise, or as many and fewer players behind.                        *)
Further(s, t) ==
    \/ StreetNumber(s.street) < StreetNumber(t.street)
    \/ t.street = s.street /\ s.raises < t.raises
    \/ /\ t.street = s.street /\ t.raises = s.raises
       /\ Behind(t) \subseteq Behind(s) /\ Behind(t) # Behind(s)

(* Every action that ApplyAction accepts brings the hand further. *)
EveryActionProgresses == [][Running /\ Running' => Further(hand, hand')]_vars

(* The raises and calls that a hand can have had when it is at s. *)
Progress(s) ==
    (StreetNumber(s.street) * (MaxRaisesPerStreet + 1) + s.raises) * (N + 1)
        + (N - Cardinality(Behind(s)))

(* A running hand has had no more actions (each has a sequence number)     *)
(* than the streets, the raise cap and the players allow.                  *)
HandIsBounded ==
    Running => /\ hand.eventSequence <= 1 + Progress(hand)
               /\ hand.eventSequence <= 4 * (MaxRaisesPerStreet + 1) * (N + 1)

LEMMA BehindFacts ==
    ASSUME NEW s \in States
    PROVE  /\ IsFiniteSet(Behind(s)) /\ Behind(s) \subseteq Seats
           /\ Cardinality(Behind(s)) \in 0 .. N
<1>1. Behind(s) \subseteq Seats
  BY DEF Behind, PlayersWhoCanAct
<1>2. IsFiniteSet(Seats) /\ Cardinality(Seats) = N
  BY SeatsFinite, FS_Interval, TableAssumption DEF Seats
<1>3. IsFiniteSet(Behind(s)) /\ Cardinality(Behind(s)) <= N /\ Cardinality(Behind(s)) \in Nat
  BY <1>1, <1>2, FS_Subset, FS_CardinalityType
<1> QED
  BY <1>1, <1>3, TableAssumption

(* domain.ApplyAction, any action but a raise: the actor is no longer      *)
(* behind, and everybody else is as before.                                *)
LEMMA ActorNotBehind ==
    ASSUME NEW s \in States, NEW t \in States, MayAct(s),
           t.currentBet = s.currentBet,
           \A i \in Seats \ {s.activePlayer} :
               t.stack[i] = s.stack[i] /\ t.bet[i] = s.bet[i] /\ t.status[i] = s.status[i],
           CanAct(t, s.activePlayer) => t.bet[s.activePlayer] >= s.currentBet
    PROVE  /\ Behind(t) = Behind(s) \ {s.activePlayer}
           /\ PlayersWhoCanAct(t) \subseteq PlayersWhoCanAct(s)
<1> DEFINE p == s.activePlayer
<1>1. p \in Seats /\ CanAct(s, p) /\ s.currentBet \in Nat /\ t.bet[p] \in Nat
  BY DEF States, MayAct
<1>2. \A i \in Seats : i # p => (CanAct(t, i) <=> CanAct(s, i)) /\ t.bet[i] = s.bet[i]
  BY DEF CanAct
<1>3. ~(CanAct(t, p) /\ t.bet[p] < t.currentBet)
  BY <1>1
<1> HIDE DEF p
<1>4. \A i : i \in Behind(t) <=> i \in Behind(s) /\ i # p
  BY <1>2, <1>3 DEF Behind, PlayersWhoCanAct
<1>5. PlayersWhoCanAct(t) \subseteq PlayersWhoCanAct(s)
  BY <1>1, <1>2 DEF PlayersWhoCanAct
<1> QED
  BY <1>4, <1>5 DEF p

(* If the turn is passed after that, the actor was behind: nobody checks   *)
(* with a bet to match, and without one the street closes.                 *)
LEMMA ActorWasBehind ==
    ASSUME NEW s \in States, NEW t \in States, NEW b, Waiting(s, b), MayAct(s),
           t.currentBet = s.currentBet, PlayersWhoCanAct(t) \subseteq PlayersWhoCanAct(s),
           ~IsHandOver(t), ~IsBettingRoundOver(t)
    PROVE  s.activePlayer \in Behind(s)
<1>1. ~IsHandOver(s)
  <2>1. PlayersWhoCanAct(s) \in SUBSET Seats /\ PlayersWhoCanAct(t) \in SUBSET Seats
    BY DEF PlayersWhoCanAct
  <2>2. /\ IsFiniteSet(PlayersWhoCanAct(s))
        /\ Cardinality(PlayersWhoCanAct(s)) \in Nat /\ Cardinality(PlayersWhoCanAct(t)) \in Nat
    BY <2>1, SeatsFinite
  <2>3. Cardinality(PlayersWhoCanAct(t)) <= Cardinality(PlayersWhoCanAct(s))
    BY <2>2, FS_Subset
  <2> QED
    BY <2>2, <2>3 DEF IsHandOver
<1>2. s.currentBet > 0
  <2>1. PICK i \in PlayersWhoCanAct(t) : ~(t.bet[i] >= t.currentBet)
    BY DEF IsBettingRoundOver
  <2>2. i \in Seats /\ t.bet[i] \in Nat /\ t.currentBet \in Nat
    BY <2>1 DEF PlayersWhoCanAct, States
  <2> QED
    BY <2>1, <2>2
<1>3. s.bet[s.activePlayer] < s.currentBet
  BY <1>1, <1>2 DEF Waiting
<1> QED
  BY <1>3 DEF Behind, PlayersWhoCanAct, MayAct, States

(* What an accepted action leaves: a raise, or the actor out of Behind. *)
Moves(s, t) ==
    /\ t \in States /\ t.street = s.street /\ t.eventSequence = s.eventSequence
    /\ \/ t.raises = s.raises + 1
       \/ /\ t.raises = s.raises /\ t.currentBet = s.currentBet
          /\ Behind(t) = Behind(s) \ {s.activePlayer}
          /\ PlayersWhoCanAct(t) \subseteq PlayersWhoCanAct(s)

LEMMA FoldMoves ==
    ASSUME NEW s \in States, MayFold(s)
    PROVE  Moves(s, Fold(s))
<1> DEFINE t == Fold(s)
           p == s.activePlayer
<1>1. t \in States /\ p \in Seats
  BY FoldType DEF States
<1>2. /\ t.street = s.street /\ t.eventSequence = s.eventSequence /\ t.raises = s.raises
      /\ t.currentBet = s.currentBet /\ t.stack = s.stack /\ t.bet = s.bet
      /\ t.status = [s.status EXCEPT ![p] = "folded"]
  BY DEF Fold, States
<1> HIDE DEF t
<1>3. \A i \in Seats : t.status[i] = IF i = p THEN "folded" ELSE s.status[i]
  BY <1>2 DEF States
<1>4. ~CanAct(t, p)
  BY <1>1, <1>3 DEF CanAct
<1>5. Behind(t) = Behind(s) \ {p} /\ PlayersWhoCanAct(t) \subseteq PlayersWhoCanAct(s)
  BY <1>1, <1>2, <1>3, <1>4, ActorNotBehind DEF MayFold
<1> QED
  BY <1>1, <1>2, <1>5 DEF Moves, t

LEMMA CheckMoves ==
    ASSUME NEW s \in States, MayCheck(s)
    PROVE  Moves(s, s)
<1>1. s.bet[s.activePlayer] >= s.currentBet
  BY DEF MayCheck, States
<1>2. Behind(s) = Behind(s) \ {s.activePlayer}
  BY <1>1, ActorNotBehind DEF MayCheck
<1> QED
  BY <1>2 DEF Moves

LEMMA CallMoves ==
    ASSUME NEW s \in States, MayCall(s)
    PROVE  Moves(s, Call(s))
<1> DEFINE t == Call(s)
           p == s.activePlayer
           owed == s.currentBet - s.bet[p]
           amount == IF owed >= s.stack[p] THEN s.stack[p] ELSE owed
           status == IF owed >= s.stack[p] THEN "allin" ELSE s.status[p]
<1>1. t \in States /\ p \in Seats
  BY CallType DEF States
<1>2. /\ t.street = s.street /\ t.eventSequence = s.eventSequence /\ t.raises = s.raises
      /\ t.currentBet = s.currentBet
      /\ t.stack = [s.stack EXCEPT ![p] = s.stack[p] - amount]
      /\ t.bet = [s.bet EXCEPT ![p] = s.bet[p] + amount]
      /\ t.status = [s.status EXCEPT ![p] = status]
  BY DEF Call, States
<1>3. s.currentBet \in Nat /\ s.bet[p] \in Nat /\ s.stack[p] \in Nat
  BY <1>1 DEF States
<1>4. status # "active" \/ s.bet[p] + amount = s.currentBet
  BY <1>3
<1> HIDE DEF t, amount, status
<1>5. \A i \in Seats :
         /\ t.stack[i] = IF i = p THEN s.stack[p] - amount ELSE s.stack[i]
         /\ t.bet[i] = IF i = p THEN s.bet[p] + amount ELSE s.bet[i]
         /\ t.status[i] = IF i = p THEN status ELSE s.status[i]
  BY <1>2 DEF States
<1>6. CanAct(t, p) => t.bet[p] >= s.currentBet
  BY <1>1, <1>3, <1>4, <1>5 DEF CanAct
<1>7. \A i \in Seats \ {p} :
         t.stack[i] = s.stack[i] /\ t.bet[i] = s.bet[i] /\ t.status[i] = s.status[i]
  BY <1>5
<1>8. Behind(t) = Behind(s) \ {p} /\ PlayersWhoCanAct(t) \subseteq PlayersWhoCanAct(s)
  BY <1>1, <1>2, <1>6, <1>7, ActorNotBehind DEF MayCall
<1> QED
  BY <1>1, <1>2, <1>8 DEF Moves, t

LEMMA RaiseMoves ==
    ASSUME NEW s \in States, MayRaise(s)
    PROVE  Moves(s, Raise(s))
<1>1. /\ Raise(s).street = s.street /\ Raise(s).eventSequence = s.eventSequence
      /\ Raise(s).raises = s.raises + 1
  BY DEF Raise, States
<1> QED
  BY <1>1, RaiseType DEF Moves

(* Execute after the action: the hand that goes on has one event more and  *)
(* is further.                                                             *)
LEMMA ExecuteGoesFurther ==
    ASSUME NEW s \in States, NEW b, Waiting(s, b), MayAct(s), s.street # "showdown",
           NEW t, Moves(s, t), Execute(t), hand' # NoHand, hand'.street # "showdown"
    PROVE  /\ hand' \in States /\ Further(s, hand')
           /\ hand'.eventSequence = s.eventSequence + 1
<1> DEFINE a == AdvanceEventSequence(t)
<1>1. t \in States /\ t.street = s.street /\ t.eventSequence = s.eventSequence
  BY DEF Moves
<1>2. a \in States
  BY <1>1, AdvanceEventSequenceType
<1>3. /\ a.street = t.street /\ a.eventSequence = t.eventSequence + 1 /\ a.raises = t.raises
      /\ a.currentBet = t.currentBet /\ a.stack = t.stack /\ a.bet = t.bet
      /\ a.status = t.status
  BY <1>1 DEF AdvanceEventSequence, States
<1>4. EndByAction(a) \/ EndByShowdown(a) \/ GoToNextStreet(a) \/ PassTurn(a)
  BY DEF Execute
<1> HIDE DEF a
<1>5. ASSUME NEW u \in States, FinishHand(u) PROVE FALSE
  <2>1. RakedHand(u) \in States
    BY RakedHandType
  <2>2. PICK w : hand' = Award(RakedHand(u), w)
    BY <1>5 DEF FinishHand
  <2>3. hand'.street = "showdown"
    BY <2>1, <2>2 DEF Award, States
  <2> QED
    BY <2>3
<1>6. CASE EndByAction(a)
  BY <1>2, <1>5, <1>6 DEF EndByAction
<1>7. CASE EndByShowdown(a)
  BY <1>2, <1>5, <1>7, advanceStreetType DEF EndByShowdown
<1>8. CASE GoToNextStreet(a)
  <2>1. hand' = advanceStreet(a) /\ CanDeal(a)
    BY <1>8 DEF GoToNextStreet
  <2>2. hand' \in States /\ hand'.street = NextStreet(s.street)
    BY <1>1, <1>2, <1>3, <2>1, advanceStreetType, advanceStreetFields
  <2>3. hand'.eventSequence = a.eventSequence
    BY <1>2, <2>1 DEF advanceStreet, CollectBets, States
  <2>4. StreetNumber(s.street) < StreetNumber(NextStreet(s.street))
    <3>1. s.street \in {"preflop", "flop", "turn", "river"}
      BY DEF States, Street
    <3> QED
      BY <3>1 DEF StreetNumber, NextStreet
  <2> QED
    BY <1>1, <1>3, <2>2, <2>3, <2>4 DEF Further
<1>9. CASE PassTurn(a)
  <2> DEFINE u == [a EXCEPT !.activePlayer = NextActivePlayer(a)]
  <2>1. hand' = u /\ ~IsHandOver(a) /\ ~IsBettingRoundOver(a)
    BY <1>9 DEF PassTurn
  <2>2. u \in States
    BY <1>2, PassTurnType
  <2>3. /\ u.street = s.street /\ u.eventSequence = s.eventSequence + 1 /\ u.raises = t.raises
        /\ u.currentBet = t.currentBet /\ u.stack = t.stack /\ u.bet = t.bet
        /\ u.status = t.status
    BY <1>1, <1>2, <1>3 DEF States
  <2> HIDE DEF u
  <2>4. Behind(u) = Behind(t)
    BY <2>3 DEF Behind, PlayersWhoCanAct, CanAct
  <2>5. CASE t.raises = s.raises + 1
    <3>1. s.raises < u.raises
      BY <2>3, <2>5 DEF States
    <3> QED
      BY <2>1, <2>2, <2>3, <3>1 DEF Further
  <2>6. CASE /\ t.raises = s.raises /\ t.currentBet = s.currentBet
             /\ Behind(t) = Behind(s) \ {s.activePlayer}
             /\ PlayersWhoCanAct(t) \subseteq PlayersWhoCanAct(s)
    <3>1. ~IsHandOver(t) /\ ~IsBettingRoundOver(t)
      BY <1>3, <2>1 DEF IsHandOver, IsBettingRoundOver, PlayersWhoCanAct, CanAct
    <3>2. s.activePlayer \in Behind(s)
      BY <1>1, <2>6, <3>1, ActorWasBehind
    <3> QED
      BY <2>1, <2>2, <2>3, <2>4, <2>6, <3>2 DEF Further
  <2> QED
    BY <2>5, <2>6 DEF Moves
<1> QED
  BY <1>4, <1>6, <1>7, <1>8, <1>9

LEMMA ActionGoesFurther ==
    ASSUME LimitInv, HandInv, [Next]_vars, Running, Running', vars' # vars
    PROVE  /\ hand \in States /\ hand' \in States /\ Further(hand, hand')
           /\ hand'.eventSequence = hand.eventSequence + 1
<1>1. /\ hand \in States /\ Waiting(hand, buyIn) /\ hand.street # "showdown"
      /\ hand' # NoHand /\ hand'.street # "showdown"
  BY DEF LimitInv, HandInv, Running, TypeOK
<1>2. PlayerActs
  BY DEF Next, StartHand
<1>3. CASE PlayerFolds
  BY <1>1, <1>3, FoldMoves, ExecuteGoesFurther DEF PlayerFolds, MayFold
<1>4. CASE PlayerChecks
  BY <1>1, <1>4, CheckMoves, ExecuteGoesFurther DEF PlayerChecks, MayCheck
<1>5. CASE PlayerCalls
  BY <1>1, <1>5, CallMoves, ExecuteGoesFurther DEF PlayerCalls, MayCall
<1>6. CASE PlayerRaises
  BY <1>1, <1>6, RaiseMoves, ExecuteGoesFurther DEF PlayerRaises, MayRaise
<1> QED
  BY <1>2, <1>3, <1>4, <1>5, <1>6 DEF PlayerActs

(* Every accepted action but the last of a hand moves it to a later        *)
(* street, or raises, or leaves one player less to match the bet           *)
(* (ApplyAction, NextActivePlayer, IsBettingRoundOver): what HandEnds      *)
(* rests on.  Nobody is asked twice for the same bet.                      *)
THEOREM EveryActionProgressesHolds == Spec => EveryActionProgresses
<1>1. LimitInv /\ HandInv /\ [Next]_vars => [Running /\ Running' => Further(hand, hand')]_vars
  BY ActionGoesFurther
<1> QED
  BY <1>1, LimitInvariant, HandInvariant, PTL DEF Spec, EveryActionProgresses

(* Arithmetic: what comes first counts most. *)
LEMMA MoreIsMore ==
    ASSUME NEW m \in Nat, NEW x \in Nat, NEW y \in Nat, x < y
    PROVE  x * (m + 1) + m + 1 <= y * (m + 1)
<1>1. PICK d \in Nat : y = x + 1 + d
  <2>1. y - x - 1 \in Nat /\ y = x + 1 + (y - x - 1)
    OBVIOUS
  <2> QED
    BY <2>1
<1>2. (x + 1 + d) * (m + 1) = x * (m + 1) + (m + 1) + d * (m + 1)
  OBVIOUS
<1>3. d * (m + 1) \in Nat /\ x * (m + 1) \in Nat
  OBVIOUS
<1> QED
  BY <1>1, <1>2, <1>3

LEMMA Counted ==
    ASSUME NEW n \in Nat, NEW x \in Nat, NEW y \in Nat, NEW b \in 0 .. n, NEW c \in 0 .. n,
           x < y \/ (x = y /\ c < b)
    PROVE  x * (n + 1) + (n - b) + 1 <= y * (n + 1) + (n - c)
<1>1. x * (n + 1) \in Nat /\ y * (n + 1) \in Nat
  OBVIOUS
<1>2. CASE x < y
  <2>1. x * (n + 1) + n + 1 <= y * (n + 1)
    BY <1>2, MoreIsMore
  <2> HIDE <1>2
  <2> DEFINE X == x * (n + 1)
             Y == y * (n + 1)
  <2>2. X \in Nat /\ Y \in Nat /\ X + n + 1 <= Y
    BY <1>1, <2>1
  <2> HIDE DEF X, Y
  <2>3. X + (n - b) + 1 <= Y + (n - c)
    BY <2>2
  <2> QED
    BY <2>3 DEF X, Y
<1>3. CASE x = y /\ c < b
  <2> DEFINE X == x * (n + 1)
  <2>1. X \in Nat
    BY <1>1
  <2> HIDE DEF X
  <2>2. X + (n - b) + 1 <= X + (n - c)
    BY <1>3, <2>1
  <2> QED
    BY <1>3, <2>2 DEF X
<1> QED
  BY <1>2, <1>3

Rounds(s) == StreetNumber(s.street) * (MaxRaisesPerStreet + 1) + s.raises

LEMMA RoundsType ==
    ASSUME NEW s \in States
    PROVE  /\ StreetNumber(s.street) \in 0 .. 4 /\ s.raises \in Nat /\ Rounds(s) \in Nat
           /\ s.street # "showdown" => StreetNumber(s.street) \in 0 .. 3
<1>1. s.street \in {"preflop", "flop", "turn", "river", "showdown"} /\ s.raises \in Nat
  BY DEF States, Street
<1>2. /\ StreetNumber(s.street) \in 0 .. 4
      /\ s.street # "showdown" => StreetNumber(s.street) \in 0 .. 3
  BY <1>1 DEF StreetNumber
<1>3. \A k, m \in Nat : k * m \in Nat
  OBVIOUS
<1>4. Rounds(s) \in Nat
  BY <1>1, <1>2, <1>3, BettingAssumption DEF Rounds
<1> QED
  BY <1>1, <1>2, <1>4

LEMMA FurtherCounts ==
    ASSUME NEW s \in States, NEW t \in States, s.raises <= MaxRaisesPerStreet, Further(s, t)
    PROVE  Progress(s) + 1 <= Progress(t)
<1> DEFINE b == Cardinality(Behind(s))
           c == Cardinality(Behind(t))
           x == Rounds(s)
           y == Rounds(t)
<1>1. /\ b \in 0 .. N /\ c \in 0 .. N /\ N \in Nat /\ x \in Nat /\ y \in Nat
      /\ MaxRaisesPerStreet \in Nat /\ s.raises \in Nat /\ t.raises \in Nat
      /\ StreetNumber(s.street) \in Nat /\ StreetNumber(t.street) \in Nat
  BY BehindFacts, RoundsType, TableAssumption, BettingAssumption
<1>2. x < y \/ (x = y /\ c < b)
  <2>1. CASE StreetNumber(s.street) < StreetNumber(t.street)
    <3> DEFINE K == StreetNumber(s.street) * (MaxRaisesPerStreet + 1)
               L == StreetNumber(t.street) * (MaxRaisesPerStreet + 1)
    <3>1. K + MaxRaisesPerStreet + 1 <= L
      BY <1>1, <2>1, MoreIsMore
    <3>2. K \in Nat /\ L \in Nat
      BY <1>1
    <3>3. x = K + s.raises /\ y = L + t.raises
      BY DEF Rounds
    <3> HIDE DEF K, L, x, y
    <3> QED
      BY <1>1, <3>1, <3>2, <3>3
  <2>2. CASE t.street = s.street /\ s.raises < t.raises
    <3> DEFINE K == StreetNumber(s.street) * (MaxRaisesPerStreet + 1)
    <3>1. K \in Nat
      BY <1>1
    <3>2. x = K + s.raises /\ y = K + t.raises
      BY <2>2 DEF Rounds
    <3> HIDE DEF K, x, y
    <3> QED
      BY <1>1, <2>2, <3>1, <3>2
  <2>3. CASE /\ t.street = s.street /\ t.raises = s.raises
             /\ Behind(t) \subseteq Behind(s) /\ Behind(t) # Behind(s)
    <3>1. c < b
      BY <1>1, <2>3, BehindFacts, FS_Subset
    <3>2. x = y
      BY <2>3 DEF Rounds
    <3> QED
      BY <3>1, <3>2
  <2> QED
    BY <2>1, <2>2, <2>3 DEF Further
<1> HIDE DEF b, c, x, y
<1>3. x * (N + 1) + (N - b) + 1 <= y * (N + 1) + (N - c)
  BY <1>1, <1>2, Counted
<1>4. Progress(s) = x * (N + 1) + (N - b) /\ Progress(t) = y * (N + 1) + (N - c)
  BY DEF Progress, Rounds, x, y, b, c
<1> QED
  BY <1>3, <1>4

LEMMA ProgressRange ==
    ASSUME NEW s \in States, s.street # "showdown", s.raises <= MaxRaisesPerStreet
    PROVE  Progress(s) \in Nat /\ 1 + Progress(s) <= 4 * (MaxRaisesPerStreet + 1) * (N + 1)
<1> DEFINE b == Cardinality(Behind(s))
           x == Rounds(s)
           y == 4 * (MaxRaisesPerStreet + 1)
<1>1. /\ b \in 0 .. N /\ N \in Nat /\ x \in Nat /\ s.raises \in Nat
      /\ MaxRaisesPerStreet \in Nat /\ StreetNumber(s.street) \in 0 .. 3
  BY BehindFacts, RoundsType, TableAssumption, BettingAssumption
<1>2. x < y
  <2> DEFINE K == StreetNumber(s.street) * (MaxRaisesPerStreet + 1)
  <2>1. K \in Nat /\ K + MaxRaisesPerStreet + 1 <= y
    BY <1>1, MoreIsMore
  <2>2. x = K + s.raises
    BY DEF Rounds
  <2>3. y \in Nat
    BY <1>1
  <2> HIDE DEF K, x, y
  <2> QED
    BY <1>1, <2>1, <2>2, <2>3
<1>3. y \in Nat
  BY <1>1
<1> HIDE DEF b, x, y
<1>4. x * (N + 1) + N + 1 <= y * (N + 1)
  BY <1>1, <1>2, <1>3, MoreIsMore
<1>5. Progress(s) = x * (N + 1) + (N - b)
  BY DEF Progress, Rounds, x, b
<1> DEFINE X == x * (N + 1)
           Y == y * (N + 1)
<1>6. X \in Nat /\ Y \in Nat
  BY <1>1, <1>3
<1>7. X + N + 1 <= Y /\ Progress(s) = X + (N - b)
  BY <1>4, <1>5
<1> HIDE DEF X, Y
<1>8. Progress(s) \in Nat /\ 1 + Progress(s) <= Y
  BY <1>1, <1>6, <1>7
<1> QED
  BY <1>8 DEF Y, y

(* While a hand runs, the sequence numbers of its events are bounded by    *)
(* the streets, the raise cap and the players: however the players act, a  *)
(* hand takes finitely many actions, and the bound is known in advance     *)
(* (ApplyAction, AdvanceEventSequence).                                    *)
THEOREM HandIsBoundedHolds == Spec => []HandIsBounded
<1> DEFINE Counts == Running => hand.eventSequence <= 1 + Progress(hand)
<1>1. Init => Counts
  BY DEF Init, Running
<1>2. ASSUME LimitInv, HandInv, Counts, [Next]_vars PROVE Counts'
  <2>1. CASE UNCHANGED vars
    BY <1>2, <2>1 DEF vars, Running, Progress, Behind, PlayersWhoCanAct, CanAct
  <2>2. CASE Running /\ Running' /\ vars' # vars
    <3>1. /\ hand \in States /\ hand' \in States /\ Further(hand, hand')
          /\ hand'.eventSequence = hand.eventSequence + 1
      BY <1>2, <2>2, ActionGoesFurther
    <3>2. hand.raises <= MaxRaisesPerStreet /\ hand.street # "showdown"
      BY <1>2, <2>2 DEF LimitInv, FixedLimit, WithinLimit, Running
    <3>3. Progress(hand) + 1 <= Progress(hand')
      BY <3>1, <3>2, FurtherCounts
    <3>4. Progress(hand) \in Nat
      BY <3>1, <3>2, ProgressRange
    <3>5. Progress(hand') \in Int
      <4>1. Rounds(hand') \in Nat /\ Cardinality(Behind(hand')) \in 0 .. N /\ N \in Nat
        BY <3>1, RoundsType, BehindFacts, TableAssumption
      <4>2. \A k, m \in Nat : k * m \in Nat
        OBVIOUS
      <4>3. Rounds(hand') * (N + 1) \in Nat
        BY <4>1, <4>2
      <4> QED
        BY <4>1, <4>3 DEF Progress, Rounds
    <3>6. hand.eventSequence \in Nat /\ hand.eventSequence <= 1 + Progress(hand)
      BY <1>2, <2>2, <3>1 DEF States
    <3>7. hand'.eventSequence <= 1 + Progress(hand')
      BY <3>1, <3>3, <3>4, <3>5, <3>6
    <3> QED
      BY <3>7 DEF Progress, Behind, PlayersWhoCanAct, CanAct
  <2>3. CASE ~Running /\ Running' /\ vars' # vars
    <3>1. PICK stacks \in [Seats -> StartStacks], button \in Seats :
            /\ CanPostBlinds(stacks, button) /\ hand' = NewHand(stacks, button)
            /\ 2 * N <= DeckSize
      BY <1>2, <2>3 DEF Next, StartHand
    <3>2. stacks \in [Seats -> Nat]
      BY StacksAssumption
    <3>3. hand' \in States /\ WithinLimit(hand')
      BY <3>1, <3>2, NewHandType, NewHandWithinLimit
    <3>4. hand'.eventSequence = 1
      BY <3>1 DEF NewHand
    <3>5. hand'.raises <= MaxRaisesPerStreet /\ hand'.street # "showdown"
      BY <2>3, <3>3 DEF WithinLimit, Running
    <3>6. Progress(hand') \in Nat
      BY <3>3, <3>5, ProgressRange
    <3>7. hand'.eventSequence <= 1 + Progress(hand')
      BY <3>4, <3>6
    <3> QED
      BY <3>7 DEF Progress, Behind, PlayersWhoCanAct, CanAct
  <2> QED
    BY <1>2, <2>1, <2>2, <2>3
<1>3. LimitInv /\ Counts => HandIsBounded
  <2> SUFFICES ASSUME LimitInv, Counts, Running PROVE HandIsBounded
    BY DEF HandIsBounded
  <2>1. /\ hand \in States /\ hand.street # "showdown"
        /\ hand.raises <= MaxRaisesPerStreet /\ hand.eventSequence \in Nat
    BY DEF LimitInv, FixedLimit, WithinLimit, Running, TypeOK, States
  <2> DEFINE most == 4 * (MaxRaisesPerStreet + 1) * (N + 1)
  <2>2. Progress(hand) \in Nat /\ 1 + Progress(hand) <= most
    BY <2>1, ProgressRange
  <2>3. most \in Nat
    BY TableAssumption, BettingAssumption
  <2>4. hand.eventSequence <= 1 + Progress(hand)
    OBVIOUS
  <2> HIDE DEF most
  <2>5. hand.eventSequence <= most
    BY <2>1, <2>2, <2>3, <2>4
  <2> QED
    BY <2>4, <2>5 DEF HandIsBounded, most
<1> HIDE DEF Counts
<1> QED
  BY <1>1, <1>2, <1>3, LimitInvariant, HandInvariant, PTL DEF Spec
-----------------------------------------------------------------------------
(* Part three: EngineService. *)

(* The columns of the game_states row that RowKeepsLimit relates. *)
RowLimit(s) ==
    s.street # "showdown" =>
        /\ s.raises <= MaxRaisesPerStreet
        /\ s.currentBet = (IF s.street = "preflop" THEN BigBlind ELSE 0)
                              + s.raises * BetSizeForStreet(s)

(* Event e is of the action, or of the start, that led to hand s. *)
LogsHand(e, s) ==
    /\ e.kind # "ended"
    /\ \/ e.seq = s.eventSequence
       \/ e.seq = s.eventSequence - 1 /\ s.street = "showdown"
    /\ e.kind = "acted" /\ s.street # "showdown" =>
          IF e.street = s.street
          THEN /\ e.currentBet = s.currentBet
               /\ e.playerBet = s.bet[e.player]
          ELSE s.currentBet = 0

Logged(s) == \E e \in published : LogsHand(e, s)

(* What ApplyAction.Execute may save, and publish, for hand s. *)
Decided(s, state, ended) ==
    \E act \in Actions :
        /\ May(act, s)
        /\ \E o \in Outcomes(AdvanceEventSequence(ApplyAction(act, s))) :
              o.state = state /\ o.ended = ended

Reading == {"players", "board", "deck", "pots", "loaded"}

(* A request that has read the game_states row holds a hand, and one that  *)
(* has published its action holds what the log accounts for.               *)
RequestsHoldHands ==
    \A r \in Requests :
        /\ req[r].pc \notin {"idle", "game"} =>
              req[r].state \in States /\ RowLimit(req[r].state)
        /\ req[r].pc = "acted" => Logged(req[r].state)

(* There is a hand before anybody is told of it. *)
HandFirst ==
    /\ active \/ (\E r \in Requests : ~At(r, "idle")) => hand # NoHand
    /\ hand = NoHand => handEnded = NoHand

(* One request alone works on the hand that is stored. *)
OneAtATime ==
    ~overlapped =>
        /\ \A r, o \in Requests : ~At(r, "idle") /\ ~At(o, "idle") => r = o
        /\ \A r \in Requests :
              /\ req[r].pc \in Reading => req[r].state = hand
              /\ req[r].pc = "acted" =>
                    Decided(hand, req[r].state, req[r].ended)

ServiceInv ==
    /\ ServiceTypeOK
    /\ HandFirst
    /\ RequestsHoldHands
    /\ OneAtATime
    /\ hand # NoHand => RowLimit(hand)
    /\ active => Logged(hand)
-----------------------------------------------------------------------------
(* What one action computes. *)

LEMMA FinishedFacts ==
    ASSUME NEW s \in States, NEW o \in Finished(s)
    PROVE  /\ o.state \in States
           /\ o.state.street = "showdown"
           /\ o.state.eventSequence = s.eventSequence + 1
           /\ o.ended \in HandEndedEvents
           /\ \E rank \in Rankings(RakedHand(s)) :
              \E oddChips \in OddChipChoices(RakedHand(s).pots, rank) :
                 LET w == Winnings(RakedHand(s), rank, oddChips)
                 IN  /\ o.state = Award(RakedHand(s), w)
                     /\ o.ended = HandEndedEvent(s, w)
<1> DEFINE raked == RakedHand(s)
           won(rank, oddChips) == Winnings(raked, rank, oddChips)
<1>1. raked \in States /\ raked.eventSequence = s.eventSequence + 1
  BY RakedHandType, RakedHandFields
<1>2. PICK rank \in Rankings(raked) : \E oddChips \in OddChipChoices(raked.pots, rank) :
        o = [state |-> Award(raked, won(rank, oddChips)),
             ended |-> HandEndedEvent(s, won(rank, oddChips))]
  BY DEF Finished
<1>3. PICK oddChips \in OddChipChoices(raked.pots, rank) :
        o = [state |-> Award(raked, won(rank, oddChips)),
             ended |-> HandEndedEvent(s, won(rank, oddChips))]
  BY <1>2
<1> DEFINE w == won(rank, oddChips)
<1>4. w \in [Seats -> Nat]
  <2> HIDE DEF raked
  <2> QED
    BY <1>1, WinningsType
<1>5. o.state = Award(raked, w) /\ o.ended = HandEndedEvent(s, w)
  <2> HIDE DEF raked, w
  <2> QED
    BY <1>3 DEF w
<1>6. /\ Award(raked, w) \in States
      /\ Award(raked, w).street = "showdown"
      /\ Award(raked, w).eventSequence = raked.eventSequence
  <2> HIDE DEF raked, w
  <2>1. Award(raked, w) \in States
    BY <1>1, <1>4, AwardType
  <2> QED
    BY <1>1, <2>1 DEF Award, States
<1>7. HandEndedEvent(s, w) \in HandEndedEvents
  <2> HIDE DEF w
  <2> QED
    BY <1>4, HandEndedEventType
<1>8. \E rk \in Rankings(raked) : \E odd \in OddChipChoices(raked.pots, rk) :
         /\ o.state = Award(raked, won(rk, odd))
         /\ o.ended = HandEndedEvent(s, won(rk, odd))
  <2> HIDE DEF raked
  <2> QED
    BY <1>5 DEF w
<1> HIDE DEF w
<1> QED
  BY <1>1, <1>5, <1>6, <1>7, <1>8

(* What ApplyAction.Execute saves is the next turn, the next street or the *)
(* end of the hand.                                                        *)
LEMMA OutcomesFacts ==
    ASSUME NEW s \in States, NEW o \in Outcomes(s)
    PROVE  \/ /\ ~IsHandOver(s) /\ ~IsBettingRoundOver(s)
              /\ o.state = [s EXCEPT !.activePlayer = NextActivePlayer(s)]
              /\ o.ended = NoHand
           \/ /\ ~IsHandOver(s) /\ IsBettingRoundOver(s) /\ CanDeal(s)
              /\ NextStreet(s.street) # "showdown"
              /\ o.state = advanceStreet(s)
              /\ o.ended = NoHand
           \/ /\ ~IsHandOver(s) /\ IsBettingRoundOver(s) /\ CanDeal(s)
              /\ NextStreet(s.street) = "showdown"
              /\ o \in Finished(advanceStreet(s))
           \/ /\ IsHandOver(s)
              /\ o \in Finished(s)
<1>1. advanceStreet(s).street = NextStreet(s.street)
  BY advanceStreetFields
<1>2. CASE IsHandOver(s)
  BY <1>2 DEF Outcomes
<1>3. CASE ~IsHandOver(s) /\ ~IsBettingRoundOver(s)
  BY <1>3 DEF Outcomes
<1>4. CASE ~IsHandOver(s) /\ IsBettingRoundOver(s) /\ CanDeal(s)
  BY <1>1, <1>4 DEF Outcomes
<1>5. CASE ~IsHandOver(s) /\ IsBettingRoundOver(s) /\ ~CanDeal(s)
  BY <1>5 DEF Outcomes
<1> QED
  BY <1>2, <1>3, <1>4, <1>5

(* domain.ApplyAction and AdvanceEventSequence. *)
LEMMA ApplyActionFacts ==
    ASSUME NEW s \in States, NEW act \in Actions, May(act, s)
    PROVE  LET a == AdvanceEventSequence(ApplyAction(act, s))
           IN  /\ a \in States
               /\ a.street = s.street
               /\ RowLimit(s) => RowLimit(a)
<1> DEFINE t == ApplyAction(act, s)
           a == AdvanceEventSequence(t)
<1>1. /\ t \in States /\ t.street = s.street
      /\ RowLimit(s) /\ s.street # "showdown" =>
            /\ t.raises <= MaxRaisesPerStreet
            /\ t.currentBet = (IF s.street = "preflop" THEN BigBlind ELSE 0)
                                  + t.raises * BetSizeForStreet(s)
  <2>1. CASE act = "fold"
    <3>1. t = Fold(s)
      BY <2>1 DEF ApplyAction
    <3>2. /\ Fold(s).street = s.street /\ Fold(s).raises = s.raises
          /\ Fold(s).currentBet = s.currentBet
      BY DEF Fold, States
    <3> QED
      BY <3>1, <3>2, FoldType DEF RowLimit
  <2>2. CASE act = "check"
    BY <2>2 DEF ApplyAction, RowLimit
  <2>3. CASE act = "call"
    <3>1. t = Call(s) /\ MayCall(s)
      BY <2>3 DEF ApplyAction, May
    <3>2. /\ Call(s).street = s.street /\ Call(s).raises = s.raises
          /\ Call(s).currentBet = s.currentBet
      BY DEF Call, States
    <3> QED
      BY <3>1, <3>2, CallType DEF RowLimit
  <2>4. CASE act = "raise"
    <3>1. t = Raise(s) /\ MayRaise(s)
      BY <2>4 DEF ApplyAction, May
    <3>2. /\ Raise(s).street = s.street /\ Raise(s).raises = s.raises + 1
          /\ Raise(s).currentBet = s.currentBet + BetSizeForStreet(s)
      BY DEF Raise, RaiseTo, States
    <3>3. /\ s.raises \in Nat /\ BetSizeForStreet(s) \in Nat /\ BigBlind \in Nat
          /\ MaxRaisesPerStreet \in Nat
      BY BetSizeType, BettingAssumption DEF States
    <3>4. \A n, b \in Nat : (n + 1) * b = n * b + b
      OBVIOUS
    <3>5. (s.raises + 1) * BetSizeForStreet(s)
             = s.raises * BetSizeForStreet(s) + BetSizeForStreet(s)
      BY <3>3, <3>4
    <3>6. s.raises * BetSizeForStreet(s) \in Nat
      BY <3>3
    <3>7. s.raises + 1 <= MaxRaisesPerStreet
      BY <3>1, <3>3 DEF MayRaise
    <3>8. ASSUME RowLimit(s), s.street # "showdown"
          PROVE  s.currentBet + BetSizeForStreet(s)
                    = (IF s.street = "preflop" THEN BigBlind ELSE 0)
                          + (s.raises + 1) * BetSizeForStreet(s)
      BY <3>3, <3>5, <3>6, <3>8 DEF RowLimit
    <3> QED
      BY <3>1, <3>2, <3>7, <3>8, RaiseType
  <2> QED
    BY <2>1, <2>2, <2>3, <2>4 DEF Actions
<1> HIDE DEF t
<1>2. /\ a \in States /\ a.street = t.street /\ a.raises = t.raises
      /\ a.currentBet = t.currentBet
  <2>1. a \in States
    BY <1>1, AdvanceEventSequenceType
  <2> QED
    BY <1>1, <2>1 DEF AdvanceEventSequence, States
<1>3. BetSizeForStreet(a) = BetSizeForStreet(s)
  <2> HIDE DEF a
  <2> QED
    BY <1>1, <1>2 DEF BetSizeForStreet
<1>4. RowLimit(s) => RowLimit(a)
  <2> HIDE DEF a
  <2> QED
    BY <1>1, <1>2, <1>3 DEF RowLimit
<1> QED
  BY <1>1, <1>2, <1>4 DEF t

(* A street that is opened has no bet and no raise yet. *)
LEMMA advanceStreetRow ==
    ASSUME NEW s \in States, CanDeal(s)
    PROVE  /\ advanceStreet(s) \in States
           /\ advanceStreet(s).street # "preflop"
           /\ advanceStreet(s).eventSequence = s.eventSequence
           /\ RowLimit(advanceStreet(s))
<1> DEFINE a == advanceStreet(s)
<1>1. a \in States
  BY advanceStreetType
<1>2. a.currentBet = 0 /\ a.raises = 0 /\ a.street = NextStreet(s.street)
  BY advanceStreetFields
<1>3. a.eventSequence = s.eventSequence
  <2>1. CollectBets(s) \in States
    BY CollectBetsType
  <2>2. a.eventSequence = CollectBets(s).eventSequence
    BY <2>1 DEF advanceStreet, States
  <2>3. CollectBets(s).eventSequence = s.eventSequence
    BY DEF CollectBets, States
  <2> QED
    BY <2>2, <2>3
<1> HIDE DEF a
<1>4. a.street # "preflop"
  BY <1>2 DEF NextStreet, States, Street
<1>5. BetSizeForStreet(a) \in Nat
  BY <1>1, BetSizeType
<1>6. RowLimit(a)
  BY <1>2, <1>4, <1>5, BettingAssumption DEF RowLimit
<1> QED
  BY <1>1, <1>3, <1>4, <1>6 DEF a

(* What an action saves is a hand, within the limit if the hand read was,  *)
(* and the event of the action accounts for it.                            *)
LEMMA OutcomeIsSound ==
    ASSUME NEW s \in States, NEW act \in Actions, May(act, s), RowLimit(s),
           NEW o \in Outcomes(AdvanceEventSequence(ApplyAction(act, s)))
    PROVE  LET e == PlayerActedEvent(act,
                        AdvanceEventSequence(ApplyAction(act, s)), s.activePlayer)
           IN  /\ o.state \in States
               /\ o.ended \in HandEndedEvents \cup {NoHand}
               /\ RowLimit(o.state)
               /\ e \in Events
               /\ LogsHand(e, o.state)
<1> DEFINE a == AdvanceEventSequence(ApplyAction(act, s))
           e == PlayerActedEvent(act, a, s.activePlayer)
<1>1. a \in States /\ a.street = s.street /\ RowLimit(a)
  BY ApplyActionFacts
<1>2. o \in Outcomes(a) /\ s.activePlayer \in Seats
  BY DEF States
<1> HIDE DEF a
<1>3. /\ a.eventSequence \in Nat /\ a.street \in Street
      /\ a.currentBet \in Nat /\ a.bet \in [Seats -> Nat]
  BY <1>1 DEF States
<1>4. /\ e.kind = "acted" /\ e.seq = a.eventSequence /\ e.street = a.street
      /\ e.currentBet = a.currentBet /\ e.player = s.activePlayer
      /\ e.playerBet = a.bet[e.player]
  BY DEF PlayerActedEvent
<1>5. e \in Events
  BY <1>2, <1>3 DEF PlayerActedEvent, Events
<1> HIDE DEF e
<1>6. CASE /\ o.state = [a EXCEPT !.activePlayer = NextActivePlayer(a)]
           /\ o.ended = NoHand
  <2> DEFINE n == o.state
  <2>1. n \in States
    BY <1>1, <1>6, PassTurnType
  <2>2. /\ n.street = a.street /\ n.currentBet = a.currentBet /\ n.bet = a.bet
        /\ n.raises = a.raises /\ n.eventSequence = a.eventSequence
    BY <1>1, <1>6 DEF States
  <2> HIDE DEF n
  <2>3. BetSizeForStreet(n) = BetSizeForStreet(a)
    BY <2>2 DEF BetSizeForStreet
  <2>4. RowLimit(n)
    BY <1>1, <2>2, <2>3 DEF RowLimit
  <2>5. LogsHand(e, n)
    BY <1>4, <2>2 DEF LogsHand
  <2> QED
    BY <1>5, <1>6, <2>1, <2>4, <2>5 DEF n, e, a
<1>7. CASE CanDeal(a) /\ NextStreet(a.street) # "showdown" /\ o.state = advanceStreet(a)
           /\ o.ended = NoHand
  <2>1. /\ advanceStreet(a) \in States /\ RowLimit(advanceStreet(a))
        /\ advanceStreet(a).eventSequence = a.eventSequence
        /\ advanceStreet(a).street = NextStreet(a.street)
        /\ advanceStreet(a).currentBet = 0
    BY <1>1, <1>7, advanceStreetRow, advanceStreetFields
  <2>2. a.street # NextStreet(a.street)
    BY <1>3, <1>7 DEF NextStreet, Street
  <2>3. LogsHand(e, o.state)
    BY <1>4, <1>7, <2>1, <2>2 DEF LogsHand
  <2> QED
    BY <1>5, <1>7, <2>1, <2>3 DEF e, a
<1>8. ASSUME NEW f \in States, f.eventSequence = a.eventSequence, o \in Finished(f)
      PROVE  /\ o.state \in States
             /\ o.ended \in HandEndedEvents \cup {NoHand}
             /\ RowLimit(o.state)
             /\ LogsHand(e, o.state)
  <2>1. /\ o.state \in States /\ o.state.street = "showdown"
        /\ o.state.eventSequence = a.eventSequence + 1
        /\ o.ended \in HandEndedEvents
    BY <1>8, FinishedFacts
  <2>2. a.eventSequence = o.state.eventSequence - 1
    BY <1>3, <2>1
  <2> QED
    BY <1>4, <2>1, <2>2 DEF RowLimit, LogsHand
<1>9. CASE CanDeal(a) /\ o \in Finished(advanceStreet(a))
  <2>1. advanceStreet(a) \in States /\ advanceStreet(a).eventSequence = a.eventSequence
    BY <1>1, <1>9, advanceStreetRow
  <2> QED
    BY <1>5, <1>8, <1>9, <2>1 DEF e, a
<1>10. CASE o \in Finished(a)
  BY <1>1, <1>5, <1>8, <1>10 DEF e, a
<1> QED
  BY <1>1, <1>2, <1>6, <1>7, <1>9, <1>10, OutcomesFacts

(* GameStateRepo.Save leaves exactly the hand it is given: each statement  *)
(* replaces its own rows, and between them they replace all of them.       *)
LEMMA SaveReplacesEverything ==
    ASSUME NEW rows \in States, NEW s \in States
    PROVE  replacePots(replaceDeck(replaceBoard(replacePlayers(
               upsertGameState(rows, s), s), s), s), s) = s
BY DEF upsertGameState, replacePlayers, replaceBoard, replaceDeck, replacePots, States
-----------------------------------------------------------------------------
(* The invariant. *)

RequestRecord ==
    [pc : PC, state : States \cup {NoHand}, ended : HandEndedEvents \cup {NoHand}]

LEMMA RequestFields ==
    ASSUME NEW q \in RequestRecord, NEW pc \in PC, NEW state \in States \cup {NoHand}
    PROVE  /\ [q EXCEPT !.pc = pc] = [pc |-> pc, state |-> q.state, ended |-> q.ended]
           /\ [[q EXCEPT !.pc = pc] EXCEPT !.state = state]
                 = [pc |-> pc, state |-> state, ended |-> q.ended]
<1> DEFINE p == [pc |-> pc, state |-> q.state, ended |-> q.ended]
<1>1. [q EXCEPT !.pc = pc] = p
  BY DEF RequestRecord
<1>2. p \in RequestRecord /\ p.pc = pc /\ p.ended = q.ended
  BY DEF RequestRecord
<1>3. [p EXCEPT !.state = state] = [pc |-> pc, state |-> state, ended |-> q.ended]
  <2> HIDE DEF p
  <2> QED
    BY <1>2 DEF RequestRecord
<1> QED
  BY <1>1, <1>3

LEMMA RowLimitKept ==
    ASSUME NEW s, NEW t, t.street = s.street, t.raises = s.raises,
           t.currentBet = s.currentBet, RowLimit(s)
    PROVE  RowLimit(t)
<1>1. BetSizeForStreet(t) = BetSizeForStreet(s)
  BY DEF BetSizeForStreet
<1> QED
  BY <1>1 DEF RowLimit

(* A hand pieced together from two saves has its type and the row of one   *)
(* of them; from one save alone it is the hand that was saved.             *)
LEMMA PiecesOfHands ==
    ASSUME NEW s \in States, NEW h \in States, RowLimit(s)
    PROVE  LET players == [s EXCEPT !.stack = h.stack, !.status = h.status,
                                    !.bet = h.bet]
               table == [s EXCEPT !.board = h.board]
               deck  == [s EXCEPT !.deck = h.deck]
               pots  == [s EXCEPT !.pots = h.pots]
           IN  /\ players \in States /\ RowLimit(players)
               /\ table \in States /\ RowLimit(table)
               /\ deck \in States /\ RowLimit(deck)
               /\ pots \in States /\ RowLimit(pots)
               /\ s = h => players = h /\ table = h /\ deck = h /\ pots = h
<1> DEFINE players == [s EXCEPT !.stack = h.stack, !.status = h.status,
                                !.bet = h.bet]
           table == [s EXCEPT !.board = h.board]
           deck  == [s EXCEPT !.deck = h.deck]
           pots  == [s EXCEPT !.pots = h.pots]
<1>1. /\ players \in States /\ players.street = s.street
      /\ players.raises = s.raises /\ players.currentBet = s.currentBet
  BY DEF States
<1>2. /\ table \in States /\ table.street = s.street
      /\ table.raises = s.raises /\ table.currentBet = s.currentBet
  BY DEF States
<1>3. /\ deck \in States /\ deck.street = s.street
      /\ deck.raises = s.raises /\ deck.currentBet = s.currentBet
  BY DEF States
<1>4. /\ pots \in States /\ pots.street = s.street
      /\ pots.raises = s.raises /\ pots.currentBet = s.currentBet
  BY DEF States
<1>5. s = h => players = h /\ table = h /\ deck = h /\ pots = h
  BY DEF States
<1> HIDE DEF players, table, deck, pots
<1>6. RowLimit(players) /\ RowLimit(table) /\ RowLimit(deck) /\ RowLimit(pots)
  BY <1>1, <1>2, <1>3, <1>4, RowLimitKept
<1> QED
  BY <1>1, <1>2, <1>3, <1>4, <1>5, <1>6 DEF players, table, deck, pots

(* A step of request r that leaves the stored hand alone keeps the         *)
(* invariant if what the request holds after it is sound.                  *)
LEMMA RequestMoves ==
    ASSUME ServiceInv, NEW r \in Requests, NEW q \in RequestRecord,
           ~At(r, "idle"), req' = [req EXCEPT ![r] = q],
           UNCHANGED <<vars, overlapped, requested>>,
           active' \in BOOLEAN, active' => active,
           published \subseteq published', published' \subseteq Events,
           q.pc \notin {"idle", "game"} => q.state \in States /\ RowLimit(q.state),
           q.pc = "acted" => \E e \in published' : LogsHand(e, q.state),
           ~overlapped =>
               /\ q.pc \in Reading => q.state = hand
               /\ q.pc = "acted" => Decided(hand, q.state, q.ended)
    PROVE  ServiceInv'
<1>1. /\ req \in [Requests -> RequestRecord]
      /\ req' \in [Requests -> RequestRecord]
      /\ \A o \in Requests : req'[o] = IF o = r THEN q ELSE req[o]
  BY DEF ServiceInv, ServiceTypeOK, RequestRecord
<1>2. ServiceTypeOK'
  BY <1>1 DEF ServiceInv, ServiceTypeOK, TypeOK, vars, RequestRecord
<1>3. HandFirst'
  BY <1>1 DEF ServiceInv, HandFirst, At, vars
<1>4. RequestsHoldHands'
  BY <1>1 DEF ServiceInv, RequestsHoldHands, Logged
<1>5. OneAtATime'
  <2> SUFFICES ASSUME ~overlapped PROVE OneAtATime'
    BY DEF OneAtATime
  <2>1. \A o \in Requests : ~At(o, "idle")' => ~At(o, "idle")
    BY <1>1 DEF At
  <2>2. \A a, o \in Requests : ~At(a, "idle")' /\ ~At(o, "idle")' => a = o
    BY <2>1 DEF ServiceInv, OneAtATime
  <2>3. \A o \in Requests :
          /\ req'[o].pc \in Reading => req'[o].state = hand'
          /\ req'[o].pc = "acted" => Decided(hand', req'[o].state, req'[o].ended)
    BY <1>1 DEF ServiceInv, OneAtATime, vars
  <2> QED
    BY <2>2, <2>3 DEF OneAtATime
<1>6. (hand # NoHand => RowLimit(hand))'
  BY DEF ServiceInv, vars
<1>7. (active => Logged(hand))'
  BY DEF ServiceInv, Logged, vars
<1> QED
  BY <1>2, <1>3, <1>4, <1>5, <1>6, <1>7 DEF ServiceInv

LEMMA BusyHasHand ==
    ASSUME ServiceInv, NEW r \in Requests, ~At(r, "idle")
    PROVE  /\ hand \in States
           /\ req[r] \in RequestRecord
           /\ req[r] = [pc |-> req[r].pc, state |-> req[r].state, ended |-> req[r].ended]
BY DEF ServiceInv, ServiceTypeOK, TypeOK, HandFirst, RequestRecord

LEMMA InitKeepsService == ServiceInit => ServiceInv
<1> SUFFICES ASSUME ServiceInit PROVE ServiceInv
  OBVIOUS
<1>1. Idle \in RequestRecord /\ Idle.pc = "idle"
  BY DEF Idle, RequestRecord, PC
<1>2. \A r \in Requests : req[r] = Idle
  BY DEF ServiceInit
<1>3. ServiceTypeOK
  <2>1. req \in [Requests -> RequestRecord]
    BY <1>1 DEF ServiceInit
  <2>2. buyIn \in [Seats -> Nat]
    BY DEF ServiceInit, Init
  <2>3. requested \in 0 .. MaxRequests
    BY RequestsAssumption DEF ServiceInit
  <2> QED
    BY <2>1, <2>2, <2>3 DEF ServiceInit, Init, ServiceTypeOK, TypeOK, RequestRecord
<1>4. HandFirst
  BY <1>1, <1>2 DEF ServiceInit, Init, HandFirst, At
<1>5. RequestsHoldHands /\ OneAtATime
  BY <1>1, <1>2 DEF RequestsHoldHands, OneAtATime, At, Reading
<1> QED
  BY <1>3, <1>4, <1>5 DEF ServiceInit, Init, ServiceInv

LEMMA ReadKeepsService ==
    ASSUME ServiceInv, NEW r \in Requests,
           \/ findGameState(r) \/ loadPlayers(r) \/ loadBoard(r)
           \/ loadDeck(r) \/ loadPots(r)
    PROVE  ServiceInv'
<1>1. ASSUME NEW from \in PC \ {"idle"}, NEW to \in Reading, NEW state \in States,
             Read(r, from, to, state), RowLimit(state), ~overlapped => state = hand
      PROVE  ServiceInv'
  <2> DEFINE q == [pc |-> to, state |-> state, ended |-> req[r].ended]
  <2>1. ~At(r, "idle")
    BY <1>1 DEF Read, At
  <2>2. q \in RequestRecord /\ q.pc = to /\ q.state = state
    BY <2>1, BusyHasHand DEF RequestRecord, Reading, PC
  <2>3. req' = [req EXCEPT ![r] = q]
    <3>1. req' = [req EXCEPT ![r] = [[req[r] EXCEPT !.pc = to] EXCEPT !.state = state]]
      BY <1>1 DEF Read
    <3>2. [[req[r] EXCEPT !.pc = to] EXCEPT !.state = state] = q
      <4>1. req[r] \in RequestRecord /\ to \in PC /\ state \in States \cup {NoHand}
        BY <2>1, BusyHasHand DEF Reading, PC
      <4> QED
        BY <4>1, RequestFields
    <3> QED
      BY <3>1, <3>2
  <2>4. q.pc # "acted"
    BY <2>2 DEF Reading
  <2>5. UNCHANGED <<vars, active, overlapped, requested, published>>
    BY <1>1 DEF Read
  <2>6. active' \in BOOLEAN /\ (active' => active) /\ published' \subseteq Events
        /\ published \subseteq published'
    BY <2>5 DEF ServiceInv, ServiceTypeOK
  <2> HIDE DEF q
  <2> QED
    BY <1>1, <2>1, <2>2, <2>3, <2>4, <2>5, <2>6, RequestMoves
<1>2. CASE findGameState(r)
  <2>1. hand \in States /\ RowLimit(hand)
    <3>1. ~At(r, "idle")
      BY <1>2 DEF findGameState, Read, At
    <3> QED
      BY <3>1, BusyHasHand, NoHandAssumption DEF ServiceInv
  <2> QED
    BY <1>1, <1>2, <2>1 DEF findGameState, PC, Reading
<1>3. ASSUME NEW from \in Reading, At(r, from)
      PROVE  /\ hand \in States /\ req[r].state \in States /\ RowLimit(req[r].state)
             /\ ~overlapped => req[r].state = hand
             /\ from \in PC \ {"idle"}
  <2>1. ~At(r, "idle") /\ req[r].pc \notin {"idle", "game"}
    BY <1>3 DEF At, Reading
  <2> QED
    BY <1>3, <2>1, BusyHasHand
       DEF ServiceInv, RequestsHoldHands, OneAtATime, At, Reading, PC
<1>4. CASE loadPlayers(r)
  <2> DEFINE t == [req[r].state EXCEPT !.stack = hand.stack, !.status = hand.status,
                                       !.bet = hand.bet]
  <2>1. Read(r, "players", "board", t) /\ At(r, "players")
    BY <1>4 DEF loadPlayers, Read
  <2>2. "players" \in Reading /\ "board" \in Reading
    BY DEF Reading
  <2>3. t \in States /\ RowLimit(t) /\ (~overlapped => t = hand)
    BY <1>3, <2>1, <2>2, PiecesOfHands
  <2> HIDE DEF t
  <2> QED
    BY <1>1, <1>3, <2>1, <2>2, <2>3
<1>5. CASE loadBoard(r)
  <2> DEFINE t == [req[r].state EXCEPT !.board = hand.board]
  <2>1. Read(r, "board", "deck", t) /\ At(r, "board")
    BY <1>5 DEF loadBoard, Read
  <2>2. "board" \in Reading /\ "deck" \in Reading
    BY DEF Reading
  <2>3. t \in States /\ RowLimit(t) /\ (~overlapped => t = hand)
    BY <1>3, <2>1, <2>2, PiecesOfHands
  <2> HIDE DEF t
  <2> QED
    BY <1>1, <1>3, <2>1, <2>2, <2>3
<1>6. CASE loadDeck(r)
  <2> DEFINE t == [req[r].state EXCEPT !.deck = hand.deck]
  <2>1. Read(r, "deck", "pots", t) /\ At(r, "deck")
    BY <1>6 DEF loadDeck, Read
  <2>2. "deck" \in Reading /\ "pots" \in Reading
    BY DEF Reading
  <2>3. t \in States /\ RowLimit(t) /\ (~overlapped => t = hand)
    BY <1>3, <2>1, <2>2, PiecesOfHands
  <2> HIDE DEF t
  <2> QED
    BY <1>1, <1>3, <2>1, <2>2, <2>3
<1>7. CASE loadPots(r)
  <2> DEFINE t == [req[r].state EXCEPT !.pots = hand.pots]
  <2>1. Read(r, "pots", "loaded", t) /\ At(r, "pots")
    BY <1>7 DEF loadPots, Read
  <2>2. "pots" \in Reading /\ "loaded" \in Reading
    BY DEF Reading
  <2>3. t \in States /\ RowLimit(t) /\ (~overlapped => t = hand)
    BY <1>3, <2>1, <2>2, PiecesOfHands
  <2> HIDE DEF t
  <2> QED
    BY <1>1, <1>3, <2>1, <2>2, <2>3
<1> QED
  BY <1>2, <1>4, <1>5, <1>6, <1>7

(* Validate, apply, number and publish. *)
LEMMA PublishPlayerActedKeepsService ==
    ASSUME ServiceInv, NEW r \in Requests, NEW act \in Actions,
           PublishPlayerActed(r, act)
    PROVE  ServiceInv'
<1> DEFINE s == req[r].state
           acted == AdvanceEventSequence(ApplyAction(act, s))
           e == PlayerActedEvent(act, acted, s.activePlayer)
<1>1. At(r, "loaded") /\ May(act, s) /\ published' = published \cup {e}
      /\ UNCHANGED <<vars, active, overlapped, requested>>
  BY DEF PublishPlayerActed
<1>2. PICK o \in Outcomes(acted) :
        req' = [req EXCEPT ![r] = [pc |-> "acted", state |-> o.state,
                                   ended |-> o.ended]]
  BY DEF PublishPlayerActed
<1>3. ~At(r, "idle") /\ s \in States /\ RowLimit(s) /\ (~overlapped => s = hand)
  BY <1>1 DEF ServiceInv, RequestsHoldHands, OneAtATime, At, Reading
<1> DEFINE q == [pc |-> "acted", state |-> o.state, ended |-> o.ended]
<1> HIDE DEF s
<1>4. /\ o.state \in States /\ o.ended \in HandEndedEvents \cup {NoHand}
      /\ RowLimit(o.state) /\ e \in Events /\ LogsHand(e, o.state)
  BY <1>1, <1>3, OutcomeIsSound
<1>5. ~overlapped => Decided(hand, o.state, o.ended)
  BY <1>1, <1>3 DEF Decided
<1> HIDE DEF e
<1>6. q \in RequestRecord /\ q.pc = "acted" /\ q.state = o.state /\ q.ended = o.ended
  BY <1>4 DEF RequestRecord, PC
<1>7. /\ active' \in BOOLEAN /\ (active' => active)
      /\ published \subseteq published' /\ published' \subseteq Events
      /\ \E x \in published' : LogsHand(x, o.state)
  BY <1>1, <1>4 DEF ServiceInv, ServiceTypeOK
<1>8. req' = [req EXCEPT ![r] = q] /\ "acted" \notin Reading
  BY <1>2 DEF Reading
<1> HIDE DEF q
<1> QED
  BY <1>1, <1>3, <1>4, <1>5, <1>6, <1>7, <1>8, RequestMoves

LEMMA PublishHandEndedKeepsService ==
    ASSUME ServiceInv, NEW r \in Requests, PublishHandEnded(r)
    PROVE  ServiceInv'
<1> DEFINE e == [kind |-> "ended", seq |-> req[r].state.eventSequence]
           q == [pc |-> "answered", state |-> req[r].state, ended |-> req[r].ended]
<1>1. At(r, "saved") /\ published' = published \cup {e}
      /\ UNCHANGED <<vars, active, overlapped, requested>>
  BY DEF PublishHandEnded
<1>2. /\ ~At(r, "idle") /\ req[r] \in RequestRecord
      /\ req[r].state \in States /\ RowLimit(req[r].state)
  BY <1>1, BusyHasHand DEF ServiceInv, RequestsHoldHands, At
<1>3. e \in Events
  <2>1. req[r].state.eventSequence \in Nat
    BY <1>2 DEF States
  <2> QED
    BY <2>1 DEF Events
<1>4. q \in RequestRecord /\ q.pc = "answered" /\ q.state = req[r].state
  BY <1>2 DEF RequestRecord, PC
<1>5. req' = [req EXCEPT ![r] = q]
  <2>1. req' = [req EXCEPT ![r] = [req[r] EXCEPT !.pc = "answered"]]
    BY DEF PublishHandEnded
  <2>2. "answered" \in PC
    BY DEF PC
  <2> QED
    BY <1>2, <2>1, <2>2, RequestFields
<1> HIDE DEF e
<1>6. /\ active' \in BOOLEAN /\ (active' => active)
      /\ published \subseteq published' /\ published' \subseteq Events
  BY <1>1, <1>3 DEF ServiceInv, ServiceTypeOK
<1>7. "answered" \notin Reading
  BY DEF Reading
<1> HIDE DEF q
<1> QED
  BY <1>1, <1>2, <1>4, <1>5, <1>6, <1>7, RequestMoves

(* Answer and Fail: the request is over. *)
LEMMA EndOfRequestKeepsService ==
    ASSUME ServiceInv, NEW r \in Requests, Answer(r) \/ Fail(r)
    PROVE  ServiceInv'
<1>1. ~At(r, "idle") /\ req' = [req EXCEPT ![r] = Idle]
      /\ UNCHANGED <<vars, overlapped, requested, published>>
  BY DEF Answer, Fail, At
<1>2. active' \in BOOLEAN /\ (active' => active)
  <2>1. active \in BOOLEAN
    BY DEF ServiceInv, ServiceTypeOK
  <2>2. CASE Answer(r)
    <3>1. active' = (active /\ req[r].state.street # "showdown")
      BY <2>2 DEF Answer
    <3> QED
      BY <2>1, <3>1
  <2>3. CASE Fail(r)
    BY <2>1, <2>3 DEF Fail
  <2> QED
    BY <2>2, <2>3
<1>3. Idle \in RequestRecord /\ Idle.pc = "idle" /\ "idle" \notin Reading
  BY DEF Idle, RequestRecord, PC, Reading
<1>4. published \subseteq published' /\ published' \subseteq Events
  BY <1>1 DEF ServiceInv, ServiceTypeOK
<1> QED
  BY <1>1, <1>2, <1>3, <1>4, RequestMoves

LEMMA SubmitKeepsService ==
    ASSUME ServiceInv, NEW r \in Requests, Submit(r)
    PROVE  ServiceInv'
<1> DEFINE q == [pc |-> "game", state |-> req[r].state, ended |-> req[r].ended]
<1>1. /\ active /\ At(r, "idle") /\ requested' = requested + 1
      /\ overlapped' = (overlapped \/ \E o \in Requests : ~At(o, "idle"))
      /\ requested < IF overlapped' THEN MaxOverlap ELSE MaxRequests
      /\ UNCHANGED <<vars, active, published>>
  BY DEF Submit
<1>2. req \in [Requests -> RequestRecord]
  BY DEF ServiceInv, ServiceTypeOK, RequestRecord
<1>3. q \in RequestRecord /\ q.pc = "game"
  BY <1>2 DEF RequestRecord, PC
<1>4. req' = [req EXCEPT ![r] = q]
  <2>1. req' = [req EXCEPT ![r] = [req[r] EXCEPT !.pc = "game"]]
    BY DEF Submit
  <2>2. "game" \in PC
    BY DEF PC
  <2> QED
    BY <1>2, <2>1, <2>2, RequestFields
<1> HIDE DEF q
<1>5. /\ req' \in [Requests -> RequestRecord]
      /\ \A o \in Requests : req'[o] = IF o = r THEN q ELSE req[o]
  BY <1>2, <1>3, <1>4
<1>6. ServiceTypeOK'
  <2>1. requested' \in 0 .. MaxRequests
    BY <1>1, RequestsAssumption DEF ServiceInv, ServiceTypeOK
  <2>2. overlapped' \in BOOLEAN
    BY <1>1
  <2>3. TypeOK' /\ active' \in BOOLEAN /\ published' \subseteq Events
    BY <1>1 DEF ServiceInv, ServiceTypeOK, TypeOK, vars
  <2> QED
    BY <1>5, <2>1, <2>2, <2>3 DEF ServiceTypeOK, RequestRecord
<1>7. HandFirst'
  BY <1>1 DEF ServiceInv, HandFirst, vars
<1>8. RequestsHoldHands'
  BY <1>1, <1>3, <1>5 DEF ServiceInv, RequestsHoldHands, Logged
<1>9. OneAtATime'
  <2> SUFFICES ASSUME ~overlapped' PROVE OneAtATime'
    BY DEF OneAtATime
  <2>1. \A o \in Requests : At(o, "idle")
    BY <1>1
  <2>2. \A o \in Requests : req'[o].pc = IF o = r THEN "game" ELSE "idle"
    BY <1>3, <1>5, <2>1 DEF At
  <2> QED
    BY <2>2 DEF OneAtATime, At, Reading
<1> QED
  BY <1>1, <1>6, <1>7, <1>8, <1>9 DEF ServiceInv, Logged, vars

(* GameStateRepo.Save stores what the request computed. *)
LEMMA SaveStores ==
    ASSUME ServiceInv, NEW r \in Requests, Save(r)
    PROVE  /\ hand \in States /\ req[r].state \in States
           /\ hand' = req[r].state
           /\ ~At(r, "idle")
<1>1. ~At(r, "idle") /\ req[r].state \in States
  BY DEF Save, ServiceInv, RequestsHoldHands, At
<1>2. hand \in States
  BY <1>1, BusyHasHand
<1> QED
  BY <1>1, <1>2, SaveReplacesEverything DEF Save

LEMMA SaveKeepsService ==
    ASSUME ServiceInv, NEW r \in Requests, Save(r)
    PROVE  ServiceInv'
<1> DEFINE s == req[r].state
           pc == IF req[r].ended = NoHand THEN "answered" ELSE "saved"
           q == [pc |-> pc, state |-> s, ended |-> req[r].ended]
<1>1. /\ At(r, "acted")
      /\ handEnded' = IF req[r].ended = NoHand THEN handEnded ELSE req[r].ended
      /\ UNCHANGED <<buyIn, active, overlapped, requested, published>>
  BY DEF Save
<1>2. hand' = s /\ s \in States /\ s # NoHand
  BY SaveStores, NoHandAssumption
<1>3. RowLimit(s) /\ Logged(s)
  BY <1>1 DEF ServiceInv, RequestsHoldHands, At
<1>4. req \in [Requests -> RequestRecord] /\ req[r] \in RequestRecord
  BY DEF ServiceInv, ServiceTypeOK, RequestRecord
<1>5. req' = [req EXCEPT ![r] = q]
  <2>1. req' = [req EXCEPT ![r] = [req[r] EXCEPT !.pc = pc]]
    BY DEF Save
  <2>2. pc \in PC
    BY DEF PC
  <2> HIDE DEF pc
  <2> QED
    BY <1>4, <2>1, <2>2, RequestFields
<1>6. q \in RequestRecord /\ q.pc \in {"answered", "saved"} /\ q.state = s
  <2>1. pc \in PC /\ pc \in {"answered", "saved"}
    BY DEF PC
  <2> HIDE DEF pc
  <2> QED
    BY <1>4, <2>1 DEF RequestRecord
<1> HIDE DEF q, s
<1>7. /\ req' \in [Requests -> RequestRecord]
      /\ \A o \in Requests : req'[o] = IF o = r THEN q ELSE req[o]
  BY <1>4, <1>5, <1>6
<1>8. ServiceTypeOK'
  <2>1. handEnded' \in HandEndedEvents \cup {NoHand}
    BY <1>1, <1>4 DEF ServiceInv, ServiceTypeOK, TypeOK, RequestRecord
  <2> QED
    BY <1>1, <1>2, <1>7, <2>1 DEF ServiceInv, ServiceTypeOK, TypeOK, RequestRecord
<1>9. HandFirst'
  BY <1>2 DEF HandFirst
<1>10. RequestsHoldHands'
  BY <1>1, <1>2, <1>3, <1>6, <1>7 DEF ServiceInv, RequestsHoldHands, Logged
<1>11. OneAtATime'
  <2> SUFFICES ASSUME ~overlapped PROVE OneAtATime'
    BY <1>1 DEF OneAtATime
  <2>1. \A o \in Requests : o # r => At(o, "idle")
    BY <1>1 DEF ServiceInv, OneAtATime, At
  <2>2. \A o \in Requests : req'[o].pc \in (IF o = r THEN {"answered", "saved"} ELSE {"idle"})
    BY <1>6, <1>7, <2>1 DEF At
  <2> QED
    BY <2>2 DEF OneAtATime, At, Reading
<1>12. (hand # NoHand => RowLimit(hand))' /\ (active => Logged(hand))'
  BY <1>1, <1>2, <1>3 DEF Logged
<1> QED
  BY <1>8, <1>9, <1>10, <1>11, <1>12 DEF ServiceInv

LEMMA StartKeepsService ==
    ASSUME ServiceInv, SaveNewHand
    PROVE  ServiceInv'
<1>1. PICK stacks \in [Seats -> StartStacks], button \in Seats :
        /\ CanPostBlinds(stacks, button)
        /\ hand' = NewHand(stacks, button)
        /\ buyIn' = stacks
  BY DEF SaveNewHand
<1>2. /\ hand = NoHand /\ 2 * N <= DeckSize /\ stacks \in [Seats -> Nat]
      /\ UNCHANGED <<handEnded, active, req, overlapped, requested, published>>
  BY StacksAssumption DEF SaveNewHand
<1>3. hand' \in States /\ hand' # NoHand
  BY <1>1, <1>2, NewHandType, NoHandAssumption
<1>4. RowLimit(hand')
  BY <1>1, <1>2, NewHandWithinLimit DEF WithinLimit, RowLimit
<1>5. ~active /\ \A r \in Requests : At(r, "idle")
  BY <1>2 DEF ServiceInv, HandFirst
<1>6. ServiceTypeOK'
  BY <1>1, <1>2, <1>3 DEF ServiceInv, ServiceTypeOK, TypeOK
<1>7. HandFirst' /\ RequestsHoldHands' /\ OneAtATime'
  BY <1>2, <1>3, <1>5 DEF HandFirst, RequestsHoldHands, OneAtATime, At, Reading
<1> QED
  BY <1>2, <1>4, <1>5, <1>6, <1>7 DEF ServiceInv

LEMMA PublishHandStartedKeepsService ==
    ASSUME ServiceInv, PublishHandStarted
    PROVE  ServiceInv'
<1> DEFINE e == [kind |-> "started", seq |-> hand.eventSequence]
<1>1. /\ hand # NoHand /\ published = {} /\ published' = {e} /\ active' = TRUE
      /\ UNCHANGED <<vars, req, overlapped, requested>>
  BY DEF PublishHandStarted
<1>2. hand \in States /\ hand.eventSequence \in Nat
  <2>1. hand \in States
    BY <1>1 DEF ServiceInv, ServiceTypeOK, TypeOK
  <2> QED
    BY <2>1 DEF States
<1>3. e \in Events /\ LogsHand(e, hand)
  BY <1>2 DEF Events, LogsHand
<1> HIDE DEF e
<1>4. \A r \in Requests : req[r].pc # "acted"
  BY <1>1 DEF ServiceInv, RequestsHoldHands, Logged
<1>5. ServiceTypeOK'
  BY <1>1, <1>3 DEF ServiceInv, ServiceTypeOK, TypeOK, vars
<1>6. HandFirst' /\ RequestsHoldHands'
  BY <1>1, <1>4 DEF ServiceInv, HandFirst, RequestsHoldHands, At, vars
<1>7. OneAtATime'
  BY <1>1 DEF ServiceInv, OneAtATime, At, vars
<1>8. (hand # NoHand => RowLimit(hand))' /\ (active => Logged(hand))'
  BY <1>1, <1>3 DEF ServiceInv, Logged, vars
<1> QED
  BY <1>5, <1>6, <1>7, <1>8 DEF ServiceInv

LEMMA StepKeepsService == ServiceInv /\ [ServiceNext]_serviceVars => ServiceInv'
<1> SUFFICES ASSUME ServiceInv, [ServiceNext]_serviceVars PROVE ServiceInv'
  OBVIOUS
<1>1. CASE UNCHANGED serviceVars
  <2>1. ServiceTypeOK'
    BY <1>1 DEF serviceVars, vars, ServiceInv, ServiceTypeOK, TypeOK
  <2>2. HandFirst' /\ RequestsHoldHands'
    BY <1>1 DEF serviceVars, vars, ServiceInv, HandFirst, RequestsHoldHands, Logged, At
  <2>3. OneAtATime'
    BY <1>1 DEF serviceVars, vars, ServiceInv, OneAtATime, At
  <2> QED
    BY <1>1, <2>1, <2>2, <2>3 DEF serviceVars, vars, ServiceInv, Logged
<1>2. CASE SaveNewHand \/ PublishHandStarted
  BY <1>2, StartKeepsService, PublishHandStartedKeepsService
<1>3. ASSUME NEW r \in Requests,
             \/ Submit(r)
             \/ findGameState(r) \/ loadPlayers(r) \/ loadBoard(r)
             \/ loadDeck(r) \/ loadPots(r)
             \/ \E act \in Actions : PublishPlayerActed(r, act)
             \/ Save(r) \/ PublishHandEnded(r) \/ Answer(r) \/ Fail(r)
      PROVE  ServiceInv'
  BY <1>3, SubmitKeepsService, ReadKeepsService, PublishPlayerActedKeepsService,
     SaveKeepsService, PublishHandEndedKeepsService, EndOfRequestKeepsService
<1> QED
  BY <1>1, <1>2, <1>3 DEF ServiceNext

LEMMA ServiceInvariant == ServiceSpec => []ServiceInv
BY InitKeepsService, StepKeepsService, PTL DEF ServiceSpec

(* However requests interleave and wherever they fail, the columns of the  *)
(* stored game_states row agree and stay within the raise cap, and every   *)
(* stack, bet, pot and event has its type (GameStateRepo, ApplyAction).    *)
THEOREM RowKeepsLimitHolds == ServiceSpec => []RowKeepsLimit
<1>1. ServiceInv => RowKeepsLimit
  BY DEF ServiceInv, RowKeepsLimit, RowLimit
<1> QED
  BY <1>1, ServiceInvariant, PTL

(* However requests interleave and wherever they fail, the log accounts    *)
(* for the hand that is stored (PublishPlayerActed before Save).           *)
THEOREM SavedActionIsLoggedHolds == ServiceSpec => []SavedActionIsLogged
<1>1. ServiceInv => SavedActionIsLogged
  BY DEF ServiceInv, SavedActionIsLogged, Logged, LogsHand
<1> QED
  BY <1>1, ServiceInvariant, PTL
-----------------------------------------------------------------------------
(* The service implements HandLifecycle. *)

(* What a request alone saves is what a whole ApplyAction.Execute does. *)
LEMMA SaveIsAnAction ==
    ASSUME ServiceInv, ~overlapped, NEW r \in Requests, Save(r)
    PROVE  PlayerActs
<1> DEFINE ended == req[r].ended
<1>1. hand \in States /\ hand' = req[r].state
  BY SaveStores
<1>2. /\ Decided(hand, req[r].state, ended)
      /\ handEnded' = (IF ended = NoHand THEN handEnded ELSE ended)
      /\ UNCHANGED buyIn
  BY DEF Save, ServiceInv, OneAtATime, At
<1> HIDE DEF ended
<1>3. PICK act \in Actions :
        /\ May(act, hand)
        /\ \E o \in Outcomes(AdvanceEventSequence(ApplyAction(act, hand))) :
              o.state = hand' /\ o.ended = ended
  BY <1>1, <1>2 DEF Decided
<1> DEFINE acted == AdvanceEventSequence(ApplyAction(act, hand))
<1>4. acted \in States
  BY <1>1, <1>3, ApplyActionFacts
<1>5. PICK o \in Outcomes(acted) : o.state = hand' /\ o.ended = ended
  BY <1>3
<1> HIDE DEF acted
<1>6. ASSUME NEW f \in States, o \in Finished(f)
      PROVE  FinishHand(f)
  <2>1. o.ended \in HandEndedEvents
    BY <1>6, FinishedFacts
  <2>2. handEnded' = o.ended
    BY <1>2, <1>5, <2>1, NoHandAssumption
  <2>3. \E rank \in Rankings(RakedHand(f)) :
        \E oddChips \in OddChipChoices(RakedHand(f).pots, rank) :
           LET w == Winnings(RakedHand(f), rank, oddChips)
           IN  /\ o.state = Award(RakedHand(f), w)
               /\ o.ended = HandEndedEvent(f, w)
    BY <1>6, FinishedFacts
  <2> QED
    BY <1>5, <2>2, <2>3 DEF FinishHand
<1>7. EndByAction(acted) \/ EndByShowdown(acted) \/ GoToNextStreet(acted)
        \/ PassTurn(acted)
  <2>1. CASE IsHandOver(acted) /\ o \in Finished(acted)
    BY <1>4, <1>6, <2>1 DEF EndByAction
  <2>2. CASE /\ ~IsHandOver(acted) /\ IsBettingRoundOver(acted) /\ CanDeal(acted)
             /\ NextStreet(acted.street) = "showdown"
             /\ o \in Finished(advanceStreet(acted))
    BY <1>4, <1>6, <2>2, advanceStreetType DEF EndByShowdown
  <2>3. CASE /\ ~IsHandOver(acted) /\ IsBettingRoundOver(acted) /\ CanDeal(acted)
             /\ NextStreet(acted.street) # "showdown"
             /\ o.state = advanceStreet(acted)
             /\ o.ended = NoHand
    BY <1>2, <1>5, <2>3 DEF GoToNextStreet
  <2>4. CASE /\ ~IsHandOver(acted) /\ ~IsBettingRoundOver(acted)
             /\ o.state = [acted EXCEPT !.activePlayer = NextActivePlayer(acted)]
             /\ o.ended = NoHand
    BY <1>2, <1>5, <2>4 DEF PassTurn
  <2> QED
    BY <1>4, <2>1, <2>2, <2>3, <2>4, OutcomesFacts
<1>8. Execute(ApplyAction(act, hand))
  BY <1>2, <1>7 DEF Execute, acted
<1>9. CASE act = "fold"
  BY <1>3, <1>8, <1>9 DEF May, ApplyAction, PlayerActs, PlayerFolds
<1>10. CASE act = "check"
  BY <1>3, <1>8, <1>10 DEF May, ApplyAction, PlayerActs, PlayerChecks
<1>11. CASE act = "call"
  BY <1>3, <1>8, <1>11 DEF May, ApplyAction, PlayerActs, PlayerCalls
<1>12. CASE act = "raise"
  BY <1>3, <1>8, <1>12 DEF May, ApplyAction, PlayerActs, PlayerRaises
<1> QED
  BY <1>9, <1>10, <1>11, <1>12 DEF Actions

LEMMA StepIsAUseCase ==
    ASSUME ServiceInv, [ServiceNext]_serviceVars
    PROVE  [overlapped \/ Next \/ LateAction]_vars
<1>1. CASE UNCHANGED vars
  BY <1>1
<1>2. CASE SaveNewHand
  <2>1. ~Running /\ handEnded' = NoHand
    BY <1>2 DEF SaveNewHand, Running, ServiceInv, HandFirst
  <2>2. StartHand
    BY <1>2, <2>1 DEF SaveNewHand, StartHand
  <2> QED
    BY <2>2 DEF Next
<1>3. ASSUME NEW r \in Requests, Save(r)
      PROVE  overlapped \/ Next \/ LateAction
  <2> SUFFICES ASSUME ~overlapped PROVE Next \/ LateAction
    OBVIOUS
  <2>1. PlayerActs
    BY <1>3, SaveIsAnAction
  <2>2. hand # NoHand
    BY <1>3, SaveStores, NoHandAssumption
  <2> QED
    BY <2>1, <2>2 DEF Next, LateAction
<1>4. ASSUME NEW r \in Requests,
             \/ Submit(r)
             \/ findGameState(r) \/ loadPlayers(r) \/ loadBoard(r)
             \/ loadDeck(r) \/ loadPots(r)
             \/ \E act \in Actions : PublishPlayerActed(r, act)
             \/ PublishHandEnded(r) \/ Answer(r) \/ Fail(r)
      PROVE  UNCHANGED vars
  BY <1>4 DEF Submit, findGameState, loadPlayers, loadBoard, loadDeck, loadPots, Read,
              PublishPlayerActed, PublishHandEnded, Answer, Fail
<1>5. CASE PublishHandStarted
  BY <1>5 DEF PublishHandStarted
<1>6. CASE UNCHANGED serviceVars
  BY <1>6 DEF serviceVars
<1> QED
  BY <1>1, <1>2, <1>3, <1>4, <1>5, <1>6 DEF ServiceNext

(* As long as no two requests overlap, the service with all its reads,     *)
(* publications and failures implements the use cases of HandLifecycle:    *)
(* each step is StartHand, a whole ApplyAction, or changes nothing stored. *)
THEOREM AtomicUseCasesHolds == ServiceSpec => AtomicUseCases
<1>1. ServiceInit => Init
  BY DEF ServiceInit
<1>2. ServiceInv /\ [ServiceNext]_serviceVars => [overlapped \/ Next \/ LateAction]_vars
  BY StepIsAUseCase
<1> QED
  BY <1>1, <1>2, ServiceInvariant, PTL DEF ServiceSpec, AtomicUseCases
-----------------------------------------------------------------------------
(* What the service inherits from HandLifecycle. *)

(* As long as no two requests have overlapped, a running hand in the       *)
(* database is one of the use cases' hands.                                *)
SequentialInv == ~overlapped /\ Running => LimitInv /\ HandInv

(* An action on a hand that has ended, which table-manager forwards when   *)
(* it never learned of the end, leaves the hand ended.                     *)
LEMMA EndedStaysEnded ==
    ASSUME NEW s \in States, s.street = "showdown", NEW state, NEW ended,
           Decided(s, state, ended)
    PROVE  state.street = "showdown"
<1>1. PICK act \in Actions :
        /\ May(act, s)
        /\ \E o \in Outcomes(AdvanceEventSequence(ApplyAction(act, s))) :
              o.state = state /\ o.ended = ended
  BY DEF Decided
<1> DEFINE acted == AdvanceEventSequence(ApplyAction(act, s))
<1>2. acted \in States /\ acted.street = "showdown"
  BY <1>1, ApplyActionFacts
<1>3. PICK o \in Outcomes(acted) : o.state = state /\ o.ended = ended
  BY <1>1
<1> HIDE DEF acted
<1>4. NextStreet(acted.street) = "showdown"
  BY <1>2 DEF NextStreet
<1>5. CASE o.state = [acted EXCEPT !.activePlayer = NextActivePlayer(acted)]
  BY <1>2, <1>3, <1>5 DEF States
<1>6. CASE CanDeal(acted) /\ o \in Finished(advanceStreet(acted))
  BY <1>2, <1>3, <1>6, advanceStreetType, FinishedFacts
<1>7. CASE o \in Finished(acted)
  BY <1>2, <1>3, <1>7, FinishedFacts
<1> QED
  BY <1>2, <1>4, <1>5, <1>6, <1>7, OutcomesFacts

LEMMA StepKeepsSequential ==
    ASSUME ServiceInv, ServiceInv', SequentialInv, [ServiceNext]_serviceVars
    PROVE  SequentialInv'
<1> SUFFICES ASSUME ~overlapped', Running'
             PROVE  FixedLimit' /\ BoardFollowsStreet' /\ HandInv'
  BY DEF SequentialInv, LimitInv, ServiceInv, ServiceTypeOK
<1>1. TypeOK
  BY DEF ServiceInv, ServiceTypeOK
<1>2. ~overlapped
  BY DEF ServiceNext, SaveNewHand, PublishHandStarted, Submit, findGameState,
         loadPlayers, loadBoard, loadDeck, loadPots, Read, PublishPlayerActed,
         Save, PublishHandEnded, Answer, Fail, serviceVars
<1>3. ASSUME LimitInv, HandInv, [Next]_vars
      PROVE  FixedLimit' /\ BoardFollowsStreet' /\ HandInv'
  BY <1>3, NextKeepsLimit, NextKeepsInvariant DEF LimitInv
<1>4. CASE Running
  <2>1. [Next]_vars
    BY <1>2, <1>4, StepIsAUseCase DEF LateAction
  <2> QED
    BY <1>2, <1>3, <1>4, <2>1 DEF SequentialInv
<1>5. CASE hand = NoHand
  <2>1. [Next]_vars
    BY <1>2, <1>5, StepIsAUseCase DEF LateAction
  <2>2. handEnded = NoHand /\ ~Running
    BY <1>5 DEF ServiceInv, HandFirst, Running
  <2>3. LimitInv /\ HandInv
    BY <1>1, <1>5, <2>2 DEF LimitInv, FixedLimit, BoardFollowsStreet, HandInv,
                            ChipConservation, HandEndedAddsUp
  <2> QED
    BY <1>3, <2>1, <2>3
<1>6. CASE hand # NoHand /\ hand.street = "showdown"
  <2>1. \/ UNCHANGED hand
        \/ \E r \in Requests : Save(r)
    BY <1>6 DEF ServiceNext, SaveNewHand, PublishHandStarted, Submit, findGameState,
         loadPlayers, loadBoard, loadDeck, loadPots, Read, PublishPlayerActed,
         PublishHandEnded, Answer, Fail, serviceVars, vars
  <2>2. CASE UNCHANGED hand
    BY <1>6, <2>2 DEF Running
  <2>3. ASSUME NEW r \in Requests, Save(r) PROVE ~Running'
    <3>1. hand \in States /\ hand' = req[r].state
      BY <2>3, SaveStores
    <3>2. Decided(hand, req[r].state, req[r].ended)
      BY <1>2, <2>3 DEF Save, ServiceInv, OneAtATime, At
    <3> QED
      BY <1>6, <3>1, <3>2, EndedStaysEnded DEF Running
  <2> QED
    BY <2>1, <2>2, <2>3
<1> QED
  BY <1>4, <1>5, <1>6 DEF Running

(* Until two requests overlap, the stored rows of a running hand have all  *)
(* that is proved of the use cases (GameStateRepo.Save, FindByID).         *)
SequentialHandIsSound ==
    ~overlapped /\ Running =>
        /\ ChipConservation
        /\ LivePlayersShareEveryPot
        /\ StreetsCloseEven
        /\ HandIsSound

(* What HandLifecycle promises of a running hand holds of the rows in the  *)
(* database until two requests overlap, whatever failed and however often: *)
(* no chip is lost, every live player keeps a claim to every pot, streets  *)
(* close even, and the limit and the cards are right (GameStateRepo,       *)
(* ApplyAction, FinishHand).                                               *)
THEOREM SequentialHandIsSoundHolds == ServiceSpec => []SequentialHandIsSound
<1>1. ServiceInit => SequentialInv
  BY DEF ServiceInit, Init, SequentialInv, Running
<1>2. ServiceInv /\ ServiceInv' /\ SequentialInv /\ [ServiceNext]_serviceVars => SequentialInv'
  BY StepKeepsSequential
<1>3. SequentialInv => SequentialHandIsSound
  BY HandInvShares DEF SequentialInv, SequentialHandIsSound, LimitInv, HandInv, HandIsSound
<1> QED
  BY <1>1, <1>2, <1>3, ServiceInvariant, PTL DEF ServiceSpec
-----------------------------------------------------------------------------
(* Part four: Evaluator.  Compare is an order, so the loops of Best and    *)
(* bestResultsInPot find the best in whatever order they go.               *)

(* A finite set with a total preorder has a greatest element. *)
LEMMA GreatestElement ==
    ASSUME NEW S, IsFiniteSet(S), S # {}, NEW R,
           \A x, y \in S : <<x, y>> \in R \/ <<y, x>> \in R,
           \A x, y, z \in S : <<x, y>> \in R /\ <<y, z>> \in R => <<x, z>> \in R
    PROVE  \E x \in S : \A y \in S : <<y, x>> \in R
<1> DEFINE Has(s) == \E x \in s : \A y \in s : <<y, x>> \in R
           T == {n \in Nat : \A s \in SUBSET S : Cardinality(s) = n + 1 => Has(s)}
<1>1. 0 \in T
  <2> SUFFICES ASSUME NEW s \in SUBSET S, Cardinality(s) = 1 PROVE Has(s)
    OBVIOUS
  <2>1. IsFiniteSet(s)
    BY FS_Subset
  <2>2. PICK x : s = {x}
    BY <2>1, FS_Singleton
  <2> QED
    BY <2>2
<1>2. ASSUME NEW n \in Nat, n \in T PROVE n + 1 \in T
  <2> SUFFICES ASSUME NEW s \in SUBSET S, Cardinality(s) = n + 2 PROVE Has(s)
    OBVIOUS
  <2>1. IsFiniteSet(s) /\ s # {}
    <3>1. IsFiniteSet(s) /\ n + 2 # 0
      BY FS_Subset
    <3> QED
      BY <3>1, FS_EmptySet
  <2>2. PICK e \in s : TRUE
    BY <2>1
  <2> DEFINE t == s \ {e}
  <2>3. t \in SUBSET S /\ Cardinality(t) = n + 1
    <3>1. Cardinality(t) = Cardinality(s) - 1
      BY <2>1, <2>2, FS_RemoveElement
    <3> QED
      BY <3>1
  <2>4. PICK x \in t : \A y \in t : <<y, x>> \in R
    BY <1>2, <2>3
  <2>5. CASE <<e, x>> \in R
    BY <2>4, <2>5
  <2>6. CASE <<e, x>> \notin R
    <3>1. <<x, e>> \in R /\ <<e, e>> \in R
      BY <2>2, <2>4, <2>6
    <3>2. \A y \in t : <<y, e>> \in R
      BY <2>2, <2>4, <3>1
    <3> QED
      BY <2>2, <3>1, <3>2
  <2> QED
    BY <2>5, <2>6
<1>3. \A n \in Nat : n \in T
  <2> HIDE DEF T
  <2> QED
    BY <1>1, <1>2, SetInduction
<1>4. Cardinality(S) \in Nat /\ Cardinality(S) # 0
  BY FS_CardinalityType, FS_EmptySet
<1>5. Cardinality(S) - 1 \in T
  <2> HIDE DEF T
  <2> QED
    BY <1>3, <1>4
<1>6. Has(S)
  BY <1>4, <1>5
<1> QED
  BY <1>6

LEMMA MaxOfNaturals ==
    ASSUME NEW S \in SUBSET Nat, IsFiniteSet(S), S # {}
    PROVE  Max(S) \in S /\ \A y \in S : Max(S) >= y
<1> DEFINE R == {p \in Nat \X Nat : p[1] <= p[2]}
<1>1. \A x, y \in Nat : <<x, y>> \in R <=> x <= y
  OBVIOUS
<1> HIDE DEF R
<1>2. ASSUME NEW x \in S, NEW y \in S PROVE <<x, y>> \in R \/ <<y, x>> \in R
  <2>1. x \in Nat /\ y \in Nat
    OBVIOUS
  <2>2. x <= y \/ y <= x
    BY <2>1
  <2> QED
    BY <1>1, <2>1, <2>2
<1>3. ASSUME NEW x \in S, NEW y \in S, NEW z \in S, <<x, y>> \in R, <<y, z>> \in R
      PROVE  <<x, z>> \in R
  <2>1. x \in Nat /\ y \in Nat /\ z \in Nat
    OBVIOUS
  <2>2. x <= y /\ y <= z
    BY <1>1, <1>3, <2>1
  <2>3. x <= z
    BY <2>1, <2>2
  <2> QED
    BY <1>1, <2>1, <2>3
<1>4. PICK x \in S : \A y \in S : <<y, x>> \in R
  BY <1>2, <1>3, GreatestElement
<1>5. \A y \in S : x >= y
  BY <1>1, <1>4
<1> QED
  BY <1>5 DEF Max
-----------------------------------------------------------------------------
(* Compare. *)

CardSet(cards) == IsFiniteSet(cards) /\ \A c \in cards : c.rank \in Nat

(* How many cards of rank r. *)
HeldOf(r, cards) == Cardinality({c \in cards : c.rank = r})

(* At the highest rank of which a and b hold different numbers, a has more. *)
Ahead(a, b) ==
    \E r \in Nat : /\ HeldOf(r, a) > HeldOf(r, b)
                   /\ \A q \in Nat : q > r => HeldOf(q, a) = HeldOf(q, b)

Alike(a, b) == \A r \in Nat : HeldOf(r, a) = HeldOf(r, b)

LEMMA HeldType ==
    ASSUME NEW cards, CardSet(cards)
    PROVE  /\ \A r : HeldOf(r, cards) \in Nat
           /\ \A r : r \notin sortedRanks(cards) => HeldOf(r, cards) = 0
           /\ IsFiniteSet(sortedRanks(cards)) /\ sortedRanks(cards) \in SUBSET Nat
<1>1. ASSUME NEW r PROVE HeldOf(r, cards) \in Nat
  <2>1. IsFiniteSet({c \in cards : c.rank = r})
    BY FS_Subset DEF CardSet
  <2> QED
    BY <2>1, FS_CardinalityType DEF HeldOf
<1>2. ASSUME NEW r, r \notin sortedRanks(cards) PROVE HeldOf(r, cards) = 0
  <2>1. {c \in cards : c.rank = r} = {}
    BY <1>2 DEF sortedRanks
  <2> QED
    BY <2>1, FS_EmptySet DEF HeldOf
<1>3. IsFiniteSet(sortedRanks(cards))
  <2> DEFINE f == [c \in cards |-> c.rank]
  <2>1. f \in Surjection(cards, sortedRanks(cards))
    BY DEF Surjection, sortedRanks
  <2> HIDE DEF f
  <2> QED
    BY <2>1, FS_Surjection DEF CardSet
<1>4. sortedRanks(cards) \in SUBSET Nat
  BY DEF CardSet, sortedRanks
<1> QED
  BY <1>1, <1>2, <1>3, <1>4

(* What compareCards answers. *)
LEMMA CompareCardsFacts ==
    ASSUME NEW a, NEW b, CardSet(a), CardSet(b)
    PROVE  /\ compareCards(a, b) \in Int
           /\ compareCards(a, b) > 0 => Ahead(a, b)
           /\ compareCards(a, b) < 0 => Ahead(b, a)
           /\ compareCards(a, b) = 0 => Alike(a, b)
<1> DEFINE all == sortedRanks(a \cup b)
           differ == {r \in all : HeldOf(r, a) # HeldOf(r, b)}
           m == Max(differ)
<1>1. compareCards(a, b) = IF differ = {} THEN 0 ELSE HeldOf(m, a) - HeldOf(m, b)
  BY DEF compareCards, HeldOf
<1>2. CardSet(a \cup b)
  BY FS_Union DEF CardSet
<1>3. IsFiniteSet(all) /\ all \in SUBSET Nat
  BY <1>2, HeldType
<1>4. /\ \A r : HeldOf(r, a) \in Nat /\ HeldOf(r, b) \in Nat
      /\ \A r : r \notin all => HeldOf(r, a) = 0 /\ HeldOf(r, b) = 0
  <2>1. sortedRanks(a) \subseteq all /\ sortedRanks(b) \subseteq all
    BY DEF sortedRanks
  <2> QED
    BY <2>1, HeldType
<1>5. IsFiniteSet(differ) /\ differ \in SUBSET Nat
  BY <1>3, FS_Subset
<1>6. \A r : r \notin differ => HeldOf(r, a) = HeldOf(r, b)
  BY <1>4
<1>7. differ # {} => m \in differ /\ \A y \in differ : m >= y
  BY <1>5, MaxOfNaturals
<1>8. \A r \in differ : HeldOf(r, a) # HeldOf(r, b)
  OBVIOUS
<1> HIDE DEF all, differ, m
<1>9. CASE differ = {}
  BY <1>1, <1>6, <1>9 DEF Alike
<1>10. CASE differ # {}
  <2>1. m \in Nat /\ HeldOf(m, a) # HeldOf(m, b)
    BY <1>5, <1>7, <1>8, <1>10
  <2>2. \A q \in Nat : q > m => q \notin differ
    BY <1>5, <1>7, <1>10, <2>1
  <2>3. \A q \in Nat : q > m => HeldOf(q, a) = HeldOf(q, b)
    BY <1>6, <2>2
  <2>4. compareCards(a, b) = HeldOf(m, a) - HeldOf(m, b)
    BY <1>1, <1>10
  <2>5. compareCards(a, b) \in Int /\ compareCards(a, b) # 0
    BY <1>4, <2>1, <2>4
  <2>6. compareCards(a, b) > 0 => Ahead(a, b)
    BY <1>4, <2>1, <2>3, <2>4 DEF Ahead
  <2>7. compareCards(a, b) < 0 => Ahead(b, a)
    BY <1>4, <2>1, <2>3, <2>4 DEF Ahead
  <2> QED
    BY <2>5, <2>6, <2>7
<1> QED
  BY <1>9, <1>10

LEMMA AheadFacts ==
    ASSUME NEW a, NEW b, CardSet(a), CardSet(b)
    PROVE  /\ ~(Ahead(a, b) /\ Ahead(b, a))
           /\ ~(Ahead(a, b) /\ Alike(a, b))
           /\ Alike(a, b) => Alike(b, a)
<1>1. \A r : HeldOf(r, a) \in Nat /\ HeldOf(r, b) \in Nat
  BY HeldType
<1>2. ASSUME Ahead(a, b), Ahead(b, a) PROVE FALSE
  <2>1. PICK r \in Nat : /\ HeldOf(r, a) > HeldOf(r, b)
                         /\ \A q \in Nat : q > r => HeldOf(q, a) = HeldOf(q, b)
    BY <1>2 DEF Ahead
  <2>2. PICK s \in Nat : /\ HeldOf(s, b) > HeldOf(s, a)
                         /\ \A q \in Nat : q > s => HeldOf(q, b) = HeldOf(q, a)
    BY <1>2 DEF Ahead
  <2>3. r # s /\ ~(r > s) /\ ~(s > r)
    BY <1>1, <2>1, <2>2
  <2> QED
    BY <2>3
<1>3. ASSUME Ahead(a, b), Alike(a, b) PROVE FALSE
  BY <1>1, <1>3 DEF Ahead, Alike
<1>4. Alike(a, b) => Alike(b, a)
  BY DEF Alike
<1> QED
  BY <1>2, <1>3, <1>4

(* Not to be behind is transitive. *)
LEMMA AheadTransitive ==
    ASSUME NEW a, NEW b, NEW c, CardSet(a), CardSet(b), CardSet(c),
           Ahead(a, b) \/ Alike(a, b), Ahead(b, c) \/ Alike(b, c)
    PROVE  /\ Ahead(a, c) \/ Alike(a, c)
           /\ Ahead(a, b) \/ Ahead(b, c) => Ahead(a, c)
<1>1. \A r : HeldOf(r, a) \in Nat /\ HeldOf(r, b) \in Nat /\ HeldOf(r, c) \in Nat
  BY HeldType
<1>2. CASE Alike(a, b) /\ Alike(b, c)
  <2>1. Alike(a, c)
    BY <1>2 DEF Alike
  <2> QED
    BY <1>2, <2>1, AheadFacts
<1>3. CASE Ahead(a, b) /\ Alike(b, c)
  BY <1>1, <1>3 DEF Ahead, Alike
<1>4. CASE Alike(a, b) /\ Ahead(b, c)
  BY <1>1, <1>4 DEF Ahead, Alike
<1>5. CASE Ahead(a, b) /\ Ahead(b, c)
  <2>1. PICK r \in Nat : /\ HeldOf(r, a) > HeldOf(r, b)
                         /\ \A q \in Nat : q > r => HeldOf(q, a) = HeldOf(q, b)
    BY <1>5 DEF Ahead
  <2>2. PICK s \in Nat : /\ HeldOf(s, b) > HeldOf(s, c)
                         /\ \A q \in Nat : q > s => HeldOf(q, b) = HeldOf(q, c)
    BY <1>5 DEF Ahead
  <2>3. CASE r >= s
    <3>1. HeldOf(r, b) >= HeldOf(r, c)
      BY <1>1, <2>2, <2>3
    <3>2. HeldOf(r, a) > HeldOf(r, c)
      BY <1>1, <2>1, <3>1
    <3>3. \A q \in Nat : q > r => HeldOf(q, a) = HeldOf(q, c)
      BY <1>1, <2>1, <2>2, <2>3
    <3> QED
      BY <3>2, <3>3 DEF Ahead
  <2>4. CASE s > r
    <3>2. HeldOf(s, a) > HeldOf(s, c)
      BY <1>1, <2>1, <2>2, <2>4
    <3>3. \A q \in Nat : q > s => HeldOf(q, a) = HeldOf(q, c)
      BY <1>1, <2>1, <2>2, <2>4
    <3> QED
      BY <3>2, <3>3 DEF Ahead
  <2> QED
    BY <2>3, <2>4
<1> QED
  BY <1>2, <1>3, <1>4, <1>5

Result(x) == x.rank \in Nat /\ CardSet(x.cards)

(* compareCards is antisymmetric and transitive. *)
LEMMA CompareCardsOrders ==
    ASSUME NEW a, NEW b, NEW c, CardSet(a), CardSet(b), CardSet(c)
    PROVE  /\ compareCards(a, b) \in Int
           /\ compareCards(a, b) > 0 <=> compareCards(b, a) < 0
           /\ compareCards(a, b) = 0 <=> compareCards(b, a) = 0
           /\ compareCards(a, b) >= 0 /\ compareCards(b, c) >= 0 => compareCards(a, c) >= 0
<1> DEFINE C(x, y) == compareCards(x, y)
<1>1. /\ C(a, b) \in Int /\ C(b, a) \in Int /\ C(b, c) \in Int /\ C(a, c) \in Int
  BY CompareCardsFacts
<1>2. /\ C(a, b) > 0 => Ahead(a, b)
      /\ C(a, b) < 0 => Ahead(b, a)
      /\ C(a, b) = 0 => Alike(a, b)
      /\ C(b, a) > 0 => Ahead(b, a)
      /\ C(b, a) < 0 => Ahead(a, b)
      /\ C(b, a) = 0 => Alike(b, a)
  BY CompareCardsFacts
<1>3. /\ C(b, c) > 0 => Ahead(b, c)
      /\ C(b, c) = 0 => Alike(b, c)
      /\ C(a, c) < 0 => Ahead(c, a)
  BY CompareCardsFacts
<1>4. /\ ~(Ahead(a, b) /\ Ahead(b, a))
      /\ ~(Ahead(a, b) /\ Alike(a, b))
      /\ ~(Ahead(b, a) /\ Alike(b, a))
      /\ Alike(a, b) <=> Alike(b, a)
  BY AheadFacts
<1>5. /\ ~(Ahead(a, c) /\ Ahead(c, a))
      /\ ~(Ahead(c, a) /\ Alike(c, a))
      /\ Alike(a, c) => Alike(c, a)
  BY AheadFacts
<1>6. (Ahead(a, b) \/ Alike(a, b)) /\ (Ahead(b, c) \/ Alike(b, c)) => Ahead(a, c) \/ Alike(a, c)
  BY AheadTransitive
<1> HIDE DEF C
<1>7. /\ C(a, b) > 0 <=> C(b, a) < 0
      /\ C(a, b) = 0 <=> C(b, a) = 0
  BY <1>1, <1>2, <1>4
<1>8. C(a, b) >= 0 /\ C(b, c) >= 0 => C(a, c) >= 0
  <2> SUFFICES ASSUME C(a, b) >= 0, C(b, c) >= 0, C(a, c) < 0 PROVE FALSE
    BY <1>1
  <2>1. C(a, b) > 0 \/ C(a, b) = 0
    BY <1>1
  <2>2. C(b, c) > 0 \/ C(b, c) = 0
    BY <1>1
  <2> QED
    BY <1>2, <1>3, <1>5, <1>6, <2>1, <2>2
<1> QED
  BY <1>1, <1>7, <1>8 DEF C

(* Compare is a total preorder on results: which of two comes first in a   *)
(* loop does not matter, and there is no cycle.                            *)
THEOREM CompareOrders ==
    ASSUME NEW x, NEW y, NEW z, Result(x), Result(y), Result(z)
    PROVE  /\ Compare(x, y) \in Int
           /\ Compare(x, y) > 0 <=> Compare(y, x) < 0
           /\ Compare(x, y) = 0 <=> Compare(y, x) = 0
           /\ Compare(x, y) >= 0 /\ Compare(y, z) >= 0 => Compare(x, z) >= 0
<1> DEFINE C(a, b) == compareCards(a, b)
<1>1. /\ x.rank \in Nat /\ y.rank \in Nat /\ z.rank \in Nat
      /\ CardSet(x.cards) /\ CardSet(y.cards) /\ CardSet(z.cards)
  BY DEF Result
<1>2. /\ C(x.cards, y.cards) \in Int
      /\ C(y.cards, x.cards) \in Int
      /\ C(y.cards, z.cards) \in Int
      /\ C(x.cards, z.cards) \in Int
  BY <1>1, CompareCardsFacts
<1>3. /\ C(x.cards, y.cards) > 0 <=> C(y.cards, x.cards) < 0
      /\ C(x.cards, y.cards) = 0 <=> C(y.cards, x.cards) = 0
      /\ C(x.cards, y.cards) >= 0 /\ C(y.cards, z.cards) >= 0 => C(x.cards, z.cards) >= 0
  BY <1>1, CompareCardsOrders
<1> HIDE DEF C
<1>4. \A a, b : Compare(a, b) = IF a.rank # b.rank THEN a.rank - b.rank ELSE C(a.cards, b.cards)
  BY DEF Compare, C
<1>5. Compare(x, y) \in Int
  BY <1>1, <1>2, <1>4
<1>6. /\ Compare(x, y) > 0 <=> Compare(y, x) < 0
      /\ Compare(x, y) = 0 <=> Compare(y, x) = 0
  <2>1. CASE x.rank = y.rank
    BY <1>3, <1>4, <2>1
  <2>2. CASE x.rank # y.rank
    BY <1>1, <1>4, <2>2
  <2> QED
    BY <2>1, <2>2
<1>7. Compare(x, y) >= 0 /\ Compare(y, z) >= 0 => Compare(x, z) >= 0
  <2>1. CASE x.rank = y.rank /\ y.rank = z.rank
    BY <1>3, <1>4, <2>1
  <2>2. CASE ~(x.rank = y.rank /\ y.rank = z.rank)
    <3> SUFFICES ASSUME Compare(x, y) >= 0, Compare(y, z) >= 0 PROVE Compare(x, z) >= 0
      OBVIOUS
    <3>1. x.rank >= y.rank /\ y.rank >= z.rank
      BY <1>1, <1>2, <1>4
    <3>2. x.rank > z.rank
      BY <1>1, <2>2, <3>1
    <3> QED
      BY <1>1, <1>4, <3>2
  <2> QED
    BY <2>1, <2>2
<1> QED
  BY <1>5, <1>6, <1>7
-----------------------------------------------------------------------------
(* Best. *)

(* rankHand always finds a rank, the high card at least. *)
LEMMA RankHandType == ASSUME NEW cards PROVE rankHand(cards) \in 1 .. 10
<1> DEFINE Is(rank) == CASE HandRank[rank] = "royal flush"     -> isRoyalFlush(cards)
                         [] HandRank[rank] = "straight flush"  -> isStraightFlush(cards)
                         [] HandRank[rank] = "four of a kind"  -> isFourOfAKind(cards)
                         [] HandRank[rank] = "full house"      -> isFullHouse(cards)
                         [] HandRank[rank] = "flush"           -> isFlush(cards)
                         [] HandRank[rank] = "straight"        -> isStraight(cards)
                         [] HandRank[rank] = "three of a kind" -> isThreeOfAKind(cards)
                         [] HandRank[rank] = "two pair"        -> isTwoPair(cards)
                         [] HandRank[rank] = "one pair"        -> isOnePair(cards)
                         [] HandRank[rank] = "high card"       -> TRUE
           held == {rank \in DOMAIN HandRank : Is(rank)}
<1>1. rankHand(cards) = Max(held)
  BY DEF rankHand
<1>2. DOMAIN HandRank = 1 .. 10 /\ HandRank[1] = "high card"
  BY DEF HandRank
<1>3. Is(1)
  BY <1>2
<1> HIDE DEF Is
<1>4. held \subseteq 1 .. 10 /\ 1 \in held
  <2>1. held \subseteq DOMAIN HandRank
    OBVIOUS
  <2>2. 1 \in DOMAIN HandRank
    <3>1. 1 \in 1 .. 10
      OBVIOUS
    <3> QED
      BY <1>2, <3>1, Zenon
  <2>3. 1 \in held
    BY <1>3, <2>2, Zenon
  <2> HIDE DEF held
  <2> QED
    BY <1>2, <2>1, <2>3
<1>5. IsFiniteSet(held)
  <2> HIDE DEF held
  <2>1. 1 \in Int /\ 10 \in Int
    OBVIOUS
  <2>2. IsFiniteSet(1 .. 10)
    BY <2>1, FS_Interval, Zenon
  <2> QED
    BY <1>4, <2>2, FS_Subset
<1> HIDE DEF held
<1>6. held \in SUBSET Nat /\ held # {}
  BY <1>4
<1>7. Max(held) \in held
  BY <1>5, <1>6, MaxOfNaturals
<1> QED
  BY <1>1, <1>4, <1>7

ResultOf(combo) == [rank |-> rankHand(combo), cards |-> combo]

ZeroResult == [rank |-> 0, cards |-> {}]

BetterOf(combo, best) == IF Compare(ResultOf(combo), best) > 0 THEN ResultOf(combo) ELSE best

(* The equation that defines the function inside Best, and its restriction *)
(* to the subsets with at most n elements.                                 *)
BestOf(g, s) == IF s = {} THEN ZeroResult ELSE BetterOf(Chosen(s), g[s \ {Chosen(s)}])

SetBest(g, S) == g = [s \in SUBSET S |-> BestOf(g, s)]

SetBestUpTo(g, S, n) == g = [s \in UpTo(S, n) |-> BestOf(g, s)]

LEMMA SetBestExists ==
    ASSUME NEW S, IsFiniteSet(S)
    PROVE  \E g : SetBest(g, S)
<1> DEFINE T == {n \in Nat : \E g : SetBestUpTo(g, S, n)}
<1>1. 0 \in T
  <2> DEFINE g == [s \in UpTo(S, 0) |-> ZeroResult]
  <2>1. ASSUME NEW s \in UpTo(S, 0) PROVE s = {}
    <3>1. s \in SUBSET S /\ Cardinality(s) <= 0
      BY DEF UpTo
    <3>2. Cardinality(s) \in Nat /\ (Cardinality(s) = 0 <=> s = {})
      BY <3>1, ChosenFacts
    <3>3. Cardinality(s) = 0
      BY <3>1, <3>2
    <3> QED
      BY <3>2, <3>3
  <2>2. \A s \in UpTo(S, 0) : BestOf(g, s) = ZeroResult
    BY <2>1 DEF BestOf
  <2>3. g = [s \in UpTo(S, 0) |-> BestOf(g, s)]
    <3> HIDE DEF g
    <3>1. g = [s \in UpTo(S, 0) |-> ZeroResult]
      BY DEF g
    <3> QED
      BY <2>2, <3>1
  <2> QED
    BY <2>3 DEF SetBestUpTo
<1>2. ASSUME NEW n \in Nat, n \in T PROVE n + 1 \in T
  <2>1. PICK g : SetBestUpTo(g, S, n)
    BY <1>2
  <2> DEFINE h == [s \in UpTo(S, n + 1) |-> BestOf(g, s)]
  <2>2. ASSUME NEW s \in UpTo(S, n) PROVE s \in UpTo(S, n + 1) /\ h[s] = g[s]
    <3>1. s \in SUBSET S /\ Cardinality(s) <= n
      BY DEF UpTo
    <3>2. Cardinality(s) \in Nat
      BY <3>1, ChosenFacts
    <3>3. s \in UpTo(S, n + 1)
      BY <3>1, <3>2 DEF UpTo
    <3> QED
      BY <2>1, <3>3 DEF SetBestUpTo
  <2>3. ASSUME NEW s \in UpTo(S, n + 1) PROVE h[s] = BestOf(h, s)
    <3>1. h[s] = BestOf(g, s)
      OBVIOUS
    <3> HIDE DEF h
    <3>2. CASE s = {}
      BY <3>1, <3>2 DEF BestOf
    <3>3. CASE s # {}
      <4>1. s \in SUBSET S /\ Cardinality(s) <= n + 1
        BY DEF UpTo
      <4>2. /\ Cardinality(s) \in Nat
            /\ s \ {Chosen(s)} \in SUBSET S
            /\ Cardinality(s \ {Chosen(s)}) = Cardinality(s) - 1
        BY <3>3, <4>1, ChosenFacts
      <4>3. s \ {Chosen(s)} \in UpTo(S, n)
        BY <4>1, <4>2 DEF UpTo
      <4> QED
        BY <2>2, <3>1, <3>3, <4>3 DEF BestOf
    <3> QED
      BY <3>2, <3>3
  <2>4. SetBestUpTo(h, S, n + 1)
    <3>1. h = [s \in UpTo(S, n + 1) |-> h[s]]
      OBVIOUS
    <3> HIDE DEF h
    <3>2. h = [s \in UpTo(S, n + 1) |-> BestOf(h, s)]
      BY <2>3, <3>1
    <3> QED
      BY <3>2 DEF SetBestUpTo
  <2> QED
    BY <2>4
<1>3. \A n \in Nat : n \in T
  <2> HIDE DEF T
  <2> QED
    BY <1>1, <1>2, SetInduction
<1>4. Cardinality(S) \in Nat /\ UpTo(S, Cardinality(S)) = SUBSET S
  <2>1. \A s \in SUBSET S : Cardinality(s) <= Cardinality(S)
    BY FS_Subset
  <2> QED
    BY <2>1, FS_CardinalityType DEF UpTo
<1>5. PICK g : SetBestUpTo(g, S, Cardinality(S))
  BY <1>3, <1>4
<1> QED
  BY <1>4, <1>5 DEF SetBestUpTo, SetBest

LEMMA BestIsSetBest ==
    ASSUME NEW cards, IsFiniteSet(combinations(cards))
    PROVE  \E g : SetBest(g, combinations(cards)) /\ Best(cards) = g[combinations(cards)]
<1> DEFINE S == combinations(cards)
           Better(combo, best) ==
               LET result == [rank |-> rankHand(combo), cards |-> combo]
               IN  IF Compare(result, best) > 0 THEN result ELSE best
           g == CHOOSE g : g = [s \in SUBSET S |->
                     IF s = {} THEN [rank |-> 0, cards |-> {}]
                     ELSE Better(CHOOSE x \in s : TRUE, g[s \ {CHOOSE x \in s : TRUE}])]
<1>1. Best(cards) = g[S]
  BY DEF Best, FoldSet, MapThenFoldSet
<1> HIDE DEF S
<1>2. \E h : h = [s \in SUBSET S |->
                     IF s = {} THEN [rank |-> 0, cards |-> {}]
                     ELSE Better(CHOOSE x \in s : TRUE, h[s \ {CHOOSE x \in s : TRUE}])]
  <2>1. PICK h : SetBest(h, S)
    BY SetBestExists DEF S
  <2> QED
    BY <2>1 DEF SetBest, BestOf, BetterOf, ResultOf, ZeroResult, Chosen
<1>3. g = [s \in SUBSET S |->
              IF s = {} THEN [rank |-> 0, cards |-> {}]
              ELSE Better(CHOOSE x \in s : TRUE, g[s \ {CHOOSE x \in s : TRUE}])]
  BY <1>2
<1> HIDE DEF g
<1>4. SetBest(g, S)
  BY <1>3 DEF SetBest, BestOf, BetterOf, ResultOf, ZeroResult, Chosen
<1> QED
  BY <1>1, <1>4 DEF S

(* The combinations are finitely many, and sets of cards themselves. *)
LEMMA CombinationFacts ==
    ASSUME NEW cards, CardSet(cards)
    PROVE  /\ IsFiniteSet(combinations(cards))
           /\ \A combo \in combinations(cards) : CardSet(combo) /\ Result(ResultOf(combo))
<1>1. combinations(cards) \subseteq SUBSET cards
  BY DEF combinations, kSubset
<1>2. IsFiniteSet(combinations(cards))
  <2>1. IsFiniteSet(SUBSET cards)
    BY FS_SUBSET DEF CardSet
  <2> QED
    BY <1>1, <2>1, FS_Subset
<1>3. ASSUME NEW combo \in combinations(cards) PROVE CardSet(combo) /\ Result(ResultOf(combo))
  <2>1. combo \subseteq cards
    BY <1>1
  <2>2. CardSet(combo)
    <3>1. IsFiniteSet(combo)
      BY <2>1, FS_Subset DEF CardSet
    <3> QED
      BY <2>1, <3>1 DEF CardSet
  <2>3. rankHand(combo) \in Nat
    <3>1. rankHand(combo) \in 1 .. 10
      BY RankHandType
    <3> QED
      BY <3>1
  <2>4. ResultOf(combo).rank = rankHand(combo) /\ ResultOf(combo).cards = combo
    BY DEF ResultOf
  <2> QED
    BY <2>2, <2>3, <2>4 DEF Result
<1> QED
  BY <1>2, <1>3

(* What the loop of Best has found after the combinations in s. *)
Found(b, s) ==
    /\ Result(b)
    /\ s = {} => b = ZeroResult
    /\ s # {} => \E combo \in s : b = ResultOf(combo)
    /\ \A combo \in s : Compare(b, ResultOf(combo)) >= 0

LEMMA BetterOfFinds ==
    ASSUME NEW b, NEW s, NEW combo, Found(b, s), Result(ResultOf(combo)),
           \A c \in s : Result(ResultOf(c))
    PROVE  Found(BetterOf(combo, b), s \cup {combo})
<1> DEFINE r == ResultOf(combo)
           next == BetterOf(combo, b)
<1>0. Result(r) /\ Result(b) /\ Result(ZeroResult)
  <2>1. CardSet({})
    BY FS_EmptySet DEF CardSet
  <2>2. ZeroResult.rank = 0 /\ ZeroResult.cards = {}
    BY DEF ZeroResult
  <2>3. Result(ZeroResult)
    BY <2>1, <2>2 DEF Result
  <2> QED
    BY <2>3 DEF Found
<1>1. /\ Compare(r, b) \in Int /\ Compare(b, r) \in Int
      /\ Compare(r, b) > 0 <=> Compare(b, r) < 0
      /\ Compare(r, r) >= 0
  <2>1. /\ Compare(r, b) \in Int
        /\ Compare(r, b) > 0 <=> Compare(b, r) < 0
    BY <1>0, CompareOrders
  <2>2. Compare(b, r) \in Int
    BY <1>0, CompareOrders
  <2>3. Compare(r, r) \in Int /\ (Compare(r, r) > 0 <=> Compare(r, r) < 0)
    BY <1>0, CompareOrders
  <2> QED
    BY <2>1, <2>2, <2>3
<1>2. next = IF Compare(r, b) > 0 THEN r ELSE b
  BY DEF BetterOf
<1>3. CASE Compare(r, b) > 0
  <2>1. next = r
    BY <1>2, <1>3
  <2>2. ASSUME NEW c \in s PROVE Compare(r, ResultOf(c)) >= 0
    <3>1. Compare(r, b) >= 0
      BY <1>1, <1>3
    <3>2. Compare(b, ResultOf(c)) >= 0 /\ Result(ResultOf(c))
      BY DEF Found
    <3> HIDE DEF r
    <3> QED
      BY <1>0, <3>1, <3>2, CompareOrders
  <2>3. \A c \in s \cup {combo} : Compare(r, ResultOf(c)) >= 0
    BY <1>1, <2>2
  <2>4. s \cup {combo} # {} /\ \E c \in s \cup {combo} : r = ResultOf(c)
    OBVIOUS
  <2> HIDE DEF next, r
  <2>5. Found(r, s \cup {combo})
    BY <1>0, <2>3, <2>4, Zenon DEF Found
  <2> QED
    BY <2>1, <2>5 DEF next
<1>4. CASE ~(Compare(r, b) > 0)
  <2>1. next = b
    BY <1>2, <1>4
  <2>2. Compare(b, r) >= 0
    BY <1>1, <1>4
  <2>3. \A c \in s \cup {combo} : Compare(b, ResultOf(c)) >= 0
    BY <2>2 DEF Found
  <2>4. s # {}
    <3> SUFFICES ASSUME s = {} PROVE FALSE
      OBVIOUS
    <3>1. b.rank = 0
      BY DEF Found, ZeroResult
    <3>2. r.rank \in 1 .. 10
      BY RankHandType DEF ResultOf
    <3>3. Compare(r, b) = r.rank - b.rank
      BY <3>1, <3>2 DEF Compare
    <3> HIDE DEF r
    <3> QED
      BY <1>4, <3>1, <3>2, <3>3
  <2>5. \E c \in s : b = ResultOf(c)
    BY <2>4 DEF Found
  <2>6. s \cup {combo} # {} /\ \E c \in s \cup {combo} : b = ResultOf(c)
    BY <2>5
  <2> HIDE DEF next, r
  <2>7. Found(b, s \cup {combo})
    BY <1>0, <2>3, <2>6, Zenon DEF Found
  <2> QED
    BY <2>1, <2>7 DEF next
<1> QED
  BY <1>3, <1>4

LEMMA SetBestFinds ==
    ASSUME NEW S, IsFiniteSet(S), \A combo \in S : Result(ResultOf(combo)),
           NEW g, SetBest(g, S)
    PROVE  \A s \in SUBSET S : Found(g[s], s)
<1> DEFINE A == {n \in Nat : \A s \in SUBSET S : Cardinality(s) = n => Found(g[s], s)}
<1>1. ASSUME NEW s \in SUBSET S PROVE g[s] = BestOf(g, s)
  BY DEF SetBest
<1>2. 0 \in A
  <2> SUFFICES ASSUME NEW s \in SUBSET S, Cardinality(s) = 0 PROVE Found(g[s], s)
    OBVIOUS
  <2>1. s = {}
    BY ChosenFacts
  <2>2. g[s] = ZeroResult
    BY <1>1, <2>1 DEF BestOf
  <2>3. Result(ZeroResult)
    <3>1. CardSet({})
      BY FS_EmptySet DEF CardSet
    <3>2. ZeroResult.rank = 0 /\ ZeroResult.cards = {}
      BY DEF ZeroResult
    <3> QED
      BY <3>1, <3>2 DEF Result
  <2> QED
    BY <2>1, <2>2, <2>3 DEF Found
<1>3. ASSUME NEW n \in Nat, n \in A PROVE n + 1 \in A
  <2> SUFFICES ASSUME NEW s \in SUBSET S, Cardinality(s) = n + 1 PROVE Found(g[s], s)
    OBVIOUS
  <2> DEFINE c == Chosen(s)
             t == s \ {c}
  <2>1. s # {}
    <3>1. Cardinality(s) # 0
      OBVIOUS
    <3> QED
      BY <3>1, ChosenFacts
  <2>2. c \in s /\ t \in SUBSET S /\ Cardinality(t) = n
    <3>1. Cardinality(t) = (n + 1) - 1
      BY <2>1, ChosenFacts
    <3> QED
      BY <2>1, <3>1, ChosenFacts
  <2>3. Found(g[t], t)
    BY <1>3, <2>2
  <2>4. g[s] = BetterOf(c, g[t])
    BY <1>1, <2>1 DEF BestOf
  <2>5. s = t \cup {c}
    BY <2>2
  <2>6. Result(ResultOf(c)) /\ \A x \in t : Result(ResultOf(x))
    BY <2>2
  <2> HIDE DEF c, t
  <2>7. Found(BetterOf(c, g[t]), t \cup {c})
    BY <2>3, <2>6, BetterOfFinds
  <2> QED
    BY <2>4, <2>5, <2>7
<1>4. \A n \in Nat : n \in A
  <2> HIDE DEF A
  <2> QED
    BY <1>2, <1>3, SetInduction
<1>5. \A s \in SUBSET S : Cardinality(s) \in Nat
  BY ChosenFacts
<1> QED
  BY <1>4, <1>5

(* Best answers with one of the five-card combinations, and no combination *)
(* is better; when there is none, with the zero result.                    *)
THEOREM BestIsBest ==
    ASSUME NEW cards, CardSet(cards)
    PROVE  LET best == Best(cards)
           IN  /\ Result(best)
               /\ combinations(cards) = {} => best = ZeroResult
               /\ combinations(cards) # {} => best.cards \in combinations(cards)
               /\ \A combo \in combinations(cards) : Compare(best, ResultOf(combo)) >= 0
<1> DEFINE S == combinations(cards)
<1>1. IsFiniteSet(S) /\ \A combo \in S : Result(ResultOf(combo))
  BY CombinationFacts
<1>2. PICK g : SetBest(g, S) /\ Best(cards) = g[S]
  BY <1>1, BestIsSetBest
<1> HIDE DEF S
<1>3. Found(Best(cards), S)
  BY <1>1, <1>2, SetBestFinds
<1>4. \A combo : ResultOf(combo).cards = combo
  BY DEF ResultOf
<1> QED
  BY <1>3, <1>4 DEF Found, S
-----------------------------------------------------------------------------
(* The showdown. *)

(* What a deal and a showdown leave behind. *)
Dealt ==
    board # NotYet =>
        /\ CardSet(board)
        /\ \A p \in Players : CardSet(hole[p]) /\ Cardinality(hole[p]) = 2

Shown ==
    results # NotYet =>
        /\ board # NotYet
        /\ DOMAIN results \subseteq Players
        /\ \A p \in DOMAIN results : Result(results[p]) /\ (board = {} => results[p] = ZeroResult)
        /\ winnersByPot = [e \in (SUBSET Players) \ {{}} |-> bestResultsInPot(e, results)]

ShowdownInv == Dealt /\ Shown

(* Two cards make no combination of five. *)
LEMMA NoFlopNoResult ==
    ASSUME NEW cards, IsFiniteSet(cards), Cardinality(cards) = 2
    PROVE  combinations(cards) = {}
<1> SUFFICES ASSUME NEW combo \in combinations(cards) PROVE FALSE
  OBVIOUS
<1>1. combo \in SUBSET cards /\ Cardinality(combo) = 5
  BY DEF combinations, kSubset
<1>2. Cardinality(combo) <= Cardinality(cards)
  BY <1>1, FS_Subset
<1> QED
  BY <1>1, <1>2

LEMMA DealKeepsInv == ShowdownInv /\ Deal => ShowdownInv'
<1> SUFFICES ASSUME ShowdownInv, Deal PROVE ShowdownInv'
  OBVIOUS
<1>1. results = NotYet /\ results' = results
  BY DEF Deal, ShowdownInv, Shown
<1>2. PICK d \in Deals : board' = d.board /\ hole' \in [Players -> kSubset(2, d.pool)]
  BY DEF Deal
<1>3. /\ IsFiniteSet(d.board) /\ IsFiniteSet(d.pool)
      /\ \A c \in d.board \cup d.pool : c.rank \in Nat
  BY DealsAssumption
<1>4. CardSet(board')
  BY <1>2, <1>3 DEF CardSet
<1>5. ASSUME NEW p \in Players PROVE CardSet(hole'[p]) /\ Cardinality(hole'[p]) = 2
  <2>1. hole'[p] \in SUBSET d.pool /\ Cardinality(hole'[p]) = 2
    BY <1>2 DEF kSubset
  <2>2. IsFiniteSet(hole'[p])
    BY <1>3, <2>1, FS_Subset
  <2> QED
    BY <1>3, <2>1, <2>2 DEF CardSet
<1> QED
  BY <1>1, <1>4, <1>5 DEF ShowdownInv, Dealt, Shown

LEMMA ShowdownKeepsInv ==
    ASSUME NEW inHand \in SUBSET Players, ShowdownInv, showdown(inHand)
    PROVE  ShowdownInv'
<1>1. /\ board # NotYet /\ board' = board /\ hole' = hole
      /\ results' = [p \in inHand |-> Best(hole[p] \cup board)]
      /\ winnersByPot' = [e \in (SUBSET Players) \ {{}} |-> bestResultsInPot(e, results')]
  BY DEF showdown
<1>2. ASSUME NEW p \in inHand
      PROVE  Result(results'[p]) /\ (board = {} => results'[p] = ZeroResult)
  <2> DEFINE cards == hole[p] \cup board
  <2>1. CardSet(board) /\ CardSet(hole[p]) /\ Cardinality(hole[p]) = 2
    BY <1>1 DEF ShowdownInv, Dealt
  <2>2. CardSet(cards)
    <3>1. IsFiniteSet(cards)
      BY <2>1, FS_Union DEF CardSet
    <3> QED
      BY <2>1, <3>1 DEF CardSet
  <2>3. results'[p] = Best(cards)
    BY <1>1
  <2>4. board = {} => combinations(cards) = {}
    <3> SUFFICES ASSUME board = {} PROVE combinations(cards) = {}
      OBVIOUS
    <3>1. cards = hole[p]
      OBVIOUS
    <3> HIDE DEF cards
    <3> QED
      BY <2>1, <3>1, NoFlopNoResult DEF CardSet
  <2> HIDE DEF cards
  <2> QED
    BY <2>2, <2>3, <2>4, BestIsBest
<1>3. DOMAIN results' = inHand
  BY <1>1
<1>4. Dealt'
  BY <1>1 DEF ShowdownInv, Dealt
<1>5. Shown'
  BY <1>1, <1>2, <1>3 DEF Shown
<1> QED
  BY <1>4, <1>5 DEF ShowdownInv

(* Of finitely many results, some are the best: they tie, and they beat    *)
(* all others.                                                             *)
LEMMA BestResultsFacts ==
    ASSUME NEW e, NEW res, IsFiniteSet(e \cap DOMAIN res),
           \A p \in DOMAIN res : Result(res[p])
    PROVE  LET in  == e \cap DOMAIN res
               won == bestResultsInPot(e, res)
           IN  /\ won \subseteq {p \in in : \A q \in in : res[q].rank <= res[p].rank}
               /\ in # {} => won # {}
               /\ \A p \in won : /\ \A q \in won : Compare(res[p], res[q]) = 0
                                 /\ \A q \in in \ won : Compare(res[p], res[q]) > 0
               /\ (\A p, q \in in : res[p] = res[q]) => won = in
<1> DEFINE in  == e \cap DOMAIN res
           C(p, q) == Compare(res[p], res[q])
           won == bestResultsInPot(e, res)
           R == {pq \in in \X in : C(pq[1], pq[2]) <= 0}
<1>1. won = {p \in in : \A q \in in : C(q, p) <= 0}
  BY DEF bestResultsInPot
<1>2. ASSUME NEW p \in in, NEW q \in in
      PROVE  /\ C(p, q) \in Int
             /\ C(p, q) > 0 <=> C(q, p) < 0
             /\ C(p, q) = 0 <=> C(q, p) = 0
             /\ res[p] = res[q] => C(p, q) = 0
             /\ C(p, q) <= 0 => res[p].rank <= res[q].rank
  <2>1. Result(res[p]) /\ Result(res[q])
    OBVIOUS
  <2>2. /\ C(p, q) \in Int
        /\ C(p, q) > 0 <=> C(q, p) < 0
        /\ C(p, q) = 0 <=> C(q, p) = 0
    BY <2>1, CompareOrders
  <2>3. res[p] = res[q] => C(p, q) = 0
    <3> SUFFICES ASSUME res[p] = res[q] PROVE C(p, q) = 0
      OBVIOUS
    <3>1. C(p, q) = C(q, p)
      OBVIOUS
    <3> HIDE DEF C
    <3> QED
      BY <2>2, <3>1
  <2>4. C(p, q) <= 0 => res[p].rank <= res[q].rank
    <3>1. res[p].rank \in Nat /\ res[q].rank \in Nat
      BY <2>1 DEF Result
    <3> QED
      BY <3>1 DEF Compare
  <2> QED
    BY <2>2, <2>3, <2>4
<1>3. ASSUME NEW p \in in, NEW q \in in, NEW z \in in, C(p, q) >= 0, C(q, z) >= 0
      PROVE  C(p, z) >= 0
  <2>1. Result(res[p]) /\ Result(res[q]) /\ Result(res[z])
    OBVIOUS
  <2> QED
    BY <1>3, <2>1, CompareOrders
<1>4. \A p, q \in in : <<p, q>> \in R <=> C(p, q) <= 0
  OBVIOUS
<1>5. IsFiniteSet(in)
  OBVIOUS
<1> HIDE DEF in, C, won, R
<1>6. won \subseteq {p \in in : \A q \in in : res[q].rank <= res[p].rank}
  BY <1>1, <1>2
<1>7. ASSUME in # {} PROVE won # {}
  <2>1. ASSUME NEW p \in in, NEW q \in in PROVE <<p, q>> \in R \/ <<q, p>> \in R
    BY <1>2, <1>4
  <2>2. ASSUME NEW p \in in, NEW q \in in, NEW z \in in, <<p, q>> \in R, <<q, z>> \in R
        PROVE  <<p, z>> \in R
    <3>1. C(p, q) <= 0 /\ C(q, z) <= 0
      BY <1>4, <2>2
    <3>2. C(q, p) >= 0 /\ C(z, q) >= 0
      BY <1>2, <3>1
    <3>3. C(z, p) >= 0
      BY <1>3, <3>2
    <3>4. C(p, z) <= 0
      BY <1>2, <3>3
    <3> QED
      BY <1>4, <3>4
  <2>3. PICK p \in in : \A q \in in : <<q, p>> \in R
    BY <1>5, <1>7, <2>1, <2>2, GreatestElement
  <2>4. p \in won
    BY <1>1, <1>4, <2>3
  <2> QED
    BY <2>4
<1>8. ASSUME NEW p \in won, NEW q \in won PROVE C(p, q) = 0
  <2>1. p \in in /\ q \in in /\ C(p, q) <= 0 /\ C(q, p) <= 0
    BY <1>1
  <2> QED
    BY <1>2, <2>1
<1>9. ASSUME NEW p \in won, NEW q \in in \ won PROVE C(p, q) > 0
  <2>1. p \in in /\ q \in in
    BY <1>1
  <2>2. PICK z \in in : ~(C(z, q) <= 0)
    BY <1>1
  <2>3. C(z, q) > 0 /\ C(q, z) < 0 /\ C(z, p) <= 0
    BY <1>1, <1>2, <2>1, <2>2
  <2> SUFFICES ASSUME ~(C(p, q) > 0) PROVE FALSE
    OBVIOUS
  <2>4. C(q, p) >= 0
    BY <1>2, <2>1
  <2>5. C(p, z) >= 0
    BY <1>2, <2>1, <2>3
  <2>6. C(q, z) >= 0
    BY <1>3, <2>1, <2>4, <2>5
  <2>7. C(q, z) \in Int
    BY <1>2, <2>1
  <2> QED
    BY <2>3, <2>6, <2>7
<1>10. ASSUME \A p, q \in in : res[p] = res[q] PROVE won = in
  <2>1. ASSUME NEW p \in in, NEW q \in in PROVE C(q, p) <= 0
    <3>1. C(q, p) = 0
      BY <1>2, <1>10
    <3> QED
      BY <3>1
  <2> QED
    BY <1>1, <2>1
<1> QED
  BY <1>6, <1>7, <1>8, <1>9, <1>10 DEF in, C, won

LEMMA ShowdownInvHolds == ShowdownSpec => []ShowdownInv
<1>1. ShowdownInit => ShowdownInv
  BY DEF ShowdownInit, ShowdownInv, Dealt, Shown
<1>2. ShowdownInv /\ [ShowdownNext]_showdownVars => ShowdownInv'
  <2> SUFFICES ASSUME ShowdownInv, [ShowdownNext]_showdownVars PROVE ShowdownInv'
    OBVIOUS
  <2>1. CASE Deal
    BY <2>1, DealKeepsInv
  <2>2. ASSUME NEW inHand \in {a \in SUBSET Players : Cardinality(a) > 1}, showdown(inHand)
        PROVE  ShowdownInv'
    BY <2>2, ShowdownKeepsInv
  <2>3. CASE UNCHANGED showdownVars
    BY <2>3 DEF showdownVars, ShowdownInv, Dealt, Shown
  <2> QED
    BY <2>1, <2>2, <2>3 DEF ShowdownNext
<1> QED
  BY <1>1, <1>2, PTL DEF ShowdownSpec

(* However many players there are and whatever they are dealt, every pot   *)
(* that somebody contends finds winners among those with the highest rank: *)
(* they tie, they beat the rest, and before the flop they are everybody.   *)
THEOREM PotsFindWinnersHolds == ShowdownSpec => []PotsFindWinners
<1>1. ShowdownInv => PotsFindWinners
  <2> SUFFICES ASSUME ShowdownInv, results # NotYet, NEW e \in DOMAIN winnersByPot
               PROVE  LET in  == Contenders(e)
                          top == {p \in in : \A q \in in : results[q].rank <= results[p].rank}
                          won == winnersByPot[e]
                      IN  /\ won \subseteq top
                          /\ in # {} => won # {}
                          /\ \A p \in won :
                                /\ \A q \in won : Compare(results[p], results[q]) = 0
                                /\ \A q \in in \ won : Compare(results[p], results[q]) > 0
                          /\ board = {} => won = in
    BY DEF PotsFindWinners
  <2>1. /\ DOMAIN results \subseteq Players
        /\ \A p \in DOMAIN results : Result(results[p]) /\ (board = {} => results[p] = ZeroResult)
        /\ winnersByPot = [x \in (SUBSET Players) \ {{}} |-> bestResultsInPot(x, results)]
    BY DEF ShowdownInv, Shown
  <2>2. winnersByPot[e] = bestResultsInPot(e, results) /\ e \in SUBSET Players
    BY <2>1
  <2>3. Contenders(e) = e \cap DOMAIN results
    BY DEF Contenders
  <2>4. IsFiniteSet(e \cap DOMAIN results)
    <3>1. e \cap DOMAIN results \subseteq Players
      BY <2>2
    <3> QED
      BY <3>1, DealsAssumption, FS_Subset
  <2>5. board = {} => \A p, q \in e \cap DOMAIN results : results[p] = results[q]
    BY <2>1
  <2> QED
    BY <2>1, <2>2, <2>3, <2>4, <2>5, BestResultsFacts
<1> QED
  BY <1>1, ShowdownInvHolds, PTL
=============================================================================
