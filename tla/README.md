# Holdem in TLA+

A verification project for the fixed-limit Texas Hold'em backend in `src/services`.
The modules are translated from the Go code; where a document (mostly
`services/engine/RULES.md`) and the code disagree, the model follows the code; section 6
lists the disagreements, and runs of kind *violation* show the two gravest.

`PROJECT.json` lists every component, run, mutant, mapped definition, finding, hazard and
theorem. This file explains them.

## 1. The system

| Component | State | Operations | Talks to |
|---|---|---|---|
| **engine** (`services/engine`) | one `GameState` per hand, in five PostgreSQL tables | `StartHand`, `ApplyAction` (and from it `FinishHand`), `GetGameState`, `StreamGameState` | called by table-manager; publishes `hand.started`, `player.acted`, `hand.ended` to Kafka |
| **table-manager** (`services/table-manager`) | one row per table and one per seat: stacks, button, `ActiveHandID` | `CreateTable`, `JoinTable`, `LeaveTable`, `Act`, websocket stream | calls engine and wallet over gRPC/HTTP |
| **wallet-service** (`services/wallet-service`) | users, deposit addresses, balances, ledger entries, deposits, sweeps, withdrawals, faucet transfers, the chain cursor | HTTP API; table debit and credit; the chain runner; the `user.created` consumer | an Ethereum node; called by table-manager |
| **auth-service** (`services/auth-service`) | users, refresh sessions | register, login, refresh, logout | publishes `user.created` |
| **analytics-ingestor** (`services/analytics-ingestor`) | rows in ClickHouse | consumes the engine's three topics | Kafka |

What is hard here, and what makes each part correct:

* *Betting and pots* (engine `domain`). All-ins below the bet, folds and raises in any order
  over four streets. Correct means: no chip is created or lost; a player can win only from
  pots they paid for; a street closes exactly when everybody who can act has paid alike; the
  fixed-limit structure holds; every hand comes to an end.
* *Requests* (engine `application` and `repository`). `FindByID` is five queries without a
  transaction, `Save` replaces every row and compares no version, and Kafka is written between
  the two. Correct would mean that a request is atomic, that a finished hand stays finished
  and that sequence numbers identify events.
* *Tables* (table-manager). Every operation reads a table, calls other services, and writes
  the whole table back.
* *Money* (wallet). Idempotent ledger entries under concurrency, and a chain runner that may
  stop between a blockchain call and the row that records it.
* *Sessions and tokens* (auth, and the validators of the other services). A refresh is read,
  check, write without a lock; the validators fetch keys outside their lock while the
  auth-service may change its key. Correct means: a refresh token is spent, a logout is final,
  nothing is served with a token nobody signed, and a good token is served.
* *Live updates* (engine `PubSub`, table-manager `Hub`). A snapshot before the subscription,
  channels that drop when they are full, clients that vanish, requests that fail between saving and
  publishing. Correct means: no socket is sent another player's cards (the engine's streams carry all of them), nobody holds up a request, clients that
  read catch up with what reached them.
* *Delivery* (the wallet's consumer, the ingestor): do the work, then commit the offset, and end
  at any point in between.

## 2. Modules

| Module | Models | Used by |
|---|---|---|
| `Chips` | `Sum(f, a, b)`, the sum of a function over an interval, as a recursive function | everything that counts chips |
| `GameState` | the engine's `domain` package and the pure parts of the three use cases, as operators from a hand to a hand | `HandLifecycle`, `EngineService` |
| `HandLifecycle` | the use cases as atomic actions on one table | *hands*, the theorems; extended by `EngineService`, of which it is the abstract specification |
| `EngineService` | the same use cases as requests that interleave and fail, and the rows of a saved hand | *engine* |
| `Evaluator` | the hand evaluator and the showdown, with named cards, and the rules of poker as a reference | *engine*, *best_hand* |
| `TableManager` | join, leave and act on one table, with wallet and engine | *table*, *join_debits* |
| `LiveUpdates` | `PubSub` and `StreamGameState` of the engine, `Hub` and the websocket handler of table-manager | *live_updates* |
| `AccessTokens` | how table-manager and wallet check access tokens: key cache, middleware, routes | *access_tokens* |
| `AuthService` | registration, login, refresh, logout, and the wallet a new user gets by way of Kafka | *auth* |
| `AtomicLedger` | what the wallet's ledger promises: idempotent entries, no negative balance | abstract specification of `Ledger`; the wallet of `TableManager` |
| `Ledger` | `applyLedgerEntryTx` as concurrent PostgreSQL transactions | *wallet*, the theorems |
| `LinkedAddresses` | challenges and linked addresses | `Wallet` |
| `Wallet` | `Ledger` and `LinkedAddresses` beside each other | *wallet*, the theorems |
| `Deposits` | the chain runner's scan, confirmations and sweeps | *deposits* |
| `Payouts` | withdrawals and faucet transfers, from the request to the receipt | *payouts* |
| `Ingestor` | the engine's Kafka publisher, the topics, and the ingestor with its tables | *ingestor* |
| `MC...` | values for the constants, symmetry; `MCDeals` has the deals for `Evaluator` | the runs |
| `ChipsProofs`, `EngineProofs` | theorems about sums; about hands (`GameState`, `HandLifecycle`), the requests that change them (`EngineService`) and showdowns (`Evaluator`) | |
| `LedgerProofs`, `PayoutsProofs`, `DepositsProofs` | theorems about the ledger and the linked addresses, payouts and deposits | |
| `TableManagerProofs`, `IngestorProofs` | theorems about the table and `LiveUpdates`, and about the ingestor | |
| `AuthServiceProofs` | theorems about `AuthService` and `AccessTokens` | |

### GameState and HandLifecycle

A hand is a record: `street`, `activePlayer`, `button`, `currentBet`, `raises`,
`eventSequence`, the functions `stack`, `status` and `bet` over the seats, the sequence `pots`
of records `[amount, eligible]`, and `board` and `deck` as numbers of cards. It is
`domain.GameState` with three abstractions:

* Cards are counted. What the rules do with cards is deal and compare them; dealing needs their
  number, and the comparison is `Rankings`: any assignment of ranks to the contenders, or a
  tie when the board is too short for the evaluator to find a hand (it answers the empty
  evaluation for fewer than five cards, and all empty evaluations are equal). `Evaluator` names
  the cards.
* `Calculate` (pot.go) sorts and subtracts in a loop. The model states its result in closed
  form: one layer per distinct positive bet, each worth the difference to the layer below for
  every contributor.
* `winnersToMap` gives a pot's odd chips to the winners one at a time in the order of a Go map
  or slice. `OddChipChoices` allows every order, a superset of what the code does.

Percentages: the code computes the rake as `int(float64(pot) * 0.05)`; the model has
`(pot * RakePercent) \div 100`. The integer quotient is what the conversion truncates to for
the amounts a hand can hold.

`HandLifecycle` has one action per use case and outcome: `StartHand`; and for each of fold, check,
call and raise, the hand ends by the action (`EndByAction`), ends at showdown (`EndByShowdown`),
goes on to the next street (`GoToNextStreet`) or the turn passes (`PassTurn`). Refused requests
change nothing and are the negations of the guards. `handEnded` is the last `hand.ended`
event; `buyIn` is a history variable for the conservation of chips.

One thing the model shows to be intended although it looks odd: `mergePots` adds the first layer of a
new street to the last pot of the earlier ones and keeps that pot's eligible players, so a
player who was all-in for exactly the bet can win later bets. `RULES.md:233-237` documents it.

### EngineService

The module extends `HandLifecycle` and shares its variables: `hand` is what the rows in the database are, `handEnded` the event of
the latest end that was saved. Each request is a process with a program counter: `findGameState`, `loadPlayers`, `loadBoard`,
`loadDeck`, `loadPots` (the queries of `FindByID`, each of which sees what is committed at that
moment; the two queries of `loadPots` are one step), `PublishPlayerActed` (validate, apply,
number, publish, then compute what is to be saved), `Save` (a transaction: `upsertGameState`,
`replacePlayers`, `replaceBoard`, `replaceDeck`, `replacePots`), `PublishHandEnded`,
`Answer` (table-manager forgets a hand at showdown). `Fail` stops a request at any point: a
refusal, a database or Kafka error, a crash, a lost answer. It follows one hand. The request's player and action are chosen
when it is validated, which is the first step that looks at them.

### Evaluator

`Deal` takes a board and the players' hole cards, `showdown` computes the `HandResult` of every active player
(`Best`, a fold over the five-card combinations, as in the code) and the winners for every set of players that
may be eligible for a pot. A combination is a set of cards: no test of `rank.go` depends on the order of the five. `rankHand`
tries its tests from the highest rank down, so it is the maximum of the ranks whose test succeeds; `compareCards` compares
descending ranks one by one, so the highest rank of which the hands hold different numbers decides. With fewer
than five cards the result is the zero `HandResult`. `ShowdownSpec` is its specification; it shares no state with `EngineService`,
and `MCEngineService` explores each while the other is at its beginning.

The reference is independent of these: `Category` counts the pairs of equal cards, `Strength` is a
number whose digits are the category and then the ranks, those held most often first.

### TableManager

State: the row of the table and the rows of its seats (two variables, since `FindTable` reads them with two
queries), the wallet (`balance` and `entries` of `AtomicLedger`), the engine's hands, and the
requests. A request goes `FindTable`, `loadSeats` (and the checks), then `DebitForJoin` or
`CreditForCashout` or one of the `ApplyAction...` steps, then `StartHand` if two can play, then
`SaveTable`. `Fail` ends it anywhere; an answer that gets lost is a `Fail` after the call's step. The
idempotency keys are tuples of exactly what the code joins to a string.

The engine is abstract here: a hand starts with stacks (or is refused, when a blind exceeds a
stack) and ends with any distribution of them less some rake. `HandLifecycle` is the reason: its
`ChipConservation` says so. A hand that is over and acted on again, which `EngineService` shows to
be possible, may end with anything. A join or leave that is sent twice may run beside
itself; `overlapped` records that any other two requests did. `Rejoining` says whether a player who was seated once
joins again.

### LiveUpdates

The requests that save something are numbered; the saved hand and the saved table are the numbers of the requests that saved them last, and a view is a hand, a table and the
players whose hole cards it shows. `Act` saves the hand in the engine, publishes it to the streams of the hand (`PubSub`), saves the table (`SavesTable`) and publishes it
to the sockets of the table (`Hub`), subscriber by subscriber; `ChangeSeat` (`JoinTable`, `LeaveTable`) has the last two steps only. A request
may fail after each save (`Fails`), and then publishes no more: `PublishHandEnded` after the engine's `Save`, a lost answer of the engine, `StartHand` of the next hand, `SaveTable`. A
channel of `Capacity` views drops what it cannot take. A client's handler sends a snapshot, subscribes, sends
what it receives, and unsubscribes when it notices that the client has gone: a stream by its context, a socket by a failing
write (the first write after the loss fails here; a kernel may accept it). The two reads of `GetTable` are one step, and an idle table's view, which has no hand to show, counts as one of the
latest hand. `Settings` says which clients are streams and which are slow (may stop reading).

### AuthService and AccessTokens

In `AuthService` a request goes through its transactions one at a time (`Register`, then `PublishUserCreated`, then
`issueSession`; `Refresh`, then `RotateRefreshSession`), with other requests, the clock and failures in between. A
session stands for its refresh token and for the access token issued with it. The wallet's consumer fetches, provisions
and commits; the message may be written twice, the consumer may stop before the commit, `ProvisionUser` may fail.

In `AccessTokens` the auth-service has one key at a time; a token is its key, key ID, expiry and admin
claim. A call is checked at one or two stages (HTTP middleware and gRPC authenticator), against the cached keys or after a
fetch whose answer is taken, stored and looked up in three steps, since the lock is held for the second and third only. Routes are
classes of handlers by how they authorise: user, administrator, internal; required, optional, websocket.

### Ingestor

The engine's side writes the events of one hand to the three topics, with the numbers they have in `EngineService`
(a repeated number after a failed save included) and twice in a row when the writer retries (a call writes one message and waits for it; the retry of a batch that several calls at once have filled is left out). The ingestor's goroutines fetch, decode (fetching the
schema once), insert into one or two tables and commit; the first failure ends the process wherever the
others are, and it starts again from the committed offsets. The tables are `ReplacingMergeTree`s after merging:
of the rows with one sorting key the last inserted stays.

### Ledger and AtomicLedger

`Ledger` is a transaction per connection: `FindExisting`, `LockBalance` (`FOR UPDATE`, waits), `CheckFunds`,
`InsertEntry` (the unique index: waits for an uncommitted key, fails for a committed one),
`UpdateAndCommit`, and `Rollback` anywhere. After a unique violation the Go code returns nil, but PostgreSQL
has aborted the transaction and `Commit` reports an error, so the caller does not see success.
The answer to a commit may be lost. All users of the function (buy-ins, cash-outs, confirmed
deposits, withdrawals, compensations) run it in a transaction of their own; what else their transactions
write is in the module of that component.

### Deposits, Payouts, LinkedAddresses

The runner is one goroutine: `runner` holds the phase of its cycle and what it has read.
Provisioning, new blocks, mined transactions and requests happen between any two of its calls, and
`RunnerStops` ends a cycle anywhere (a failed call, which `safeRun` logs, or a restart). The two modules split
the runner by what it handles; they share no row. What they take from the blockchain is external: blocks are final, a
block's receipts are available with it, a sweep moves what is on the address, and a sent transaction may be mined
successfully, fail, or stay pending. In `Payouts` users have deposit addresses and opening balances already.

`LinkedAddresses` splits `ConfirmLink` between its checks and its transaction, which is where two
confirmations of a challenge can overlap. A link is a row of its own, known by the call that inserted it and the challenge it came from.

## 3. Runs

| Run | Instance | What it shows |
|---|---|---|
| `hands` | 3 players with stacks of 1, 2, 7 or 30, 2 raises, 40 % rake up to 4, fair | chips are conserved, `hand.ended` adds up, the limit and the board hold, streets close even; who can claim which pot, who can be made to pay; every hand ends or comes to a player without chips |
| `engine` | 2 players, 2 requests at once, 6 in all, 4 when some overlap; 7 deals for 3 players | `EngineService` implements `HandLifecycle` (with `LateAction`) as long as requests do not overlap, and what torn reads and lost updates cannot break; the evaluator finds the right rank and, where ordered ranks can tell, the right winners |
| `table` | 3 players, 3 seats, 2 requests at once, 6 in all, 4 when some overlap, 2 hands, 1 failure | money is conserved, the table names the running hand, two players never wait; what a saved table keeps under lost updates |
| `wallet` | 2 users, 2 keys, 3 connections; 2 addresses, 3 challenges, 2 calls | `Ledger` implements `AtomicLedger`; balances are sums of entries, ok is durable, no deadlock; every link is proven by a challenge of its own |
| `deposits` | 2 users, 2 transfers, 3 blocks, 2 confirmations, 2 sweeps, 1 stop, fair | no deposit is passed over, only arrived money is credited, a confirmed sweep moved its deposit, every deposit is credited |
| `payouts` | 2 withdrawals, 1 faucet transfer, 1 loss, fair | debits match payouts; a payout is repeated only for a lost hash; every payout is settled |
| `auth` | 1 user, 2 requests at once, 4 sessions, 1 failure, fair | refresh tokens are spent, a logout is final, tokens belong to users, wallets arrive |
| `access_tokens` | 2 calls, 2 keys under one or two key IDs, 1 failing fetch, either service | what is served is authentic, what is authentic is served |
| `live_updates` | 2 clients, 2 requests that save, any of which may fail, channels of 1, fair | a socket's views are the viewer's own; views are in order and reach whoever reads; the lost are forgotten |
| `ingestor` | 1, 2 and 2 messages in the topics, 2 failures, fair | what is committed is stored, the last event of a number is kept, every event is ingested |
| `best_hand` | 7 deals for 3 players | violation, section 6 |
| `join_debits` | 2 players who may join again, 1 request at a time | violation, section 6 |

Some properties are conditional because the code is. `MoneyConserved` and `TableFitsHand`
speak of tables at rest where no request was cut off between a call and `SaveTable` (`cutOff`) and no two different requests ran
beside each other (`overlapped`), as such requests do lose money or a showdown; `SeatsConsistent` has neither condition. As a hand starts whenever two can play (`TableFitsHand`), `LeaveTable`, which is
refused during a hand, is open only to the last player with chips. `AtomicUseCases` ends with the first overlap of requests (`overlapped`), and so does `NeverGoesBack` with the first
overlap of publications. `ClientsCatchUp` has the exceptions that the code has: an update was published between a client's snapshot and its
subscription or into a full channel, or its view could not be read again (`missed`); or the request that saved it failed before it published it (`Unannounced`). The next
publication that reaches the client ends each of them, and the run shows that too. It also leaves out clients that are slow or lost, and what follows the first overlap. `WinnersByTheRules` compares with the rules when the hands hold the same ranks twice or more and none
is a straight with a low ace: otherwise the code's order is another one (section 6).

`MCEngineService` and `MCWallet` each put two modules without common state into one run: one is explored while the other is
at its beginning.

**Bounds.** Three players are the fewest with side pots (two contenders beyond an all-in player), with
a button that posts no blind, and with a fold that does not end the hand. The stacks are exactly
the small and the big blind (a player who posts one is left without chips and "active"), one chip more than the capped bet before the flop, and more than a hand can cost. The high rake percentage makes the rake exceed the last
pot, so that `ApplyRake` must carry over to the pot before. `MaxRaisesPerStreet` is 2 instead of the
production value 4: one raise and the raise that reaches the cap. The two-player blinds and turn order are
those of *engine*; that both blinds of two players use up their stacks, which also leaves the turn to a player without chips, does not occur in either. Six requests reach the turn but not
the river's showdown; the code of a showdown is that of `EndByAction`, which the run reaches. *hands* does not check for deadlock, as a hand
can get stuck at a player without chips (section 6): one who is all-in, or one whose last chip was a blind and who is still "active". `HandEnds` says that no hand gets stuck
at a player with chips.

The deals for the evaluator have boards of 0, 3, 4 and 5 cards and seven (six without a board) cards for the holes, dealt in every way; between them every
category occurs, with straights at both ends, flushes beside straights, two and three pairs, trips on paired boards, ties on the board, and kickers.

Three players at a table give a button that posts no blind and a player who joins during a hand; buy-ins
of one big blind make short stacks, refused hands and busts frequent; two hands
are enough for a hand to start from the result of another. In the ledger the third connection is needed for a
transaction that waits for a key while another waits for the row. In `Deposits` two confirmations and three blocks
let a deposit be scanned in the first, be confirmed by a later cycle and be swept in the third; the first cursor lies before or in
the transfers' blocks (`StartBlock` is 0, the default, so that it depends on the chain). In `payouts` the two withdrawals just use up the
balance of 2 or together exceed it. All `Max...` bounds are in guards; the bounds on requests, saves and messages are why most runs do not check for deadlock (a
service without requests is at rest).

In *auth* a token lives for the tick in which it is issued, so that it may expire between any two steps; four sessions are a login,
a refresh by two requests at once, and one more refresh. In *access_tokens* keys are old after the tick of their fetch, a fetch takes at
most one more, and three ticks let a token, a key and the cache expire in any order. In *live_updates* a channel of one instead of 16 is full
after one unread view, and two requests are one that fails, or is missed, and one that makes up for it. In *ingestor* two messages in a topic let an event be repeated or a number be used twice, and two failures let the process
end, start and end again.

**Fairness.** In `Deposits` and `Payouts`: weak fairness of the runner (a goroutine that is ready runs)
and strong fairness of the start of each cycle (two tickers in one `select`, which chooses at random among the
ready cases, so neither is passed over for ever). Of the node: blocks keep coming, a payout that is offered
again and again is taken, a transaction that was taken is mined. `RunnerStops` and lost answers are
bounded, which is the assumption that failures end. The engine has no timer, so a hand goes on only if its players keep acting:
`PlayersKeepActing` is weak fairness of the players' action, with ENABLED written out (a player
who may act may always fold). It assumes nothing of the engine.

In *auth*: weak fairness of the publication of a user who has been created and of the consumer. In *live_updates*: of the steps
of a request (publishing and `SavesTable`; none has to fail), of subscribing and unsubscribing, and of sending to clients that read; a slow client's `Send` is not fair. In *ingestor*: of each goroutine's steps, of the
end of a failed process and of its restart (the container is restarted). Failures are bounded.

## 4. Proofs

The theorems hold for every value of the constants that satisfies the `ASSUME`s of the modules: any number of players,
seats, users, requests, connections, messages, cycles and failures. The `Max...` bounds occur in them as any naturals. Each inductive
invariant below was checked with TLC on the instance of its component's run before it was proved.

**Sums.** `ChipsProofs` has two kinds: `Sum` over an interval (a recursive function) and `SumFunctionOnSet` of the community modules over a finite set. The
lemmas say what the sums are at the ends, what one changed or one more term does, when two sums are equal, and that a sum by rows
is the sum by columns. The induction theorems of the library take the hypothesis as an operator; `SetInduction` and `RangeInduction` take it
as a set, which is what the provers can instantiate.

**Hands.** `EngineProofs` begins with one lemma per operator of `GameState` saying that it maps a hand (with the operator's guard) to a
hand. Then come

* `HandIsSoundHolds`, with its parts `TypeCorrect`, `FixedLimitHolds` and `BoardFollowsStreetHolds`. Neither of the last two is inductive alone:
  `advanceStreet` resets bets and deals cards on the way to a showdown, which the properties do not speak about, and a
  raise keeps `bet <= currentBet` only since the bet sizes are what the street says. `LimitInv` is the strengthening.
* `ChipConservationHolds`, `HandEndedAddsUpHolds`, `LivePlayersShareEveryPotHolds`, `StreetsCloseEvenHolds` and the action property
  `OnlyTheActorPaysHolds`, from `HandInv`. Its core, `Waiting`, says of a hand at a player's turn who has
  paid how much on earlier streets, that those who can act have paid most, and who is eligible for the
  pots. The longest step is `Calculate`: its layers contain every bet exactly once (a sum by layers is a sum by players).
* `EveryActionProgressesHolds` and `HandIsBoundedHolds`, the safety part of `HandEnds`. An action that does not end the hand goes on to a later street, raises, or
  takes a player out of `Behind`, those who can act and have still to match the bet; so the numbers of a hand's events stay below
  `4 * (MaxRaisesPerStreet + 1) * (N + 1)`. That the players do act is the fairness that only TLC can use.

Assumed: `StacksAssumption`, every player has chips. It is needed: with stacks 0, 1 and 3 TLC refutes `HandEndedAddsUp`:
a player with nothing left counts as one who contests the hand, and part of the pot is paid to nobody. table-manager deals in `PlayablePlayers` only.

**Requests to the engine.** The third part of `EngineProofs`, about `EngineService`.

* `RowKeepsLimitHolds` and `SavedActionIsLoggedHolds`, whatever overlaps and fails, from `ServiceInv`. A hand that was read from two
  saves is none that the use cases produce, so nothing of `HandInv` holds of it. What does hold is local to one query: the
  columns of the `game_states` row agree (`RowLimit`), and every request that has read the row has such columns
  (`RequestsHoldHands`); `ApplyAction` and `advanceStreet` preserve that of any hand of the right types. A request that has published holds a hand
  that the log accounts for, so it does not matter which save comes last.
* `AtomicUseCasesHolds`, the refinement of `HandLifecycle` until two requests overlap. `OneAtATime` is what it rests on: the one request that runs has read
  the hand that is stored, query by query, and what it is about to save is an outcome of one action on that hand (`Decided`). So `Save` is
  one step of `HandLifecycle` (or `LateAction`), and every other step of the service, failures included, leaves `hand` and `handEnded` alone.
* `SequentialHandIsSoundHolds`: the invariants of `HandLifecycle` hold of the stored rows in that time. It does not follow from the refinement alone, as
  `LateAction` is no step of `HandLifecycle`; `EndedStaysEnded` says that a late action leaves the hand ended, and the invariants speak of running hands.

Assumed: `NoHand` is neither a hand nor an event, `MaxOverlap <= MaxRequests`.

**Showdowns.** The last part of `EngineProofs`, about `Evaluator`, with any cards and any number of them.

* `CompareOrders`: `Compare` is a total preorder on results. The tie-break is the hard part: hands may differ in many ranks, and `Ahead` (more
  cards of the highest rank in which they differ) has to be shown transitive when the deciding ranks of two comparisons are different.
* `BestIsBest`: the loop of `Best` ends with a combination that none beats, in whatever order it takes them. A fold of the community modules is a `CHOOSE` of a recursive
  function on subsets; `SetBestExists` shows that there is one, by induction on the number of elements, and `SetBestFinds` that it has found the best so far (`Found`).
* `PotsFindWinnersHolds`, from `ShowdownInv` (finite sets of cards, two for each player, results that are zero without a board) and `GreatestElement`: a finite set with
  a total preorder has a greatest element, so no pot is without winners.

That the order so defined is the one of the rules of poker (`RankByTheRules`, the rest of `WinnersByTheRules`) is checked by TLC on the deals.

Assumed: `DealsAssumption`, finitely many players, finitely many cards in a deal, ranks that are naturals.

**Ledger and linked addresses.** `LedgerProofs`: `LedgerInvHolds`, and from it `LedgerTypeCorrect`, `OkIsDurableHolds`, `NoDeadlockHolds`,
`BalanceIsSumOfEntriesHolds`, and the refinement `LedgerRefinement`: `UpdateAndCommit` is `Apply`, `ProvisionUser` of a new user is `Open`, all other
steps stutter. The program computes the new balance from what it read several statements earlier, so the argument needs
that this is still the balance: `LockedBalance` (a transaction past `FOR UPDATE` holds its user's row and
has its balance), for which `LockHolder` says that nobody else holds it. `Funded` carries the check of the
funds to the commit, `KeyTaken` says that an inserted, uncommitted key is neither committed nor
another transaction's. Deadlock freedom follows from the order: whoever has inserted a key holds its row
and waits for nothing. That balances are sums is shown of `AtomicLedger`'s steps. Assumed: amounts are integers, and "nobody" is not a transaction.

`LinksAreProvenHolds` is about `LinkedAddresses`. A confirmation uses a challenge that it checked before; `CheckedIsSigned` says what of that
check still holds (the challenge is there and was signed for), and `ConfirmLinkChallenge` looks again at the rest. Assumed (`ChallengesAssumption` of `Wallet`): "nobody" is not a challenge.

**Payouts.** `PaidAsRecordedHolds` and `MoneyAccountedHolds`, from `PayoutInv`: what the runner has listed is still pending or submitted, since it alone moves a row on
(`RunnerKnows`), and every transaction sent is the one in the row, the one the runner holds, or counted in `lost` (`RowTold`). Assumed: a
withdrawal is not a faucet transfer (two tables), and "none" is not a row.

**Deposits.** `NoDepositMissedHolds`, `CreditedMoneyArrivedHolds` and `SweptMoneyMovedHolds`, from `DepositInv`. The cursor may pass a block because `ScanTrue` holds:
the runner reads the block number before it lists the addresses, so every transfer up to that block goes to a listed one. `RowTrue` ties status, ledger entry and sweep
of a row to the chain, `ListsTrue` says that what a cycle has listed stays true until it is used. Assumed: "none" is not a number, a row or a transaction.

**Ingestor.** `CommittedIsStoredHolds` and `LastEventIsKeptHolds`, from `IngestorInv`: a goroutine's place in its message says what of it is
stored (`ProgressIsStored`), and the IDs grow along a topic (`IdsGrow`), so inserting a message again replaces nothing later.

**Tables.** `TableManagerProofs`

* `SeatsConsistentHolds`, for requests that overwrite each other's table and end anywhere. `TableInv` says the same of every request's
  copy as of the stored table, and that a copy has passed the checks for its next call; so it does not matter which copy is saved last.
* `MoneyConservedHolds` and `TableFitsHandHolds`, under `~Rejoining`: no player joins a second time (run *join_debits* shows what happens to one who does). `MoneyInv` speaks of the
  time before the first overlap of different requests and the first request that was cut off. A request between its call and `SaveTable` is ahead of the stored table: its
  copy has all the money, and the stored table has not (`AheadOK`, `StoredOK`). A duplicate of it reads the stored table before or after the save (`CopyOK`); the wallet answers
  it from the entry it has, which it has only if the join or leave is ahead or saved (`EntriesOK`). An action has no duplicate, so it runs alone (`ActorIsAlone`). At a showdown the seats lose what the
  rake gains (`MoneyAtShowdown`, by `SumOnMatched`).

Assumed: at least two seats, positive blinds and buy-ins (`JoinTable` refuses others), finitely many players, "nobody" is neither a player nor a number, and
`MaxOverlap <= MaxRequests`.

**Live updates.** The last part of `TableManagerProofs`: `LiveTypeCorrect` and the action property `NeverGoesBackHolds`, from `LiveInv`. `ListsOK` says that a list has a client
at most once and exactly while its handler is in its loop (`Unsubscribe` removes the first entry it finds, which is then the only one); `SaversOK` that a publication has come to
a client who is in the list (subscribing and unsubscribing wait for the lock). `InOrder` is needed for the order of what is sent: until saves overlap, only the request that saved last publishes, the hand
and the table are the ones it saved (`LastSaver`), and no view in a channel is newer than these (`Within`) or older than a view before it (`Ordered`). As a view may lack the hand, "not older" is not transitive, and `Ordered` speaks
of every two views of a channel. Assumed: seated players are clients, and "nobody" is not seated.

**Sessions and wallets.** `AuthServiceProofs`: `AuthTypeCorrect`, `RefreshSpendsTokenHolds` and the action property `LoggedOutUntilLoginHolds`, from `AuthInv`.
That a session has no more replacements than there are requests is not inductive: a request that has read the session will add one. `Spent` counts both together,
replacements done and requests at `rotate` (`Rotating`); a request that reads the session finds it live, so at that time it has no replacement. That `Me` finds the user needs
`RequestsAreUsers` and `SessionsAreUsers`: every request past its first step, and every session, is that of a user.

`WalletArrives` is a liveness property; its safety is proved. `NobodyIsForgottenHolds`: every user has a wallet, or the message is still to be written
(a request is at `publish`) or to be handled (it lies at or after the committed offset), or a failure that the code drops has happened. It is inductive only with its second part, that
the consumer commits nothing it has not handled. `AddressIsKeptHolds`: a stored address is never replaced.

Assumed: finitely many requests, `AccessTTL <= RefreshTTL`, `None` is neither an email nor an address.

**Access tokens.** In the same module: `ServedCallsAreAuthenticHolds` and `GoodTokensAreServedHolds`, from `TokensInv`. The keys were in use one after the other (`KeysInTurn`); the cached key
was in use when the fetch that stored it began (`CacheOK`), in whatever order the calls store their answers. `CallOK` says for every place in a call what is
already known of it: the answer it has fetched is not older than its token's key or its own beginning, and neither is what it then finds stored, by itself or by another call. Both properties are conjuncts of it, for a call that is
served (`Trusted`) and one that is refused (`Justified`). Assumed: times are naturals and `Never` is not, and there is at least one key.

**Left to TLC.** Liveness (`HandEnds`, `EveryDepositCredited`, `EveryPayoutSettles`, `WalletArrives`, `ClientsCatchUp`, `GoneAreForgotten`, `EveryEventIngested`), which these provers
do not do; of `HandEnds` the bound is proved, of `WalletArrives` that nobody is forgotten. `RankByTheRules` and what `WinnersByTheRules` says beyond `PotsFindWinners`: that the categories and the order of `rank.go` are
those of a second definition with sums of powers, over all sets of five cards. All other properties of the
passing runs are stated by theorems.

## 5. Not modelled

Generated code (protobuf, gRPC, the gateway: more than a quarter of the lines), configuration, metrics and telemetry, process start and wiring, the Avro and
protobuf encodings, password hashing and signatures (who can sign is external), the bodies of the HTTP answers.

Of the wallet: chain reorganisations (the runner never looks at a confirmed block again), a node
whose receipt lags behind its block (`ScanDeposits` then skips the transfer for good), amounts of
deposits and the conversion from wei (a deposit is credited or not), gas, nonces, and
`CreateConfirmedDeposit`, which nothing calls. Of the table-manager: the
configuration without a wallet. Of the auth-service: the search for users, which changes nothing. Of the ingestor: more than one partition, and a consumer
group with more than one member.

## 6. Findings

Shown by *violation* runs:

| Run | What TLC finds |
|---|---|
| `best_hand` | `compareCards` orders hands of one category by their descending ranks, so a pair of eights with an ace beats a pair of kings; A-2-3-4-5 counts as a straight to the ace |
| `join_debits` | a player who leaves an empty table and joins again, or loses heads-up against the player who holds the button and buys in again, finds the table in the state of the first join: same key, no debit |

Other places where the code does something else than a document or a test says. The models contain these
behaviours; the passing runs are stated so that they hold with them.

* `FirstActiveAfterButton` takes the first player who is active or all-in, not one who can act; a player who is all-in, or whom `postBlinds` left without chips and "active"
  (`start_hand.go:162-178`), is then refused every action and the hand is stuck (`betting.go:122`; `RULES.md:66` and `RULES.md:29-31` have the first player who can
  act begin a street). It is the exception in `HandEnds`.
* `StartHand` does not notice that the blinds left at most one player who can act
  (`start_hand.go:74`; `RULES.md:204` has such a hand end at once). `StreetsCloseEven` excludes it with `~IsHandOver`.
* A hand that ends by an all-in before the river is decided on the board as it is
  (`apply_action.go:82`; `RULES.md:246` speaks of the best five of seven cards).
* An event published before a failed `Save` shares its number with the next one (`apply_action.go:65`;
  `RULES.md:306` orders events by `sequence_number`). `SavedActionIsLogged` is what remains true.
* A failed `PublishHandEnded` leaves a finished hand active at the table; it takes further actions and can
  be paid again (`finish_hand.go:74`). This is `LateAction` of `HandLifecycle`, which `AtomicUseCases` allows besides `Next`.
* A slow request's `Save` puts the hand back to an earlier street (`game_state_repository.go:20`;
  `RULES.md:13-18`). `RowKeepsLimit` is what remains true.
* A leave that overlaps the join that starts a hand erases the hand from the table (table-manager
  `service.go:133`; `domain.go:114`, "cannot leave during active hand"). `SeatsConsistent` is what remains true.
* A showdown that leaves a player with less than the blind is not saved, as the next hand is refused first
  (table-manager `service.go:196`). This is `StartHandRefused`, which sets `cutOff`.

* A refresh that comes second with a spent token is not noticed by `RotateRefreshSession`: two refreshes beside each other both
  succeed (auth-service `service.go:101`). `RefreshSpendsToken` is what remains true.
* A message of `user.created` is committed although `ProvisionUser` failed, and a registration whose message could not be written
  leaves the user without a wallet (wallet-service `consumer.go:54`, auth-service `service.go:57`). These are the exceptions in `WalletArrives`.
* An older answer of the JWKS endpoint may be stored over a newer one, and counts as fresh (table-manager `auth.go:273`).
* Publications of overlapping requests are not ordered as their saves (table-manager `server.go:75`); an update between snapshot and
  subscription, or into a full channel, is lost (engine `server.go:103`, `pubsub.go:48`), and what a request has saved before it fails is not published (engine `server.go:77`, table-manager
  `server.go:98`). The last two are the exceptions in `ClientsCatchUp`. With `allow_legacy_user_header` off the websocket's first
  view is built for nobody and shows no hole cards.
* The sorting key of `raw_events` has no topic (`storage.go:91`): rows of two topics with one number and offset replace each other. `CommittedIsStored`
  allows exactly that. A message that cannot be decoded ends the process each time it is read and blocks its topic; the model has no such message.

## 7. Plan

All services and their interactions are modelled, and every safety property of the passing runs is proved but the evaluator's agreement with the rules of poker. What is left:

1. Two of the hazards without a property: a node whose receipts lag behind its blocks, and reorganisations. Both need a chain in `Deposits` that is not final.
2. The other two, an action lost to a concurrent `Save` and a buy-in lost to a join that fails, are what the code does. More of what holds when requests overlap, for `TableManager` and for the order of publications, once the code decides it (a version in the row, or a lock).
