------------------------------- MODULE Pairing -------------------------------
(***************************************************************************)
(* The pairing matrix of a campaign (core/scheduling/pairing.py): rounds   *)
(* of cells over a field of models, each cell a group whose seats are      *)
(* given out greedily, so that every model meets its share of every        *)
(* faction and role family.                                                *)
(*                                                                         *)
(* What the code draws from hashes is free here: the order of the strides, *)
(* the shuffle and the offset of a round, the roles of a cell's seats.  A  *)
(* candidate that is refused is built again from the same seed with one    *)
(* round more, so its rounds are those that were refused and another.      *)
(***************************************************************************)
EXTENDS Integers, Sequences, FiniteSets, FiniteSetsExt

LOCAL INSTANCE SequencesExt

CONSTANTS
    Setups,         \* what is asked for: format, field (a number of models), players, cast
                    \* (PLAYER_COUNT and ROLE_COUNTS), goal (per_model_game_target)
    Factions,       \* faction -> its roles
    Families,       \* role family -> its roles
    MaxExtra,       \* _MAX_EXTRA_BALANCING_ROUNDS
    Laps(_)         \* bound: the orders and offsets that a round over n models may draw

ASSUME PairingAssumption ==
    /\ MaxExtra \in Nat
    /\ \A s \in Setups : s.players = MapThenSumSet(LAMBDA r : s.cast[r], DOMAIN s.cast)

VARIABLES
    setup,          \* the setup at hand
    strides,        \* the shuffled strides
    lap,            \* the shuffle and the offset of the current round
    round, start,   \* rounds begun, cells laid in the last of them
    exposure,       \* model -> role -> how often it is exposed to it
    seated,         \* model -> the cells it sits in
    met,            \* model -> the models it sits with
    last,           \* the last roster
    matrix          \* "candidate", "returned" or "refused"

pairingVars == <<setup, strides, lap, round, start, exposure, seated, met, last, matrix>>

Roles == DOMAIN setup.cast

Field == 1..setup.field

Players == setup.players

LegsPerCell == IF setup.format = "MIRROR" THEN 2 ELSE 1

CeilDiv(a, b) == (a + b - 1) \div b

RequiredAppearances == CeilDiv(setup.goal, LegsPerCell)

BaseRounds == CeilDiv(RequiredAppearances, Players)

MinimumOpponents == Min({setup.field - 1, Max({Players - 1, Players * 2})})

-----------------------------------------------------------------------------
\* A cell

Gcd(a, b) == Max({d \in 1..a : a % d = 0 /\ b % d = 0})

CoprimeStrides_Slip(n) == 1..n - 1

CoprimeStrides(n) == {s \in 1..n - 1 : Gcd(s, n) = 1}

\* The models of a cell: a stride through the shuffled field
Group ==
    LET stride == strides[((round - 1) % Len(strides)) + 1]
    IN  [i \in 1..Players |->
            lap.order[((lap.offset + start + (i - 1) * stride) % setup.field) + 1]]

\* assign_roles: any arrangement of the cast
Deals(s) ==
    {deal \in [1..s.players -> DOMAIN s.cast] :
        \A r \in DOMAIN s.cast : Cardinality({p \in 1..s.players : deal[p] = r}) = s.cast[r]}

\* _seat_contributions: the roles of a seat, in a mirror pair also those of the seat opposite,
\* which in the middle of an odd table is the seat itself.
SeatContributions(s, deal) ==
    [p \in 1..s.players |-> [r \in DOMAIN s.cast |->
        (IF deal[p] = r THEN 1 ELSE 0)
        + (IF s.format = "MIRROR" /\ deal[s.players + 1 - p] = r THEN 1 ELSE 0)]]

Contributions == [s \in Setups |-> {SeatContributions(s, deal) : deal \in Deals(s)}]

\* How many of a count of roles fall into a bucket, a faction or a family
CountIn(counts, bucket) == MapThenSumSet(LAMBDA r : counts[r], bucket \cap Roles)

TotalOf(counts) == CountIn(counts, Roles)

\* _contribution_priority: mafia first, then what is not vanilla town, then the position
Precedes(contributions, p, q) ==
    LET mafia(s) == CountIn(contributions[s], Factions["MAFIA"])
        plain(s) == CountIn(contributions[s], Families["VANILLA_TOWN"])
    IN  \/ mafia(p) > mafia(q)
        \/ mafia(p) = mafia(q) /\ plain(p) < plain(q)
        \/ mafia(p) = mafia(q) /\ plain(p) = plain(q) /\ p < q

\* _assignment_score's first component, without its sign: what is due to a model
Benefit_Slip(counts, contribution) ==
    LET after == TotalOf(counts) + TotalOf(contribution)
        owed(bucket) == CountIn(contribution, bucket)
            * (CountIn(counts, bucket) * Players - after * CountIn(setup.cast, bucket))
    IN  MapThenSumSet(LAMBDA f : owed(Factions[f]), DOMAIN Factions)
        + MapThenSumSet(LAMBDA f : owed(Families[f]), DOMAIN Families)

Benefit(counts, contribution) ==
    LET after == TotalOf(counts) + TotalOf(contribution)
        owed(bucket) == CountIn(contribution, bucket)
            * (after * CountIn(setup.cast, bucket) - CountIn(counts, bucket) * Players)
    IN  MapThenSumSet(LAMBDA f : owed(Factions[f]), DOMAIN Factions)
        + MapThenSumSet(LAMBDA f : owed(Families[f]), DOMAIN Families)

\* The member of the group, of those left, that a seat goes to: the one to whom most is due,
\* then the one exposed least, then the first
BestFor(contribution, group, left, book) ==
    LET scores == {[benefit |-> Benefit(book[group[i]], contribution),
                    exposed |-> TotalOf(book[group[i]]), order |-> i] : i \in left}
        best == CHOOSE x \in scores : \A y \in scores :
            \/ x.benefit > y.benefit
            \/ x.benefit = y.benefit /\ x.exposed < y.exposed
            \/ x.benefit = y.benefit /\ x.exposed = y.exposed /\ x.order <= y.order
    IN  best.order

\* _assign_group_to_seats: seat after seat, the book kept as the seats are given out
AssignGroupToSeats(group, contributions) ==
    LET give(done, p) ==
            LET i == BestFor(contributions[p], group, done.left, done.book)
            IN  [left |-> done.left \ {i},
                 roster |-> [done.roster EXCEPT ![p] = group[i]],
                 book |-> [done.book EXCEPT ![group[i]] =
                              [r \in Roles |-> @[r] + contributions[p][r]]]]
    IN  FoldLeft(give, [left |-> 1..Players, roster |-> group, book |-> exposure],
                 SetToSortSeq(1..Players, LAMBDA p, q : Precedes(contributions, p, q)))

-----------------------------------------------------------------------------
\* What a candidate must satisfy

\* analyze_pairing_matrix: what a roster adds to the appearances and to the opponents met
WithAppearances(roster) ==
    [m \in Field |-> IF m \in Range(roster) THEN seated[m] + 1 ELSE seated[m]]

WithOpponents(roster) ==
    [m \in Field |-> IF m \in Range(roster) THEN met[m] \cup (Range(roster) \ {m}) ELSE met[m]]

\* _balance_tolerance: a tenth of the exposures, and at least two
BalanceTolerance(total) == Max({2, CeilDiv(total * 1000, 10000)})

Within(counts, bucket) ==
    LET drift == CountIn(counts, bucket) * Players - TotalOf(counts) * CountIn(setup.cast, bucket)
        slack == BalanceTolerance(TotalOf(counts)) * Players
    IN  -slack <= drift /\ drift <= slack

\* _balance_violations, of which there are none
Balanced(book) ==
    \A m \in Field :
        /\ \A f \in DOMAIN Factions : Within(book[m], Factions[f])
        /\ \A f \in DOMAIN Families : Within(book[m], Families[f])

\* _diagnostics_satisfy_guarantees
SatisfiesGuarantees ==
    /\ \A m \in Field : seated[m] >= RequiredAppearances
    /\ \A m \in Field : Cardinality(met[m]) >= MinimumOpponents
    /\ Balanced(exposure)

-----------------------------------------------------------------------------
\* _validate_model_field
FieldSuffices(s) == s.field >= s.players

PairingInit ==
    /\ setup \in {s \in Setups : FieldSuffices(s)}
    /\ strides \in SetToAllKPermutations(CoprimeStrides(setup.field))
    /\ Len(strides) = Cardinality(CoprimeStrides(setup.field))
    /\ lap = [order |-> <<>>, offset |-> 0]
    /\ round = 0 /\ start = setup.field
    /\ exposure = [m \in Field |-> [r \in Roles |-> 0]]
    /\ seated = [m \in Field |-> 0]
    /\ met = [m \in Field |-> {}]
    /\ last = <<>>
    /\ matrix = "candidate"

RoundIsOver == matrix = "candidate" /\ start = setup.field

\* _build_candidate_matrix's next round, also as the extra round of another candidate
BeginRound ==
    /\ RoundIsOver
    /\ round < BaseRounds \/ (~SatisfiesGuarantees /\ round < BaseRounds + MaxExtra)
    /\ lap' \in Laps(setup.field)
    /\ round' = round + 1
    /\ start' = 0
    /\ UNCHANGED <<setup, strides, exposure, seated, met, last, matrix>>

\* The next cell of the round
LayCell ==
    /\ matrix = "candidate" /\ start < setup.field
    /\ \E contributions \in Contributions[setup], group \in {Group} :
        \E done \in {AssignGroupToSeats(group, contributions)} :
          /\ exposure' = done.book
          /\ last' = done.roster
          /\ seated' = WithAppearances(done.roster)
          /\ met' = WithOpponents(done.roster)
    /\ start' = start + 1
    /\ UNCHANGED <<setup, strides, lap, round, matrix>>

\* generate_pairing_matrix returns the first candidate that satisfies the guarantees, or raises.
ReturnMatrix ==
    /\ RoundIsOver /\ round >= BaseRounds /\ SatisfiesGuarantees
    /\ matrix' = "returned"
    /\ UNCHANGED <<setup, strides, lap, round, start, exposure, seated, met, last>>

RefuseField ==
    /\ RoundIsOver /\ round = BaseRounds + MaxExtra /\ ~SatisfiesGuarantees
    /\ matrix' = "refused"
    /\ UNCHANGED <<setup, strides, lap, round, start, exposure, seated, met, last>>

PairingNext == BeginRound \/ LayCell \/ ReturnMatrix \/ RefuseField

-----------------------------------------------------------------------------
PairingTypeOK ==
    /\ setup \in Setups
    /\ lap.offset \in 0..setup.field
    /\ round \in 0..BaseRounds + MaxExtra /\ start \in 0..setup.field
    /\ exposure \in [Field -> [Roles -> Nat]] /\ seated \in [Field -> Nat]
    /\ met \in [Field -> SUBSET Field]
    /\ matrix \in {"candidate", "returned", "refused"}

\* Whatever the hashes draw: no model sits twice in a cell; a round seats every model as often
\* as every other, once for each seat of the table; the greedy deal keeps every model within
\* the tolerance of its share of every faction and role family after every round, so that a
\* field is refused, if at all, because somebody has met too few others; and a matrix that is
\* returned gives every model the games it was to play.
MatricesAreFair ==
    /\ last # <<>> => Cardinality(Range(last)) = Players
    /\ round > 0 /\ start = setup.field =>
          /\ \A m \in Field : seated[m] = round * Players
          /\ Balanced(exposure)
    /\ matrix = "returned" => \A m \in Field : seated[m] * LegsPerCell >= setup.goal
=============================================================================
