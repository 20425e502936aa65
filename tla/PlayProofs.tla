----------------------------- MODULE PlayProofs -----------------------------
(***************************************************************************)
(* Proofs about a match that search agents play (Play.tla, with Match and  *)
(* Search), for any matches, positions, moves, configurations and budgets. *)
(***************************************************************************)
EXTENDS Play, FiniteSetTheorems, WellFoundedInduction, TLAPS

USE MatchAssumption

GameRecords ==
  [winner : Seats \cup {Draw}, end_reason : {"defeat", "both_defeated", "turn_limit"},
   active : Seats, dut_seat : Seats, chooser : Seats \cup {NoSeat},
   match_point : Roles \cup {NoPoint}]

MatchTypes ==
  /\ m \in Nat /\ format \in Formats
  /\ games \in Seq(GameRecords)
  /\ dut_points \in Nat /\ bench_points \in Nat
  /\ chooser \in Seats \cup {NoSeat}
  /\ outcome \in Roles \cup {"draw", "playing", "error"}

\* What a game's record says of its point.
RecordIs(r) ==
  /\ <<r.winner, r.end_reason>> \in Results
  /\ r.dut_seat = Dut
  /\ r.match_point = match_point(r.winner, r.end_reason, r.active, Dut, format)

\* The games a seat scored.
Points(seat) ==
  {g \in DOMAIN games :
    \/ games[g].winner = seat
    \/ format = "bo3" /\ games[g].end_reason = "both_defeated" /\ games[g].active = 1 - seat}

\* The points are those of the games, and every game without one is counted.
PointsInv ==
  /\ \A g \in DOMAIN games : RecordIs(games[g])
  /\ dut_points = Cardinality(Points(Dut)) /\ bench_points = Cardinality(Points(1 - Dut))
  /\ (\A g \in DOMAIN games : games[g].match_point # NoPoint) =>
       dut_points + bench_points = Len(games)

\* A match goes on until it is decided, and no longer.
EndInv ==
  /\ Len(games) <= games_per_match(format)
  /\ dut_points <= wins_needed(format) /\ bench_points <= wins_needed(format)
  /\ outcome = "playing" =>
       /\ ~Decided(dut_points, bench_points, Len(games))
       /\ games # <<>> => chooser = match_loser_seat(games[Len(games)])
  /\ Ended =>
       /\ Decided(dut_points, bench_points, Len(games))
       /\ outcome = winner_of(dut_points, bench_points)
       /\ dut_points < wins_needed(format) \/ bench_points < wins_needed(format)

\* Who lost a game chooses in the next.
ChooserInv ==
  \A g \in 2 .. Len(games) : games[g].chooser = match_loser_seat(games[g - 1])

MatchIInv == MatchTypes /\ PointsInv /\ EndInv /\ ChooserInv

\* The deck under test sits at one of the two seats.
LEMMA DutSeat ==
  ASSUME MatchTypes
  PROVE  Dut \in Seats /\ 1 - Dut \in Seats /\ Dut # 1 - Dut
  BY DEF MatchTypes, Dut, Seats

\* The point of a game goes to a deck exactly when its seat scored.
LEMMA PointIsScore ==
  ASSUME MatchTypes, NEW result \in Results, NEW active \in Seats
  PROVE  LET p == match_point(result[1], result[2], active, Dut, format)
             scored(seat) == \/ result[1] = seat
                             \/ format = "bo3" /\ result[2] = "both_defeated"
                                /\ active = 1 - seat
         IN /\ p \in Roles \cup {NoPoint}
            /\ (p = "dut") <=> scored(Dut)
            /\ (p = "bench") <=> scored(1 - Dut)
  <1>1. /\ Dut \in Seats /\ 1 - Dut \in Seats /\ Dut # 1 - Dut
        /\ \A s \in Seats : 1 - s \in Seats /\ (s # Dut => s = 1 - Dut) /\ 1 - (1 - s) = s
    BY DutSeat DEF Seats
  <1>2. /\ result[1] \in Seats => result[2] = "defeat"
        /\ result[1] \in Seats \cup {Draw}
    BY DEF Results, Seats, Draw
  <1>3. Draw \notin Seats
    BY DEF Draw, Seats
  <1>4. CASE result[1] # Draw
    BY <1>1, <1>2, <1>4 DEF match_point, role, Roles, NoPoint
  <1>5. CASE result[1] = Draw
    BY <1>1, <1>3, <1>5 DEF match_point, role, Roles, NoPoint
  <1> QED BY <1>4, <1>5

\* A game more adds its number to the games of the seat that scored it.
LEMMA PointsGrow ==
  ASSUME MatchTypes, NEW r \in GameRecords, games' = Append(games, r), format' = format,
         NEW seat \in Seats
  PROVE  LET scored == \/ r.winner = seat
                       \/ format = "bo3" /\ r.end_reason = "both_defeated"
                          /\ r.active = 1 - seat
         IN /\ Cardinality(Points(seat)) \in Nat
            /\ Cardinality(Points(seat)') = Cardinality(Points(seat)) + (IF scored THEN 1 ELSE 0)
  <1> DEFINE n == Len(games)
             scored == \/ r.winner = seat
                       \/ format = "bo3" /\ r.end_reason = "both_defeated"
                          /\ r.active = 1 - seat
  <1>1. /\ n \in Nat /\ DOMAIN games = 1 .. n /\ DOMAIN games' = 1 .. n + 1
        /\ \A g \in 1 .. n : games'[g] = games[g]
        /\ games'[n + 1] = r
    BY DEF MatchTypes
  <1>2. IsFiniteSet(Points(seat)) /\ Cardinality(Points(seat)) \in Nat
    <2>1. IsFiniteSet(1 .. n)
      BY <1>1, FS_Interval
    <2>2. Points(seat) \in SUBSET (1 .. n)
      BY <1>1 DEF Points
    <2>3. IsFiniteSet(Points(seat))
      BY <2>1, <2>2, FS_Subset
    <2> QED BY <2>3, FS_CardinalityType
  <1>3. n + 1 \notin Points(seat)
    BY <1>1 DEF Points
  <1>4. Points(seat)' = IF scored THEN Points(seat) \cup {n + 1} ELSE Points(seat)
    <2>1. \A g : g \in 1 .. n + 1 <=> g \in 1 .. n \/ g = n + 1
      BY <1>1
    <2>2. \A g \in 1 .. n : g \in Points(seat)' <=> g \in Points(seat)
      BY <1>1, <2>1 DEF Points
    <2>3. n + 1 \in Points(seat)' <=> scored
      BY <1>1 DEF Points
    <2>4. Points(seat)' \subseteq 1 .. n + 1 /\ Points(seat) \subseteq 1 .. n
      BY <1>1 DEF Points
    <2>5. ASSUME NEW g
          PROVE  g \in Points(seat)'
                   <=> g \in (IF scored THEN Points(seat) \cup {n + 1} ELSE Points(seat))
      <3> HIDE DEF scored, n
      <3> QED BY <1>3, <2>1, <2>2, <2>3, <2>4
    <2> QED BY <2>5
  <1> HIDE DEF n, scored
  <1>5. Cardinality(Points(seat) \cup {n + 1}) = Cardinality(Points(seat)) + 1
    BY <1>2, <1>3, FS_AddElement
  <1>6. Cardinality(Points(seat)') = Cardinality(Points(seat)) + (IF scored THEN 1 ELSE 0)
    BY <1>2, <1>4, <1>5
  <1> QED BY <1>2, <1>6 DEF scored

\* A game that ends keeps the invariant: its point is counted once, for the deck
\* whose seat scored, and its loser is the one who chooses.
LEMMA GameKeeps ==
  ASSUME MatchIInv, NEW result \in Results, NEW active \in Seats, PlayGame(result, active)
  PROVE  MatchIInv'
  <1> DEFINE point == match_point(result[1], result[2], active, Dut, format)
             r == [winner |-> result[1], end_reason |-> result[2], active |-> active,
                   dut_seat |-> Dut, chooser |-> chooser, match_point |-> point]
             n == Len(games)
  <1> USE DEF MatchIInv
  <1>1. /\ outcome = "playing" /\ games' = Append(games, r) /\ m' = m /\ format' = format
        /\ dut_points' = dut_points + (IF point = "dut" THEN 1 ELSE 0)
        /\ bench_points' = bench_points + (IF point = "bench" THEN 1 ELSE 0)
        /\ IF Decided(dut_points', bench_points', Len(games'))
           THEN outcome' = winner_of(dut_points', bench_points') /\ UNCHANGED chooser
           ELSE chooser' = match_loser_seat(r) /\ UNCHANGED outcome
    BY DEF PlayGame, dut_seat, Dut
  <1>2. /\ Dut \in Seats /\ 1 - Dut \in Seats /\ Dut # 1 - Dut /\ Dut' = Dut
        /\ Dut \in {0, 1}
    BY <1>1, DutSeat DEF Dut, Seats
  <1>3. point \in Roles \cup {NoPoint}
    BY PointIsScore
  <1>4. r \in GameRecords
    BY <1>2, <1>3 DEF GameRecords, MatchTypes, Results
  <1>5. /\ n \in Nat /\ Len(games') = n + 1 /\ DOMAIN games = 1 .. n /\ DOMAIN games' = 1 .. n + 1
        /\ \A g \in 1 .. n : games'[g] = games[g]
        /\ games'[n + 1] = r
        /\ games' \in Seq(GameRecords)
    BY <1>1, <1>4 DEF MatchTypes
  <1>6. match_loser_seat(r) \in Seats \cup {NoSeat}
    BY <1>2 DEF match_loser_seat, Seats, NoSeat
  <1>7. MatchTypes'
    <2>1. dut_points' \in Nat /\ bench_points' \in Nat
      BY <1>1 DEF MatchTypes
    <2>2. chooser' \in Seats \cup {NoSeat} /\ outcome' \in Roles \cup {"draw", "playing", "error"}
      BY <1>1, <1>6 DEF MatchTypes, winner_of, Roles
    <2>3. m' \in Nat /\ format' \in Formats
      BY <1>1 DEF MatchTypes
    <2> QED BY <1>5, <2>1, <2>2, <2>3 DEF MatchTypes
  <1>8. RecordIs(r) /\ RecordIs(r)'
    BY <1>1, <1>2 DEF RecordIs, Results
  <1>9. PointsInv'
    <2>1. \A g \in DOMAIN games' : RecordIs(games[g])'
      <3> SUFFICES ASSUME NEW g \in DOMAIN games' PROVE RecordIs(games[g])'
        OBVIOUS
      <3>1. CASE g \in 1 .. n
        BY <1>1, <1>2, <1>5, <3>1 DEF RecordIs, PointsInv
      <3>2. CASE g = n + 1
        BY <1>1, <1>2, <1>5, <1>8, <3>2 DEF RecordIs
      <3> QED BY <1>5, <3>1, <3>2
    <2>2. PICK d \in Seats : d = Dut
      BY <1>2
    <2>3. /\ Cardinality(Points(d)') = dut_points + (IF point = "dut" THEN 1 ELSE 0)
          /\ Cardinality(Points(1 - d)') = bench_points + (IF point = "bench" THEN 1 ELSE 0)
      <3>1. /\ dut_points = Cardinality(Points(d)) /\ bench_points = Cardinality(Points(1 - d))
            /\ 1 - d \in Seats
        BY <1>2, <2>2 DEF PointsInv
      <3>2. /\ (point = "dut") <=> (\/ r.winner = d
                                    \/ format = "bo3" /\ r.end_reason = "both_defeated"
                                       /\ r.active = 1 - d)
            /\ (point = "bench") <=> (\/ r.winner = 1 - d
                                      \/ format = "bo3" /\ r.end_reason = "both_defeated"
                                         /\ r.active = 1 - (1 - d))
        BY <2>2, PointIsScore
      <3> HIDE DEF r, point
      <3>3. Cardinality(Points(d)') = dut_points + (IF point = "dut" THEN 1 ELSE 0)
        BY <1>1, <1>4, <3>1, <3>2, PointsGrow
      <3>4. Cardinality(Points(1 - d)') = bench_points + (IF point = "bench" THEN 1 ELSE 0)
        BY <1>1, <1>4, <3>1, <3>2, PointsGrow
      <3> QED BY <3>3, <3>4
    <2>4. dut_points' = Cardinality(Points(Dut)') /\ bench_points' = Cardinality(Points(1 - Dut)')
      <3>1. Dut' = d
        BY <1>2, <2>2
      <3>2. Points(d)' = Points(Dut)' /\ Points(1 - d)' = Points(1 - Dut)'
        BY <3>1 DEF Points
      <3> QED BY <1>1, <2>3, <3>2
    <2>5. ASSUME \A g \in DOMAIN games' : games'[g].match_point # NoPoint
          PROVE  dut_points' + bench_points' = Len(games')
      <3>1. \A g \in DOMAIN games : games[g].match_point # NoPoint
        BY <1>5, <2>5
      <3>2. dut_points + bench_points = n /\ dut_points \in Nat /\ bench_points \in Nat
        BY <3>1 DEF PointsInv, MatchTypes
      <3>3. point \in Roles
        <4>1. r.match_point # NoPoint
          BY <1>5, <2>5
        <4> QED BY <1>3, <4>1
      <3> QED BY <1>1, <1>5, <3>2, <3>3 DEF Roles
    <2> QED BY <2>1, <2>4, <2>5 DEF PointsInv
  <1>10. EndInv'
    <2>1. /\ ~Decided(dut_points, bench_points, n)
          /\ n <= games_per_match(format) /\ games_per_match(format) \in {1, 3}
          /\ wins_needed(format) \in {1, 2}
      BY <1>1 DEF EndInv, games_per_match, wins_needed
    <2>2. /\ dut_points < wins_needed(format) /\ bench_points < wins_needed(format)
          /\ n + 1 <= games_per_match(format) /\ dut_points \in Nat /\ bench_points \in Nat
      BY <1>5, <2>1 DEF Decided, MatchTypes
    <2>3. /\ dut_points' <= wins_needed(format) /\ bench_points' <= wins_needed(format)
          /\ dut_points' < wins_needed(format) \/ bench_points' < wins_needed(format)
      BY <1>1, <2>1, <2>2
    <2>4. /\ games_per_match(format)' = games_per_match(format)
          /\ wins_needed(format)' = wins_needed(format)
          /\ Decided(dut_points, bench_points, Len(games))'
               = Decided(dut_points', bench_points', Len(games'))
      BY <1>1 DEF games_per_match, wins_needed, Decided
    <2>5. winner_of(dut_points', bench_points') \in Roles \cup {"draw"}
      BY DEF winner_of, Roles
    <2>6. CASE Decided(dut_points', bench_points', Len(games'))
      BY <1>1, <1>5, <2>2, <2>3, <2>4, <2>5, <2>6 DEF EndInv, Ended, Roles
    <2>7. CASE ~Decided(dut_points', bench_points', Len(games'))
      <3>1. outcome' = "playing" /\ chooser' = match_loser_seat(games'[Len(games')])
        BY <1>1, <1>5, <2>7
      <3>2. ~Ended'
        BY <3>1 DEF Ended, Roles
      <3>3. match_loser_seat(games[Len(games)])' = match_loser_seat(games'[Len(games')])
        BY DEF match_loser_seat
      <3> QED BY <1>5, <2>2, <2>3, <2>4, <2>7, <3>1, <3>2, <3>3 DEF EndInv
    <2> QED BY <2>6, <2>7
  <1>11. ChooserInv'
    <2> SUFFICES ASSUME NEW g \in 2 .. n + 1
                 PROVE  games'[g].chooser = match_loser_seat(games'[g - 1])
      BY <1>5 DEF ChooserInv, match_loser_seat
    <2>1. CASE g = n + 1
      <3>1. games # <<>> /\ n >= 1
        BY <1>5, <2>1
      <3>2. chooser = match_loser_seat(games[n])
        BY <1>1, <3>1 DEF EndInv
      <3>3. games'[g - 1] = games[n] /\ games'[g] = r
        BY <1>5, <2>1, <3>1
      <3> QED BY <3>2, <3>3
    <2>2. CASE g # n + 1
      <3>1. g \in 2 .. n /\ games'[g] = games[g] /\ games'[g - 1] = games[g - 1]
        BY <1>5, <2>2
      <3> QED BY <3>1 DEF ChooserInv
    <2> QED BY <2>1, <2>2
  <1> QED BY <1>7, <1>9, <1>10, <1>11
\* The first game of a match has no chooser and no points before it.
LEMMA InitMatch == PlayInit => MatchIInv
  <1> SUFFICES ASSUME PlayInit PROVE MatchIInv
    OBVIOUS
  <1>1. /\ m \in Nat /\ format \in Formats /\ games = <<>> /\ dut_points = 0
        /\ bench_points = 0 /\ chooser = NoSeat /\ outcome = "playing"
    BY DEF PlayInit, Init
  <1>2. MatchTypes
    BY <1>1 DEF MatchTypes
  <1>3. PointsInv
    <2>1. Points(Dut) = {} /\ Points(1 - Dut) = {} /\ Len(games) = 0 /\ DOMAIN games = {}
      BY <1>1 DEF Points
    <2> QED BY <1>1, <2>1, FS_EmptySet DEF PointsInv
  <1>4. EndInv
    <2>1. /\ games_per_match(format) \in {1, 3} /\ wins_needed(format) \in {1, 2}
          /\ Len(games) = 0
      BY <1>1 DEF games_per_match, wins_needed
    <2>2. ~Decided(dut_points, bench_points, Len(games))
      BY <1>1, <2>1 DEF Decided
    <2>3. ~Ended
      BY <1>1 DEF Ended, Roles
    <2> QED BY <1>1, <2>1, <2>2, <2>3 DEF EndInv
  <1>5. ChooserInv
    BY <1>1 DEF ChooserInv
  <1> QED BY <1>2, <1>3, <1>4, <1>5 DEF MatchIInv

\* Every step keeps the invariant: a decision leaves the match alone, a game that
\* ends is counted, and an error ends the match as it is.
LEMMA NextMatch == MatchIInv /\ [PlayNext]_<<svars, vars>> => MatchIInv'
  <1> SUFFICES ASSUME MatchIInv, [PlayNext]_<<svars, vars>> PROVE MatchIInv'
    OBVIOUS
  <1>1. ASSUME UNCHANGED vars PROVE MatchIInv'
    <2>1. MatchTypes'
      BY <1>1 DEF MatchIInv, MatchTypes, vars
    <2>2. PointsInv'
      BY <1>1 DEF MatchIInv, PointsInv, RecordIs, Points, Dut, vars
    <2>3. EndInv'
      BY <1>1 DEF MatchIInv, EndInv, Ended, Decided, vars
    <2>4. ChooserInv'
      BY <1>1 DEF MatchIInv, ChooserInv, vars
    <2> QED BY <2>1, <2>2, <2>3, <2>4 DEF MatchIInv
  <1>2. CASE Decide
    BY <1>1, <1>2 DEF Decide
  <1>3. CASE GameEnds
    BY <1>3, GameKeeps DEF GameEnds
  <1>4. CASE Stops
    <2>1. /\ outcome' = "error"
          /\ UNCHANGED <<m, format, games, dut_points, bench_points, chooser>>
      BY <1>4 DEF Stops, GameFails
    <2>2. MatchTypes'
      BY <2>1 DEF MatchIInv, MatchTypes
    <2>3. PointsInv'
      BY <2>1 DEF MatchIInv, PointsInv, RecordIs, Points, Dut
    <2>4. EndInv'
      BY <2>1 DEF MatchIInv, EndInv, Ended, Roles
    <2>5. ChooserInv'
      BY <2>1 DEF MatchIInv, ChooserInv
    <2> QED BY <2>2, <2>3, <2>4, <2>5 DEF MatchIInv
  <1>5. CASE UNCHANGED <<svars, vars>>
    BY <1>1, <1>5
  <1> QED BY <1>2, <1>3, <1>4, <1>5 DEF PlayNext

\* The invariant is what the run checks: the points are the scores of the seats,
\* and a chooser is the loser of the game before.
LEMMA SeatsDecide == MatchIInv => DeckScoresSeatChooses
  <1> SUFFICES ASSUME MatchIInv PROVE DeckScoresSeatChooses
    OBVIOUS
  <1> USE DEF MatchIInv
  <1> DEFINE w == wins_needed(format)
             n == Len(games)
  <1>1. /\ dut_points = Scored(Dut) /\ bench_points = Scored(1 - Dut)
        /\ dut_points \in Nat /\ bench_points \in Nat
    BY DEF PointsInv, MatchTypes, Scored, Points
  <1>2. /\ n \in Nat /\ n <= games_per_match(format) /\ DOMAIN games = 1 .. n
        /\ \/ w = 1 /\ games_per_match(format) = 1
           \/ w = 2 /\ games_per_match(format) = 3
    BY DEF MatchTypes, EndInv, wins_needed, games_per_match, Formats
  <1>3. Dut \in Seats /\ 1 - Dut \in Seats /\ \A s \in Seats : s = Dut \/ s = 1 - Dut
    BY DutSeat DEF Seats
  <1>4. ASSUME Ended
        PROVE  /\ outcome = CASE Scored(Dut) > Scored(1 - Dut) -> "dut"
                              [] Scored(Dut) < Scored(1 - Dut) -> "bench"
                              [] OTHER -> "draw"
               /\ Len(games) < games_per_match(format) =>
                    \E seat \in Seats : Scored(seat) = wins_needed(format)
               /\ \A seat \in Seats : Scored(seat) <= wins_needed(format)
               /\ outcome = "draw" => \E g \in DOMAIN games : games[g].match_point = NoPoint
    <2>1. /\ dut_points >= w \/ bench_points >= w \/ n = games_per_match(format)
          /\ outcome = winner_of(dut_points, bench_points)
          /\ dut_points < w \/ bench_points < w
          /\ dut_points <= w /\ bench_points <= w
      BY <1>4 DEF EndInv, Decided
    <2>2. outcome = CASE dut_points > bench_points -> "dut"
                      [] dut_points < bench_points -> "bench"
                      [] OTHER -> "draw"
      BY <1>1, <2>1 DEF winner_of
    <2>3. ASSUME n < games_per_match(format)
          PROVE  \E seat \in Seats : Scored(seat) = wins_needed(format)
      <3>1. dut_points = w \/ bench_points = w
        BY <1>1, <1>2, <2>1, <2>3
      <3> QED BY <1>1, <1>3, <3>1
    <2>4. \A seat \in Seats : Scored(seat) <= wins_needed(format)
      BY <1>1, <1>3, <2>1
    <2>5. ASSUME outcome = "draw"
          PROVE  \E g \in DOMAIN games : games[g].match_point = NoPoint
      <3>1. dut_points = bench_points
        BY <1>1, <2>1, <2>5 DEF winner_of
      <3>2. n = games_per_match(format) /\ dut_points + bench_points # n
        BY <1>1, <1>2, <2>1, <3>1
      <3> QED BY <3>2 DEF PointsInv
    <2> QED BY <1>1, <2>2, <2>3, <2>4, <2>5
  <1>5. ASSUME NEW g \in 2 .. Len(games)
        PROVE  LET last == games[g - 1] IN
               /\ last.winner # Draw => games[g].chooser = 1 - last.winner
               /\ last.end_reason = "both_defeated" => games[g].chooser = last.active
               /\ last.end_reason = "turn_limit" => games[g].chooser = NoSeat
    <2> DEFINE last == games[g - 1]
    <2>1. /\ format = "bo3"
      BY <1>2, <1>5 DEF EndInv, games_per_match
    <2>2. /\ g - 1 \in DOMAIN games /\ last \in GameRecords
          /\ games[g].chooser = match_loser_seat(last)
      BY <1>2 DEF MatchTypes, ChooserInv
    <2>3. /\ last.winner \in Seats \cup {Draw} /\ last.active \in Seats
          /\ last.dut_seat = Dut
          /\ last.match_point = match_point(last.winner, last.end_reason, last.active, Dut, format)
          /\ <<last.winner, last.end_reason>> \in Results
      BY <2>2 DEF GameRecords, PointsInv, RecordIs
    <2>4. /\ last.winner # Draw => last.end_reason = "defeat" /\ last.winner \in Seats
          /\ last.end_reason # "defeat" => last.winner = Draw
      BY <2>3 DEF Results, Seats, Draw
    <2> HIDE DEF last
    <2>5. /\ Dut \in {0, 1} /\ last.active \in {0, 1} /\ last.winner \in {0, 1, -1}
      BY <1>3, <2>3 DEF Seats, Draw
    <2>6. ASSUME last.winner # Draw PROVE games[g].chooser = 1 - last.winner
      BY <2>2, <2>3, <2>4, <2>5, <2>6 DEF match_loser_seat, match_point, role, Draw
    <2>7. ASSUME last.end_reason = "both_defeated" PROVE games[g].chooser = last.active
      BY <2>1, <2>2, <2>3, <2>4, <2>5, <2>7 DEF match_loser_seat, match_point, role, Draw
    <2>8. ASSUME last.end_reason = "turn_limit" PROVE games[g].chooser = NoSeat
      BY <2>1, <2>2, <2>3, <2>4, <2>5, <2>8 DEF match_loser_seat, match_point, role, Draw, NoPoint
    <2> QED BY <2>6, <2>7, <2>8 DEF last
  <1> QED BY <1>4, <1>5 DEF DeckScoresSeatChooses

\* A point belongs to a deck and a choice to a seat, in every match (matches.rs
\* run_match, match_point_of, match_loser_seat).
THEOREM SeatsAndDecks == PlaySpec => []DeckScoresSeatChooses
  <1>1. PlaySpec => []MatchIInv
    BY InitMatch, NextMatch, PTL DEF PlaySpec
  <1> QED BY <1>1, SeatsDecide, PTL


----------------------------------------------------------------------------
(* Sums.                                                                    *)

\* A set of numbers that is not empty has a least one.
LEMMA Least ==
  ASSUME NEW T, T \subseteq Nat, T # {}
  PROVE  \E x \in T : \A y \in T : x <= y
  <1> DEFINE R == {ss \in Nat \X Nat : ss[1] < ss[2]}
  <1>1. IsWellFoundedOn(R, Nat)
    BY NatLessThanWellFounded DEF OpToRel
  <1> HIDE DEF R
  <1>2. PICK x \in T : \A y \in T : ~ (<<y, x>> \in R)
    BY <1>1, WFMin
  <1>3. \A y \in T : ~(y < x)
    BY <1>2 DEF R
  <1> QED BY <1>3

\* A set with 0 and every next number has all numbers.
LEMMA AllNumbers ==
  ASSUME NEW T, T \subseteq Nat, 0 \in T, \A n \in T : n + 1 \in T
  PROVE  T = Nat
  <1> SUFFICES ASSUME Nat \ T # {} PROVE FALSE
    OBVIOUS
  <1>1. PICK x \in Nat \ T : \A y \in Nat \ T : x <= y
    BY Least
  <1>2. x - 1 \in Nat /\ x - 1 \notin Nat \ T
    BY <1>1
  <1> QED BY <1>1, <1>2

\* A set of subsets of S that has every one whose smaller ones it has, has all.
LEMMA AllSubsets ==
  ASSUME NEW S, IsFiniteSet(S), NEW T,
         \A s \in SUBSET S : (\A y \in s : s \ {y} \in T) => s \in T
  PROVE  SUBSET S \subseteq T
  <1> DEFINE bad == {s \in SUBSET S : s \notin T}
             sizes == {Cardinality(s) : s \in bad}
  <1> SUFFICES ASSUME bad # {} PROVE FALSE
    OBVIOUS
  <1>1. sizes \subseteq Nat /\ sizes # {}
    BY FS_Subset, FS_CardinalityType
  <1>2. PICK n \in sizes : \A mm \in sizes : n <= mm
    BY <1>1, Least
  <1>3. PICK s \in bad : n = Cardinality(s)
    BY <1>2
  <1>4. IsFiniteSet(s) /\ Cardinality(s) \in Nat
    BY <1>3, FS_Subset, FS_CardinalityType
  <1>5. ASSUME NEW y \in s PROVE s \ {y} \in T
    <2>1. Cardinality(s \ {y}) = Cardinality(s) - 1
      BY <1>4, FS_RemoveElement
    <2>2. s \ {y} \in SUBSET S /\ ~(n <= Cardinality(s \ {y}))
      BY <1>3, <1>4, <2>1
    <2> QED BY <1>2, <2>2
  <1> QED BY <1>3, <1>5

\* What Total adds up by, over the subsets of the domain.
Sum(g, f) == [s \in SUBSET DOMAIN f |->
  IF s = {} THEN 0 ELSE LET x == CHOOSE y \in s : TRUE IN f[x] + g[s \ {x}]]

\* There is a sum.
LEMMA SumExists ==
  ASSUME NEW S, IsFiniteSet(S), NEW f \in [S -> Int]
  PROVE  \E g : g = Sum(g, f)
  <1> DEFINE Small(n) == {s \in SUBSET S : Cardinality(s) <= n}
             Next(g, n) == [s \in Small(n) |->
                IF s = {} THEN 0 ELSE LET x == CHOOSE y \in s : TRUE IN f[x] + g[s \ {x}]]
             T == {n \in Nat : \E g : g = Next(g, n)}
  <1>1. \A s \in SUBSET S : IsFiniteSet(s) /\ Cardinality(s) \in Nat /\ Cardinality(s) <= Cardinality(S)
    BY FS_Subset, FS_CardinalityType
  <1>2. \A s \in SUBSET S : \A x \in s : s \ {x} \in SUBSET S /\ Cardinality(s \ {x}) = Cardinality(s) - 1
    BY <1>1, FS_RemoveElement
  <1>3. 0 \in T
    <2> DEFINE g == [s \in Small(0) |-> 0]
    <2>1. \A s \in Small(0) : s = {}
      BY <1>1, FS_EmptySet
    <2>2. g = Next(g, 0)
      BY <2>1
    <2> QED BY <2>2
  <1>4. ASSUME NEW n \in T PROVE n + 1 \in T
    <2>1. PICK g : g = Next(g, n)
      OBVIOUS
    <2> DEFINE h == Next(g, n + 1)
    <2>2. ASSUME NEW s \in Small(n + 1), s # {}
          PROVE  LET x == CHOOSE y \in s : TRUE IN x \in s /\ s \ {x} \in Small(n) /\ s \ {x} \in Small(n + 1)
      <3> DEFINE x == CHOOSE y \in s : TRUE
      <3>1. x \in s
        BY <2>2
      <3> HIDE DEF x
      <3>2. s \in SUBSET S /\ Cardinality(s) <= n + 1 /\ Cardinality(s) \in Nat /\ n \in Nat
        BY <1>1
      <3>3. s \ {x} \in SUBSET S /\ Cardinality(s \ {x}) = Cardinality(s) - 1
        BY <1>2, <3>1, <3>2
      <3>4. Cardinality(s \ {x}) <= n /\ Cardinality(s \ {x}) <= n + 1
        BY <3>2, <3>3
      <3> QED BY <3>1, <3>3, <3>4 DEF x
    <2>3. ASSUME NEW s \in Small(n) PROVE h[s] = g[s] /\ s \in Small(n + 1)
      <3>1. s \in Small(n + 1)
        BY <1>1
      <3> QED BY <2>1, <3>1
    <2>4. h = Next(h, n + 1)
      <3>1. ASSUME NEW s \in Small(n + 1) PROVE h[s] = Next(h, n + 1)[s]
        <4>1. CASE s = {}
          BY <4>1
        <4>2. CASE s # {}
          <5> DEFINE x == CHOOSE y \in s : TRUE
          <5>1. s \ {x} \in Small(n)
            BY <2>2, <4>2
          <5>2. h[s \ {x}] = g[s \ {x}]
            BY <2>3, <5>1
          <5>3. h[s] = f[x] + g[s \ {x}]
            BY <4>2
          <5>4. Next(h, n + 1)[s] = f[x] + h[s \ {x}]
            BY <4>2
          <5> QED BY <5>2, <5>3, <5>4
        <4> QED BY <4>1, <4>2
      <3> HIDE DEF Small
      <3> QED BY <3>1
    <2> HIDE DEF h, Next, Small
    <2> QED BY <2>4
  <1> HIDE DEF T
  <1>5a. T \subseteq Nat
    BY DEF T
  <1> HIDE DEF Next, Small
  <1>5. T = Nat
    BY <1>3, <1>4, <1>5a, AllNumbers
  <1>6. PICK g : g = Next(g, Cardinality(S))
    BY <1>5, FS_CardinalityType DEF T
  <1>7. Small(Cardinality(S)) = SUBSET S
    BY <1>1 DEF Small
  <1>8. g = Sum(g, f)
    BY <1>6, <1>7 DEF Next, Sum
  <1> QED BY <1>8

\* a is the sum of f over every subset of S: it can be taken apart at any element.
SumOf(a, f, S) ==
  /\ a \in [SUBSET S -> Int] /\ a[{}] = 0
  /\ \A s \in SUBSET S : \A y \in s : a[s] = f[y] + a[s \ {y}]

\* A total is such a sum.
LEMMA TotalIs ==
  ASSUME NEW S, IsFiniteSet(S), NEW f \in [S -> Int]
  PROVE  \E a : SumOf(a, f, S) /\ Total(f) = a[S]
  <1> DEFINE g == CHOOSE h : h = Sum(h, f)
  <1>1. Total(f) = g[S]
    BY DEF Total, MapThenSumSet, MapThenFoldSet, Sum
  <1>2. g = Sum(g, f)
    BY SumExists
  <1> HIDE DEF g
  <1>3. DOMAIN g = SUBSET S /\ g[{}] = 0
    BY <1>2 DEF Sum
  <1>4. ASSUME NEW s \in SUBSET S, s # {}
        PROVE  \E x \in s : g[s] = f[x] + g[s \ {x}]
    BY <1>2, <1>4 DEF Sum
  <1>9. g \in [SUBSET S -> Int]
    <2> DEFINE N == {s \in SUBSET S : g[s] \in Int}
    <2>1. ASSUME NEW s \in SUBSET S, \A y \in s : s \ {y} \in N PROVE s \in N
      <3>1. CASE s = {}
        BY <1>3, <3>1
      <3>2. CASE s # {}
        <4>1. PICK x \in s : g[s] = f[x] + g[s \ {x}]
          BY <1>4, <3>2
        <4>2. g[s \ {x}] \in Int /\ f[x] \in Int
          BY <2>1
        <4>3. g[s] \in Int
          BY <4>1, <4>2
        <4> QED BY <4>3
      <3> QED BY <3>1, <3>2
    <2>2. SUBSET S \subseteq N
      <3> HIDE DEF N
      <3> QED BY <2>1, AllSubsets
    <2> QED BY <1>2, <1>3, <2>2 DEF Sum
  <1> DEFINE T == {s \in SUBSET S : \A y \in s : g[s] = f[y] + g[s \ {y}]}
  <1>5. ASSUME NEW s \in SUBSET S, \A y \in s : s \ {y} \in T PROVE s \in T
    <2>1. CASE s = {}
      BY <1>3, <2>1
    <2>2. CASE s # {}
      <3>1. PICK x \in s : g[s] = f[x] + g[s \ {x}]
        BY <1>4, <2>2
      <3>2. \A y \in s : s \ {y} \in T /\ g[s \ {y}] \in Int /\ f[y] \in Int
        BY <1>5, <1>9
      <3>3. ASSUME NEW y \in s, y # x PROVE g[s] = f[y] + g[s \ {y}]
        <4>1. y \in s \ {x} /\ x \in s \ {y} /\ s \ {x} \in T /\ s \ {y} \in T
          BY <1>5, <3>3
        <4> HIDE DEF g
        <4>2. g[s \ {x}] = f[y] + g[(s \ {x}) \ {y}] /\ g[s \ {y}] = f[x] + g[(s \ {y}) \ {x}]
          BY <4>1
        <4>3. (s \ {x}) \ {y} = (s \ {y}) \ {x}
          OBVIOUS
        <4>4. g[(s \ {x}) \ {y}] \in Int
          BY <1>9
        <4>5. f[x] \in Int /\ f[y] \in Int
          BY <3>1
        <4> DEFINE rest == g[(s \ {x}) \ {y}]
        <4>6. rest \in Int /\ g[s] = f[x] + (f[y] + rest) /\ g[s \ {y}] = f[x] + rest
          BY <3>1, <4>2, <4>3, <4>4
        <4> HIDE DEF rest
        <4> QED BY <4>5, <4>6
      <3> QED BY <3>1, <3>2, <3>3
    <2> QED BY <2>1, <2>2
  <1>6. SUBSET S \subseteq T
    <2> HIDE DEF T
    <2> QED BY <1>5, AllSubsets
  <1> QED BY <1>1, <1>3, <1>6, <1>9 DEF SumOf

\* One term more is that much more in total.
LEMMA TotalOfMore ==
  ASSUME NEW S, IsFiniteSet(S), NEW f \in [S -> Int], NEW h \in [S -> Int], NEW c \in S,
         \A x \in S \ {c} : h[x] = f[x]
  PROVE  Total(h) = Total(f) + h[c] - f[c] /\ Total(f) \in Int
  <1>1. PICK a : SumOf(a, f, S) /\ Total(f) = a[S]
    BY TotalIs
  <1>2. PICK b : SumOf(b, h, S) /\ Total(h) = b[S]
    BY TotalIs
  <1> DEFINE more(s) == IF c \in s THEN h[c] - f[c] ELSE 0
             T == {s \in SUBSET S : b[s] = a[s] + more(s)}
  <1>3. ASSUME NEW s \in SUBSET S, \A y \in s : s \ {y} \in T PROVE s \in T
    <2>1. CASE s = {}
      BY <1>1, <1>2, <2>1 DEF SumOf
    <2>2. CASE s # {}
      <3>1. PICK y \in s : TRUE
        BY <2>2
      <3> USE DEF SumOf
      <3>2. /\ b[s \ {y}] = a[s \ {y}] + more(s \ {y})
            /\ a[s] = f[y] + a[s \ {y}] /\ b[s] = h[y] + b[s \ {y}]
            /\ a[s \ {y}] \in Int /\ f[y] \in Int /\ h[y] \in Int /\ f[c] \in Int /\ h[c] \in Int
        BY <1>1, <1>2, <1>3, <3>1
      <3>3. CASE y = c
        BY <3>2, <3>3, <3>1
      <3>4. CASE y # c
        BY <3>2, <3>4, <3>1
      <3> QED BY <3>3, <3>4
    <2> QED BY <2>1, <2>2
  <1>4. SUBSET S \subseteq T
    <2> HIDE DEF T
    <2> QED BY <1>3, AllSubsets
  <1>5. b[S] = a[S] + h[c] - f[c] /\ a[S] \in Int
    <2>1. S \in T /\ c \in S
      BY <1>4
    <2>2. f[c] \in Int /\ h[c] \in Int /\ a[S] \in Int
      BY <1>1 DEF SumOf
    <2> QED BY <2>1, <2>2
  <1> QED BY <1>1, <1>2, <1>5

\* Nothing adds up to nothing.
LEMMA TotalOfNothing ==
  ASSUME NEW S, IsFiniteSet(S), NEW f \in [S -> Int], \A x \in S : f[x] = 0
  PROVE  Total(f) = 0
  <1>1. PICK a : SumOf(a, f, S) /\ Total(f) = a[S]
    BY TotalIs
  <1> DEFINE T == {s \in SUBSET S : a[s] = 0}
  <1>2. ASSUME NEW s \in SUBSET S, \A y \in s : s \ {y} \in T PROVE s \in T
    <2>1. CASE s = {}
      BY <1>1, <2>1 DEF SumOf
    <2>2. CASE s # {}
      <3>1. PICK x \in s : a[s] = f[x] + a[s \ {x}]
        BY <1>1, <2>2 DEF SumOf
      <3>2. a[s \ {x}] = 0 /\ f[x] = 0
        BY <1>2
      <3> QED BY <3>1, <3>2
    <2> QED BY <2>1, <2>2
  <1>3. SUBSET S \subseteq T
    <2> HIDE DEF T
    <2> QED BY <1>2, AllSubsets
  <1> QED BY <1>1, <1>3

----------------------------------------------------------------------------
(* The searches of a game.                                                  *)

\* The keys of all moves, in either reading of the opponent's decisions.
AllKeys ==
  BOOLEAN \X ({Kind[p] : p \in Positions} \cup {""}) \X UNION {Options[p] : p \in Positions}

Child == [visits : Nat, avail : Nat, node : Nat]
Node  == UNION {[keys -> Child] : keys \in SUBSET AllKeys}

\* The nodes and the table of a tree: a child's node is made after its parent.
Sound(x) ==
  /\ {"nodes", "table"} \subseteq DOMAIN x
  /\ x.nodes \in Seq(Node)
  /\ \A n \in DOMAIN x.nodes : \A c \in DOMAIN x.nodes[n] :
       LET next == x.nodes[n][c].node IN next # 0 => n < next /\ next \in DOMAIN x.nodes
  /\ \A p \in DOMAIN x.table : x.table[p] \in DOMAIN x.nodes

\* Tree y is x with more nodes and children, none of them visited or counted.
Grown(x, y) ==
  /\ DOMAIN y = DOMAIN x
  /\ \A f \in DOMAIN x \ {"nodes", "table"} : y[f] = x[f]
  /\ DOMAIN x.nodes \subseteq DOMAIN y.nodes
  /\ \A n \in DOMAIN x.nodes : DOMAIN x.nodes[n] \subseteq DOMAIN y.nodes[n]
  /\ \A n \in DOMAIN y.nodes : \A c \in DOMAIN y.nodes[n] :
       LET old == n \in DOMAIN x.nodes /\ c \in DOMAIN x.nodes[n] IN
       /\ y.nodes[n][c].visits = IF old THEN x.nodes[n][c].visits ELSE 0
       /\ y.nodes[n][c].avail  = IF old THEN x.nodes[n][c].avail  ELSE 0

\* Three members make a member of the product.
LEMMA IsTriple ==
  ASSUME NEW A, NEW B, NEW C, NEW a \in A, NEW b \in B, NEW c \in C
  PROVE  <<a, b, c>> \in A \X B \X C
  OBVIOUS

\* The key of a move is one of AllKeys.
LEMMA KeysAreKeys == ASSUME NEW p \in Positions PROVE Keys(p) \subseteq AllKeys
  <1> SUFFICES ASSUME NEW mv \in Options[p] PROVE child_key(p, mv) \in AllKeys
    BY Zenon DEF Keys
  <1> DEFINE own == p \in Own
             kind == IF cfg.observation_keys THEN Kind[p] ELSE ""
  <1>1. own \in BOOLEAN
    OBVIOUS
  <1>2. kind \in {Kind[q] : q \in Positions} \cup {""}
    OBVIOUS
  <1>3. mv \in UNION {Options[q] : q \in Positions}
    OBVIOUS
  <1>4. child_key(p, mv) = <<own, kind, mv>>
    BY DEF child_key
  <1> DEFINE kinds == {Kind[q] : q \in Positions} \cup {""}
             moves == UNION {Options[q] : q \in Positions}
  <1>5. AllKeys = BOOLEAN \X kinds \X moves
    BY DEF AllKeys
  <1> HIDE DEF own, kind, kinds, moves
  <1>6. <<own, kind, mv>> \in BOOLEAN \X kinds \X moves
    BY <1>1, <1>2, <1>3, IsTriple DEF kinds, moves
  <1> QED BY <1>4, <1>5, <1>6

\* A position has as many keys as moves at most.
LEMMA FewKeys == ASSUME SearchAssumption, NEW p \in Positions PROVE IsFiniteSet(Keys(p))
  <1>1. IsFiniteSet(Options[p])
    BY DEF SearchAssumption
  <1> DEFINE f == [mv \in Options[p] |-> child_key(p, mv)]
  <1>2. Keys(p) = {f[mv] : mv \in Options[p]}
    BY DEF Keys
  <1>3. f \in Surjection(Options[p], Keys(p))
    BY <1>2 DEF Surjection
  <1> QED BY <1>1, <1>3, FS_Surjection

\* A function from keys to children is a node.
LEMMA IsNode ==
  ASSUME NEW keys \in SUBSET AllKeys, NEW f \in [keys -> Child]
  PROVE  f \in Node
  BY DEF Node

\* A node is a function from some of the keys to children.
LEMMA NodeIs ==
  ASSUME NEW f \in Node
  PROVE  DOMAIN f \subseteq AllKeys /\ \A c \in DOMAIN f : f[c] \in Child
  BY DEF Node

\* A sequence of nodes with another in a place is one.
LEMMA OtherNode ==
  ASSUME NEW s \in Seq(Node), NEW n \in DOMAIN s, NEW f \in Node
  PROVE  /\ [s EXCEPT ![n] = f] \in Seq(Node)
         /\ DOMAIN [s EXCEPT ![n] = f] = DOMAIN s
         /\ \A i \in DOMAIN s : [s EXCEPT ![n] = f][i] = IF i = n THEN f ELSE s[i]
  <1>1. Len(s) \in Nat /\ DOMAIN s = 1 .. Len(s) /\ \A i \in 1 .. Len(s) : s[i] \in Node
    OBVIOUS
  <1>2. [s EXCEPT ![n] = f] \in [1 .. Len(s) -> Node]
    BY <1>1
  <1> QED BY <1>1, <1>2

\* A sequence of nodes with one more.
LEMMA MoreNodes ==
  ASSUME NEW s \in Seq(Node), NEW f \in Node
  PROVE  /\ Append(s, f) \in Seq(Node)
         /\ DOMAIN s \subseteq DOMAIN Append(s, f) /\ Len(s) + 1 \notin DOMAIN s
         /\ DOMAIN Append(s, f) = DOMAIN s \cup {Len(s) + 1}
         /\ \A n \in DOMAIN s : n < Len(s) + 1
         /\ \A i \in DOMAIN s : Append(s, f)[i] = s[i]
         /\ Append(s, f)[Len(s) + 1] = f
  OBVIOUS

\* The priors add children that nobody visited.
LEMMA PriorsGrow ==
  ASSUME NEW x, Sound(x), NEW n \in DOMAIN x.nodes, NEW keys \in SUBSET AllKeys
  PROVE  LET y == priors(x, n, keys) IN
         Sound(y) /\ Grown(x, y) /\ DOMAIN y.nodes = DOMAIN x.nodes /\ keys \subseteq DOMAIN y.nodes[n]
  <1> DEFINE F == [c \in DOMAIN x.nodes[n] \cup keys |->
                     IF c \in DOMAIN x.nodes[n] THEN x.nodes[n][c] ELSE NewChild]
             N == [x.nodes EXCEPT ![n] = F]
             y == priors(x, n, keys)
  <1>1. /\ x.nodes \in Seq(Node) /\ x.nodes[n] \in Node
        /\ DOMAIN x.nodes[n] \subseteq AllKeys
        /\ \A c \in DOMAIN x.nodes[n] : x.nodes[n][c] \in Child
    BY NodeIs DEF Sound
  <1>2. NewChild \in Child /\ NewChild.visits = 0 /\ NewChild.avail = 0 /\ NewChild.node = 0
    BY DEF NewChild, Child
  <1>3. F \in Node
    BY <1>1, <1>2, IsNode
  <1>4. /\ N \in Seq(Node) /\ DOMAIN N = DOMAIN x.nodes
        /\ \A i \in DOMAIN x.nodes : N[i] = IF i = n THEN F ELSE x.nodes[i]
    BY <1>1, <1>3, OtherNode
  <1>5. /\ DOMAIN y = DOMAIN x /\ y.nodes = N /\ y.table = x.table
        /\ \A f \in DOMAIN x \ {"nodes"} : y[f] = x[f]
    BY DEF priors, Sound
  <1>6. /\ DOMAIN F = DOMAIN x.nodes[n] \cup keys
        /\ \A c \in DOMAIN F : F[c] = IF c \in DOMAIN x.nodes[n] THEN x.nodes[n][c] ELSE NewChild
    OBVIOUS
  <1> HIDE DEF F, N, y
  <1>7. Sound(y)
    BY <1>2, <1>4, <1>5, <1>6 DEF Sound
  <1>8. Grown(x, y)
    BY <1>2, <1>4, <1>5, <1>6 DEF Grown
  <1> QED BY <1>4, <1>5, <1>6, <1>7, <1>8 DEF y

\* Growing twice is growing.
LEMMA GrownTwice ==
  ASSUME NEW x, NEW y, NEW z, Grown(x, y), Grown(y, z)
  PROVE  Grown(x, z)
  <1>1. DOMAIN z = DOMAIN x /\ \A f \in DOMAIN x \ {"nodes", "table"} : z[f] = x[f]
    BY DEF Grown
  <1>2. DOMAIN x.nodes \subseteq DOMAIN z.nodes
    BY DEF Grown
  <1>3. ASSUME NEW n \in DOMAIN x.nodes PROVE DOMAIN x.nodes[n] \subseteq DOMAIN z.nodes[n]
    BY <1>3 DEF Grown
  <1>4. ASSUME NEW n \in DOMAIN z.nodes, NEW c \in DOMAIN z.nodes[n]
        PROVE  LET old == n \in DOMAIN x.nodes /\ c \in DOMAIN x.nodes[n] IN
               /\ z.nodes[n][c].visits = IF old THEN x.nodes[n][c].visits ELSE 0
               /\ z.nodes[n][c].avail  = IF old THEN x.nodes[n][c].avail  ELSE 0
    BY <1>4 DEF Grown
  <1> QED BY <1>1, <1>2, <1>3, <1>4 DEF Grown

\* A tree that does not change has grown by nothing.
LEMMA GrownBare ==
  ASSUME NEW x PROVE Grown(x, x)
  BY DEF Grown

\* A child's node is made behind all others.
LEMMA NodeOfGrows ==
  ASSUME NEW x, Sound(x), NEW n \in DOMAIN x.nodes, NEW c \in DOMAIN x.nodes[n]
  PROVE  LET y == node_of(x, n, c) IN
         /\ Sound(y) /\ Grown(x, y)
         /\ c \in DOMAIN y.nodes[n]
         /\ y.nodes[n][c].node \in DOMAIN y.nodes /\ n < y.nodes[n][c].node
  <1> DEFINE y == node_of(x, n, c)
             L == Len(x.nodes) + 1
             A == Append(x.nodes, <<>>)
             b == x.nodes[n][c]
             F == [x.nodes[n] EXCEPT ![c].node = L]
             N == [A EXCEPT ![n] = F]
  <1>1. /\ x.nodes \in Seq(Node) /\ x.nodes[n] \in Node
        /\ DOMAIN x.nodes[n] \subseteq AllKeys
        /\ \A d \in DOMAIN x.nodes[n] : x.nodes[n][d] \in Child
        /\ DOMAIN x.nodes = 1 .. Len(x.nodes) /\ Len(x.nodes) \in Nat
    BY NodeIs DEF Sound
  <1>2. CASE b.node # 0
    <2>1. y = x
      BY <1>2 DEF node_of
    <2> QED BY <1>2, <2>1, GrownBare DEF Sound
  <1>3. CASE b.node = 0
    <2>1. <<>> \in Node /\ DOMAIN <<>> = {}
      <3>1. <<>> \in [{} -> Child]
        OBVIOUS
      <3> QED BY <3>1, IsNode
    <2>2. /\ A \in Seq(Node) /\ DOMAIN A = DOMAIN x.nodes \cup {L} /\ L \notin DOMAIN x.nodes
          /\ \A i \in DOMAIN x.nodes : A[i] = x.nodes[i] /\ i < L
          /\ A[L] = <<>> /\ L # 0 /\ L \in Nat
      BY <1>1, <2>1, MoreNodes
    <2>3. /\ DOMAIN F = DOMAIN x.nodes[n]
          /\ \A d \in DOMAIN F : F[d] = IF d = c THEN [b EXCEPT !.node = L] ELSE x.nodes[n][d]
      OBVIOUS
    <2>4. /\ b \in Child
          /\ [b EXCEPT !.node = L] \in Child /\ [b EXCEPT !.node = L].node = L
          /\ [b EXCEPT !.node = L].visits = b.visits /\ [b EXCEPT !.node = L].avail = b.avail
      BY <1>1, <2>2 DEF Child
    <2>5. F \in Node
      <3> HIDE DEF b, L
      <3>1. F \in [DOMAIN x.nodes[n] -> Child]
        BY <1>1, <2>3, <2>4
      <3> QED BY <1>1, <3>1, IsNode
    <2>6. /\ N \in Seq(Node) /\ DOMAIN N = DOMAIN A
          /\ \A i \in DOMAIN A : N[i] = IF i = n THEN F ELSE A[i]
      <3> HIDE DEF F, A
      <3> QED BY <2>2, <2>5, OtherNode
    <2>7. /\ DOMAIN y = DOMAIN x /\ y.nodes = N /\ y.table = x.table
          /\ \A f \in DOMAIN x \ {"nodes"} : y[f] = x[f]
      <3> DEFINE z == [x EXCEPT !.nodes = A]
      <3>1. /\ DOMAIN z = DOMAIN x /\ z.nodes = A
            /\ \A f \in DOMAIN x \ {"nodes"} : z[f] = x[f]
        BY DEF Sound
      <3>2. y = [z EXCEPT !.nodes[n][c].node = L]
        BY <1>3 DEF node_of, new_node
      <3> HIDE DEF z, y, A, L
      <3>3. /\ DOMAIN y = DOMAIN x /\ y.nodes = [A EXCEPT ![n] = [A[n] EXCEPT ![c].node = L]]
            /\ \A f \in DOMAIN x \ {"nodes"} : y[f] = x[f]
        BY <3>1, <3>2 DEF Sound
      <3>4. A[n] = x.nodes[n]
        BY <2>2
      <3> QED BY <3>3, <3>4 DEF Sound
    <2> HIDE DEF F, N, A, b, L, y
    <2>8. /\ DOMAIN y.nodes = DOMAIN x.nodes \cup {L}
          /\ \A i \in DOMAIN x.nodes : DOMAIN y.nodes[i] = DOMAIN x.nodes[i]
          /\ \A i \in DOMAIN x.nodes : \A d \in DOMAIN x.nodes[i] :
               IF i = n /\ d = c THEN y.nodes[i][d] = [b EXCEPT !.node = L]
               ELSE y.nodes[i][d] = x.nodes[i][d]
          /\ DOMAIN y.nodes[L] = {}
      BY <2>1, <2>2, <2>3, <2>6, <2>7
    <2>9. Sound(y)
      <3>1. {"nodes", "table"} \subseteq DOMAIN y /\ y.nodes \in Seq(Node)
        BY <2>6, <2>7 DEF Sound
      <3>2. \A p \in DOMAIN y.table : y.table[p] \in DOMAIN y.nodes
        BY <2>7, <2>8 DEF Sound
      <3>3. ASSUME NEW i \in DOMAIN y.nodes, NEW d \in DOMAIN y.nodes[i], y.nodes[i][d].node # 0
            PROVE  i < y.nodes[i][d].node /\ y.nodes[i][d].node \in DOMAIN y.nodes
        <4>1. i \in DOMAIN x.nodes /\ d \in DOMAIN x.nodes[i]
          BY <2>8
        <4>2. CASE i = n /\ d = c
          BY <2>2, <2>4, <2>8, <4>1, <4>2
        <4>3. CASE ~(i = n /\ d = c)
          BY <2>8, <3>3, <4>1, <4>3 DEF Sound
        <4> QED BY <4>2, <4>3
      <3> QED BY <3>1, <3>2, <3>3 DEF Sound
    <2>10. Grown(x, y)
      <3>1. ASSUME NEW i \in DOMAIN y.nodes, NEW d \in DOMAIN y.nodes[i]
            PROVE  /\ i \in DOMAIN x.nodes /\ d \in DOMAIN x.nodes[i]
                   /\ y.nodes[i][d].visits = x.nodes[i][d].visits
                   /\ y.nodes[i][d].avail = x.nodes[i][d].avail
        BY <2>4, <2>8, <3>1 DEF b
      <3> QED BY <2>7, <2>8, <3>1 DEF Grown
    <2>11. /\ c \in DOMAIN y.nodes[n]
           /\ y.nodes[n][c].node \in DOMAIN y.nodes /\ n < y.nodes[n][c].node
      BY <2>2, <2>4, <2>8
    <2> QED BY <2>9, <2>10, <2>11 DEF y
  <1> QED BY <1>2, <1>3

\* A position gets a node behind all others.
LEMMA TransposedGrows ==
  ASSUME NEW x, Sound(x), NEW p
  PROVE  LET y == transposed(x, p) IN
         Sound(y) /\ Grown(x, y) /\ p \in DOMAIN y.table
  <1> DEFINE y == transposed(x, p)
             L == Len(x.nodes) + 1
             A == Append(x.nodes, <<>>)
             T == [q \in DOMAIN x.table \cup {p} |-> IF q = p THEN L ELSE x.table[q]]
  <1>1. CASE p \in DOMAIN x.table
    BY <1>1, GrownBare DEF transposed
  <1>2. CASE p \notin DOMAIN x.table
    <2>1. <<>> \in Node /\ DOMAIN <<>> = {}
      <3>1. <<>> \in [{} -> Child]
        OBVIOUS
      <3> QED BY <3>1, IsNode
    <2>2. /\ A \in Seq(Node) /\ DOMAIN A = DOMAIN x.nodes \cup {L} /\ L \notin DOMAIN x.nodes
          /\ \A i \in DOMAIN x.nodes : A[i] = x.nodes[i]
          /\ A[L] = <<>>
      BY <2>1, MoreNodes DEF Sound
    <2>3. /\ DOMAIN y = DOMAIN x /\ y.nodes = A /\ y.table = T
          /\ \A f \in DOMAIN x \ {"nodes", "table"} : y[f] = x[f]
      BY <1>2 DEF transposed, new_node, Sound
    <2>4. DOMAIN T = DOMAIN x.table \cup {p} /\ \A q \in DOMAIN T : T[q] = IF q = p THEN L ELSE x.table[q]
      OBVIOUS
    <2> HIDE DEF A, T, L, y
    <2>5. Sound(y)
      BY <2>1, <2>2, <2>3, <2>4 DEF Sound
    <2>6. Grown(x, y)
      BY <2>1, <2>2, <2>3 DEF Grown
    <2> QED BY <2>3, <2>4, <2>5, <2>6 DEF y
  <1> QED BY <1>1, <1>2

\* Tree y has the nodes, children, and other fields of x.
SameShape(x, y) ==
  /\ DOMAIN y = DOMAIN x
  /\ \A f \in DOMAIN x \ {"nodes"} : y[f] = x[f]
  /\ DOMAIN y.nodes = DOMAIN x.nodes
  /\ \A n \in DOMAIN x.nodes : DOMAIN y.nodes[n] = DOMAIN x.nodes[n]

\* A tree with other children in the same places is one.
LEMMA OtherChildren ==
  ASSUME NEW x, Sound(x), NEW y, SameShape(x, y), Len(y.nodes) \in Nat,
         y.nodes \in [DOMAIN x.nodes -> Node],
         \A n \in DOMAIN x.nodes : \A c \in DOMAIN x.nodes[n] : y.nodes[n][c].node = x.nodes[n][c].node
  PROVE  Sound(y)
  <1>1. DOMAIN x.nodes = 1 .. Len(x.nodes) /\ Len(x.nodes) \in Nat
    BY DEF Sound
  <1>2. y.nodes \in Seq(Node)
    BY <1>1
  <1>3. y.table = x.table /\ {"nodes", "table"} \subseteq DOMAIN y
    BY DEF SameShape, Sound
  <1> QED BY <1>2, <1>3 DEF Sound, SameShape

\* Counting raises the avail of the uncounted keys of one node.
LEMMA CountKeeps ==
  ASSUME NEW x, Sound(x), NEW n \in DOMAIN x.nodes, NEW keys
  PROVE  LET y == Count(x, n, keys) IN
         /\ Sound(y) /\ SameShape(x, y)
         /\ \A i \in DOMAIN x.nodes : \A c \in DOMAIN x.nodes[i] :
              /\ y.nodes[i][c].visits = x.nodes[i][c].visits
              /\ y.nodes[i][c].node = x.nodes[i][c].node
              /\ y.nodes[i][c].avail =
                   x.nodes[i][c].avail + IF i = n /\ c \in Uncounted(n, keys) THEN 1 ELSE 0
  <1> DEFINE raised(c) == [x.nodes[n][c] EXCEPT !.avail = @ + 1]
             F == [c \in DOMAIN x.nodes[n] |->
                     IF c \in Uncounted(n, keys) THEN raised(c) ELSE x.nodes[n][c]]
             N == [x.nodes EXCEPT ![n] = F]
             y == Count(x, n, keys)
  <1>1. /\ x.nodes \in Seq(Node)
        /\ \A i \in DOMAIN x.nodes : DOMAIN x.nodes[i] \subseteq AllKeys
        /\ \A i \in DOMAIN x.nodes : \A c \in DOMAIN x.nodes[i] : x.nodes[i][c] \in Child
    BY NodeIs DEF Sound
  <1>2. ASSUME NEW c \in DOMAIN x.nodes[n]
        PROVE  /\ raised(c) \in Child
               /\ raised(c).visits = x.nodes[n][c].visits
               /\ raised(c).node = x.nodes[n][c].node
               /\ raised(c).avail = x.nodes[n][c].avail + 1
    BY <1>1 DEF Child
  <1>3. /\ DOMAIN F = DOMAIN x.nodes[n]
        /\ \A c \in DOMAIN F : F[c] = IF c \in Uncounted(n, keys) THEN raised(c) ELSE x.nodes[n][c]
    OBVIOUS
  <1>4. DOMAIN y = DOMAIN x /\ y.nodes = N /\ \A f \in DOMAIN x \ {"nodes"} : y[f] = x[f]
    BY DEF Count, Sound
  <1> HIDE DEF raised, F, y
  <1>5. F \in Node
    <2>1. F \in [DOMAIN x.nodes[n] -> Child]
      <3>1. F = [c \in DOMAIN x.nodes[n] |-> F[c]]
        BY DEF F
      <3> QED BY <1>1, <1>2, <1>3, <3>1
    <2> QED BY <1>1, <2>1, IsNode
  <1>6. /\ N \in Seq(Node) /\ DOMAIN N = DOMAIN x.nodes
        /\ \A i \in DOMAIN x.nodes : N[i] = IF i = n THEN F ELSE x.nodes[i]
    BY <1>1, <1>5, OtherNode
  <1> HIDE DEF N
  <1>7. SameShape(x, y)
    BY <1>3, <1>4, <1>6 DEF SameShape
  <1>8. ASSUME NEW i \in DOMAIN x.nodes, NEW c \in DOMAIN x.nodes[i]
        PROVE  /\ y.nodes[i][c].visits = x.nodes[i][c].visits
               /\ y.nodes[i][c].node = x.nodes[i][c].node
               /\ y.nodes[i][c].avail =
                    x.nodes[i][c].avail + IF i = n /\ c \in Uncounted(n, keys) THEN 1 ELSE 0
    <2>1. x.nodes[i][c].avail + 0 = x.nodes[i][c].avail
      BY <1>1 DEF Child
    <2>2. CASE i = n
      BY <1>2, <1>3, <1>4, <1>6, <2>1, <2>2
    <2>3. CASE i # n
      BY <1>4, <1>6, <2>1, <2>3
    <2> QED BY <2>2, <2>3
  <1>9. Sound(y)
    <2>1. y.nodes \in [DOMAIN x.nodes -> Node] /\ Len(y.nodes) \in Nat
      BY <1>4, <1>6
    <2> QED BY <1>7, <1>8, <2>1, OtherChildren
  <1> QED BY <1>7, <1>8, <1>9 DEF y

\* The backup raises the visits of the children of the path.
LEMMA BackupKeeps ==
  ASSUME NEW x, Sound(x), \A ch : Gains(ch) \in Nat
  PROVE  LET y == backup(x) IN
         /\ Sound(y) /\ SameShape(x, y)
         /\ \A i \in DOMAIN x.nodes : \A c \in DOMAIN x.nodes[i] :
              /\ y.nodes[i][c].avail = x.nodes[i][c].avail
              /\ y.nodes[i][c].node = x.nodes[i][c].node
              /\ y.nodes[i][c].visits =
                   x.nodes[i][c].visits + IF Contains(path, <<i, c>>) THEN Gains(<<i, c>>) ELSE 0
  <1> DEFINE raised(i, c) == [x.nodes[i][c] EXCEPT !.visits = @ + Gains(<<i, c>>)]
             F(i) == [c \in DOMAIN x.nodes[i] |->
                        IF Contains(path, <<i, c>>) THEN raised(i, c) ELSE x.nodes[i][c]]
             N == [i \in DOMAIN x.nodes |-> F(i)]
             y == backup(x)
  <1>1. /\ x.nodes \in Seq(Node) /\ DOMAIN x.nodes = 1 .. Len(x.nodes) /\ Len(x.nodes) \in Nat
        /\ \A i \in DOMAIN x.nodes : DOMAIN x.nodes[i] \subseteq AllKeys
        /\ \A i \in DOMAIN x.nodes : \A c \in DOMAIN x.nodes[i] : x.nodes[i][c] \in Child
    BY NodeIs DEF Sound
  <1>2. ASSUME NEW i \in DOMAIN x.nodes, NEW c \in DOMAIN x.nodes[i]
        PROVE  /\ raised(i, c) \in Child
               /\ raised(i, c).visits = x.nodes[i][c].visits + Gains(<<i, c>>)
               /\ raised(i, c).node = x.nodes[i][c].node
               /\ raised(i, c).avail = x.nodes[i][c].avail
    <2>1. x.nodes[i][c] \in Child /\ Gains(<<i, c>>) \in Nat
      BY <1>1
    <2> QED BY <2>1 DEF Child
  <1>3. ASSUME NEW i \in DOMAIN x.nodes
        PROVE  /\ DOMAIN F(i) = DOMAIN x.nodes[i]
               /\ \A c \in DOMAIN F(i) :
                    F(i)[c] = IF Contains(path, <<i, c>>) THEN raised(i, c) ELSE x.nodes[i][c]
               /\ F(i) = [c \in DOMAIN x.nodes[i] |-> F(i)[c]]
    OBVIOUS
  <1>4. DOMAIN y = DOMAIN x /\ y.nodes = N /\ \A f \in DOMAIN x \ {"nodes"} : y[f] = x[f]
    BY DEF backup, Sound
  <1>5. DOMAIN N = DOMAIN x.nodes /\ (\A i \in DOMAIN x.nodes : N[i] = F(i))
        /\ N = [i \in DOMAIN x.nodes |-> N[i]]
    OBVIOUS
  <1> HIDE DEF raised, F, N, y
  <1>6. ASSUME NEW i \in DOMAIN x.nodes PROVE F(i) \in Node
    <2>1. F(i) \in [DOMAIN x.nodes[i] -> Child]
      <3>1. \A c \in DOMAIN x.nodes[i] : F(i)[c] \in Child
        BY <1>1, <1>2, <1>3
      <3> QED BY <1>3, <3>1
    <2>2. DOMAIN x.nodes[i] \in SUBSET AllKeys
      BY <1>1
    <2> QED BY <2>1, <2>2, IsNode
  <1>7. N \in [DOMAIN x.nodes -> Node]
    BY <1>5, <1>6
  <1>8. SameShape(x, y)
    BY <1>3, <1>4, <1>5 DEF SameShape
  <1>9. ASSUME NEW i \in DOMAIN x.nodes, NEW c \in DOMAIN x.nodes[i]
        PROVE  /\ y.nodes[i][c].avail = x.nodes[i][c].avail
               /\ y.nodes[i][c].node = x.nodes[i][c].node
               /\ y.nodes[i][c].visits =
                    x.nodes[i][c].visits + IF Contains(path, <<i, c>>) THEN Gains(<<i, c>>) ELSE 0
    <2>1. x.nodes[i][c].visits + 0 = x.nodes[i][c].visits
      BY <1>1 DEF Child
    <2>2. y.nodes[i][c] = IF Contains(path, <<i, c>>) THEN raised(i, c) ELSE x.nodes[i][c]
      BY <1>3, <1>4, <1>5
    <2>3. CASE Contains(path, <<i, c>>)
      BY <1>2, <2>2, <2>3
    <2>4. CASE ~Contains(path, <<i, c>>)
      BY <2>1, <2>2, <2>4
    <2> QED BY <2>3, <2>4
  <1>10. Sound(y)
    <2>1. y.nodes \in [DOMAIN x.nodes -> Node] /\ Len(y.nodes) \in Nat
      BY <1>1, <1>4, <1>7
    <2> QED BY <1>8, <1>9, <2>1, OtherChildren
  <1> QED BY <1>8, <1>9, <1>10 DEF y

----------------------------------------------------------------------------
\* How often a line went through a child.
Occurrences(p, ch) == Cardinality({j \in DOMAIN p : p[j] = ch})

\* The visits a line will add to a child: at most one where the backup is by sets.
Owed(sets, p, cnt, ch) ==
  IF sets THEN IF ch \in cnt THEN 1 ELSE 0 ELSE Occurrences(p, ch)

\* A child was available as often as it was visited, the running line included.
Covered(x, sets, p, cnt) ==
  \A n \in DOMAIN x.nodes : \A c \in DOMAIN x.nodes[n] :
    x.nodes[n][c].visits + Owed(sets, p, cnt, <<n, c>>) <= x.nodes[n][c].avail

\* What a line went through and counted is in the tree.
Within(x, p, cnt) ==
  /\ p \in Seq(Nat \X AllKeys)
  /\ \A j \in DOMAIN p : p[j][1] \in DOMAIN x.nodes /\ p[j][2] \in DOMAIN x.nodes[p[j][1]]
  /\ \A n, c : <<n, c>> \in cnt => n \in DOMAIN x.nodes /\ c \in DOMAIN x.nodes[n]

\* Occurrences are counted by natural numbers; without one there are none.
LEMMA OccurrencesCount ==
  ASSUME NEW S, NEW p \in Seq(S), NEW ch
  PROVE  /\ Occurrences(p, ch) \in Nat
         /\ (\A j \in DOMAIN p : p[j] # ch) => Occurrences(p, ch) = 0
         /\ \A j \in DOMAIN p : p[j] = ch /\ (\A i \in DOMAIN p : p[i] = ch => i = j)
                                 => Occurrences(p, ch) = 1
  <1> DEFINE O == {j \in DOMAIN p : p[j] = ch}
  <1>1. IsFiniteSet(O)
    <2>1. Len(p) \in Nat /\ DOMAIN p = 1 .. Len(p)
      OBVIOUS
    <2>2. IsFiniteSet(1 .. Len(p))
      BY <2>1, FS_Interval
    <2> QED BY <2>1, <2>2, FS_Subset
  <1>2. Cardinality(O) \in Nat
    BY <1>1, FS_CardinalityType
  <1>3. (\A j \in DOMAIN p : p[j] # ch) => Cardinality(O) = 0
    <2>1. (\A j \in DOMAIN p : p[j] # ch) => O = {}
      OBVIOUS
    <2> QED BY <2>1, FS_EmptySet
  <1>4. ASSUME NEW j \in DOMAIN p, p[j] = ch, \A i \in DOMAIN p : p[i] = ch => i = j
        PROVE  Cardinality(O) = 1
    <2>1. O = {j}
      BY <1>4
    <2> QED BY <2>1, FS_Singleton
  <1> QED BY <1>2, <1>3, <1>4 DEF Occurrences

\* A step more is one occurrence more of its child.
LEMMA OccurrencesGrow ==
  ASSUME NEW S, NEW p \in Seq(S), NEW e \in S, NEW ch
  PROVE  Occurrences(Append(p, e), ch) = Occurrences(p, ch) + IF e = ch THEN 1 ELSE 0
  <1> DEFINE q == Append(p, e)
             L == Len(p) + 1
             O == {j \in DOMAIN p : p[j] = ch}
             P == {j \in DOMAIN q : q[j] = ch}
  <1>1. /\ Len(p) \in Nat /\ DOMAIN p = 1 .. Len(p) /\ L \notin DOMAIN p
        /\ DOMAIN q = DOMAIN p \cup {L} /\ q[L] = e
        /\ \A j \in DOMAIN p : q[j] = p[j]
    OBVIOUS
  <1>2. IsFiniteSet(O) /\ Cardinality(O) \in Nat
    <2>1. IsFiniteSet(1 .. Len(p))
      BY <1>1, FS_Interval
    <2>2. IsFiniteSet(O)
      BY <1>1, <2>1, FS_Subset
    <2> QED BY <2>2, FS_CardinalityType
  <1>3. L \notin O
    BY <1>1
  <1>4. P = IF e = ch THEN O \cup {L} ELSE O
    <2> HIDE DEF q, L
    <2> QED BY <1>1
  <1> HIDE DEF O, P, L
  <1>5. Cardinality(P) = Cardinality(O) + IF e = ch THEN 1 ELSE 0
    <2>1. Cardinality(O \cup {L}) = Cardinality(O) + 1
      BY <1>2, <1>3, FS_AddElement
    <2>2. Cardinality(O) = Cardinality(O) + 0
      BY <1>2
    <2> QED BY <1>4, <2>1, <2>2
  <1> QED BY <1>5 DEF O, P, Occurrences

\* Nothing is owed where the line has not been.
LEMMA NothingOwed ==
  ASSUME NEW x, NEW p, NEW cnt, Within(x, p, cnt), NEW sets, NEW n, NEW c,
         ~(n \in DOMAIN x.nodes /\ c \in DOMAIN x.nodes[n])
  PROVE  Owed(sets, p, cnt, <<n, c>>) = 0
  <1>1. <<n, c>> \notin cnt
    BY DEF Within
  <1>2. \A j \in DOMAIN p : p[j] # <<n, c>>
    <2> SUFFICES ASSUME NEW j \in DOMAIN p, p[j] = <<n, c>> PROVE FALSE
      OBVIOUS
    <2>1. p[j][1] = n /\ p[j][2] = c
      OBVIOUS
    <2> QED BY <2>1 DEF Within
  <1>3. Occurrences(p, <<n, c>>) = 0
    BY <1>2, OccurrencesCount DEF Within
  <1> QED BY <1>1, <1>3 DEF Owed

\* What is owed is a number.
LEMMA OwedType ==
  ASSUME NEW x, NEW p, NEW cnt, Within(x, p, cnt), NEW sets, NEW ch
  PROVE  Owed(sets, p, cnt, ch) \in Nat
  BY OccurrencesCount DEF Owed, Within

\* A tree that grows stays covered, and the line within it.
LEMMA GrownCovered ==
  ASSUME NEW x, NEW y, Grown(x, y), NEW p, NEW cnt, Within(x, p, cnt),
         NEW sets, Covered(x, sets, p, cnt)
  PROVE  Covered(y, sets, p, cnt) /\ Within(y, p, cnt)
  <1>1. Within(y, p, cnt)
    BY DEF Within, Grown
  <1>2. ASSUME NEW n \in DOMAIN y.nodes, NEW c \in DOMAIN y.nodes[n]
        PROVE  y.nodes[n][c].visits + Owed(sets, p, cnt, <<n, c>>) <= y.nodes[n][c].avail
    <2>1. CASE n \in DOMAIN x.nodes /\ c \in DOMAIN x.nodes[n]
      BY <1>2, <2>1 DEF Grown, Covered
    <2>2. CASE ~(n \in DOMAIN x.nodes /\ c \in DOMAIN x.nodes[n])
      <3>1. Owed(sets, p, cnt, <<n, c>>) = 0
        BY <2>2, NothingOwed
      <3>2. y.nodes[n][c].visits = 0 /\ y.nodes[n][c].avail = 0
        BY <1>2, <2>2 DEF Grown
      <3> QED BY <3>1, <3>2
    <2> QED BY <2>1, <2>2
  <1> QED BY <1>1, <1>2 DEF Covered

\* Counting the moves of a node pays for the step that takes one of them.
LEMMA CountCovers ==
  ASSUME NEW x, Sound(x), NEW p, Within(x, p, counted),
         Covered(x, cfg.visited_set_backup, p, counted),
         NEW n \in DOMAIN x.nodes, NEW keys \in SUBSET DOMAIN x.nodes[n], NEW c \in keys, NEW cnt,
         cnt = IF cfg.visited_set_backup THEN counted \cup {<<n, d>> : d \in keys} ELSE {}
  PROVE  LET y == Count(x, n, keys) q == Append(p, <<n, c>>) IN
         Covered(y, cfg.visited_set_backup, q, cnt) /\ Within(y, q, cnt)
  <1> DEFINE y == Count(x, n, keys)
             e == <<n, c>>
             q == Append(p, e)
             sets == cfg.visited_set_backup
  <1>1. /\ SameShape(x, y)
        /\ \A i \in DOMAIN x.nodes : \A d \in DOMAIN x.nodes[i] :
             /\ y.nodes[i][d].visits = x.nodes[i][d].visits
             /\ y.nodes[i][d].avail =
                  x.nodes[i][d].avail + IF i = n /\ d \in Uncounted(n, keys) THEN 1 ELSE 0
    BY CountKeeps
  <1>2. /\ DOMAIN x.nodes \subseteq Nat
        /\ \A i \in DOMAIN x.nodes : DOMAIN x.nodes[i] \subseteq AllKeys
        /\ \A i \in DOMAIN x.nodes : \A d \in DOMAIN x.nodes[i] : x.nodes[i][d] \in Child
    BY NodeIs DEF Sound
  <1>3. e \in Nat \X AllKeys /\ e[1] = n /\ e[2] = c
    BY <1>2
  <1>4. p \in Seq(Nat \X AllKeys)
    BY DEF Within
  <1>5. /\ q \in Seq(Nat \X AllKeys) /\ DOMAIN q = DOMAIN p \cup {Len(p) + 1}
        /\ q[Len(p) + 1] = e /\ \A j \in DOMAIN p : q[j] = p[j]
    BY <1>3, <1>4
  <1> HIDE DEF y, q, e
  <1>6. Within(y, q, cnt)
    <2>1. \A j \in DOMAIN q : q[j][1] \in DOMAIN x.nodes /\ q[j][2] \in DOMAIN x.nodes[q[j][1]]
      BY <1>3, <1>5 DEF Within
    <2>2. ASSUME NEW i, NEW d, <<i, d>> \in cnt PROVE i \in DOMAIN x.nodes /\ d \in DOMAIN x.nodes[i]
      <3>1. CASE <<i, d>> \in counted
        BY <3>1 DEF Within
      <3>2. CASE <<i, d>> \in {<<n, f>> : f \in keys}
        BY <3>2
      <3> QED BY <2>2, <3>1, <3>2
    <2> QED BY <1>1, <1>5, <2>1, <2>2 DEF Within, SameShape
  <1>7. ASSUME NEW i \in DOMAIN x.nodes, NEW d \in DOMAIN x.nodes[i]
        PROVE  y.nodes[i][d].visits + Owed(sets, q, cnt, <<i, d>>) <= y.nodes[i][d].avail
    <2> DEFINE v == x.nodes[i][d].visits
               a == x.nodes[i][d].avail
               o == Owed(sets, p, counted, <<i, d>>)
               more == IF i = n /\ d \in Uncounted(n, keys) THEN 1 ELSE 0
    <2>1. v \in Nat /\ a \in Nat /\ o \in Nat /\ v + o <= a
      BY <1>2, OwedType DEF Child, Covered
    <2>2. y.nodes[i][d].visits = v /\ y.nodes[i][d].avail = a + more
      BY <1>1
    <2>3. Owed(sets, q, cnt, <<i, d>>) \in Nat /\ Owed(sets, q, cnt, <<i, d>>) <= o + more
      <3>1. CASE sets
        <4>1. <<i, d>> \in cnt => <<i, d>> \in counted \/ (i = n /\ d \in keys)
          BY <3>1
        <4>2. i = n /\ d \in keys /\ <<i, d>> \notin counted => d \in Uncounted(n, keys)
          BY <3>1 DEF Uncounted
        <4> QED BY <3>1, <4>1, <4>2 DEF Owed
      <3>2. CASE ~sets
        <4>1. o = Occurrences(p, <<i, d>>) /\ Owed(sets, q, cnt, <<i, d>>) = Occurrences(q, <<i, d>>)
          BY <3>2 DEF Owed
        <4>2. Occurrences(q, <<i, d>>) = Occurrences(p, <<i, d>>) + IF e = <<i, d>> THEN 1 ELSE 0
          BY <1>3, <1>4, OccurrencesGrow DEF q
        <4>3. e = <<i, d>> => i = n /\ d \in Uncounted(n, keys)
          BY <3>2, <1>3 DEF Uncounted
        <4> HIDE DEF o
        <4> QED BY <2>1, <4>1, <4>2, <4>3
      <3> QED BY <3>1, <3>2
    <2>4. more \in Nat
      OBVIOUS
    <2> HIDE DEF v, a, o, more
    <2> QED BY <2>1, <2>2, <2>3, <2>4
  <1> QED BY <1>1, <1>6, <1>7 DEF Covered, SameShape, q, e, y

----------------------------------------------------------------------------
\* The fields of a tree.
TreeTypes(x, roots) ==
  /\ {"root", "base", "picks", "worlds", "done"} \subseteq DOMAIN x
  /\ Sound(x)
  /\ x.root \in DOMAIN x.nodes /\ roots \subseteq DOMAIN x.nodes[x.root] /\ IsFiniteSet(roots)
  /\ x.base \in [roots -> Nat] /\ x.picks \in [roots -> Nat]
  /\ x.worlds \in Nat /\ x.done \in Nat

\* The visits of the root moves are those before the search and one for every time
\* it picked them; the n-th pick is in the n-th world.
Counts(x, roots, played) ==
  LET n == IF played = {} THEN 0 ELSE 1 IN
  /\ \A c \in roots :
       /\ x.nodes[x.root][c].visits + (IF c \in played THEN 1 ELSE 0) = x.base[c] + x.picks[c]
       /\ x.picks[c] <= x.worlds /\ x.picks[c] <= x.done + n
  /\ x.worlds = 1 \/ (1 <= x.worlds /\ x.worlds <= x.done + n)
  /\ Total(x.picks) = x.done + n

\* Tree i is sound, its counters agree and cover its visits; the one being walked
\* owes what its line went through.
TreeInv(i) ==
  LET x    == trees[i]
      mine == InLine /\ i = t IN
  /\ TreeTypes(x, Roots)
  /\ Counts(x, Roots, IF mine THEN {path[1][2]} ELSE {})
  /\ Covered(x, cfg.visited_set_backup, IF mine THEN path ELSE <<>>, IF mine THEN counted ELSE {})
  /\ x.done <= limit
  /\ i > t \/ (i = t /\ pc # "advanced") => x.done < limit

\* The line lies in the tree being walked: it starts at the root, leaves it at
\* once, and its world is that of the move's latest pick.
LineInv ==
  /\ ~InLine => path = <<>> /\ counted = {}
  /\ InLine =>
       /\ Within(Tree, path, counted)
       /\ path # <<>> /\ path[1][1] = Tree.root /\ path[1][2] \in Roots
       /\ \A j \in DOMAIN path : path[j][1] = Tree.root => j = 1
       /\ cfg.visited_set_backup => \A j \in DOMAIN path : path[j] \in counted
       /\ k + 1 = Tree.picks[path[1][2]] /\ k \in Nat
  /\ pc = "walk" =>
       /\ at \in Positions
       /\ ~cfg.transpositions => node \in DOMAIN Tree.nodes /\ Tree.root < node

\* The searches made, and the trees and the budget of the present one.
SearchTypes ==
  /\ cfg \in Configs /\ here \in Own /\ turn \in Nat /\ action_count \in Nat
  /\ searches \in 0 .. Len(Budgets)
  /\ Searching =>
       /\ searches # 0
       /\ DOMAIN trees = 1 .. cfg.root_trees /\ t \in 1 .. cfg.root_trees
       /\ limit \in Nat \ {0} /\ limit <= Cap

\* What is carried is a sound tree; it is taken up only straight after its search.
CarryInv ==
  \A last \in carry :
    /\ last.turn \in Nat /\ last.action_count \in Nat
    /\ \/ pc = "chosen" /\ came = "searched" /\ last.turn = turn /\ last.action_count = action_count
       \/ pc = "choose" /\ (came = "straight" \/ ~take_for(last))
    /\ \A i \in 1 .. cfg.root_trees :
         LET kept == last.trees[i] n == kept.child[1] IN
         /\ Sound(kept.tree) /\ Covered(kept.tree, cfg.visited_set_backup, <<>>, {})
         /\ n \in DOMAIN kept.tree.nodes /\ kept.child[2] \in DOMAIN kept.tree.nodes[n]

\* Visits from before the search are those of a game that went straight here.
BaseInv ==
  Searching => came = "straight" \/ \A i \in DOMAIN trees : \A c \in Roots : trees[i].base[c] = 0

\* All trees of a search.
TreesInv == Searching => \A i \in DOMAIN trees : TreeInv(i)

\* The inductive invariant of the searches.
SearchInv == SearchTypes /\ TreesInv /\ LineInv /\ CarryInv /\ BaseInv

\* Tree y has what tree x has, with the visits x has.
Alike(x, y) ==
  /\ DOMAIN y = DOMAIN x
  /\ \A f \in DOMAIN x \ {"nodes", "table"} : y[f] = x[f]
  /\ DOMAIN x.nodes \subseteq DOMAIN y.nodes
  /\ \A n \in DOMAIN x.nodes : \A c \in DOMAIN x.nodes[n] :
       c \in DOMAIN y.nodes[n] /\ y.nodes[n][c].visits = x.nodes[n][c].visits

\* A tree that grew is alike.
LEMMA GrownIsAlike ==
  ASSUME NEW x, NEW y, Grown(x, y) PROVE Alike(x, y)
  BY DEF Grown, Alike

\* A tree whose keys were counted is alike.
LEMMA CountedIsAlike ==
  ASSUME NEW x, Sound(x), NEW n \in DOMAIN x.nodes, NEW keys
  PROVE  Alike(x, Count(x, n, keys))
  <1> DEFINE y == Count(x, n, keys)
  <1>1. /\ SameShape(x, y)
        /\ \A i \in DOMAIN x.nodes : \A c \in DOMAIN x.nodes[i] :
             y.nodes[i][c].visits = x.nodes[i][c].visits
    BY CountKeeps
  <1> HIDE DEF y
  <1>2. Alike(x, y)
    BY <1>1 DEF SameShape, Alike
  <1> QED BY <1>2 DEF y

\* Being alike is transitive.
LEMMA AlikeTwice ==
  ASSUME NEW x, NEW y, NEW z, Alike(x, y), Alike(y, z)
  PROVE  Alike(x, z)
  <1>1. DOMAIN z = DOMAIN x /\ \A f \in DOMAIN x \ {"nodes", "table"} : z[f] = x[f]
    BY DEF Alike
  <1>2. DOMAIN x.nodes \subseteq DOMAIN z.nodes
    BY DEF Alike
  <1>3. ASSUME NEW n \in DOMAIN x.nodes, NEW c \in DOMAIN x.nodes[n]
        PROVE  c \in DOMAIN z.nodes[n] /\ z.nodes[n][c].visits = x.nodes[n][c].visits
    BY <1>3 DEF Alike
  <1> QED BY <1>1, <1>2, <1>3 DEF Alike

\* A sound tree that is alike has the same counters.
LEMMA AlikeCounts ==
  ASSUME NEW x, NEW roots, NEW played, TreeTypes(x, roots), Counts(x, roots, played),
         NEW y, Alike(x, y), Sound(y)
  PROVE  TreeTypes(y, roots) /\ Counts(y, roots, played) /\ y.root = x.root
  <1>1. /\ y.root = x.root /\ y.base = x.base /\ y.picks = x.picks
        /\ y.worlds = x.worlds /\ y.done = x.done
    BY DEF Alike, TreeTypes
  <1>2. TreeTypes(y, roots)
    BY <1>1 DEF Alike, TreeTypes
  <1>3. \A c \in roots : y.nodes[y.root][c].visits = x.nodes[x.root][c].visits
    BY <1>1 DEF Alike, TreeTypes
  <1>4. Counts(y, roots, played)
    BY <1>1, <1>3 DEF Counts
  <1> QED BY <1>1, <1>2, <1>4

\* The iterations of a tree are a positive number, and they grow with the budget.
LEMMA PerTree ==
  ASSUME cfg \in Configs, SearchAssumption, NEW n \in Nat \ {0}, NEW e \in Nat
  PROVE  per_tree(n) \in Nat \ {0} /\ per_tree(n + e) \in Nat /\ per_tree(n) <= per_tree(n + e)
  <1> DEFINE r == cfg.root_trees
             a == n + r - 1
             b == n + e + r - 1
  <1>1. r \in Nat \ {0}
    BY DEF SearchAssumption
  <1>2. a \in Nat /\ b \in Nat /\ r <= a /\ a <= b
    BY <1>1
  <1>3. per_tree(n) = a \div r /\ per_tree(n + e) = b \div r
    BY DEF per_tree
  <1> HIDE DEF r, a, b
  <1>4. a \div r \in Nat /\ 1 <= a \div r /\ b \div r \in Nat
    BY <1>1, <1>2
  <1>5. a \div r <= b \div r
    BY <1>1, <1>2
  <1> QED BY <1>3, <1>4, <1>5

\* A search's budget is positive and within its cap.
LEMMA BudgetWithinCap ==
  ASSUME SearchTypes, SearchAssumption, NEW n \in 1 .. Len(Budgets)
  PROVE  /\ Budget(n) \in Nat \ {0}
         /\ LET cap == per_tree(Budgets[n] + IF here \in Targets THEN Extension ELSE 0)
            IN  cap \in Nat /\ Budget(n) <= cap
  <1> DEFINE e == IF here \in Targets THEN Extension ELSE 0
  <1>1. Budgets[n] \in Nat \ {0} /\ e \in Nat
    BY DEF SearchAssumption
  <1> HIDE DEF e
  <1>2. cfg \in Configs
    BY DEF SearchTypes
  <1>3. per_tree(Budgets[n]) \in Nat \ {0} /\ per_tree(Budgets[n] + e) \in Nat
        /\ per_tree(Budgets[n]) <= per_tree(Budgets[n] + e)
    BY <1>1, <1>2, PerTree
  <1> QED BY <1>3 DEF Budget, e

\* A tree that did not change, beside the one that did.
LEMMA OtherTree ==
  ASSUME SearchTypes, Searching, Searching', UNCHANGED <<cfg, here, limit, t>>,
         NEW i \in DOMAIN trees, i # t, TreeInv(i), trees'[i] = trees[i]
  PROVE  TreeInv(i)'
  <1>1. Roots' = Roots
    BY DEF Roots, Keys, child_key
  <1>2. (InLine /\ i = t) = FALSE /\ (InLine' /\ i = t') = FALSE
    OBVIOUS
  <1> QED BY <1>1, <1>2 DEF TreeInv

\* Tree y is g with one more pick of c, in that world.
Picked(g, y, c, world) ==
  /\ DOMAIN y = DOMAIN g /\ \A f \in DOMAIN g \ {"picks", "worlds"} : y[f] = g[f]
  /\ y.picks = [g.picks EXCEPT ![c] = g.picks[c] + 1]
  /\ world = g.nodes[g.root][c].visits - g.base[c]
  /\ y.worlds = IF world = g.worlds THEN g.worlds + 1 ELSE g.worlds

\* The last pick of c was in that world.
LastWorld(y, c, world) == world \in Nat /\ world + 1 = y.picks[c]

\* Picking a root move counts it, and draws its world when it is the next one.
LEMMA PickTree ==
  ASSUME NEW g, NEW roots, TreeTypes(g, roots), Counts(g, roots, {}), NEW c \in roots,
         NEW world, NEW y, Picked(g, y, c, world)
  PROVE  TreeTypes(y, roots) /\ Counts(y, roots, {c}) /\ LastWorld(y, c, world)
  <1> DEFINE P == [g.picks EXCEPT ![c] = @ + 1]
             W == IF world = g.worlds THEN g.worlds + 1 ELSE g.worlds
             v(d) == g.nodes[g.root][d].visits
  <1>1. /\ DOMAIN y = DOMAIN g /\ y.nodes = g.nodes /\ y.table = g.table /\ y.root = g.root
        /\ y.base = g.base /\ y.done = g.done /\ y.picks = P /\ y.worlds = W
    BY DEF TreeTypes, Sound, Picked
  <1>2. /\ g.picks \in [roots -> Nat] /\ g.base \in [roots -> Nat] /\ g.worlds \in Nat /\ g.done \in Nat
        /\ \A d \in roots : v(d) \in Nat
    <2>1. g.nodes \in Seq(Node) /\ g.root \in DOMAIN g.nodes /\ roots \subseteq DOMAIN g.nodes[g.root]
      BY DEF TreeTypes, Sound
    <2>2. g.nodes[g.root] \in Node
      BY <2>1
    <2> QED BY <2>1, <2>2, NodeIs DEF TreeTypes, Child
  <1>3. /\ P \in [roots -> Nat] /\ P[c] = g.picks[c] + 1
        /\ \A d \in roots : d # c => P[d] = g.picks[d]
    BY <1>2
  <1> HIDE DEF P, v
  <1>4. /\ \A d \in roots : v(d) = g.base[d] + g.picks[d] /\ g.picks[d] <= g.worlds /\ g.picks[d] <= g.done
        /\ 1 <= g.worlds /\ (g.worlds = 1 \/ g.worlds <= g.done)
    BY <1>2 DEF Counts, v
  <1>5. world = g.picks[c]
    BY <1>2, <1>4 DEF v, Picked
  <1>6. W \in Nat /\ g.picks[c] + 1 <= W /\ g.worlds <= W /\ (W = 1 \/ (1 <= W /\ W <= g.done + 1))
    <2>1. g.picks[c] \in Nat /\ g.picks[c] <= g.worlds /\ g.picks[c] <= g.done
      BY <1>2, <1>4
    <2>2. W = IF g.picks[c] = g.worlds THEN g.worlds + 1 ELSE g.worlds
      BY <1>5
    <2> HIDE DEF W
    <2> QED BY <1>2, <1>4, <2>1, <2>2
  <1> HIDE DEF W
  <1>7. Sound(y)
    BY <1>1 DEF TreeTypes, Sound
  <1>8. TreeTypes(y, roots)
    BY <1>1, <1>2, <1>3, <1>6, <1>7 DEF TreeTypes
  <1>9. ASSUME NEW d \in roots
        PROVE  /\ v(d) + (IF d \in {c} THEN 1 ELSE 0) = g.base[d] + P[d]
               /\ P[d] <= W /\ P[d] <= g.done + 1
    <2>1. g.base[d] \in Nat /\ g.picks[d] \in Nat /\ v(d) \in Nat
      BY <1>2
    <2>2. CASE d = c
      BY <1>2, <1>3, <1>4, <1>6, <2>1, <2>2
    <2>3. CASE d # c
      BY <1>2, <1>3, <1>4, <1>6, <2>1, <2>3
    <2> QED BY <2>2, <2>3
  <1>10. Counts(y, roots, {c})
    <2>1. Total(P) = g.done + 1
      <3>1. /\ g.picks \in [roots -> Int] /\ P \in [roots -> Int] /\ IsFiniteSet(roots)
            /\ \A d \in roots \ {c} : P[d] = g.picks[d]
        BY <1>2, <1>3 DEF TreeTypes
      <3>2. Total(P) = Total(g.picks) + P[c] - g.picks[c] /\ Total(g.picks) \in Int
        BY <3>1, TotalOfMore
      <3>3. Total(g.picks) = g.done + 0 /\ g.picks[c] \in Nat
        BY <1>2 DEF Counts
      <3> QED BY <1>2, <1>3, <3>2, <3>3
    <2> QED BY <1>1, <1>6, <1>9, <2>1 DEF Counts, v
  <1> QED BY <1>1, <1>2, <1>3, <1>5, <1>8, <1>10 DEF LastWorld

\* An iteration begins.
LEMMA IterateKeeps ==
  ASSUME SearchAssumption, SearchTypes, TreesInv, LineInv, Iterate
  PROVE  SearchTypes' /\ TreesInv' /\ LineInv' /\ (BaseInv => BaseInv')
  <1> DEFINE x    == trees[t]
             n    == x.root
             keys == Keys(here)
             tree == Count(x, n, keys)
             sets == cfg.visited_set_backup
  <1>1. PICK mv \in Options[here] :
          LET c     == child_key(here, mv)
              fresh == ChildOf(tree, n, c).visits = 0
              world == ChildOf(tree, n, c).visits - tree.base[c]
              grown == IF fresh \/ at' = "error" \/ cfg.transpositions THEN tree ELSE node_of(tree, n, c) IN
          /\ at' \in After[here][mv] \cup {"error"}
          /\ k' = world
          /\ path' = << <<n, c>> >>
          /\ pc' = IF fresh \/ at' \in Lines THEN "rollout" ELSE "walk"
          /\ trees' = [trees EXCEPT ![t] = [grown EXCEPT !.picks[c] = @ + 1,
                                             !.worlds = IF world = @ THEN @ + 1 ELSE @]]
          /\ node' = IF pc' = "walk" THEN ChildOf(grown, n, c).node ELSE 0
    BY DEF Iterate, Tree
  <1> DEFINE c     == child_key(here, mv)
             fresh == ChildOf(tree, n, c).visits = 0
             world == ChildOf(tree, n, c).visits - tree.base[c]
             grown == IF fresh \/ at' = "error" \/ cfg.transpositions THEN tree ELSE node_of(tree, n, c)
             y     == [grown EXCEPT !.picks[c] = @ + 1, !.worlds = IF world = @ THEN @ + 1 ELSE @]
  <1>2. /\ pc = "iterations" /\ pc' \in {"walk", "rollout"}
        /\ counted' = IF sets THEN {<<n, d>> : d \in keys} ELSE {}
        /\ UNCHANGED <<cfg, here, turn, action_count, came, searches, limit, t>>
    BY <1>1 DEF Iterate, Tree, game
  <1>3. Searching /\ ~InLine /\ Searching' /\ InLine'
    BY <1>2 DEF Searching, InLine
  <1>4. /\ TreeTypes(x, Roots) /\ Counts(x, Roots, {}) /\ Covered(x, sets, <<>>, {})
        /\ x.done < limit /\ t \in DOMAIN trees /\ path = <<>> /\ counted = {}
    BY <1>2, <1>3 DEF SearchTypes, TreesInv, TreeInv, LineInv
  <1>5. keys = Roots /\ c \in keys /\ keys \in SUBSET DOMAIN x.nodes[n] /\ n \in DOMAIN x.nodes /\ Sound(x)
    BY <1>4 DEF Roots, Keys, TreeTypes
  <1>6. Within(x, <<>>, {})
    BY DEF Within
  <1>7. counted' = IF sets THEN counted \cup {<<n, d>> : d \in keys} ELSE {}
    BY <1>2, <1>4
  <1>8. path' = Append(path, <<n, c>>)
    BY <1>1, <1>4
  <1> HIDE DEF n, keys, c
  <1>9. /\ Sound(tree) /\ Alike(x, tree)
        /\ Covered(tree, sets, path', counted') /\ Within(tree, path', counted')
    <2>1. Within(x, path, counted) /\ Covered(x, sets, path, counted)
      BY <1>4, <1>6
    <2>2. Covered(tree, sets, path', counted') /\ Within(tree, path', counted')
      BY <1>5, <1>7, <1>8, <2>1, CountCovers
    <2> QED BY <1>5, <2>2, CountKeeps, CountedIsAlike
  <1>10. n \in DOMAIN tree.nodes /\ c \in DOMAIN tree.nodes[n]
         /\ tree.nodes[n][c].visits = x.nodes[n][c].visits /\ tree.base = x.base
    BY <1>4, <1>5, <1>9 DEF Alike, TreeTypes
  <1> HIDE DEF tree, x
  <1>11. /\ Sound(grown) /\ Alike(tree, grown)
         /\ Covered(grown, sets, path', counted') /\ Within(grown, path', counted')
         /\ grown # tree => grown.nodes[n][c].node \in DOMAIN grown.nodes /\ n < grown.nodes[n][c].node
         /\ grown = tree \/ grown = node_of(tree, n, c)
    <2>1. CASE grown = tree
      BY <1>9, <2>1, GrownBare, GrownIsAlike
    <2>2. CASE grown = node_of(tree, n, c)
      <3>1. /\ Sound(grown) /\ Grown(tree, grown)
            /\ grown.nodes[n][c].node \in DOMAIN grown.nodes /\ n < grown.nodes[n][c].node
        BY <1>9, <1>10, <2>2, NodeOfGrows
      <3> HIDE DEF grown
      <3> QED BY <1>9, <2>2, <3>1, GrownCovered, GrownIsAlike
    <2> QED BY <2>1, <2>2
  <1>12. ~fresh /\ at' # "error" /\ ~cfg.transpositions =>
           grown.nodes[n][c].node \in DOMAIN grown.nodes /\ n < grown.nodes[n][c].node
    BY <1>9, <1>10, NodeOfGrows
  <1>13. /\ TreeTypes(grown, Roots) /\ Counts(grown, Roots, {}) /\ grown.root = x.root
         /\ grown.done = x.done /\ grown.base = x.base
         /\ world = grown.nodes[grown.root][c].visits - grown.base[c]
    <2> HIDE DEF grown
    <2>1. Alike(x, grown)
      BY <1>9, <1>11, AlikeTwice
    <2>2. /\ TreeTypes(grown, Roots) /\ Counts(grown, Roots, {}) /\ grown.root = x.root
      BY <1>4, <1>11, <2>1, AlikeCounts
    <2>3. grown.done = x.done /\ grown.base = x.base
      BY <1>4, <2>1 DEF Alike, TreeTypes
    <2>4. grown.nodes[n][c].visits = tree.nodes[n][c].visits
      BY <1>10, <1>11 DEF Alike
    <2> QED BY <1>10, <2>2, <2>3, <2>4 DEF ChildOf, n
  <1> HIDE DEF world, fresh, grown
  <1>14. /\ TreeTypes(y, Roots) /\ Counts(y, Roots, {c})
         /\ y.nodes = grown.nodes /\ y.root = x.root /\ y.done = x.done /\ y.base = x.base
         /\ world \in Nat /\ world + 1 = y.picks[c]
    <2>1. Picked(grown, y, c, world)
      BY <1>13 DEF TreeTypes, Picked
    <2>2. c \in Roots
      BY <1>5
    <2> HIDE DEF y
    <2>3. TreeTypes(y, Roots) /\ Counts(y, Roots, {c}) /\ LastWorld(y, c, world)
      BY <1>13, <2>1, <2>2, PickTree
    <2>4. y.nodes = grown.nodes /\ y.root = grown.root /\ y.done = grown.done /\ y.base = grown.base
      BY <1>13, <2>1 DEF Picked, TreeTypes, Sound
    <2> QED BY <1>13, <2>3, <2>4 DEF LastWorld
  <1> HIDE DEF y
  <1>15. DOMAIN trees' = DOMAIN trees /\ trees'[t] = y /\ \A i \in DOMAIN trees : i # t => trees'[i] = trees[i]
    BY <1>1, <1>4 DEF y, grown, world, fresh, c
  <1>16. Roots' = Roots /\ path' # <<>> /\ path'[1] = <<n, c>> /\ DOMAIN path' = {1}
    <2>1. Roots' = Roots
      BY <1>2 DEF Roots, Keys, child_key
    <2>2. path' = << <<n, c>> >>
      BY <1>1 DEF c
    <2> QED BY <2>1, <2>2
  <1>17. SearchTypes'
    BY <1>2, <1>3, <1>15 DEF SearchTypes, Cap, per_tree
  <1>18. TreesInv'
    <2>1. ASSUME NEW i \in DOMAIN trees PROVE TreeInv(i)'
      <3>1. CASE i = t
        <4>1. Covered(y, sets, path', counted')
          BY <1>11, <1>14 DEF Covered
        <4>2. y.done < limit /\ y.done <= limit
          BY <1>3, <1>4, <1>14 DEF SearchTypes, TreeTypes
        <4>3. trees'[i] = y /\ InLine' /\ i = t' /\ path'[1][2] = c
          BY <1>2, <1>3, <1>15, <1>16, <3>1
        <4> QED BY <1>2, <1>14, <1>16, <4>1, <4>2, <4>3 DEF TreeInv
      <3>2. CASE i # t
        <4>1. TreeInv(i)
          BY <1>3 DEF TreesInv
        <4> QED BY <1>2, <1>3, <1>15, <3>2, <4>1, OtherTree
      <3> QED BY <3>1, <3>2
    <2> QED BY <1>15, <2>1 DEF TreesInv
  <1>19. LineInv'
    <2>1. Within(y, path', counted')
      BY <1>11, <1>14 DEF Within
    <2>2. Tree' = y
      BY <1>2, <1>15 DEF Tree
    <2>3. sets => \A j \in DOMAIN path' : path'[j] \in counted'
      BY <1>2, <1>5, <1>16
    <2>4. k' + 1 = y.picks[c] /\ k' \in Nat
      BY <1>1, <1>14 DEF world, c
    <2>5. ASSUME pc' = "walk"
          PROVE  at' \in Positions /\ (~cfg.transpositions => node' \in DOMAIN y.nodes /\ y.root < node')
      <3>1. ~fresh /\ at' \notin Lines /\ node' = grown.nodes[n][c].node
        BY <1>1, <2>5 DEF fresh, c, grown, ChildOf
      <3>2. at' # "error" /\ at' # "end"
        BY <3>1 DEF Lines
      <3>3. at' \in Positions
        BY <1>1, <3>2 DEF SearchAssumption, SearchTypes
      <3> QED BY <1>12, <1>14, <3>1, <3>2, <3>3 DEF n
    <2>6. path'[1][1] = y.root /\ path'[1][2] \in Roots' /\ path'[1][2] = c
      BY <1>5, <1>14, <1>16 DEF n
    <2> QED BY <1>2, <1>3, <1>16, <2>1, <2>2, <2>3, <2>4, <2>5, <2>6 DEF LineInv
  <1>20. BaseInv => BaseInv'
    BY <1>2, <1>3, <1>14, <1>15, <1>16 DEF BaseInv, x
  <1> QED BY <1>17, <1>18, <1>19, <1>20

\* A line goes on in a tree with what it had.
LEMMA LineGoesOn ==
  ASSUME SearchTypes, TreesInv, LineInv, pc \in {"walk", "rollout"}, pc' \in {"walk", "rollout"},
         UNCHANGED <<cfg, here, turn, action_count, came, searches, limit, t>>,
         NEW y, trees' = [trees EXCEPT ![t] = y], Sound(y), Alike(Tree, y),
         path'[1] = path[1], Covered(y, cfg.visited_set_backup, path', counted')
  PROVE  /\ SearchTypes' /\ TreesInv' /\ (BaseInv => BaseInv')
         /\ Tree' = y /\ y.root = Tree.root /\ y.picks = Tree.picks /\ Roots' = Roots
  <1> DEFINE x == trees[t]
             sets == cfg.visited_set_backup
             c == path[1][2]
  <1>1. Searching /\ InLine /\ Searching' /\ InLine'
    BY DEF Searching, InLine
  <1>2. /\ TreeTypes(x, Roots) /\ Counts(x, Roots, {c})
        /\ x.done < limit /\ x.done <= limit /\ t \in DOMAIN trees
    <2>1. t \in DOMAIN trees /\ TreeInv(t)
      BY <1>1 DEF SearchTypes, TreesInv
    <2> QED BY <1>1, <2>1 DEF TreeInv
  <1>3. Alike(x, y)
    BY DEF Tree
  <1> HIDE DEF x
  <1>4. TreeTypes(y, Roots) /\ Counts(y, Roots, {c}) /\ y.root = x.root
    BY <1>2, <1>3, AlikeCounts
  <1>5. y.done = x.done /\ y.base = x.base /\ y.picks = x.picks
    BY <1>2, <1>3 DEF Alike, TreeTypes
  <1>6. DOMAIN trees' = DOMAIN trees /\ trees'[t] = y /\ \A i \in DOMAIN trees : i # t => trees'[i] = trees[i]
    BY <1>2
  <1>7. Roots' = Roots /\ path'[1][2] = c
    BY DEF Roots, Keys, child_key
  <1> HIDE DEF c
  <1>8. SearchTypes'
    BY <1>1, <1>6 DEF SearchTypes, Cap, per_tree
  <1>9. TreesInv'
    <2>1. ASSUME NEW i \in DOMAIN trees PROVE TreeInv(i)'
      <3>1. CASE i = t
        <4>1. trees'[i] = y /\ InLine' /\ i = t'
          BY <1>1, <1>6, <3>1
        <4> QED BY <1>2, <1>4, <1>5, <1>7, <4>1 DEF TreeInv
      <3>2. CASE i # t
        <4>1. TreeInv(i)
          BY <1>1 DEF TreesInv
        <4> QED BY <1>1, <1>6, <3>2, <4>1, OtherTree
      <3> QED BY <3>1, <3>2
    <2> QED BY <1>6, <2>1 DEF TreesInv
  <1>10. BaseInv => BaseInv'
    BY <1>1, <1>5, <1>6, <1>7 DEF BaseInv, x
  <1> QED BY <1>4, <1>5, <1>6, <1>7, <1>8, <1>9, <1>10 DEF Tree, x

\* A path with a step more.
LEMMA LongerPath ==
  ASSUME NEW p \in Seq(Nat \X AllKeys), p # <<>>, NEW e \in Nat \X AllKeys
  PROVE  LET q == Append(p, e) IN
         /\ Len(p) \in Nat /\ 1 \in DOMAIN p
         /\ DOMAIN q = DOMAIN p \cup {Len(p) + 1} /\ q[1] = p[1] /\ q # <<>>
         /\ q[Len(p) + 1] = e /\ \A j \in DOMAIN p : q[j] = p[j]
  <1> DEFINE q == Append(p, e)
             L == Len(p)
  <1>1. /\ L \in Nat /\ DOMAIN p = 1 .. L /\ DOMAIN q = 1 .. L + 1
        /\ q[L + 1] = e /\ \A j \in 1 .. L : q[j] = p[j]
    OBVIOUS
  <1>2. L # 0
    OBVIOUS
  <1>3. q # <<>>
    BY <1>1
  <1> HIDE DEF q, L
  <1>4. 1 \in 1 .. L /\ 1 .. L + 1 = (1 .. L) \cup {L + 1}
    BY <1>1, <1>2
  <1> QED BY <1>1, <1>3, <1>4 DEF q, L

\* One decision of the walk, at a node that is not the root.
LEMMA StepKeeps ==
  ASSUME SearchAssumption, SearchTypes, TreesInv, LineInv, pc = "walk",
         UNCHANGED <<cfg, here, turn, action_count, came, searches, limit, t, k>>,
         NEW z, Sound(z), Grown(Tree, z), NEW n \in DOMAIN z.nodes, n # Tree.root,
         ~cfg.transpositions => Tree.root < n, Step(z, n)
  PROVE  SearchTypes' /\ TreesInv' /\ LineInv' /\ (BaseInv => BaseInv')
  <1> DEFINE keys == Keys(at)
             y1   == priors(z, n, keys)
             full == Count(y1, n, keys)
             sets == cfg.visited_set_backup
  <1>1. PICK mv \in Options[at] :
          LET c     == child_key(at, mv)
              fresh == ChildOf(full, n, c).visits = 0
              stays == cfg.transpositions \/ (cfg.observation_keys /\ unobserved_pass(at, mv))
              grown == IF fresh \/ stays \/ at' = "error" THEN full ELSE node_of(full, n, c) IN
          /\ at' \in After[at][mv] \cup {"error"}
          /\ path' = Append(path, <<n, c>>)
          /\ counted' = IF sets THEN counted \cup {<<n, d>> : d \in keys} ELSE {}
          /\ pc' = IF fresh \/ at' \in Lines THEN "rollout" ELSE "walk"
          /\ trees' = [trees EXCEPT ![t] = grown]
          /\ node' = IF pc' # "walk" \/ cfg.transpositions THEN 0
                     ELSE IF stays THEN n ELSE ChildOf(grown, n, c).node
    BY DEF Step
  <1> DEFINE c     == child_key(at, mv)
             fresh == ChildOf(full, n, c).visits = 0
             stays == cfg.transpositions \/ (cfg.observation_keys /\ unobserved_pass(at, mv))
             grown == IF fresh \/ stays \/ at' = "error" THEN full ELSE node_of(full, n, c)
  <1>2. /\ InLine /\ at \in Positions /\ keys \in SUBSET AllKeys /\ c \in keys
        /\ path # <<>> /\ path[1][1] = Tree.root /\ path[1][2] \in Roots
        /\ Within(Tree, path, counted) /\ Covered(Tree, sets, path, counted)
    <2>1. InLine /\ Searching
      BY DEF InLine, Searching
    <2>2. at \in Positions
      BY DEF LineInv
    <2>3. t \in DOMAIN trees /\ TreeInv(t)
      BY <2>1 DEF SearchTypes, TreesInv
    <2>4. Covered(Tree, sets, path, counted)
      BY <2>1, <2>3 DEF TreeInv, Tree
    <2>5. c \in keys
      BY DEF Keys
    <2>6. keys \subseteq AllKeys
      BY <2>2, KeysAreKeys
    <2> QED BY <2>1, <2>2, <2>4, <2>5, <2>6 DEF LineInv
  <1> HIDE DEF keys, c, y1
  <1>3. Covered(z, sets, path, counted) /\ Within(z, path, counted)
    BY <1>2, GrownCovered
  <1>4. /\ Sound(y1) /\ Grown(z, y1) /\ keys \subseteq DOMAIN y1.nodes[n] /\ n \in DOMAIN y1.nodes
    BY <1>2, PriorsGrow DEF y1
  <1>5. Covered(y1, sets, path, counted) /\ Within(y1, path, counted)
    BY <1>3, <1>4, GrownCovered
  <1>6. /\ Sound(full) /\ Alike(y1, full)
        /\ Covered(full, sets, path', counted') /\ Within(full, path', counted')
    <2>1. counted' = IF sets THEN counted \cup {<<n, d>> : d \in keys} ELSE {}
      BY <1>1
    <2>2. path' = Append(path, <<n, c>>)
      BY <1>1 DEF c
    <2>3. Covered(full, sets, path', counted') /\ Within(full, path', counted')
      BY <1>2, <1>4, <1>5, <2>1, <2>2, CountCovers
    <2> QED BY <1>4, <2>3, CountKeeps, CountedIsAlike
  <1>7. n \in DOMAIN full.nodes /\ c \in DOMAIN full.nodes[n]
    BY <1>2, <1>4, <1>6 DEF Alike
  <1> HIDE DEF full
  <1>8. node_of(full, n, c).nodes[n][c].node \in DOMAIN node_of(full, n, c).nodes
        /\ n < node_of(full, n, c).nodes[n][c].node
    BY <1>6, <1>7, NodeOfGrows
  <1>9. /\ Sound(grown) /\ Alike(full, grown) /\ n \in DOMAIN grown.nodes
        /\ Covered(grown, sets, path', counted') /\ Within(grown, path', counted')
    <2>1. CASE grown = full
      BY <1>6, <1>7, <2>1, GrownBare, GrownIsAlike
    <2>2. CASE grown = node_of(full, n, c)
      <3>1. Sound(grown) /\ Grown(full, grown)
        BY <1>6, <1>7, <2>2, NodeOfGrows
      <3> HIDE DEF grown
      <3> QED BY <1>6, <1>7, <3>1, GrownCovered, GrownIsAlike DEF Alike
    <2> QED BY <2>1, <2>2
  <1>10. /\ trees' = [trees EXCEPT ![t] = grown] /\ path' = Append(path, <<n, c>>)
         /\ pc' = IF fresh \/ at' \in Lines THEN "rollout" ELSE "walk"
         /\ node' = IF pc' # "walk" \/ cfg.transpositions THEN 0
                    ELSE IF stays THEN n ELSE ChildOf(grown, n, c).node
         /\ ~fresh /\ ~stays /\ at' # "error" => grown = node_of(full, n, c)
    BY <1>1 DEF c, full, y1, keys
  <1>11. cfg.transpositions => stays
    OBVIOUS
  <1> HIDE DEF grown, fresh, stays
  <1>12. Alike(Tree, grown)
    <2>1. Alike(Tree, z) /\ Alike(z, y1)
      BY <1>4, GrownIsAlike
    <2> QED BY <1>6, <1>9, <2>1, AlikeTwice
  <1>13. /\ path \in Seq(Nat \X AllKeys) /\ Len(path) \in Nat /\ 1 \in DOMAIN path
         /\ DOMAIN path' = DOMAIN path \cup {Len(path) + 1} /\ path'[1] = path[1] /\ path' # <<>>
         /\ path'[Len(path) + 1] = <<n, c>> /\ \A j \in DOMAIN path : path'[j] = path[j]
    <2>1. path \in Seq(Nat \X AllKeys) /\ <<n, c>> \in Nat \X AllKeys
      <3>1. n \in Nat
        BY <1>4 DEF Sound
      <3> QED BY <1>2, <3>1 DEF Within
    <2>2. path' = Append(path, <<n, c>>)
      BY <1>10
    <2> QED BY <1>2, <2>1, <2>2, LongerPath
  <1>14. pc' \in {"walk", "rollout"}
    BY <1>10
  <1>15. /\ SearchTypes' /\ TreesInv' /\ (BaseInv => BaseInv')
         /\ Tree' = grown /\ grown.root = Tree.root /\ grown.picks = Tree.picks /\ Roots' = Roots
    BY <1>9, <1>10, <1>12, <1>13, <1>14, LineGoesOn
  <1>16. LineInv'
    <2>1. \A j \in DOMAIN path' : path'[j][1] = grown.root => j = 1
      BY <1>2, <1>13, <1>15 DEF LineInv
    <2>2. sets => \A j \in DOMAIN path' : path'[j] \in counted'
      BY <1>1, <1>2, <1>13 DEF LineInv
    <2>3. k' + 1 = grown.picks[path'[1][2]] /\ k' \in Nat
      BY <1>2, <1>13, <1>15 DEF LineInv
    <2>4. ASSUME pc' = "walk"
          PROVE  at' \in Positions /\ (~cfg.transpositions => node' \in DOMAIN grown.nodes /\ grown.root < node')
      <3>1. ~fresh /\ at' \notin Lines
        BY <1>10, <2>4
      <3>2. at' # "error" /\ at' # "end"
        BY <3>1 DEF Lines
      <3>3. at' \in Positions
        BY <1>1, <1>2, <3>2 DEF SearchAssumption
      <3>4. ASSUME ~cfg.transpositions PROVE node' \in DOMAIN grown.nodes /\ grown.root < node'
        <4>1. CASE stays
          BY <1>9, <1>10, <1>15, <2>4, <3>4, <4>1
        <4>2. CASE ~stays
          <5>1. node' = node_of(full, n, c).nodes[n][c].node /\ grown = node_of(full, n, c)
            BY <1>10, <2>4, <3>1, <3>2, <3>4, <4>2 DEF ChildOf
          <5>2. grown.root < n
            BY <1>15, <3>4
          <5>3. node' \in DOMAIN grown.nodes /\ n < node'
            BY <1>8, <5>1
          <5>4. grown.root \in Nat /\ n \in Nat /\ node' \in Nat
            <6>1. DOMAIN grown.nodes \subseteq Nat
              BY <1>9 DEF Sound
            <6>2. Tree.root \in DOMAIN Tree.nodes
              BY <1>2, <1>13 DEF Within
            <6> QED BY <1>9, <1>12, <1>15, <5>3, <6>1, <6>2 DEF Alike
          <5> QED BY <5>2, <5>3, <5>4
        <4> QED BY <4>1, <4>2
      <3> QED BY <3>3, <3>4
    <2>5. InLine'
      BY <1>14 DEF InLine
    <2> QED BY <1>2, <1>9, <1>13, <1>15, <2>1, <2>2, <2>3, <2>4, <2>5 DEF LineInv
  <1> QED BY <1>15, <1>16

\* The walk goes on, or ends at a node it was at.
LEMMA WalkKeeps ==
  ASSUME SearchAssumption, SearchTypes, TreesInv, LineInv, Walk
  PROVE  SearchTypes' /\ TreesInv' /\ LineInv' /\ (BaseInv => BaseInv')
  <1>1. pc = "walk" /\ UNCHANGED <<cfg, here, turn, action_count, came, searches, limit, t, k>>
    BY DEF Walk, game
  <1>2. InLine /\ Searching /\ t \in DOMAIN trees
    BY <1>1 DEF InLine, Searching, SearchTypes
  <1>3. TreeTypes(Tree, Roots) /\ Sound(Tree) /\ Covered(Tree, cfg.visited_set_backup, path, counted)
        /\ Within(Tree, path, counted)
    <2>1. TreeInv(t)
      BY <1>2 DEF TreesInv
    <2> QED BY <1>2, <2>1 DEF TreeInv, Tree, TreeTypes, LineInv
  <1>4. CASE ~cfg.transpositions
    <2>1. Step(Tree, node)
      BY <1>4 DEF Walk
    <2>2. node \in DOMAIN Tree.nodes /\ Tree.root < node
      BY <1>1, <1>4 DEF LineInv
    <2>3. node # Tree.root
      <3>1. node \in Nat /\ Tree.root \in Nat
        BY <1>3, <2>2 DEF Sound, TreeTypes
      <3> QED BY <2>2, <3>1
    <2> QED BY <1>1, <1>3, <2>1, <2>2, <2>3, GrownBare, StepKeeps
  <1>5. CASE cfg.transpositions
    <2> DEFINE tree == transposed(Tree, at)
               n    == tree.table[at]
    <2>1. Sound(tree) /\ Grown(Tree, tree) /\ n \in DOMAIN tree.nodes
      <3>1. Sound(tree) /\ Grown(Tree, tree) /\ at \in DOMAIN tree.table
        BY <1>3, TransposedGrows
      <3> HIDE DEF tree
      <3> QED BY <3>1 DEF Sound
    <2>2. CASE Ends(n)
      <3>1. /\ trees' = [trees EXCEPT ![t] = tree] /\ pc' = "rollout"
            /\ UNCHANGED <<at, node, path, walked, counted>>
        BY <1>5, <2>2 DEF Walk
      <3> HIDE DEF tree
      <3>2. Covered(tree, cfg.visited_set_backup, path', counted') /\ Within(tree, path', counted')
        BY <1>3, <2>1, <3>1, GrownCovered
      <3>3. Alike(Tree, tree)
        BY <2>1, GrownIsAlike
      <3>4. /\ SearchTypes' /\ TreesInv' /\ (BaseInv => BaseInv')
            /\ Tree' = tree /\ tree.root = Tree.root /\ tree.picks = Tree.picks /\ Roots' = Roots
        BY <1>1, <2>1, <3>1, <3>2, <3>3, LineGoesOn
      <3>5. LineInv'
        BY <1>1, <1>2, <3>1, <3>2, <3>4 DEF LineInv, InLine
      <3> QED BY <3>4, <3>5
    <2>3. CASE ~Ends(n)
      <3>1. Step(tree, n)
        BY <1>5, <2>3 DEF Walk
      <3>2. n # Tree.root
        BY <2>3 DEF Ends
      <3> HIDE DEF tree, n
      <3> QED BY <1>1, <1>5, <2>1, <3>1, <3>2, StepKeeps
    <2> QED BY <2>2, <2>3
  <1> QED BY <1>4, <1>5

\* The root move of a line is the only child of the root it went through.
LEMMA RootOnce ==
  ASSUME LineInv, InLine
  PROVE  /\ \A ch : Gains(ch) \in Nat
         /\ \A ch : Gains(ch) = IF cfg.visited_set_backup THEN 1 ELSE Occurrences(path, ch)
         /\ \A c : Contains(path, <<Tree.root, c>>) <=> c = path[1][2]
         /\ Gains(<<Tree.root, path[1][2]>>) = 1
         /\ \A ch : Contains(path, ch) /\ cfg.visited_set_backup => ch \in counted
  <1> DEFINE c1 == path[1][2]
             root == Tree.root
  <1>1. /\ path \in Seq(Nat \X AllKeys) /\ DOMAIN path = 1 .. Len(path) /\ Len(path) \in Nat
        /\ 1 \in DOMAIN path /\ path[1] = <<root, c1>>
        /\ \A j \in DOMAIN path : path[j][1] = root => j = 1
    <2>1. path \in Seq(Nat \X AllKeys) /\ path # <<>> /\ path[1][1] = root
      BY DEF LineInv, Within
    <2>2. 1 \in DOMAIN path
      <3>1. Len(path) \in Nat /\ Len(path) # 0 /\ DOMAIN path = 1 .. Len(path)
        BY <2>1
      <3> QED BY <3>1
    <2>3. path[1] \in Nat \X AllKeys
      BY <2>1, <2>2
    <2> QED BY <2>1, <2>2, <2>3 DEF LineInv
  <1>2. \A ch : Contains(path, ch) <=> \E j \in DOMAIN path : path[j] = ch
    BY <1>1 DEF Contains
  <1>3. \A ch : Gains(ch) = IF cfg.visited_set_backup THEN 1 ELSE Occurrences(path, ch)
    BY DEF Gains, Occurrences
  <1>4. \A ch : Gains(ch) \in Nat
    BY <1>1, <1>3, OccurrencesCount
  <1> HIDE DEF c1, root
  <1>5. ASSUME NEW c, NEW j \in DOMAIN path, path[j] = <<root, c>> PROVE j = 1 /\ c = c1
    BY <1>1, <1>5
  <1>6. \A c : Contains(path, <<root, c>>) <=> c = c1
    <2>1. ASSUME NEW c, Contains(path, <<root, c>>) PROVE c = c1
      <3>1. PICK j \in DOMAIN path : path[j] = <<root, c>>
        BY <1>2, <2>1, Zenon
      <3> QED BY <1>5, <3>1
    <2>2. Contains(path, <<root, c1>>)
      BY <1>1, <1>2, Zenon
    <2> QED BY <2>1, <2>2
  <1>7. Occurrences(path, <<root, c1>>) = 1
    BY <1>1, <1>5, OccurrencesCount
  <1>8. \A ch : Contains(path, ch) /\ cfg.visited_set_backup => ch \in counted
    BY <1>2 DEF LineInv
  <1> QED BY <1>3, <1>4, <1>6, <1>7, <1>8 DEF c1, root

\* The backup pays what the line owes.
LEMMA BackupPays ==
  ASSUME LineInv, InLine, NEW x, Sound(x), Covered(x, cfg.visited_set_backup, path, counted),
         Within(x, path, counted)
  PROVE  Covered(backup(x), cfg.visited_set_backup, <<>>, {})
  <1> DEFINE y == backup(x)
             sets == cfg.visited_set_backup
  <1>1. /\ SameShape(x, y)
        /\ \A i \in DOMAIN x.nodes : \A c \in DOMAIN x.nodes[i] :
             /\ y.nodes[i][c].avail = x.nodes[i][c].avail
             /\ y.nodes[i][c].visits =
                  x.nodes[i][c].visits + IF Contains(path, <<i, c>>) THEN Gains(<<i, c>>) ELSE 0
    BY RootOnce, BackupKeeps
  <1> HIDE DEF y
  <1>2. ASSUME NEW i \in DOMAIN x.nodes, NEW c \in DOMAIN x.nodes[i]
        PROVE  y.nodes[i][c].visits + Owed(sets, <<>>, {}, <<i, c>>) <= y.nodes[i][c].avail
    <2> DEFINE v == x.nodes[i][c].visits
               a == x.nodes[i][c].avail
               o == Owed(sets, path, counted, <<i, c>>)
               g == IF Contains(path, <<i, c>>) THEN Gains(<<i, c>>) ELSE 0
    <2>1. v \in Nat /\ a \in Nat
      <3>1. x.nodes[i] \in Node
        BY DEF Sound
      <3> QED BY <3>1, NodeIs DEF Child
    <2>2. o \in Nat /\ v + o <= a
      BY OwedType DEF Covered
    <2>3. Owed(sets, <<>>, {}, <<i, c>>) = 0
      <3>1. <<>> \in Seq(Nat) /\ DOMAIN <<>> = {}
        OBVIOUS
      <3>2. Occurrences(<<>>, <<i, c>>) = 0
        BY <3>1, OccurrencesCount
      <3> QED BY <3>2 DEF Owed
    <2>4. g \in Nat /\ g <= o
      <3>1. CASE ~Contains(path, <<i, c>>)
        BY <2>2, <3>1
      <3>2. CASE Contains(path, <<i, c>>)
        <4>1. g = Gains(<<i, c>>) /\ Gains(<<i, c>>) \in Nat
          BY <3>2, RootOnce
        <4>2. Gains(<<i, c>>) = o
          <5>1. sets => <<i, c>> \in counted
            BY <3>2, RootOnce
          <5>2. Gains(<<i, c>>) = IF sets THEN 1 ELSE Occurrences(path, <<i, c>>)
            BY RootOnce
          <5> QED BY <5>1, <5>2 DEF Owed
        <4> HIDE DEF g, o
        <4> QED BY <2>2, <4>1, <4>2
      <3> QED BY <3>1, <3>2
    <2>5. y.nodes[i][c].visits = v + g /\ y.nodes[i][c].avail = a
      BY <1>1
    <2> HIDE DEF v, a, o, g
    <2> QED BY <2>1, <2>2, <2>3, <2>4, <2>5
  <1> QED BY <1>1, <1>2 DEF Covered, SameShape, y

\* An iteration ends: one more is done, and one visit more is at the root.
LEMMA RolloutKeeps ==
  ASSUME SearchTypes, TreesInv, LineInv, Rollout
  PROVE  SearchTypes' /\ TreesInv' /\ LineInv' /\ (BaseInv => BaseInv')
  <1> DEFINE x    == trees[t]
             b    == backup(x)
             y    == [b EXCEPT !.done = @ + 1]
             sets == cfg.visited_set_backup
             c1   == path[1][2]
             done == y.done = limit \/ settled(RootVisits(y), limit - y.done)
  <1>1. /\ pc = "rollout" /\ trees' = [trees EXCEPT ![t] = y]
        /\ pc' = IF done THEN "advanced" ELSE "iterations"
        /\ path' = <<>> /\ counted' = {}
        /\ UNCHANGED <<cfg, here, turn, action_count, came, searches, limit, t>>
    BY DEF Rollout, LineOver, game, Tree
  <1>2. y.done # limit \/ pc' = "advanced"
    BY <1>1
  <1> HIDE DEF done
  <1>3. InLine /\ Searching /\ ~InLine' /\ Searching' /\ t \in DOMAIN trees
    BY <1>1 DEF InLine, Searching, SearchTypes
  <1>4. /\ TreeTypes(x, Roots) /\ Counts(x, Roots, {c1}) /\ Covered(x, sets, path, counted)
        /\ x.done < limit /\ Within(x, path, counted) /\ Sound(x) /\ c1 \in Roots
    <2>1. TreeInv(t)
      BY <1>3 DEF TreesInv
    <2> QED BY <1>1, <1>3, <2>1 DEF TreeInv, LineInv, Tree, TreeTypes
  <1>5. /\ Sound(b) /\ SameShape(x, b)
        /\ \A i \in DOMAIN x.nodes : \A c \in DOMAIN x.nodes[i] :
             b.nodes[i][c].visits =
               x.nodes[i][c].visits + IF Contains(path, <<i, c>>) THEN Gains(<<i, c>>) ELSE 0
    BY <1>3, <1>4, RootOnce, BackupKeeps
  <1>6. Covered(b, sets, <<>>, {})
    BY <1>3, <1>4, BackupPays
  <1>7. \A c \in Roots :
          b.nodes[x.root][c].visits = x.nodes[x.root][c].visits + IF c = c1 THEN 1 ELSE 0
    <2>1. x.root \in DOMAIN x.nodes /\ Roots \subseteq DOMAIN x.nodes[x.root]
      BY <1>4 DEF TreeTypes
    <2>2. \A c : (Contains(path, <<x.root, c>>) <=> c = c1) /\ Gains(<<x.root, c1>>) = 1
      BY <1>3, RootOnce DEF Tree
    <2> QED BY <1>5, <2>1, <2>2
  <1> HIDE DEF b, x
  <1>8. /\ DOMAIN y = DOMAIN b /\ y.nodes = b.nodes /\ y.table = b.table /\ y.root = x.root
        /\ y.base = x.base /\ y.picks = x.picks /\ y.worlds = x.worlds /\ y.done = x.done + 1
        /\ DOMAIN b = DOMAIN x /\ DOMAIN b.nodes = DOMAIN x.nodes
        /\ \A i \in DOMAIN x.nodes : DOMAIN b.nodes[i] = DOMAIN x.nodes[i]
    BY <1>4, <1>5 DEF SameShape, TreeTypes, Sound
  <1> HIDE DEF y, c1
  <1>9. Sound(y) /\ Covered(y, sets, <<>>, {})
    BY <1>5, <1>6, <1>8 DEF Sound, Covered
  <1>10. TreeTypes(y, Roots)
    BY <1>4, <1>8, <1>9 DEF TreeTypes
  <1>11. Counts(y, Roots, {})
    <2>1. /\ x.picks \in [Roots -> Nat] /\ x.base \in [Roots -> Nat] /\ x.done \in Nat /\ x.worlds \in Nat
          /\ \A c \in Roots : x.nodes[x.root][c].visits \in Nat
      <3>1. x.nodes[x.root] \in Node /\ Roots \subseteq DOMAIN x.nodes[x.root]
        BY <1>4 DEF TreeTypes, Sound
      <3> QED BY <1>4, <3>1, NodeIs DEF TreeTypes, Child
    <2>2. ASSUME NEW c \in Roots
          PROVE  /\ y.nodes[y.root][c].visits + 0 = y.base[c] + y.picks[c]
                 /\ y.picks[c] <= y.worlds /\ y.picks[c] <= y.done + 0
      <3> DEFINE v == x.nodes[x.root][c].visits
                 one == IF c = c1 THEN 1 ELSE 0
      <3>1. /\ v \in Nat /\ x.picks[c] \in Nat /\ x.base[c] \in Nat
            /\ v + one = x.base[c] + x.picks[c]
            /\ x.picks[c] <= x.worlds /\ x.picks[c] <= x.done + 1
        BY <1>4, <2>1 DEF Counts
      <3>2. y.nodes[y.root][c].visits = v + one /\ one \in Nat
        BY <1>7, <1>8
      <3> HIDE DEF v, one
      <3> QED BY <1>8, <2>1, <3>1, <3>2
    <2>3. y.worlds = 1 \/ (1 <= y.worlds /\ y.worlds <= y.done + 0)
      BY <1>4, <1>8, <2>1 DEF Counts
    <2>4. Total(y.picks) = y.done + 0
      BY <1>4, <1>8, <2>1 DEF Counts
    <2> QED BY <2>2, <2>3, <2>4 DEF Counts
  <1>12. y.done <= limit /\ (pc' # "advanced" => y.done < limit)
    BY <1>2, <1>3, <1>4, <1>8 DEF SearchTypes, TreeTypes
  <1>13. DOMAIN trees' = DOMAIN trees /\ trees'[t] = y /\ \A i \in DOMAIN trees : i # t => trees'[i] = trees[i]
    BY <1>1, <1>3 DEF y, b, x
  <1>14. Roots' = Roots
    BY <1>1 DEF Roots, Keys, child_key
  <1>15. SearchTypes'
    BY <1>1, <1>3, <1>13 DEF SearchTypes, Cap, per_tree
  <1>16. TreesInv'
    <2>1. ASSUME NEW i \in DOMAIN trees PROVE TreeInv(i)'
      <3>1. CASE i = t
        <4>1. trees'[i] = y /\ ~InLine' /\ i = t'
          BY <1>1, <1>3, <1>13, <3>1
        <4>2. ~(i > t')
          BY <1>3, <4>1 DEF SearchTypes
        <4> QED BY <1>1, <1>9, <1>10, <1>11, <1>12, <1>14, <4>1, <4>2 DEF TreeInv
      <3>2. CASE i # t
        <4>1. TreeInv(i)
          BY <1>3 DEF TreesInv
        <4> QED BY <1>1, <1>3, <1>13, <3>2, <4>1, OtherTree
      <3> QED BY <3>1, <3>2
    <2> QED BY <1>13, <2>1 DEF TreesInv
  <1>17. LineInv'
    BY <1>1, <1>3 DEF LineInv
  <1>18. BaseInv => BaseInv'
    BY <1>1, <1>3, <1>8, <1>13, <1>14 DEF BaseInv, x
  <1> QED BY <1>15, <1>16, <1>17, <1>18

\* A kept or fresh tree begins a search with nothing picked; what it counted of
\* the root moves is set apart.
LEMMA TreeDataIs ==
  ASSUME SearchAssumption, here \in Positions, NEW x, Sound(x), NEW root \in DOMAIN x.nodes,
         Covered(x, cfg.visited_set_backup, <<>>, {})
  PROVE  LET y == TreeData(x, root) IN
         /\ TreeTypes(y, Roots) /\ Counts(y, Roots, {})
         /\ Covered(y, cfg.visited_set_backup, <<>>, {}) /\ y.done = 0
         /\ \A c \in Roots : c \notin DOMAIN x.nodes[root] => y.base[c] = 0
  <1> DEFINE keys == Keys(here)
             full == priors(x, root, keys)
             B == [c \in keys |-> full.nodes[root][c].visits]
             P == [c \in keys |-> 0]
             y == TreeData(x, root)
             sets == cfg.visited_set_backup
  <1>1. keys = Roots /\ keys \in SUBSET AllKeys /\ IsFiniteSet(keys)
    BY KeysAreKeys, FewKeys DEF Roots
  <1>2. /\ DOMAIN y = {"nodes", "table", "root", "base", "picks", "worlds", "done"}
        /\ y.nodes = full.nodes /\ y.table = full.table /\ y.root = root
        /\ y.base = B /\ y.picks = P /\ y.worlds = 1 /\ y.done = 0
    BY DEF TreeData, base
  <1> HIDE DEF keys, y
  <1>3. /\ Sound(full) /\ Grown(x, full) /\ keys \subseteq DOMAIN full.nodes[root]
        /\ root \in DOMAIN full.nodes
    BY <1>1, PriorsGrow
  <1> HIDE DEF full
  <1>4. \A c \in keys : full.nodes[root][c].visits \in Nat
    <2>1. full.nodes[root] \in Node
      BY <1>3 DEF Sound
    <2> QED BY <1>3, <2>1, NodeIs DEF Child
  <1>5. /\ B \in [keys -> Nat] /\ P \in [keys -> Nat]
        /\ \A c \in keys : B[c] = full.nodes[root][c].visits /\ P[c] = 0
    BY <1>4
  <1> HIDE DEF B, P
  <1>6. TreeTypes(y, Roots)
    BY <1>1, <1>2, <1>3, <1>5 DEF TreeTypes, Sound
  <1>7. Counts(y, Roots, {})
    <2>1. P \in [keys -> Int] /\ \A c \in keys : P[c] = 0
      BY <1>5
    <2>2. Total(P) = 0
      BY <1>1, <2>1, TotalOfNothing
    <2> QED BY <1>1, <1>2, <1>4, <1>5, <2>2 DEF Counts
  <1>8. Covered(y, sets, <<>>, {})
    <2>1. Within(x, <<>>, {})
      BY DEF Within
    <2>2. Covered(full, sets, <<>>, {})
      BY <1>3, <2>1, GrownCovered
    <2> QED BY <1>2, <2>2 DEF Covered
  <1>9. \A c \in Roots : c \notin DOMAIN x.nodes[root] => y.base[c] = 0
    BY <1>1, <1>2, <1>3, <1>5 DEF Grown
  <1> QED BY <1>2, <1>6, <1>7, <1>8, <1>9 DEF y

\* A fresh tree has one node without children.
LEMMA FreshTree ==
  ASSUME NEW sets
  PROVE  Sound(NewTree) /\ Covered(NewTree, sets, <<>>, {})
         /\ 1 \in DOMAIN NewTree.nodes /\ DOMAIN NewTree.nodes[1] = {}
  <1>1. <<>> \in Node /\ DOMAIN <<>> = {}
    <2>1. <<>> \in [{} -> Child]
      OBVIOUS
    <2> QED BY <2>1, IsNode
  <1>2. /\ NewTree.nodes = << <<>> >> /\ NewTree.table = <<>> /\ DOMAIN NewTree = {"nodes", "table"}
    BY DEF NewTree
  <1>3. << <<>> >> \in Seq(Node) /\ DOMAIN << <<>> >> = {1} /\ << <<>> >>[1] = <<>>
    BY <1>1
  <1> HIDE DEF NewTree
  <1>4. Sound(NewTree)
    BY <1>1, <1>2, <1>3 DEF Sound
  <1>5. Covered(NewTree, sets, <<>>, {})
    BY <1>1, <1>2, <1>3 DEF Covered
  <1> QED BY <1>1, <1>2, <1>3, <1>4, <1>5

\* A search begins, on what is carried or on fresh trees.
LEMMA SearchKeeps ==
  ASSUME SearchAssumption, SearchTypes, LineInv, CarryInv, Search
  PROVE  SearchTypes' /\ TreesInv' /\ LineInv' /\ BaseInv'
  <1> DEFINE S == {last \in carry : take_for(last)}
             sets == cfg.visited_set_backup
             n == searches + 1
  <1>1. /\ pc = "choose" /\ pc' = "iterations" /\ searches < Len(Budgets) /\ searches' = n
        /\ trees' = new_trees(S) /\ limit' = Budget(n) /\ t' = 1
        /\ UNCHANGED <<cfg, here, turn, action_count, came, path, counted>>
    BY DEF Search, game, line
  <1>2. Searching' /\ ~InLine' /\ ~InLine
    BY <1>1 DEF Searching, InLine
  <1>3. n \in 1 .. Len(Budgets) /\ here \in Positions /\ cfg.root_trees \in Nat \ {0} /\ Roots' = Roots
    <2>1. Len(Budgets) \in Nat /\ searches \in 0 .. Len(Budgets)
      BY DEF SearchTypes, SearchAssumption
    <2>2. n \in 1 .. Len(Budgets)
      BY <1>1, <2>1
    <2>3. Roots' = Roots
      BY <1>1 DEF Roots, Keys, child_key
    <2> QED BY <2>2, <2>3 DEF SearchTypes, SearchAssumption
  <1> HIDE DEF n, S
  <1>4. limit' \in Nat \ {0} /\ limit' <= Cap'
    <2>1. Cap' = per_tree(Budgets[n] + IF here \in Targets THEN Extension ELSE 0)
      BY <1>1 DEF Cap, per_tree
    <2> QED BY <1>1, <1>3, <2>1, BudgetWithinCap
  <1>5. SearchTypes'
    <2>1. DOMAIN trees' = 1 .. cfg.root_trees /\ t' \in 1 .. cfg.root_trees
      BY <1>1, <1>3 DEF new_trees
    <2>2. searches' \in 0 .. Len(Budgets) /\ searches' # 0
      BY <1>1, <1>3
    <2> QED BY <1>1, <1>4, <2>1, <2>2 DEF SearchTypes
  <1>6. ASSUME NEW i \in 1 .. cfg.root_trees
        PROVE  /\ TreeTypes(trees'[i], Roots) /\ Counts(trees'[i], Roots, {})
               /\ Covered(trees'[i], sets, <<>>, {}) /\ trees'[i].done = 0
               /\ S = {} => \A c \in Roots : trees'[i].base[c] = 0
    <2> DEFINE l    == CHOOSE last \in S : TRUE
               kept == l.trees[i]
               root == IF S = {} THEN 0 ELSE root_of(kept)
    <2>1. trees'[i] = IF root # 0 THEN TreeData(kept.tree, root) ELSE TreeData(NewTree, 1)
      BY <1>1 DEF new_trees
    <2>2. CASE root = 0
      <3>1. /\ Sound(NewTree) /\ Covered(NewTree, sets, <<>>, {})
            /\ 1 \in DOMAIN NewTree.nodes /\ DOMAIN NewTree.nodes[1] = {}
        BY FreshTree
      <3>2. trees'[i] = TreeData(NewTree, 1)
        BY <2>1, <2>2
      <3> QED BY <1>3, <3>1, <3>2, TreeDataIs
    <2>3. CASE root # 0
      <3>1. S # {} /\ root = root_of(kept)
        BY <2>3
      <3>2. l \in carry
        BY <3>1 DEF S
      <3> HIDE DEF l
      <3>3. /\ Sound(kept.tree) /\ Covered(kept.tree, sets, <<>>, {})
            /\ kept.child[1] \in DOMAIN kept.tree.nodes
            /\ kept.child[2] \in DOMAIN kept.tree.nodes[kept.child[1]]
        BY <3>2 DEF CarryInv
      <3> HIDE DEF kept
      <3>4. root \in DOMAIN kept.tree.nodes
        BY <2>3, <3>1, <3>3 DEF root_of, Sound
      <3>5. trees'[i] = TreeData(kept.tree, root)
        BY <2>1, <2>3
      <3> HIDE DEF root
      <3> QED BY <1>3, <3>1, <3>3, <3>4, <3>5, TreeDataIs
    <2> QED BY <2>2, <2>3
  <1>7. DOMAIN trees' = 1 .. cfg.root_trees
    BY <1>1 DEF new_trees
  <1>8. TreesInv'
    <2>1. ASSUME NEW i \in 1 .. cfg.root_trees PROVE TreeInv(i)'
      <3>1. trees'[i].done <= limit' /\ trees'[i].done < limit'
        BY <1>4, <1>6
      <3> QED BY <1>1, <1>2, <1>3, <1>6, <3>1 DEF TreeInv
    <2> QED BY <1>7, <2>1 DEF TreesInv
  <1>9. LineInv'
    BY <1>1, <1>2 DEF LineInv, InLine
  <1>10. BaseInv'
    <2>1. S # {} => came = "straight"
      BY <1>1 DEF S, CarryInv
    <2> QED BY <1>1, <1>3, <1>6, <1>7, <2>1 DEF BaseInv
  <1> QED BY <1>5, <1>8, <1>9, <1>10

\* The next tree is advanced.
LEMMA NextTreeKeeps ==
  ASSUME SearchAssumption, SearchTypes, TreesInv, LineInv, NextTree
  PROVE  SearchTypes' /\ TreesInv' /\ LineInv' /\ (BaseInv => BaseInv')
  <1>1. /\ pc = "advanced" /\ pc' = "iterations" /\ t < cfg.root_trees /\ t' = t + 1
        /\ UNCHANGED <<cfg, here, turn, action_count, came, searches, trees, limit, path, counted>>
    BY DEF NextTree, game, line
  <1>2. Searching /\ Searching' /\ ~InLine /\ ~InLine' /\ Roots' = Roots
    BY <1>1 DEF Searching, InLine, Roots, Keys, child_key
  <1>3. t \in 1 .. cfg.root_trees /\ DOMAIN trees = 1 .. cfg.root_trees /\ cfg.root_trees \in Int
    BY <1>2 DEF SearchTypes, SearchAssumption
  <1>4. SearchTypes'
    <2>1. t' \in 1 .. cfg.root_trees
      BY <1>1, <1>3
    <2> QED BY <1>1, <1>2, <2>1 DEF SearchTypes, Cap, per_tree
  <1>5. ASSUME NEW i \in DOMAIN trees PROVE TreeInv(i)'
    <2>1. TreeInv(i)
      BY <1>2 DEF TreesInv
    <2>2. i > t' \/ i = t' => i > t
      BY <1>1, <1>3
    <2> QED BY <1>1, <1>2, <2>1, <2>2 DEF TreeInv
  <1>6. TreesInv'
    BY <1>1, <1>5 DEF TreesInv
  <1>7. LineInv' /\ (BaseInv => BaseInv')
    BY <1>1, <1>2 DEF LineInv, BaseInv
  <1> QED BY <1>4, <1>6, <1>7

\* A close call gives every tree more iterations.
LEMMA ExtendKeeps ==
  ASSUME SearchAssumption, SearchTypes, TreesInv, LineInv, Extend
  PROVE  SearchTypes' /\ TreesInv' /\ LineInv' /\ (BaseInv => BaseInv')
  <1> DEFINE b == Budget(searches)
  <1>1. /\ pc = "advanced" /\ pc' = "iterations" /\ limit # Cap /\ t' = 1
        /\ limit' = IF limit + b < Cap THEN limit + b ELSE Cap
        /\ UNCHANGED <<cfg, here, turn, action_count, came, searches, trees, path, counted>>
    BY DEF Extend, PhaseEnds, game, line
  <1>2. Searching /\ Searching' /\ ~InLine /\ ~InLine' /\ Roots' = Roots
    BY <1>1 DEF Searching, InLine, Roots, Keys, child_key
  <1>3. b \in Nat \ {0} /\ Cap \in Nat
    <2>1. searches \in 1 .. Len(Budgets)
      <3>1. Len(Budgets) \in Nat /\ searches \in 0 .. Len(Budgets) /\ searches # 0
        BY <1>2 DEF SearchTypes, SearchAssumption
      <3> QED BY <3>1
    <2> QED BY <2>1, BudgetWithinCap DEF Cap
  <1> HIDE DEF b
  <1>4. limit' \in Nat \ {0} /\ limit' <= Cap /\ limit < limit' /\ limit \in Nat
    BY <1>1, <1>2, <1>3 DEF SearchTypes
  <1>5. SearchTypes'
    <2>1. Cap' = Cap
      BY <1>1 DEF Cap, per_tree
    <2>2. t' \in 1 .. cfg.root_trees
      BY <1>1, <1>2 DEF SearchTypes
    <2> QED BY <1>1, <1>2, <1>4, <2>1, <2>2 DEF SearchTypes
  <1>6. ASSUME NEW i \in DOMAIN trees PROVE TreeInv(i)'
    <2>1. TreeInv(i)
      BY <1>2 DEF TreesInv
    <2>2. trees[i].done < limit' /\ trees[i].done <= limit'
      BY <1>4, <2>1 DEF TreeInv, TreeTypes
    <2> QED BY <1>1, <1>2, <2>1, <2>2 DEF TreeInv
  <1>7. TreesInv'
    BY <1>1, <1>6 DEF TreesInv
  <1>8. LineInv' /\ (BaseInv => BaseInv')
    BY <1>1, <1>2 DEF LineInv, BaseInv
  <1> QED BY <1>5, <1>7, <1>8

\* Nothing is claimed of trees when no search runs.
LEMMA NoSearch ==
  ASSUME SearchTypes, pc' \in {"choose", "chosen", "over"}, UNCHANGED <<cfg, searches>>,
         here' \in Own, turn' \in Nat, action_count' \in Nat, path' = <<>>, counted' = {}
  PROVE  SearchTypes' /\ TreesInv' /\ LineInv' /\ BaseInv'
  <1>1. ~Searching' /\ ~InLine'
    BY DEF Searching, InLine
  <1> QED BY <1>1 DEF SearchTypes, TreesInv, LineInv, BaseInv

\* A search ends: what it may carry are the trees it has.
LEMMA FinishKeeps ==
  ASSUME SearchTypes, TreesInv, LineInv, Finish
  PROVE  SearchTypes' /\ TreesInv' /\ LineInv' /\ BaseInv' /\ CarryInv'
  <1> DEFINE sets == cfg.visited_set_backup
  <1>1. /\ pc = "advanced" /\ pc' = "chosen" /\ came' = "searched"
        /\ UNCHANGED <<cfg, here, turn, action_count, searches, path, counted>>
    BY DEF Finish, PhaseEnds, game, line
  <1>2. Searching /\ ~InLine
    BY <1>1 DEF Searching, InLine
  <1>3. SearchTypes' /\ TreesInv' /\ LineInv' /\ BaseInv'
    <2>1. here \in Own /\ turn \in Nat /\ action_count \in Nat /\ path = <<>> /\ counted = {}
      BY <1>2 DEF SearchTypes, LineInv
    <2> QED BY <1>1, <2>1, NoSearch
  <1>4. CarryInv'
    <2> SUFFICES ASSUME NEW last \in carry'
                 PROVE  /\ last.turn \in Nat /\ last.action_count \in Nat
                        /\ last.turn = turn /\ last.action_count = action_count
                        /\ \A i \in 1 .. cfg.root_trees :
                             LET kept == last.trees[i] n == kept.child[1] IN
                             /\ Sound(kept.tree) /\ Covered(kept.tree, sets, <<>>, {})
                             /\ n \in DOMAIN kept.tree.nodes /\ kept.child[2] \in DOMAIN kept.tree.nodes[n]
      BY <1>1 DEF CarryInv
    <2>1. PICK mv \in Options[here] : last \in Kept(child_key(here, mv))
      BY DEF Finish
    <2> DEFINE c == child_key(here, mv)
    <2>2. c \in Roots
      BY DEF Roots, Keys
    <2> HIDE DEF c
    <2>3. /\ last.turn = turn /\ last.action_count = action_count
          /\ last.trees = [i \in DOMAIN trees |->
               [tree |-> [nodes |-> trees[i].nodes, table |-> trees[i].table],
                child |-> <<trees[i].root, c>>]]
      <3> DEFINE T == [i \in DOMAIN trees |->
                         [tree |-> [nodes |-> trees[i].nodes, table |-> trees[i].table],
                          child |-> <<trees[i].root, c>>]]
      <3>1. \E p : last = [turn |-> turn, action_count |-> action_count, expected |-> p, trees |-> T]
        BY <2>1 DEF Kept, c
      <3> HIDE DEF T
      <3>2. last.turn = turn /\ last.action_count = action_count /\ last.trees = T
        BY <3>1
      <3> QED BY <3>2 DEF T
    <2>4. turn \in Nat /\ action_count \in Nat /\ DOMAIN trees = 1 .. cfg.root_trees
      BY <1>2 DEF SearchTypes
    <2>5. ASSUME NEW i \in 1 .. cfg.root_trees
          PROVE  LET kept == last.trees[i] n == kept.child[1] IN
                 /\ Sound(kept.tree) /\ Covered(kept.tree, sets, <<>>, {})
                 /\ n \in DOMAIN kept.tree.nodes /\ kept.child[2] \in DOMAIN kept.tree.nodes[n]
      <3> DEFINE x == trees[i]
                 tree == [nodes |-> x.nodes, table |-> x.table]
                 kept == last.trees[i]
      <3>1. TreeTypes(x, Roots) /\ Covered(x, sets, <<>>, {})
        <4>1. TreeInv(i)
          BY <1>2, <2>4 DEF TreesInv
        <4> QED BY <1>2, <4>1 DEF TreeInv
      <3>2. kept.tree = tree /\ kept.child[1] = x.root /\ kept.child[2] = c
        BY <2>3, <2>4
      <3>3. tree.nodes = x.nodes /\ tree.table = x.table /\ {"nodes", "table"} \subseteq DOMAIN tree
        OBVIOUS
      <3> HIDE DEF x, tree, kept
      <3>4. Sound(tree) /\ Covered(tree, sets, <<>>, {})
        BY <3>1, <3>3 DEF TreeTypes, Sound, Covered
      <3>5. x.root \in DOMAIN tree.nodes /\ c \in DOMAIN tree.nodes[x.root]
        BY <2>2, <3>1, <3>3 DEF TreeTypes
      <3> QED BY <3>2, <3>4, <3>5 DEF kept
    <2> QED BY <2>3, <2>4, <2>5
  <1> QED BY <1>3, <1>4

\* A move without a search leaves no tree.
LEMMA ChooseKeeps ==
  ASSUME SearchTypes, LineInv, ChooseWithoutSearch
  PROVE  SearchTypes' /\ TreesInv' /\ LineInv' /\ BaseInv' /\ CarryInv'
  <1>1. /\ pc = "choose" /\ pc' = "chosen" /\ carry' = {}
        /\ UNCHANGED <<cfg, here, turn, action_count, searches, path, counted>>
    BY DEF ChooseWithoutSearch, game, line
  <1>2. here \in Own /\ turn \in Nat /\ action_count \in Nat /\ path = <<>> /\ counted = {}
    BY <1>1 DEF SearchTypes, LineInv, InLine
  <1>3. SearchTypes' /\ TreesInv' /\ LineInv' /\ BaseInv'
    BY <1>1, <1>2, NoSearch
  <1> QED BY <1>1, <1>3 DEF CarryInv

\* The next decision came straight, with its turn and one action more, or what is
\* carried no longer fits.
LEMMA MovesOn ==
  ASSUME SearchTypes, LineInv, CarryInv, Straight \/ Later
  PROVE  SearchTypes' /\ TreesInv' /\ LineInv' /\ BaseInv' /\ CarryInv'
  <1>1. /\ pc = "chosen" /\ pc' = "choose" /\ here' \in Own /\ turn' \in {turn, turn + 1}
        /\ action_count' \in {action_count + 1, action_count + 2}
        /\ UNCHANGED <<cfg, carry, searches, path, counted>>
    BY DEF Straight, Later, line
  <1>2. turn \in Nat /\ action_count \in Nat /\ path = <<>> /\ counted = {}
    BY <1>1 DEF SearchTypes, LineInv, InLine
  <1>3. SearchTypes' /\ TreesInv' /\ LineInv' /\ BaseInv'
    BY <1>1, <1>2, NoSearch
  <1>4. ASSUME NEW last \in carry PROVE came' = "straight" \/ ~take_for(last)'
    <2>1. came = "searched" /\ last.turn = turn /\ last.action_count = action_count
      BY <1>1 DEF CarryInv
    <2>2. CASE Straight
      <3>1. turn' = turn => came' = "straight"
        BY <2>1, <2>2 DEF Straight
      <3>2. turn' # turn => ~take_for(last)'
        BY <2>1 DEF take_for
      <3> QED BY <3>1, <3>2
    <2>3. CASE Later
      <3>1. action_count' # last.action_count + 1
        BY <1>2, <2>1, <2>3 DEF Later
      <3> QED BY <3>1 DEF take_for
    <2> QED BY <2>2, <2>3
  <1>5. CarryInv'
    BY <1>1, <1>4 DEF CarryInv
  <1> QED BY <1>3, <1>5

\* The invariant holds in the first states.
LEMMA InitSearch ==
  ASSUME SearchAssumption, SearchInit PROVE SearchInv
  <1>1. ~Searching /\ ~InLine
    BY DEF SearchInit, Searching, InLine
  <1>2. Len(Budgets) \in 0 .. Len(Budgets) /\ 0 \in 0 .. Len(Budgets)
    BY DEF SearchAssumption
  <1> QED BY <1>1, <1>2 DEF SearchInit, SearchInv, SearchTypes, TreesInv, LineInv, CarryInv, BaseInv

\* Every step of the searcher and of the game between its decisions keeps it.
LEMMA StepsKeep ==
  ASSUME SearchAssumption, SearchInv, SearchStep
  PROVE  SearchInv'
  <1> USE DEF SearchInv
  <1>1. CASE Search
    BY <1>1, SearchKeeps DEF Search, CarryInv
  <1>2. CASE ChooseWithoutSearch
    BY <1>2, ChooseKeeps
  <1>3. ASSUME Iterate \/ Walk \/ Rollout \/ NextTree \/ Extend PROVE CarryInv'
    <2>1. pc \notin {"choose", "chosen"} /\ carry' = carry
      BY <1>3 DEF Iterate, Walk, Rollout, NextTree, Extend, PhaseEnds
    <2> QED BY <2>1 DEF CarryInv
  <1>4. CASE Iterate
    BY <1>3, <1>4, IterateKeeps
  <1>5. CASE Walk
    BY <1>3, <1>5, WalkKeeps
  <1>6. CASE Rollout
    BY <1>3, <1>6, RolloutKeeps
  <1>7. CASE NextTree
    BY <1>3, <1>7, NextTreeKeeps
  <1>8. CASE Extend
    BY <1>3, <1>8, ExtendKeeps
  <1>9. CASE Finish
    BY <1>9, FinishKeeps
  <1>10. CASE Straight \/ Later
    BY <1>10, MovesOn
  <1> QED BY <1>1, <1>2, <1>4, <1>5, <1>6, <1>7, <1>8, <1>9, <1>10 DEF SearchStep

\* The games of a match keep it: a new game has a new agent.
LEMMA PlayKeeps ==
  ASSUME SearchInv, [PlayNext]_<<svars, vars>>
  PROVE  SearchInv'
  <1> USE SearchAssumption
  <1>1. CASE Decide
    BY <1>1, StepsKeep DEF Decide
  <1>2. CASE GameEnds
    <2>1. /\ pc = "chosen" /\ pc' \in {"choose", "over"} /\ carry' = {} /\ UNCHANGED <<cfg, searches>>
          /\ here' \in Own /\ turn' \in Nat /\ action_count' \in Nat
      <3>1. pc = "chosen" /\ UNCHANGED <<cfg, searches>>
        BY <1>2 DEF GameEnds
      <3>2. CASE NewGame /\ UNCHANGED <<trees, limit, t, line>>
        BY <3>1, <3>2 DEF NewGame, NewAgent
      <3>3. CASE Discard /\ UNCHANGED <<game, came>>
        <4>1. here \in Own /\ turn \in Nat /\ action_count \in Nat
          BY DEF SearchInv, SearchTypes
        <4> QED BY <3>1, <3>3, <4>1 DEF Discard, game
      <3> QED BY <1>2, <3>2, <3>3 DEF GameEnds
    <2>2. path' = <<>> /\ counted' = {}
      BY <1>2, <2>1 DEF GameEnds, line, Discard, LineOver, SearchInv, LineInv, InLine
    <2>3. SearchTypes' /\ TreesInv' /\ LineInv' /\ BaseInv'
      BY <2>1, <2>2, NoSearch DEF SearchInv
    <2> QED BY <2>1, <2>3 DEF SearchInv, CarryInv
  <1>3. CASE Stops
    <2>1. /\ pc' = "over" /\ carry' = {} /\ UNCHANGED <<cfg, searches>>
          /\ here' \in Own /\ turn' \in Nat /\ action_count' \in Nat /\ path' = <<>> /\ counted' = {}
      BY <1>3 DEF Stops, Discard, LineOver, game, SearchInv, SearchTypes
    <2>2. SearchTypes' /\ TreesInv' /\ LineInv' /\ BaseInv'
      BY <2>1, NoSearch DEF SearchInv
    <2> QED BY <2>1, <2>2 DEF SearchInv, CarryInv
  <1>4. CASE UNCHANGED <<svars, vars>>
    <2>1. UNCHANGED <<cfg, here, turn, action_count, carry, came, searches, pc, trees, limit, t,
                      at, node, path, counted, k>>
      BY <1>4 DEF svars, game, line
    <2>2. Roots' = Roots /\ Tree' = Tree /\ Searching' = Searching /\ InLine' = InLine
      BY <2>1 DEF Roots, Keys, child_key, Tree, Searching, InLine
    <2>3. SearchTypes' /\ LineInv' /\ BaseInv'
      BY <2>1, <2>2 DEF SearchInv, SearchTypes, LineInv, BaseInv, Cap, per_tree
    <2>4. TreesInv'
      BY <2>1, <2>2 DEF SearchInv, TreesInv, TreeInv
    <2>5. CarryInv'
      BY <2>1 DEF SearchInv, CarryInv, take_for
    <2> QED BY <2>3, <2>4, <2>5 DEF SearchInv
  <1> QED BY <1>1, <1>2, <1>3, <1>4 DEF PlayNext

\* A search agent keeps its trees sound, its counters in step, and what it carries
\* tied to the move it chose (mcts.rs, tree.rs, reuse.rs).
THEOREM SearchInvariant == PlaySpec => []SearchInv
  <1>1. PlayInit => SearchInv
    BY SearchAssumption, InitSearch DEF PlayInit
  <1> QED BY <1>1, PlayKeeps, PTL DEF PlaySpec

\* Visits of an earlier search count only when nothing but its move happened since
\* (reuse.rs:5-13), for any positions, moves, mechanisms and budgets.
THEOREM PredictedTreeOnly == PlaySpec => []OnlyThePredictedTree
  <1>1. SearchInv => OnlyThePredictedTree
    BY DEF SearchInv, BaseInv, OnlyThePredictedTree
  <1> QED BY <1>1, SearchInvariant, PTL

\* A root move is played for the n-th time in world n, which is drawn by then, and
\* no more worlds are drawn than the cap (mcts.rs:12-13, reuse.rs:14-16).
THEOREM SameWorlds == PlaySpec => []CommonRandomNumbers
  <1>1. SearchInv => CommonRandomNumbers
    <2> SUFFICES ASSUME SearchInv PROVE CommonRandomNumbers
      OBVIOUS
    <2>1. ASSUME InLine PROVE k + 1 = Tree.picks[path[1][2]] /\ k < Tree.worlds
      <3> DEFINE c == path[1][2]
      <3>1. Searching /\ t \in DOMAIN trees
        BY <2>1 DEF SearchInv, SearchTypes, Searching, InLine
      <3>2. TreeTypes(Tree, Roots) /\ Counts(Tree, Roots, {c})
        <4>1. TreeInv(t)
          BY <3>1 DEF SearchInv, TreesInv
        <4> QED BY <2>1, <4>1 DEF TreeInv, Tree
      <3>3. k + 1 = Tree.picks[c] /\ k \in Nat /\ c \in Roots
        BY <2>1 DEF SearchInv, LineInv
      <3> HIDE DEF c
      <3>4. Tree.picks[c] <= Tree.worlds /\ Tree.worlds \in Nat
        BY <3>2, <3>3 DEF Counts, TreeTypes
      <3> QED BY <3>3, <3>4 DEF c
    <2>2. ASSUME Searching, NEW i \in DOMAIN trees PROVE trees[i].worlds <= Cap
      <3> DEFINE mine == InLine /\ i = t
                 x == trees[i]
      <3>1. TreeInv(i)
        BY <2>2 DEF SearchInv, TreesInv
      <3>2. /\ TreeTypes(x, Roots) /\ Counts(x, Roots, IF mine THEN {path[1][2]} ELSE {})
            /\ x.done <= limit /\ (mine => x.done < limit)
        BY <3>1 DEF TreeInv, InLine
      <3> HIDE DEF x, mine
      <3>3. x.worlds \in Nat /\ x.done \in Nat /\ (x.worlds = 1 \/ x.worlds <= x.done + IF mine THEN 1 ELSE 0)
        BY <3>2 DEF TreeTypes, Counts
      <3>4. limit \in Nat \ {0} /\ limit <= Cap /\ Cap \in Int
        <4>1. searches \in 1 .. Len(Budgets)
          <5>1. Len(Budgets) \in Nat /\ searches \in 0 .. Len(Budgets) /\ searches # 0
            BY <2>2, SearchAssumption DEF SearchInv, SearchTypes, SearchAssumption
          <5> QED BY <5>1
        <4>2. Cap \in Nat
          BY <4>1, SearchAssumption, BudgetWithinCap DEF Cap, SearchInv
        <4> QED BY <2>2, <4>2 DEF SearchInv, SearchTypes
      <3>5. x.worlds <= limit
        BY <3>2, <3>3, <3>4
      <3> QED BY <3>3, <3>4, <3>5 DEF x
    <2> QED BY <2>1, <2>2 DEF CommonRandomNumbers
  <1> QED BY <1>1, SearchInvariant, PTL

\* A child was available at least as often as it was visited, whatever the walks
\* went through (mcts.rs:312-320): its logarithm is never below that of a visit.
THEOREM AvailIsEnough == PlaySpec => []AvailCoversVisits
  <1>1. SearchInv => AvailCoversVisits
    <2> SUFFICES ASSUME SearchInv, Searching, NEW i \in DOMAIN trees,
                        NEW n \in DOMAIN trees[i].nodes, NEW c \in DOMAIN trees[i].nodes[n]
                 PROVE  trees[i].nodes[n][c].visits <= trees[i].nodes[n][c].avail
      BY DEF AvailCoversVisits
    <2> DEFINE x == trees[i]
               mine == InLine /\ i = t
               p == IF mine THEN path ELSE <<>>
               cnt == IF mine THEN counted ELSE {}
               sets == cfg.visited_set_backup
    <2>1. TreeInv(i)
      BY DEF SearchInv, TreesInv
    <2>2. Sound(x) /\ Covered(x, sets, p, cnt)
      BY <2>1 DEF TreeInv, TreeTypes
    <2>3. Within(x, p, cnt)
      <3>1. Within(x, <<>>, {})
        BY DEF Within
      <3>2. mine => Within(x, path, counted)
        BY DEF SearchInv, LineInv, Tree
      <3> QED BY <3>1, <3>2
    <2> HIDE DEF p, cnt, x
    <2>4. Owed(sets, p, cnt, <<n, c>>) \in Nat
      BY <2>3, OwedType
    <2>5. x.nodes[n][c].visits + Owed(sets, p, cnt, <<n, c>>) <= x.nodes[n][c].avail
      BY <2>2 DEF Covered, x
    <2>6. x.nodes[n][c].visits \in Nat /\ x.nodes[n][c].avail \in Nat
      <3>1. x.nodes[n] \in Node
        BY <2>2 DEF Sound, x
      <3> QED BY <3>1, NodeIs DEF Child, x
    <2> QED BY <2>4, <2>5, <2>6 DEF x
  <1> QED BY <1>1, SearchInvariant, PTL

\* What the root moves of a tree gained is what was done in it, and the budgets
\* are kept (mcts.rs:543-560), for any number of root moves.
THEOREM IterationsAreVisits == PlaySpec => []IterationsAreRootVisits
  <1>1. SearchInv => IterationsAreRootVisits
    <2> SUFFICES ASSUME SearchInv, Searching, NEW i \in DOMAIN trees
                 PROVE  /\ Total([c \in Roots |-> New(i, c)]) = trees[i].done
                        /\ trees[i].done <= limit /\ limit <= Cap
      BY DEF IterationsAreRootVisits
    <2> DEFINE x == trees[i]
               mine == InLine /\ i = t
               played == IF mine THEN {path[1][2]} ELSE {}
               new == [c \in Roots |-> New(i, c)]
               one(c) == IF c \in played THEN 1 ELSE 0
    <2>1. /\ TreeTypes(x, Roots) /\ Counts(x, Roots, played) /\ x.done <= limit /\ limit <= Cap
      <3>1. TreeInv(i)
        BY DEF SearchInv, TreesInv
      <3> QED BY <3>1 DEF TreeInv, SearchInv, SearchTypes
    <2>2. mine => path[1][2] \in Roots
      BY DEF SearchInv, LineInv
    <2>3. \A c \in Roots : New(i, c) = x.nodes[x.root][c].visits - x.base[c]
      BY DEF New, RootVisits, ChildOf, Roots
    <2> HIDE DEF x, mine
    <2>4. /\ x.picks \in [Roots -> Int] /\ x.base \in [Roots -> Nat] /\ x.done \in Nat
          /\ IsFiniteSet(Roots) /\ Total(x.picks) = x.done + (IF played = {} THEN 0 ELSE 1)
      BY <2>1 DEF TreeTypes, Counts
    <2>5. ASSUME NEW c \in Roots PROVE new[c] = x.picks[c] - one(c)
      <3>1. x.nodes[x.root][c].visits \in Nat
        <4>1. x.nodes[x.root] \in Node /\ c \in DOMAIN x.nodes[x.root]
          BY <2>1 DEF TreeTypes, Sound
        <4> QED BY <4>1, NodeIs DEF Child
      <3>2. x.nodes[x.root][c].visits + one(c) = x.base[c] + x.picks[c]
        BY <2>1 DEF Counts
      <3>3. one(c) \in Int /\ x.base[c] \in Int /\ x.picks[c] \in Int
        BY <2>4
      <3> HIDE DEF one
      <3> QED BY <2>3, <3>1, <3>2, <3>3
    <2> HIDE DEF new
    <2>6. new \in [Roots -> Int]
      <3>1. \A c \in Roots : one(c) \in Int /\ x.picks[c] \in Int
        BY <2>4
      <3> HIDE DEF one
      <3>2. \A c \in Roots : new[c] \in Int
        BY <2>5, <3>1
      <3> QED BY <3>2 DEF new
    <2>7. Total(new) = x.done
      <3>1. CASE played = {}
        <4>1. \A c \in Roots : new[c] = x.picks[c]
          BY <2>4, <2>5, <3>1
        <4>2. new = x.picks
          BY <2>4, <2>6, <4>1
        <4> QED BY <2>4, <3>1, <4>2
      <3>2. CASE played # {}
        <4> DEFINE d == path[1][2]
        <4>1. d \in Roots /\ played = {d}
          BY <2>2, <3>2
        <4> HIDE DEF d, played
        <4>2. \A c \in Roots \ {d} : new[c] = x.picks[c]
          BY <2>4, <2>5, <4>1
        <4>3. new[d] = x.picks[d] - 1
          BY <2>5, <4>1
        <4>4. Total(new) = Total(x.picks) + new[d] - x.picks[d] /\ Total(x.picks) \in Int
          BY <2>4, <2>6, <4>1, <4>2, TotalOfMore
        <4> QED BY <2>4, <3>2, <4>1, <4>3, <4>4
      <3> QED BY <3>1, <3>2
    <2> QED BY <2>1, <2>7 DEF new, x
  <1> QED BY <1>1, SearchInvariant, PTL
=============================================================================
