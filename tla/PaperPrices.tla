---------------------------- MODULE PaperPrices ----------------------------
(***************************************************************************)
(* What a paper bet is quoted, charged and bought back for: one game whose *)
(* rows -- per book for the game's markets, per book and side for a prop   *)
(* -- are upserted and never deleted, a ticket of one or more legs placed  *)
(* at the quotes of the moment, its cash-out offer, and the grade of a leg *)
(* at a final score.  Lines are in half points, chances in millionths,     *)
(* money in cents.                                                         *)
(***************************************************************************)
EXTENDS Integers, FiniteSets, FiniteSetsExt

CONSTANTS
    Books,         \* bookmakers
    Offers,        \* what a book may show of the game: by market, its line and
                   \* the prices of the two sides (None: not offered)
    PropOffers,    \* what it may show of the prop: its line and the two prices
    MaxAge,        \* MAX_QUOTE_AGE
    Kickoff,       \* when the game starts
    MaxTime,       \* the clock's bound
    MaxUpdates,    \* feed updates in a behaviour, at most
    MaxLegs,       \* legs of a ticket, at most
    Stake,         \* in cents
    Margins, Totals,   \* final scores a game may have: HOME's margin, the total
    None

VARIABLES
    rows,          \* odds: each book's row, what it showed and when (None: no row)
    props,         \* player_props: by book and side, its line, price and time
    clock,         \* ticks
    status,        \* the game's status
    timed,         \* whether the game has a start time
    ticket,        \* the legs of the one open bet ({}: no bet is open)
    updates,       \* feed updates so far
    untouched      \* history: the same rows are fresh as when the ticket was written
vars == <<rows, props, clock, status, timed, ticket, updates, untouched>>

Markets == {"moneyline", "spread", "over_under", "prop"}
First(market) == IF market \in {"moneyline", "spread"} THEN "HOME" ELSE "Over"
Second(market) == IF market \in {"moneyline", "spread"} THEN "AWAY" ELSE "Under"
Bets == {[market |-> m, side |-> s] : m \in Markets, s \in {"HOME", "AWAY", "Over", "Under"}}
GAME_MARKETS == {b \in Bets : b.side \in {First(b.market), Second(b.market)}}
Flip(b) == [b EXCEPT !.side = IF b.side = First(b.market) THEN Second(b.market) ELSE First(b.market)]

----------------------------------------------------------------------------
(* American prices *)
Million == 1000000
Size(o) == IF o < 0 THEN -o ELSE o
Usable(o) == o # None /\ Size(o) >= 100
american_to_implied_prob(o) ==
    IF o < 0 THEN (Size(o) * Million) \div (Size(o) + 100) ELSE (100 * Million) \div (o + 100)
(* Rounded to the nearest, halves up. *)
Nearest(a, b) == (2 * a + b) \div (2 * b)
prob_to_american(p) ==
    IF 2 * p >= Million THEN -Max({100, Nearest(100 * p, Million - p)})
    ELSE Max({100, Nearest(100 * (Million - p), p)})
(* What a price pays on a cent, in thousandths. *)
calculate_payout(o) == IF o < 0 THEN 100000 \div Size(o) ELSE 10 * o
(* The side's share of the two chances, in thousandths. *)
remove_vig(p, q) == (p * 1000) \div (p + q)

----------------------------------------------------------------------------
(* Quotes *)
(* A side's price in what a book shows of one market. *)
PriceOf(side, shown) == IF side \in {"HOME", "Over"} THEN shown.first ELSE shown.second
Listing(bet) ==
    {b \in Books : IF bet.market = "prop" THEN props[b][bet.side] # None
                   ELSE rows[b] # None /\ rows[b].offer[bet.market] # None}
Line(book, bet) ==
    LET line == rows[book].offer[bet.market].line IN
    IF bet.market = "prop" THEN props[book][bet.side].line
    ELSE IF bet.market = "spread" /\ bet.side = "AWAY" THEN -line ELSE line
Odds(book, bet) == IF bet.market = "prop" THEN props[book][bet.side].odds
                   ELSE PriceOf(bet.side, rows[book].offer[bet.market])
SeenAt(book, bet) == IF bet.market = "prop" THEN props[book][bet.side].at ELSE rows[book].at

Quoting(bet) == {b \in Listing(bet) : Usable(Odds(b, bet))}
Fresh(books, bet) == {b \in books : clock - SeenAt(b, bet) <= MaxAge}
At(books, bet, line) == {b \in books : Line(b, bet) = line}

(* The better one for the bettor. *)
BetterOff(bet, x, y) == IF bet.side = "Over" THEN x < y ELSE x > y
WorseOff(bet, x, y) == IF bet.side = "Over" THEN x > y ELSE x < y
(* The line most books quote; then the one nearest the average; then the    *)
(* one worse for the bettor.                                                *)
quoted_line(books, bet) ==
    LET lines == {Line(b, bet) : b \in books}
        Count(x) == Cardinality(At(books, bet, x))
        Off(x) == Size(Cardinality(books) * x - MapThenSumSet(LAMBDA b : Line(b, bet), books))
    IN CHOOSE x \in lines : \A y \in lines \ {x} :
          \/ Count(x) > Count(y)
          \/ Count(x) = Count(y) /\ (Off(x) < Off(y) \/ (Off(x) = Off(y) /\ WorseOff(bet, x, y)))

(* A same-day game without a start time is taken to be open. *)
open_for_betting == status = "scheduled" /\ (~timed \/ Kickoff > clock)

(* consensus_moneyline: the mean of the chances, not of the prices. *)
consensus_moneyline(books, bet) ==
    prob_to_american(MapThenSumSet(LAMBDA b : american_to_implied_prob(Odds(b, bet)), books)
                     \div Cardinality(books))

(* price: what the bet costs now, or why it is refused.  A prop is asked at *)
(* a line; a spread or a total is only where cash out wants the other side. *)
Refused(why) == [reason |-> why, line |-> None, odds |-> None]
price(bet, asked) ==
    LET usable == IF bet.market = "prop" THEN At(Quoting(bet), bet, asked) ELSE Quoting(bet)
        fresh == Fresh(usable, bet)
        line == IF asked # None THEN asked ELSE quoted_line(fresh, bet)
    IN
    CASE ~open_for_betting -> Refused("game_started")
      [] usable = {} -> Refused("not_quoted")
      [] fresh = {} -> Refused("stale")
      [] At(fresh, bet, line) = {} -> Refused("not_quoted")
      [] OTHER -> [reason |-> "quoted", line |-> line, odds |-> consensus_moneyline(At(fresh, bet, line), bet)]

(* game_quotes and prop_quotes: what the board and the game page show. *)
Asked(bet) == IF bet.market = "prop" THEN {Line(b, bet) : b \in Listing(bet)} ELSE {None}
Quotes(bet) == {q \in {price(bet, asked) : asked \in Asked(bet)} : q.reason = "quoted"}

Leg(bet, q) == [bet |-> bet, line |-> q.line, odds |-> q.odds]
OnOffer == UNION {{Leg(bet, q) : q \in Quotes(bet)} : bet \in GAME_MARKETS}

----------------------------------------------------------------------------
(* Cash out *)
MarginLeft == 95    \* of a hundred
prop_moved(bet, line) == \E b \in Listing(bet) : Line(b, bet) # line

Mirror(bet, line) == IF bet.market = "spread" THEN -line ELSE line

(* leg_chance: both sides must be quoted, this one at the line it was      *)
(* bought at; the other at that line's mirror.                              *)
Mine(leg) == price(leg.bet, IF leg.bet.market = "prop" THEN leg.line ELSE None)
Theirs(leg) == price(Flip(leg.bet), Mirror(leg.bet, leg.line))
LegRefused(leg) ==
    LET mine == Mine(leg)
        theirs == Theirs(leg)
    IN
    CASE mine.reason # "quoted" ->
            IF mine.reason = "not_quoted" /\ leg.bet.market = "prop" /\ prop_moved(leg.bet, leg.line)
            THEN "line_moved" ELSE mine.reason
      [] mine.line # leg.line -> "line_moved"
      [] OTHER -> IF theirs.reason = "quoted" THEN "none" ELSE theirs.reason
leg_chance(leg) ==
    remove_vig(american_to_implied_prob(Mine(leg).odds), american_to_implied_prob(Theirs(leg).odds))

Decimal(o) == 1000 + calculate_payout(o)
WinReturn(legs) == FoldSet(LAMBDA leg, cents : (cents * Decimal(leg.odds)) \div 1000, Stake, legs)
offer(legs) ==
    (FoldSet(LAMBDA leg, cents : (((cents * Decimal(leg.odds)) \div 1000) * leg_chance(leg)) \div 1000,
              Stake, legs) * MarginLeft) \div 100
OfferView == IF ticket # {} /\ \A leg \in ticket : LegRefused(leg) = "none"
             THEN offer(ticket) ELSE None

----------------------------------------------------------------------------
(* grade_pick, on the margin of HOME and the total, both in half points. *)
Ahead(bet, line, margin, total) ==
    CASE bet.market = "spread" -> IF bet.side = "HOME" THEN margin + line ELSE line - margin
      [] bet.market = "moneyline" -> IF bet.side = "HOME" THEN margin ELSE -margin
      [] OTHER -> IF bet.side = "Over" THEN total - line ELSE line - total
grade_pick(bet, line, margin, total) ==
    LET ahead == Ahead(bet, line, margin, total)
    IN IF ahead = 0 THEN "push" ELSE IF ahead > 0 THEN "win" ELSE "loss"

----------------------------------------------------------------------------
Init ==
    /\ rows = [b \in Books |-> None] /\ props = [b \in Books |-> [side \in {"Over", "Under"} |-> None]]
    /\ clock = 0 /\ status = "scheduled" /\ timed \in BOOLEAN
    /\ ticket = {} /\ updates = 0 /\ untouched = FALSE

(* _store_odds, of one book: its row is written whole. *)
FeedBook(b) ==
    /\ updates < MaxUpdates /\ updates' = updates + 1
    /\ \E o \in Offers : rows' = [rows EXCEPT ![b] = [offer |-> o, at |-> clock]]
    /\ untouched' = FALSE
    /\ UNCHANGED <<props, clock, status, timed, ticket>>

(* _store_props, of one book's main line: a side the answer lacks keeps its *)
(* row, and with it another line.                                           *)
FeedProp(b) ==
    /\ updates < MaxUpdates /\ updates' = updates + 1
    /\ \E o \in PropOffers :
          props' = [props EXCEPT ![b] = [side \in DOMAIN @ |->
                       IF PriceOf(side, o) = None THEN @[side]
                       ELSE [line |-> o.line, odds |-> PriceOf(side, o), at |-> clock]]]
    /\ untouched' = FALSE
    /\ UNCHANGED <<rows, clock, status, timed, ticket>>

(* place_pick and place_parlay: every leg at its quote of the moment, no    *)
(* two legs on one market.                                                  *)
Place ==
    /\ ticket = {}
    /\ \E n \in 1 .. MaxLegs : \E legs \in kSubset(n, OnOffer) :
          /\ \A x, y \in legs : x # y => x.bet.market # y.bet.market
          /\ ticket' = legs
    /\ untouched' = TRUE
    /\ UNCHANGED <<rows, props, clock, status, timed, updates>>

(* cash_out, at the offer of the moment (PaperBets has the confirmation). *)
CashOut ==
    /\ OfferView # None
    /\ ticket' = {} /\ untouched' = FALSE
    /\ UNCHANGED <<rows, props, clock, status, timed, updates>>

GameStarts ==
    /\ status = "scheduled" /\ clock >= Kickoff /\ status' = "in_progress"
    /\ UNCHANGED <<rows, props, clock, timed, ticket, updates, untouched>>

Tick ==
    /\ clock < MaxTime /\ clock' = clock + 1
    /\ untouched' = (untouched /\ \A bet \in GAME_MARKETS : \A b \in Listing(bet) : clock - SeenAt(b, bet) # MaxAge)
    /\ UNCHANGED <<rows, props, status, timed, ticket, updates>>

Next == \/ \E b \in Books : FeedBook(b) \/ FeedProp(b)
        \/ Place \/ CashOut \/ GameStarts \/ Tick
Spec == Init /\ [][Next]_vars

----------------------------------------------------------------------------
TypeOK ==
    /\ \A b \in Books : rows[b] = None \/ (rows[b].offer \in Offers /\ rows[b].at \in 0 .. clock)
    /\ \A bet \in GAME_MARKETS : \A b \in Listing(bet) : SeenAt(b, bet) \in 0 .. clock
    /\ \A leg \in ticket : leg.bet \in GAME_MARKETS
    /\ Cardinality(ticket) <= MaxLegs

(* No free middle in a moneyline, a spread or a total: of its two sides on  *)
(* offer together, whatever lines the books are split over, no final score  *)
(* pays both, and no score costs neither unless it returns both.  A prop is *)
(* sold at every line a book has, so its Over at one and its Under at a     *)
(* higher one may both be on offer, and both may win.                       *)
NoMiddle ==
    \A bet \in GAME_MARKETS : bet.market # "prop" =>
        \A q \in Quotes(bet), r \in Quotes(Flip(bet)), margin \in Margins, total \in Totals :
            ~(grade_pick(bet, q.line, margin, total) = "win"
                /\ grade_pick(Flip(bet), r.line, margin, total) # "loss")

(* Buying a ticket and selling it back is never free, however many legs it  *)
(* has: as long as the same quotes are fresh as when it was placed, the     *)
(* offer is below the stake by the margin; and it never exceeds what        *)
(* winning pays.                                                            *)
CashOutCosts ==
    LET cents == OfferView IN
    cents # None =>
        /\ cents < WinReturn(ticket)
        /\ untouched => 100 * cents <= MarginLeft * Stake
=============================================================================
