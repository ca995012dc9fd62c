--------------------------- MODULE SelectionCases ---------------------------
(* What Selection's books may quote, its models say and its picks come to, in *)
(* tenths of a point and of a percent where it counts in them.               *)
EXTENDS Integers
CONSTANT None

Q(h, a, l, hs, as, t, o, u) ==
    [HOME |-> h, AWAY |-> a, line |-> l, homeSpread |-> hs, awaySpread |-> as,
     total |-> t, Over |-> o, Under |-> u]
AllQuotes == {Q(-120, 100, -30, -110, -110, 440, -110, -110), Q(-200, 170, -70, -120, 100, 460, -105, -115)}
(* A book with a moneyline and nothing else. *)
WithUnlined == AllQuotes \cup {Q(-120, 100, None, None, None, None, None, None)}

C(sport, name) == [sport |-> sport, name |-> name]
AllContests == {C("nfl", "ensemble"), C("nba", "sport_specific"), C("nfl", "recent_form"), C("mma", "ensemble")}

B(h, a) == [HOME |-> h, AWAY |-> a]
Seen(base, margin, points, form, elo, net, next, recent, known) ==
    [base |-> base, margin |-> margin, points |-> points, form |-> form, elo |-> elo,
     net |-> net, next |-> next, recent |-> recent, known |-> known]
AllModels ==
    {Seen(64, 60, 470, B(3, -2), B(1620, 1500), B(0, 0), B(1600, None), B(0, 0), TRUE),
     Seen(50, 0, 440, B(0, 0), B(1500, 1500), B(0, 0), B(None, None), B(0, 0), TRUE),
     Seen(40, 30, 400, B(-1, 4), B(1510, 1500), B(0, 0), B(None, None), B(2, 0), FALSE)}

AllSettlements ==
    {[tier |-> 3, outcome |-> "loss", payout |-> -100, published |-> TRUE],
     [tier |-> 3, outcome |-> "win", payout |-> 90, published |-> TRUE]}
=============================================================================
