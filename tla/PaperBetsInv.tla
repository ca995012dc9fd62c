---------------------------- MODULE PaperBetsInv ----------------------------
(***************************************************************************)
(* The inductive invariants behind PaperBets' safety theorems.             *)
(*                                                                         *)
(* Cashing out needs every game of the bet open; settling needs one of     *)
(* them decided, and a decided game never opens again.  That is what keeps *)
(* a cash out and a grading pass, which may have read the same bet, apart  *)
(* -- nothing in the code checks it when the pass writes.                  *)
(***************************************************************************)
EXTENDS PaperBets

\* For good: final stays final, and the day does not go back.
Decided(g) == status[g] = "final" \/ day > GameDate[g]

\* From its first write to its end a request holds the lock.
LockHeld == \A r \in Requests : rq[r].pc \notin {"idle", "legs"} => lock = r

\* When a game's date has passed, so has its start.
DayStarts == \A g \in Games : GameDate[g] < day => g \in started

\* What a request is about to cash out is still its player's, open, and on
\* undecided games.
OfferOpen ==
    \A r \in Requests : rq[r].pc = "offer" =>
        /\ Owns(rq[r].user, rq[r].key)
        /\ ResultOf(rq[r].key) = Pending
        /\ \A g \in GamesOf(rq[r].key) : ~Decided(g)

\* What a request is about to cash out is on games still scheduled: it has held
\* the lock since it saw them so.
OfferScheduled ==
    \A r \in Requests : rq[r].pc = "offer" =>
        \A g \in GamesOf(rq[r].key) : status[g] = "scheduled"

\* A pass may write this row's result without undoing a cash out.
Settleable(p) ==
    pick[p].result \notin {Absent, "cashed_out"} /\ Decided(pick[p].game)

\* What a pass has graded, or is about to, could not be cashed out any more.
VerdictDecided ==
    \A g \in Graders, p \in PickIds :
        verdict[g][p] # Pending \/ p \in props[g] => Settleable(p)

\* A settled leg is on a decided game.
LegsDecided ==
    \A p \in PickIds :
        pick[p].parlay # NoParlay /\ pick[p].result \notin {Absent, Pending}
            => Decided(pick[p].game)

\* A parlay a pass is about to settle rides on a decided game.
ParlayVerdictDecided ==
    \A g \in Graders, q \in ParlayIds :
        pverdict[g][q] # Pending => \E p \in LegsOf(q) : Decided(pick[p].game)

\* The inductive invariant behind CashOutFinal.
SafeInv ==
    /\ LockHeld /\ DayStarts /\ OfferOpen
    /\ VerdictDecided /\ LegsDecided /\ ParlayVerdictDecided

\* With one grading pass at a time, what it graded is still open when it writes.
VerdictFresh ==
    \A g \in Graders, p \in PickIds :
        verdict[g][p] # Pending \/ p \in props[g] => pick[p].result = Pending

\* After looking them up a pass has no prop left.
PropsDone == \A g \in Graders : gpc[g] = "commit" => props[g] = {}

\* A pass has legs to read only while it settles parlays.
LegsRead == \A g \in Graders : gpc[g] # "settle" => unread[g] = {}

\* With one pass at a time, a parlay it read as unsettled and whose legs are all
\* graded is unsettled still: after the read only requests wrote, and they cash
\* out no parlay with a graded leg.
UnreadOpen ==
    \A g \in Graders : \A q \in unread[g] :
        /\ parlay[q].result # Absent
        /\ AllGraded(q) => parlay[q].result = Pending

\* The same of the parlays it has settled in memory.
ParlayVerdictFresh ==
    \A g \in Graders, q \in ParlayIds :
        pverdict[g][q] # Pending => parlay[q].result = Pending

\* An open bet has returned nothing yet.
OpenBack ==
    /\ \A p \in PickIds : pick[p].result = Pending => pick[p].back = 0
    /\ \A q \in ParlayIds : parlay[q].result = Pending => parlay[q].back = 0

\* What a request read under the lock is still what is available.
SeenCovered ==
    \A r \in Requests : rq[r].pc \in {"checked", "checked parlay"} =>
        rq[r].seen <= AvailableOf(rq[r].user)

\* One process runs the grading pass.
OneGrader == \A g, h \in Graders : g = h

\* The inductive invariant behind NeverOverdrawn and SettledOnce.
OnePassInv ==
    /\ VerdictFresh /\ PropsDone /\ LegsRead /\ UnreadOpen /\ ParlayVerdictFresh
    /\ OpenBack /\ SeenCovered /\ NeverOverdrawn

\* A parlay's result is the one its graded legs give it.
MatchesLegs(q, result) ==
    /\ \A p \in LegsOf(q) : pick[p].result \in Graded
    /\ result = "win" <=> \A p \in LegsOf(q) : pick[p].result = "win"
    /\ result = "loss" <=> \E p \in LegsOf(q) : pick[p].result = "loss"

\* A leg is no bet of its own, so it is never cashed out.
LegsNotCashed == \A p \in PickIds : pick[p].parlay # NoParlay => pick[p].result # "cashed_out"

\* A parlay settled in memory matches its legs already.
ParlayVerdictMatches ==
    \A g \in Graders, q \in ParlayIds :
        pverdict[g][q] # Pending => MatchesLegs(q, pverdict[g][q])

\* The event a pass is about to insert tells the result the bet has.
AboutToTell == \A g \in Graders : \A e \in cur[g] : e[2] = ResultOf(e[1])

\* The inductive invariant behind RecordsAgree.
RecordsInv == LegsNotCashed /\ ParlayVerdictMatches /\ AboutToTell /\ RecordsAgree
=============================================================================
