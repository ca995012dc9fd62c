------------------------------- MODULE Schema -------------------------------
(***************************************************************************)
(* The database's schema as a set of items -- tables, columns, indexes,    *)
(* seeded rows and one backfill -- and what each migration adds to it.     *)
(***************************************************************************)
EXTENDS Sequences, Integers

(* Items and statements.  A statement adds its item, or drops a table.      *)

Table(t) == <<"table", t, "all">>
Column(t, c) == <<"column", t, c>>
Index(t, i) == <<"index", t, i>>
Row(t, r) == <<"row", t, r>>
Backfill(t, c) == <<"backfill", t, c>>
Drop(t) == <<"drop", t, "all">>

(* A migration: the table it is about ("none": it depends on none as a     *)
(* whole); its items, in the order it adds them; and whether it looks for    *)
(* each of them or only for the first, also for doubled rows (unique), or    *)
(* for the legacy table.                                                     *)
Adds(t, items, looks) == [table |-> t, items |-> items, looks |-> looks]
AddColumns(t, cs) == Adds(t, [i \in DOMAIN cs |-> Column(t, cs[i])], "each")

migrate_game_start_time == AddColumns("games", <<"start_time">>)
migrate_player_stat_receptions == AddColumns("player_stats", <<"receptions">>)
migrate_elo_history == Adds("none", <<Table("elo_history")>>, "each")
migrate_pick_result_line_at_close == AddColumns("pick_results", <<"line_at_close">>)
migrate_pick_model_prob == AddColumns("picks", <<"model_prob">>)
migrate_pick_rationale == AddColumns("picks", <<"rationale_json">>)
migrate_pick_prop_fields == AddColumns("picks", <<"prop_player", "prop_market">>)
migrate_game_espn_id == AddColumns("games", <<"espn_id">>)
migrate_pick_odds_reconstructed == AddColumns("picks", <<"odds_reconstructed">>)
migrate_game_neutral_site == AddColumns("games", <<"neutral_site">>)
migrate_game_season_type == AddColumns("games", <<"season_type">>)
migrate_game_odds_api_id == Adds("games",
    <<Column("games", "odds_api_id"), Index("games", "ix_games_odds_api_id")>>, "first")
migrate_pick_suggested_unit_size == AddColumns("picks", <<"suggested_unit_size">>)
migrate_odds_spread_total_prices == AddColumns("odds",
    <<"spread_home_price", "spread_away_price", "over_price", "under_price">>)
migrate_team_box_scores == Adds("none", <<Table("team_box_scores")>>, "each")
migrate_emailed_pick_confidence == Adds("emailed_picks",
    <<Column("emailed_picks", "confidence"), Backfill("emailed_picks", "confidence")>>, "first")
migrate_emailed_pick_best_price == AddColumns("emailed_picks", <<"best_book", "best_odds">>)
migrate_user_pin == AddColumns("user_profiles", <<"pin_hash", "pin_salt">>)
migrate_pick_tracking_only == AddColumns("picks", <<"tracking_only">>)
migrate_pick_market_prob_novig == AddColumns("picks", <<"market_prob_novig">>)
migrate_pick_withdrawal == Adds("none",
    <<Column("picks", "withdrawn_at"), Column("pick_versions", "withdrawn")>>, "each")
migrate_game_live_detail == AddColumns("games", <<"live_detail">>)
migrate_paper_pick_note == AddColumns("paper_picks", <<"note">>)
migrate_parlays == Adds("none", <<Table("parlays"), Column("paper_picks", "parlay_id")>>, "each")
migrate_combat_sports_strategy == Adds("strategies", <<Row("strategies", "combat_sports")>>, "each")
migrate_weather_strategy == Adds("strategies", <<Row("strategies", "weather_rain_under")>>, "each")
migrate_activity_feed_bet_key == Adds("activity_feed",
    <<Index("activity_feed", "uq_activity_feed_bet_key")>>, "each")

(* One drops the legacy table; one cannot add its index over doubled rows.  *)
migrate_api_usage == Adds("api_usage", <<Drop("api_usage")>>, "legacy")
migrate_odds_one_row_per_book == Adds("odds", <<Index("odds", "uq_odds_game_bookmaker")>>, "unique")

(* The models' tables: create_all makes those that are missing. *)
TableOrder == <<"games", "player_stats", "picks", "pick_results", "pick_versions", "odds",
                "strategies", "emailed_picks", "user_profiles", "paper_picks", "parlays",
                "activity_feed", "elo_history", "team_box_scores", "api_usage">>
create_all == Adds("none", [i \in DOMAIN TableOrder |-> Table(TableOrder[i])], "each")

MIGRATIONS ==
  <<migrate_api_usage, migrate_game_start_time, migrate_player_stat_receptions,
    migrate_elo_history, migrate_parlays, migrate_pick_result_line_at_close,
    migrate_pick_model_prob, migrate_pick_rationale, migrate_pick_prop_fields,
    migrate_game_espn_id, migrate_pick_odds_reconstructed, migrate_game_neutral_site,
    migrate_game_season_type, migrate_game_odds_api_id, migrate_pick_suggested_unit_size,
    migrate_odds_spread_total_prices, migrate_odds_one_row_per_book, migrate_team_box_scores,
    migrate_emailed_pick_confidence, migrate_emailed_pick_best_price, migrate_user_pin,
    migrate_pick_tracking_only, migrate_pick_market_prob_novig, migrate_pick_withdrawal,
    migrate_game_live_detail, migrate_paper_pick_note, create_all,
    migrate_combat_sports_strategy, migrate_weather_strategy, migrate_activity_feed_bet_key>>

Items(m) == {m.items[i] : i \in DOMAIN m.items}
Current == UNION {Items(MIGRATIONS[k]) : k \in 2 .. Len(MIGRATIONS)}
(* What a table has when create_all or Table.create makes it. *)
Whole(t) ==
    {Table(t)} \cup {item \in Current \ Items(migrate_activity_feed_bet_key) :
                        item[2] = t /\ item[1] \in {"column", "index", "backfill"}}
Legacy == <<"column", "api_usage", "source">>
=============================================================================
