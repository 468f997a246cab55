------------------------------- MODULE MCFeeds -------------------------------
\* Two profiles that trade one symbol on two intervals, and one shared interval.
EXTENDS Feeds, TLC

CONSTANTS p1, p2, btc

MCProfiles == {p1, p2}
MCSymbols == {btc}
MCCandles == {"1h", "15m"}
MCShared == <<"1m">>
MCInitialDb ==
  (p1 :> [enabled |-> TRUE, candle |-> "1h", symbols |-> {btc}])
  @@ (p2 :> [enabled |-> TRUE, candle |-> "15m", symbols |-> {btc}])
================================================================================
