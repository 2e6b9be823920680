---------------------------- MODULE PISOStrategy ----------------------------
(***************************************************************************)
(* config/freqtrade/PISOStrategy.py: which candles enter and leave a trade *)
(* and what is noted of one taken with a profit.  A candle carries the     *)
(* values a library computes for it; prices are only compared, so small    *)
(* numbers stand for them.  Freqtrade, which asks the strategy after every *)
(* candle, keeps one trade and closes it, is external.                     *)
(***************************************************************************)
EXTENDS Integers

CONSTANTS
    Candle,         \* bound: the candles the market may print, records of
                    \* [ema_fast, ema_slow, ema_trend, rsi, close, macdhist, volume]
    Profit,         \* bound: what a trade may stand at, in tenths of a basis point
    MaxHeld,        \* bound: minutes
    rsi_buy_min, rsi_buy_max, rsi_exit_max  \* the tuned parameters

ASSUME TunedRanges ==
    /\ rsi_buy_min \in 30 .. 55
    /\ rsi_buy_max \in 55 .. 80
    /\ rsi_exit_max \in 65 .. 90

VARIABLES
    candle,         \* the last candle printed, in a set of at most one
    enter_long, exit_long,  \* its signals
    held,           \* minutes since the open trade was entered, or NoTrade
    peak,           \* the highest it stood
    noted           \* what _log_piso_proof wrote last: [record, hashed], in basis points

strategyVars == <<candle, enter_long, exit_long, held, peak, noted>>

NoTrade == -1
timeframe == 5
NotNoted == [record |-> 0, hashed |-> 0]

StrategyInit ==
    /\ candle = {}
    /\ enter_long = FALSE /\ exit_long = FALSE
    /\ held = NoTrade
    /\ peak = 0
    /\ noted = NotNoted

\* The first candle has none before it and crosses nothing.
ema_cross_up(c) ==
    \E before \in candle : c.ema_fast > c.ema_slow /\ before.ema_fast <= before.ema_slow

ema_cross_down(c) ==
    \E before \in candle : c.ema_fast < c.ema_slow /\ before.ema_fast >= before.ema_slow

populate_entry_trend(c) ==
    /\ ema_cross_up(c)
    /\ c.rsi \in rsi_buy_min .. rsi_buy_max
    /\ c.close > c.ema_trend
    /\ c.macdhist > 0
    /\ c.volume > 0

populate_exit_trend(c) == ema_cross_down(c) \/ c.rsi > rsi_exit_max

\* The profit from which a trade is closed falls with the minutes it is held.
minimal_roi(minutes) ==
    CASE minutes < 30  -> 8000
      [] minutes < 60  -> 4000
      [] minutes < 120 -> 2000
      [] OTHER         -> 1000

\* The stop follows the peak once that has passed the offset.
trailing_stop_positive == 1000
trailing_stop_positive_offset == 2000
stoploss(top) ==
    IF top >= trailing_stop_positive_offset THEN top - trailing_stop_positive ELSE -3000

custom_exit(minutes, profit) == minutes >= 10 /\ profit > 5000

\* Rounded to the even neighbour in the record, cut off in the text that is hashed.
_log_piso_proof(profit) ==
    LET cut == profit \div 10
        up == profit % 10 > 5 \/ (profit % 10 = 5 /\ cut % 2 = 1)
    IN  [record |-> IF up THEN cut + 1 ELSE cut, hashed |-> cut]

-----------------------------------------------------------------------------
PrintCandle(c) ==
    /\ candle' = {c}
    /\ enter_long' = populate_entry_trend(c)
    /\ exit_long' = populate_exit_trend(c)

\* With both signals freqtrade enters nothing; the ranges allow a candle that
\* is entered to ask for the exit, the defaults do not.
StayOut ==
    /\ held = NoTrade
    /\ held' = IF enter_long' /\ ~exit_long' THEN 0 ELSE NoTrade
    /\ peak' = 0
    /\ UNCHANGED noted

\* A trade is closed for any of the strategy's reasons; custom_exit is asked
\* when there is no exit signal.
HoldTrade(profit) ==
    LET minutes == held + timeframe
        top == IF profit > peak THEN profit ELSE peak
        taken == custom_exit(minutes, profit) /\ ~exit_long'
    IN  /\ held # NoTrade
        /\ noted' = IF taken THEN _log_piso_proof(profit) ELSE noted
        /\ IF taken \/ exit_long' \/ profit >= minimal_roi(minutes) \/ profit <= stoploss(top)
           THEN held' = NoTrade /\ peak' = 0
           ELSE minutes <= MaxHeld /\ held' = minutes /\ peak' = top

\* The limit order of an exit may not be filled: the trade is asked about again.
Unfilled(profit) ==
    LET minutes == held + timeframe
    IN  /\ held # NoTrade /\ minutes <= MaxHeld
        /\ held' = minutes
        /\ peak' = IF profit > peak THEN profit ELSE peak
        /\ noted' = IF custom_exit(minutes, profit) /\ ~exit_long'
                    THEN _log_piso_proof(profit) ELSE noted

StrategyNext ==
    \E c \in Candle :
        /\ PrintCandle(c)
        /\ \/ StayOut
           \/ \E profit \in Profit : HoldTrade(profit) \/ Unfilled(profit)

StrategySpec == StrategyInit /\ [][StrategyNext]_strategyVars
=============================================================================
