------------------------------ MODULE PingCodec ------------------------------
(***************************************************************************)
(* How a ping becomes a number of user_nodes_history.pings and how that    *)
(* number is read back: the saver of updater/updater.go writes it, the     *)
(* handler HandleAPIUserNodePings sends it whole ("full") or squeezed into *)
(* a byte, and pings_chart.js draws it.                                    *)
(*                                                                         *)
(* A day has DayMinutes slots, one per minute.  The number in a slot is 0  *)
(* (no ping), or hint * Scale + v, where v = 1 is a failed ping, v > 1 a   *)
(* duration, and hint tells the part of the minute.                        *)
(***************************************************************************)
EXTENDS Integers

CONSTANTS MinuteLen,    \* time units (seconds) in a minute: 60
          SecondLen,    \* time units of the chart (milliseconds) in a second: 1000
          DayMinutes,   \* slots of a day: 1440
          HintLen,      \* seconds one step of the hint stands for: 4
          Scale,        \* durations are clamped below it: 2000
          ByteRange     \* values of the short form: 256

ASSUME CodecAssumption ==
    /\ MinuteLen \in Nat \ {0}
    /\ SecondLen \in Nat \ {0}
    /\ DayMinutes \in Nat \ {0}
    /\ HintLen \in 1..MinuteLen
    /\ Scale \in Nat /\ Scale > 2
    /\ ByteRange \in Nat /\ ByteRange > 2

DayLen == DayMinutes * MinuteLen

Day(stamp)  == stamp \div DayLen
Slot(stamp) == (stamp % DayLen) \div MinuteLen + 1

TimeHint(stamp) == (stamp % MinuteLen) \div HintLen

Clamped(ms) == IF ms >= Scale THEN Scale - 1
               ELSE IF ms <= 1 THEN 2
               ELSE ms

PingValue(stamp, ok, ms) ==
    TimeHint(stamp) * Scale + (IF ok THEN Clamped(ms) ELSE 1)

(* Mutant: the fastest pings are not kept apart from errors.               *)
ShortValue_NoFloor(value) ==
    LET val == value % Scale
    IN  IF val <= 1 THEN val ELSE (val * ByteRange) \div Scale

(* The short form: the byte the handler sends for a value.                 *)
ShortValue(value) ==
    LET val == value % Scale
        byte == (val * ByteRange) \div Scale
    IN  IF val <= 1 THEN val
        ELSE IF byte <= 1 THEN 2
        ELSE byte

(* What the chart makes of a number it received, in the full form: kind of *)
(* the point and its duration.                                             *)
Kind(ping) == IF ping < 2 THEN ping ELSE 2
FullPing(value) == value % Scale

(* What the chart adds to the time of the minute, which it has in          *)
(* milliseconds: the number of seconds the hint stands for, as it is.  So  *)
(* the point is at the minute's start, some milliseconds after it, though  *)
(* pings_chart.js 41 speaks of seconds_from_start_of_minute.               *)
FullTime(value) == (value \div Scale) * HintLen

(* The short form has no time; the chart puts the point at the middle of   *)
(* the byte's range, in an array of integers.                              *)
ShortPing(byte) ==
    IF byte <= 1 THEN byte ELSE ((2 * byte + 1) * Scale) \div (2 * ByteRange)

-----------------------------------------------------------------------------
(* A value fits in the column's smallint and its slot is inside the array, *)
(* whose bounds the table checks (pings smallint[], '[1:1440]').           *)
FitsTheColumn(stamp, value) == value \in 1..32767 /\ Slot(stamp) \in 1..DayMinutes

(* No outcome is mistaken for another on the way to the chart, by either   *)
(* form: a ping is never "no data", a failed one never has a duration and  *)
(* a successful one never looks failed, however fast or slow it was.       *)
OutcomeSurvives(ok, value) ==
    LET kind == IF ok THEN 2 ELSE 1
    IN  Kind(FullPing(value)) = kind /\ Kind(ShortPing(ShortValue(value))) = kind

(* When the ping was taken, on the chart's clock, from the minute's start.  *)
Taken(stamp) == (stamp % MinuteLen) * SecondLen

(* The point is never later than the ping and never before its minute, so  *)
(* that the points of a line are in the order of the pings.                *)
TimeSurvives(stamp, value) == FullTime(value) \in 0..Taken(stamp)

(* The duration is exact in the full form, and in the short form, which    *)
(* fits in a byte, off by at most one step of the byte, except for the     *)
(* fastest pings, all shown alike.                                         *)
DurationSurvives(ms, value) ==
    LET step == Scale \div ByteRange + 1
        err == ShortPing(ShortValue(value)) - Clamped(ms)
    IN  /\ ShortValue(value) \in 2..(ByteRange - 1)
        /\ FullPing(value) = Clamped(ms)
        /\ IF Clamped(ms) < 2 * step THEN err \in 0..(3 * step)
                                      ELSE err \in (-step)..step

(* What is kept of a ping on its way to the chart: the four above, of      *)
(* updater.go 184-200, handlers.go 600-616, pings_chart.js and charts.js.  *)
PingIsKept(stamp, ok, ms) ==
    LET value == PingValue(stamp, ok, ms)
    IN  /\ FitsTheColumn(stamp, value)
        /\ OutcomeSurvives(ok, value)
        /\ TimeSurvives(stamp, value)
        /\ ok => DurationSurvives(ms, value)
=============================================================================
