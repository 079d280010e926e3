--------------------------- MODULE MCClockDisplay ---------------------------
(***************************************************************************)
(* Instances of ClockDisplay for TLC.  Two or three characters stand for   *)
(* the time, one or two for the reading.  51 is "3", the byte that puts the *)
(* LCD into 8-bit mode when it is taken for a command.                     *)
(***************************************************************************)
EXTENDS ClockDisplay

MCTimes == {<<48, 51>>, <<51, 51, 51>>}

\* 20 % and 31.0 degrees: without one bit, bytes whose sum is right by chance.
DHT22 == [type : {"DHT22"}, h : {200}, c : {40, 310}]
DHT11 == [type : {"DHT11"}, h : {640}, c : {300}]
MCMeasured == DHT22 \cup DHT11
=============================================================================
