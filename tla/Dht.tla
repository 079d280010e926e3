-------------------------------- MODULE Dht ---------------------------------
(***************************************************************************)
(* The sensor of the displays and read_dht_data, which is the same in      *)
(* final/tempandlcd_3.c and slot2/LCDnTnH.c.  The sensor answers with a    *)
(* train of pulses, high and low in turn; a bit is a high one, short for 0 *)
(* and long for 1.  The program counts how long each lasts, but it is only *)
(* one process of many: when it is put off it counts too little or misses  *)
(* pulses, and the line itself may be disturbed.                           *)
(***************************************************************************)
EXTENDS Integers, Sequences

CONSTANTS
  Measured,     \* what the sensors measure: type, humidity, temperature in 1/10
  LowIsLong,    \* the pulse between two bits would be taken for a 1: its 50
                \* microseconds are more than 16 rounds of the waiting loop
  MaxFaults     \* bound: faults in a train

ASSUME DhtAssumption ==
  /\ Measured \subseteq [type : {"DHT11", "DHT22"}, h : 0 .. 1000, c : 0 .. 800]
  /\ LowIsLong \in BOOLEAN /\ MaxFaults \in Nat

VARIABLES
  sensor,       \* what the sensor measured
  pulse,        \* the pulse on the line
  spike,        \* pulses of a disturbance that are still to come
  faults,       \* the faults of this train
  dht,          \* read_dht_data: "idle", "reading" or, before it returns, "done"
  i, j, data    \* its variables; data[5] is the word after the array

wire == <<sensor, pulse, spike, faults>>
dhtVars == <<wire, dht, i, j, data>>

MAX_TIMINGS == 85
Zero == [k \in 0 .. 5 |-> 0]

DhtInit == /\ sensor \in Measured /\ pulse = 0 /\ spike = 0 /\ faults = <<>>
           /\ dht = "idle" /\ i = 0 /\ j = 0 /\ data = Zero

-----------------------------------------------------------------------------
\* The sensor sends four bytes and their sum.
Bytes(m) ==
  LET b == IF m.type = "DHT22"
           THEN <<m.h \div 256, m.h % 256, m.c \div 256, m.c % 256>>
           ELSE <<m.h \div 10, 0, m.c \div 10, 0>>
  IN Append(b, (b[1] + b[2] + b[3] + b[4]) % 256)

\* The pulses before the first bit, and what follows the last.
Preamble == 4
LastPulse == Preamble + 80

\* What the bits of a byte are worth, in the order they are sent.
Worth == <<128, 64, 32, 16, 8, 4, 2, 1>>

\* Pulse p is long: it would be taken for a 1.  The sensor begins with two
\* pulses of 80 microseconds, and the bits are the high ones after those.
Long(p) == LET k == (p - Preamble) \div 2
           IN \/ p \in {1, 2}
              \/ p % 2 = 1 /\ LowIsLong
              \/ /\ p >= Preamble /\ p % 2 = 0
                 /\ (Bytes(sensor)[k \div 8 + 1] \div Worth[(k % 8) + 1]) % 2 = 1

StartRead ==
  /\ dht = "idle" /\ dht' = "reading"
  /\ sensor' \in Measured /\ pulse' = 0 /\ spike' = 0 /\ faults' = <<>>
  /\ i' = 0 /\ j' = 0 /\ data' = Zero

\* Faulty Sample: the first bit is taken one high pulse too early.
SampleEarly(long) ==
  /\ i' = i + 1 /\ dht' = IF i + 1 = MAX_TIMINGS THEN "done" ELSE "reading"
  /\ IF i >= 2 /\ i % 2 = 0
     THEN /\ data' = [data EXCEPT ![j \div 8] = 2 * @ + IF long THEN 1 ELSE 0]
          /\ j' = j + 1
     ELSE UNCHANGED <<j, data>>

\* The rest of an iteration after a pulse of that length.  What is high and
\* what is low it does not know: it takes every second pulse for a bit.
Sample(long) ==
  /\ i' = i + 1 /\ dht' = IF i + 1 = MAX_TIMINGS THEN "done" ELSE "reading"
  /\ IF i >= 4 /\ i % 2 = 0
     THEN /\ data' = [data EXCEPT ![j \div 8] = 2 * @ + IF long THEN 1 ELSE 0]
          /\ j' = j + 1
     ELSE UNCHANGED <<j, data>>

\* counter got to 255.
Break == dht' = "done" /\ UNCHANGED <<i, j, data>>

Fault(kind, pulses) ==
  /\ Len(faults) < MaxFaults /\ faults' = Append(faults, kind)
  /\ pulse' = pulse + pulses /\ UNCHANGED sensor

\* One iteration of the loop: it waits for the end of a pulse.  After the
\* last one the line stays high.
Edge ==
  /\ dht = "reading"
  /\ \/ /\ pulse < LastPulse /\ spike = 0 /\ Sample(Long(pulse))
        /\ pulse' = pulse + 1 /\ UNCHANGED <<sensor, spike, faults>>
     \/ pulse = LastPulse /\ spike = 0 /\ Break /\ UNCHANGED wire
     \/ /\ spike > 0 /\ spike' = spike - 1
        /\ \E long \in BOOLEAN : Sample(long)
        /\ pulse' = pulse + IF spike = 1 THEN 1 ELSE 0
        /\ UNCHANGED <<sensor, faults>>

Misread == /\ dht = "reading" /\ pulse < LastPulse /\ spike = 0
           /\ Sample(~Long(pulse)) /\ Fault("misread", 1) /\ UNCHANGED spike

\* Put off in the waiting loop over the middle of three pulses.
Lost == /\ dht = "reading" /\ pulse + 2 < LastPulse /\ spike = 0
        /\ \E long \in BOOLEAN : Sample(long)
        /\ Fault("lost", 3) /\ UNCHANGED spike

\* Put off after the waiting loop and before laststate is read again, over
\* the next pulse: laststate stays what it was and low pulses become bits.
\* Put off over more of them, it goes on as after Lost; before the loop, as
\* after Misread or Lost; and woken within a pulse, that one is misread too.
Slip == /\ dht = "reading" /\ pulse + 2 <= LastPulse /\ spike = 0
        /\ Sample(Long(pulse)) /\ Fault("slip", 2) /\ UNCHANGED spike

\* A pulse is cut in three, or in two when the disturbance is over before
\* laststate is read again.
Glitch == /\ dht = "reading" /\ pulse < LastPulse /\ spike = 0 /\ spike' \in 1 .. 2
          /\ \E long \in BOOLEAN : Sample(long)
          /\ Fault("glitch", 0)

\* No sensor, or one that stops.
Dead == dht = "reading" /\ Break /\ Fault("dead", 0) /\ UNCHANGED spike

\* Nobody looks at the variables after it has returned.
Return == /\ dht = "done" /\ dht' = "idle"
          /\ pulse' = 0 /\ spike' = 0 /\ faults' = <<>> /\ UNCHANGED sensor
          /\ i' = 0 /\ j' = 0 /\ data' = Zero

-----------------------------------------------------------------------------
\* Faulty Accepted: the number of bits is not looked at.
AcceptedShort == data[4] = (data[0] + data[1] + data[2] + data[3]) % 256

Accepted == j >= 40 /\ data[4] = (data[0] + data[1] + data[2] + data[3]) % 256

\* In 1/10; a DHT11 sends whole numbers, which are far too large for tenths.
Reading ==
  LET h == 256 * data[0] + data[1]
      c == 256 * data[2] + data[3]
  IN [h |-> IF h > 1000 THEN 10 * data[0] ELSE h,
      c |-> IF c > 1250 THEN 10 * data[2] ELSE c]

DhtNext == Edge \/ Misread \/ Lost \/ Slip \/ Glitch \/ Dead

DhtTypeOK ==
  /\ sensor \in Measured /\ pulse \in 0 .. LastPulse /\ spike \in 0 .. 2
  /\ dht \in {"idle", "reading", "done"}
  /\ i \in 0 .. MAX_TIMINGS /\ j \in 0 .. 41
  /\ \A k \in 0 .. 5 : data[k] \in 0 .. 255
=============================================================================
