---------------------------- MODULE ClockDisplay ----------------------------
(***************************************************************************)
(* The programs on the LCD.  slot2/LCDnTnH.c updates its two lines one     *)
(* after the other in one loop, final/tempandlcd_3.c in a thread per line, *)
(* without a lock; line 2 is what the sensor measures.  slot1/lcd.c is the *)
(* driver of the phone boxes, which call it for one text at a time.        *)
(*                                                                         *)
(* Nothing is known of the LCD when the program starts: it may have been   *)
(* switched on, or left by a program that was stopped between two writes.  *)
(***************************************************************************)
EXTENDS Lcd, Dht

CONSTANTS
  Programs,     \* "loop", "threads" and "driver": one of them runs
  Times,        \* the texts of line 1 and of the phone boxes, in characters
  Offsets,      \* bound: the columns the phone boxes print from
  OldHalves,    \* bound: half bytes found on the bus and in the LCD at start
  OldCell       \* what the cells hold at start

ASSUME DisplayAssumption ==
  /\ Programs \subseteq {"loop", "threads", "driver"}
  /\ OldHalves \subseteq Nibbles /\ Offsets \subseteq 0 .. Columns - 1
  /\ \A s \in Times : s \in Seq(0 .. 255) /\ Len(s) \in 1 .. Columns

Writers == {"main", "time", "dht"}

\* The temperature without its last digit; the rest of line 2 is left out.
Text(r) == (IF r.c < 100 THEN <<>> ELSE <<48 + r.c \div 100>>)
           \o <<48 + (r.c % 100) \div 10>>

VARIABLES
  program,      \* the one that runs
  ready,        \* lcd_init has returned
  queue,        \* queue[w]: the arguments of the lcd_byte calls w still makes
                \* for the line, or the initialisation, it is at
  step,         \* step[w]: the writes of the first of them that are done
  line,         \* line[w]: the line w updates next
  shown         \* history: shown[l], what line l should look like: the text
                \* last printed, and what it left of those before

display == <<program, ready, queue, step, line, shown>>
vars == <<lcdVars, display, dhtVars>>

\* Faulty lcd_init: the byte that finds the beginning of a byte is left out.
lcd_init_short == [n \in 1 .. 5 |-> <<<<50, 6, 12, 40, 1>>[n], LCD_CMD>>]

lcd_init == [n \in 1 .. 6 |-> <<<<51, 50, 6, 12, 40, 1>>[n], LCD_CMD>>]

NoText == [n \in 1 .. Columns |-> BLANK]

\* main initialises the LCD before it creates the threads.
Init ==
  /\ pins \in [data : OldHalves, rs : {0, 1}, e : {0, 1}]
  /\ width \in {4, 8}
  /\ half \in IF width = 4 THEN OldHalves \cup {NoHalf} ELSE {NoHalf}
  /\ addr \in Cells \cup {Elsewhere} /\ ram = [c \in Cells |-> OldCell]
  /\ program \in Programs /\ ready = FALSE
  /\ queue = [w \in Writers |-> IF w = "main" THEN lcd_init ELSE <<>>]
  /\ step = [w \in Writers |-> 0]
  /\ line = [w \in Writers |-> IF w = "dht" THEN 2 ELSE 1]
  /\ shown = <<NoText, NoText>> /\ DhtInit

SendLast(w) == queue' = [queue EXCEPT ![w] = Tail(@)] /\ step' = [step EXCEPT ![w] = 0]

\* One write of an lcd_byte call; 500 microseconds pass between two.
Send(w) ==
  /\ queue[w] # <<>>
  /\ LET b == Head(queue[w]) IN BusWrite(lcd_byte(b[1], b[2])[step[w] + 1])
  /\ \/ step[w] < 5 /\ step' = [step EXCEPT ![w] = @ + 1] /\ UNCHANGED queue
     \/ step[w] = 5 /\ SendLast(w)
  /\ UNCHANGED <<program, ready, line, shown, dhtVars>>

Initialised ==
  /\ ~ready /\ queue = [w \in Writers |-> <<>>]
  /\ ready' = TRUE
  /\ UNCHANGED <<lcdVars, program, queue, step, line, shown, dhtVars>>

-----------------------------------------------------------------------------
\* The text s printed over a line from column c on.
Over(row, c, s) ==
  [n \in 1 .. Columns |-> IF n - c \in DOMAIN s THEN s[n - c] ELSE row[n]]

\* The move to a line, then lcd_send_string.
PrintLine(w, mode, l, c, s) ==
  LET to_line == <<128 + LineStart[l] + c, mode>>
  IN /\ queue' = [queue EXCEPT
          ![w] = <<to_line>> \o [n \in DOMAIN s |-> <<s[n], LCD_CHR>>]]
     /\ shown' = [shown EXCEPT ![l] = Over(@, c, s)]

\* The loop updates line 1, then line 2, a thread always the same line.
Next_line(w) == IF program = "threads" THEN line[w] ELSE 3 - line[w]

Turn(w, l) ==
  /\ ready /\ queue[w] = <<>> /\ line[w] = l
  /\ program = IF w = "main" THEN "loop" ELSE "threads"

Advance(w) == /\ line' = [line EXCEPT ![w] = Next_line(w)]
              /\ UNCHANGED <<lcdVars, program, ready, step>>

DisplayTime(w) ==
  /\ Turn(w, 1) /\ Advance(w)
  /\ \E s \in Times :
       PrintLine(w, IF w = "main" THEN EarlyCommand ELSE LCD_CMD, 1, 0, s)
  /\ UNCHANGED dhtVars

ReadSensor(w) ==
  /\ Turn(w, 2) /\ (StartRead \/ DhtNext)
  /\ UNCHANGED <<lcdVars, display>>

\* read_dht_data returns 0, or -1.
DisplayReading(w) ==
  /\ Turn(w, 2) /\ Advance(w) /\ Return
  /\ \/ Accepted /\ PrintLine(w, LCD_CMD, 2, 0, Text(Reading))
     \/ ~Accepted /\ UNCHANGED <<queue, shown>>

-----------------------------------------------------------------------------
\* The calls of the driver: all their users make them one after the other.
Driver ==
  /\ program = "driver" /\ ready /\ queue["main"] = <<>>
  /\ UNCHANGED <<lcdVars, program, ready, step, line, dhtVars>>

lcd_clear ==
  /\ Driver /\ shown' = <<NoText, NoText>>
  /\ queue' = [queue EXCEPT !["main"] = << <<1, LCD_CMD>>, <<2, LCD_CMD>> >>]

lcd_print_at ==
  /\ Driver
  /\ \E l \in 1 .. 2, c \in Offsets, s \in Times : PrintLine("main", LCD_CMD, l, c, s)

-----------------------------------------------------------------------------
Next == \/ Initialised \/ lcd_clear \/ lcd_print_at
        \/ \E w \in Writers : \/ Send(w) \/ DisplayTime(w)
                              \/ ReadSensor(w) \/ DisplayReading(w)

Spec == Init /\ [][Next]_vars

-----------------------------------------------------------------------------
DisplayTypeOK ==
  /\ LcdTypeOK /\ DhtTypeOK
  /\ program \in Programs /\ ready \in BOOLEAN
  /\ step \in [Writers -> 0 .. 5]
  /\ line \in [Writers -> 1 .. 2]
  /\ shown \in Seq(Seq(0 .. 255)) /\ \A l \in 1 .. 2 : Len(shown[l]) = Columns

\* Once lcd_init has returned, whatever it found, the LCD is in 4-bit mode
\* and between two calls of lcd_byte at the beginning of a byte: from then on
\* the halves are put together as they were sent.
InStep ==
  ready /\ step = [w \in Writers |-> 0] => width = 4 /\ half = NoHalf /\ pins.e = 0

Row(l) == [n \in 1 .. Columns |-> ram[LineStart[l] + n - 1]]

AtRest == ready /\ queue = [w \in Writers |-> <<>>]

\* "show up time", "display temperature and humidity": whenever nothing is
\* being sent both lines show the text last printed on them, and beside it
\* what it did not reach of the texts before.
ShowsText == AtRest => \A l \in 1 .. 2 : Row(l) = shown[l]

\* "if read successfully": a train that came whole is read, and gives what was
\* measured.  If it stopped, or one pulse of it was taken for the other bit or
\* missed by the loop that waits, it is refused or gives what was measured all
\* the same.  Of one cut by the line, or missed before laststate is read again,
\* nothing is promised: its sum may fit by chance.
ReadsTrain ==
  dht = "done" =>
    /\ faults = <<>> => Accepted
    /\ faults \in {<<>>, <<"misread">>, <<"lost">>, <<"dead">>} /\ Accepted =>
         Reading = [h |-> sensor.h, c |-> sensor.c]
=============================================================================
