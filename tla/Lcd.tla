-------------------------------- MODULE Lcd ---------------------------------
(***************************************************************************)
(* The character LCD all displays of the repository drive, and the six     *)
(* writes with which they send it a byte, a half at a time.  The           *)
(* controller is not in the repository: it is modelled as the programs use *)
(* it.  It takes the four data pins whenever the enable pin falls, puts    *)
(* two halves together once it is in 4-bit mode, and writes characters to  *)
(* the cell it was pointed to.                                             *)
(***************************************************************************)
EXTENDS Integers, Sequences

CONSTANTS
  Columns,      \* bound: cells of a line that are looked at
  BLANK         \* an empty cell

\* A line of the controller has 40 addresses.  A text of a line's length comes
\* to its end from no column looked at.
ASSUME LcdAssumption == Columns \in 1 .. 20 /\ BLANK \in 0 .. 255

\* A half byte, and none.
Nibbles == 0 .. 15
NoHalf  == 16

\* The cells of both lines, by the address the controller gives them.
LineStart == <<0, 64>>
Cells == UNION {LineStart[l] .. LineStart[l] + Columns - 1 : l \in 1 .. 2}
Elsewhere == -1

VARIABLES
  pins,         \* what was last written to the bus: half byte, mode, enable
  width,        \* the bits the controller takes for a byte's first half
  half,         \* the first half of a byte, if it has come
  addr,         \* the cell for the next character
  ram           \* ram[c]: the character in cell c

controller == <<width, half, addr, ram>>
lcdVars == <<pins, controller>>

\* The commands the programs send; others do nothing here.  Addresses past
\* the cells looked at are all Elsewhere, where a text goes on to its end.
At(a) == IF a \in Cells THEN a ELSE Elsewhere

Command(b) ==
  /\ addr' = CASE b >= 128 -> At(b - 128)
               [] b \in 64 .. 127 -> Elsewhere
               [] b \in 1 .. 3 -> 0
               [] OTHER -> addr
  /\ ram' = IF b = 1 THEN [c \in Cells |-> BLANK] ELSE ram
  /\ width' = CASE b \in 48 .. 63 -> 8 [] b \in 32 .. 47 -> 4 [] OTHER -> width

Character(b) ==
  /\ ram' = IF addr \in Cells THEN [ram EXCEPT ![addr] = b] ELSE ram
  /\ addr' = IF addr = Elsewhere THEN Elsewhere ELSE At(addr + 1)
  /\ UNCHANGED width

Take(rs, b) ==
  /\ half' = NoHalf
  /\ \/ rs = 0 /\ Command(b)
     \/ rs = 1 /\ Character(b)

Latch(p) ==
  \/ width = 8 /\ Take(p.rs, 16 * p.data)
  \/ width = 4 /\ half # NoHalf /\ Take(p.rs, 16 * half + p.data)
  \/ width = 4 /\ half = NoHalf /\ half' = p.data /\ UNCHANGED <<width, addr, ram>>

\* A write to the bus.  When enable falls while the data change the
\* controller may see them before or after.
BusWrite(v) ==
  /\ pins' = v
  /\ \/ pins.e = 1 /\ v.e = 0 /\ \E p \in {pins, v} : Latch(p)
     \/ ~(pins.e = 1 /\ v.e = 0) /\ UNCHANGED controller

-----------------------------------------------------------------------------
\* The modes lcd_byte is called with; 4 is a command with enable set early.
LCD_CMD == 0
LCD_CHR == 1
EarlyCommand == 4

Pins(n, mode, e) == [data |-> n, rs |-> mode % 2, e |-> e]

\* The half byte, then enable on, then off.
Toggled(n, mode) == <<Pins(n, mode, mode \div 4), Pins(n, mode, 1), Pins(n, mode, 0)>>

\* Faulty lcd_byte: the low half goes first.
lcd_byte_swapped(bits, mode) == Toggled(bits % 16, mode) \o Toggled(bits \div 16, mode)

lcd_byte(bits, mode) == Toggled(bits \div 16, mode) \o Toggled(bits % 16, mode)

LcdTypeOK ==
  /\ pins \in [data : Nibbles, rs : {0, 1}, e : {0, 1}]
  /\ width \in {4, 8} /\ half \in Nibbles \cup {NoHalf}
  /\ addr \in Cells \cup {Elsewhere}
  /\ DOMAIN ram = Cells
=============================================================================
