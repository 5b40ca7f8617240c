------------------------------ MODULE LcdInit ------------------------------
(***************************************************************************)
(* st7735_initR() of ST7735.c: the reset of the LCD controller, and        *)
(* commandList(), the interpreter of the tables of commands, arguments and *)
(* delays.  Arguments that no property is about are "arg".                 *)
(*                                                                         *)
(* `waited' is a history variable: the SysTick clocks spent in delays      *)
(* since the controller was last sent a byte or had a pin moved.           *)
(***************************************************************************)
EXTENDS Delay, Sequences, FiniteSets

VARIABLES
  options,        \* argument of initR: the kind of display
  list, addr,     \* table and position of commandList
  numCommands, numArgs, ms,    \* its locals
  lcd,            \* the controller
  waited

listVars == <<list, addr, numCommands, numArgs, ms>>
lcdVars  == <<options, listVars, lcd, waited>>

-----------------------------------------------------------------------------
DELAY == 128

Rcmd1 ==
  <<15,
    "SWRESET", DELAY, 150, "SLPOUT", DELAY, 255, "FRMCTR1", 3, "arg", "arg", "arg",
    "FRMCTR2", 3, "arg", "arg", "arg",
    "FRMCTR3", 6, "arg", "arg", "arg", "arg", "arg", "arg", "INVCTR", 1, "arg",
    "PWCTR1", 3, "arg", "arg", "arg", "PWCTR2", 1, "arg", "PWCTR3", 2, "arg", "arg",
    "PWCTR4", 2, "arg", "arg", "PWCTR5", 2, "arg", "arg", "VMCTR1", 1, "arg",
    "INVOFF", 0, "MADCTL", 1, "MX|MY", "COLMOD", 1 + DELAY, "16-bit", 10>>

Rcmd2green == <<2, "CASET", 4, "arg", "arg", "arg", "arg", "RASET", 4, "arg", "arg", "arg", "arg">>
Rcmd2red   == <<2, "CASET", 4, "arg", "arg", "arg", "arg", "RASET", 4, "arg", "arg", "arg", "arg">>

\* Mutated form: a command less than the table has.
Rcmd3_three ==
  <<3,
    "GMCTRP1", 16,
    "arg", "arg", "arg", "arg", "arg", "arg", "arg", "arg",
    "arg", "arg", "arg", "arg", "arg", "arg", "arg", "arg",
    "GMCTRN1", 16,
    "arg", "arg", "arg", "arg", "arg", "arg", "arg", "arg",
    "arg", "arg", "arg", "arg", "arg", "arg", "arg", "arg",
    "NORON", DELAY, 10, "DISPON", DELAY, 100>>

Rcmd3 ==
  <<4,
    "GMCTRP1", 16,
    "arg", "arg", "arg", "arg", "arg", "arg", "arg", "arg",
    "arg", "arg", "arg", "arg", "arg", "arg", "arg", "arg",
    "GMCTRN1", 16,
    "arg", "arg", "arg", "arg", "arg", "arg", "arg", "arg",
    "arg", "arg", "arg", "arg", "arg", "arg", "arg", "arg",
    "NORON", DELAY, 10, "DISPON", DELAY, 100>>

Table(l) ==
  CASE l = "Rcmd1" -> Rcmd1 [] l = "Rcmd2green" -> Rcmd2green
    [] l = "Rcmd2red" -> Rcmd2red [] l = "Rcmd3" -> Rcmd3

Item == Table(list)[addr]

-----------------------------------------------------------------------------
\* The controller, which listens while CS is low and RST high.  The pins are
\* low from the moment st7735_setup makes them outputs.
LcdReset == [cs |-> 0, rst |-> 0, cmd |-> "reset", awake |-> FALSE, on |-> FALSE,
             colmod |-> "", madctl |-> ""]

Listening(l) == l.cs = 0 /\ l.rst = 1

\* What a command and a data byte do to it.
Command(l, c) ==
  IF ~Listening(l) THEN l ELSE
  CASE c = "SWRESET" -> [LcdReset EXCEPT !.rst = 1, !.cmd = c]
    [] c = "SLPOUT"  -> [l EXCEPT !.cmd = c, !.awake = TRUE]
    [] c = "DISPON"  -> [l EXCEPT !.cmd = c, !.on = TRUE]
    [] OTHER         -> [l EXCEPT !.cmd = c]

Data(l, d) ==
  IF ~Listening(l) THEN l ELSE
  CASE l.cmd = "MADCTL" -> [l EXCEPT !.madctl = d]
    [] l.cmd = "COLMOD" -> [l EXCEPT !.colmod = d]
    [] OTHER            -> l

\* The pins.
lcd_cs0(l)  == [l EXCEPT !.cs = 0]
lcd_rst1(l) == [l EXCEPT !.rst = 1]
lcd_rst0(l) == [LcdReset EXCEPT !.cs = l.cs]

\* main() changes the controller, or a pin of it, to l.
Sends(l) == lcd' = l /\ waited' = 0

\* initR and commonInit: chip select, then RST high, low and high again.
InitR ==
  /\ At("initR") /\ delay_ms(50, "cs0")
  /\ UNCHANGED lcdVars

SelectChip ==
  /\ At("cs0")
  /\ Sends(lcd_cs0(lcd))
  /\ pc' = "rst1"
  /\ UNCHANGED <<cpuVars, timeVars, options, listVars>>

RstHigh ==
  /\ At("rst1")
  /\ Sends(lcd_rst1(lcd))
  /\ delay_ms(500, "rst0")
  /\ UNCHANGED <<options, listVars>>

RstLow ==
  /\ At("rst0")
  /\ Sends(lcd_rst0(lcd))
  /\ delay_ms(500, "rst1_again")
  /\ UNCHANGED <<options, listVars>>

\* Mutated form: no delay after the reset.
RstHighAgainAtOnce ==
  /\ At("rst1_again")
  /\ Sends(lcd_rst1(lcd))
  /\ pc' = "list"
  /\ list' = "Rcmd1" /\ addr' = 1
  /\ UNCHANGED <<cpuVars, timeVars, options, numCommands, numArgs, ms>>

RstHighAgain ==
  /\ At("rst1_again")
  /\ Sends(lcd_rst1(lcd))
  /\ delay_ms(500, "list")
  /\ list' = "Rcmd1" /\ addr' = 1
  /\ UNCHANGED <<options, numCommands, numArgs, ms>>

-----------------------------------------------------------------------------
(* commandList.                                                            *)

ListBegins ==
  /\ At("list")
  /\ numCommands' = Item /\ addr' = addr + 1
  /\ pc' = "command"
  /\ UNCHANGED <<cpuVars, timeVars, options, list, numArgs, ms, lcd, waited>>

SendCommand ==
  /\ At("command") /\ numCommands > 0
  /\ Sends(Command(lcd, Item))
  /\ LET n == Table(list)[addr + 1]
     IN  numArgs' = n % DELAY /\ ms' = n - (n % DELAY)
  /\ numCommands' = numCommands - 1 /\ addr' = addr + 2
  /\ pc' = "args"
  /\ UNCHANGED <<cpuVars, timeVars, options, list>>

SendArgument ==
  /\ At("args") /\ numArgs > 0
  /\ Sends(Data(lcd, Item))
  /\ numArgs' = numArgs - 1 /\ addr' = addr + 1
  /\ UNCHANGED <<pc, cpuVars, timeVars, options, list, numCommands, ms>>

\* "If 255, delay for 500 ms".
post_delay(item) == IF item = 255 THEN 500 ELSE item

CommandDelay ==
  /\ At("args") /\ numArgs = 0 /\ ms # 0
  /\ delay_ms(post_delay(Item), "command")
  /\ addr' = addr + 1
  /\ UNCHANGED <<options, list, numCommands, numArgs, ms, lcd, waited>>

CommandDone ==
  /\ At("args") /\ numArgs = 0 /\ ms = 0
  /\ pc' = "command"
  /\ UNCHANGED <<cpuVars, timeVars, lcdVars>>

\* initR goes on with the next table, or returns.
next_list ==
  CASE list = "Rcmd1" -> IF options = "green" THEN "Rcmd2green" ELSE "Rcmd2red"
    [] list \in {"Rcmd2red", "Rcmd2green"} -> "Rcmd3"
    [] list = "Rcmd3" -> ""

ListEnds ==
  /\ At("command") /\ numCommands = 0
  /\ list' = next_list
  /\ IF next_list # "" THEN addr' = 1 /\ pc' = "list"
                       ELSE UNCHANGED addr /\ pc' = "madctl"
  /\ UNCHANGED <<cpuVars, timeVars, options, numCommands, numArgs, ms, lcd, waited>>

\* initR: a black-tab display gets its MADCTL again.
BlackTab ==
  /\ At("madctl")
  /\ IF options = "black" THEN Sends(Data(Command(lcd, "MADCTL"), "MX|MY"))
                          ELSE UNCHANGED <<lcd, waited>>
  /\ pc' = "rotate"
  /\ UNCHANGED <<cpuVars, timeVars, options, listVars>>

\* Mutated form: landscape without the exchange of rows and columns.
rotation_3_unexchanged == "MX"

\* setRotation(3).
rotation_3 == "MX|MV"

SetRotation ==
  /\ At("rotate")
  /\ Sends(Data(Command(lcd, "MADCTL"), rotation_3))
  /\ pc' = "siggen"
  /\ UNCHANGED <<cpuVars, timeVars, options, listVars>>

st7735_init ==
  \/ InitR \/ SelectChip \/ RstHigh \/ RstLow \/ RstHighAgain \/ ListBegins \/ SendCommand
  \/ SendArgument \/ CommandDelay \/ CommandDone \/ ListEnds \/ BlackTab \/ SetRotation

-----------------------------------------------------------------------------
\* ST7735.c:173: the counts in the tables agree with the tables: commandList
\* never reads past the end of one and leaves nothing of it unread.
TablesReadExactly ==
  /\ pc = "list" => addr <= Len(Table(list))
  /\ pc = "command" /\ numCommands > 0 => addr < Len(Table(list))
  /\ pc = "args" /\ (numArgs > 0 \/ ms # 0) => addr <= Len(Table(list))
  /\ pc = "command" /\ numCommands = 0 => addr = Len(Table(list)) + 1

\* The waits that ST7735.c's tables and commonInit call for, in milliseconds.
Wait == [SWRESET |-> 150, SLPOUT |-> 500, COLMOD |-> 10, NORON |-> 10, DISPON |-> 100, reset |-> 500]

\* The statement main() is at sends a command, or moves RST.
Commanding ==
  \/ pc = "command" /\ numCommands > 0
  \/ pc = "madctl" /\ options = "black"
  \/ pc = "rotate"

MovingRst == pc \in {"rst0", "rst1_again"}

\* ST7735.c:98-101: a command is sent to a controller that listens; and after a
\* command with a delay, or an edge of RST, the controller is neither commanded nor
\* reset before that delay has passed, undisturbed, since that very command or edge.
LcdGetsItsTime ==
  /\ Commanding => Listening(lcd)
  /\ (Commanding \/ MovingRst) /\ lcd.cmd \in DOMAIN Wait =>
       waited > (Wait[lcd.cmd] - 1) * PERIOD
=============================================================================
