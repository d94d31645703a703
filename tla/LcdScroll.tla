------------------------------- MODULE LcdScroll -------------------------------
(* What test_gtk/lcd_utils.c draws without a switch: the texts that        *)
(* LCD_Scroll1 and LCD_Scroll2 move through their line, each a state       *)
(* machine in unsigned char arithmetic behind a timer of its own, and the  *)
(* digits of LCD_BigNumbers, three cells wide over both lines.             *)
(* A character of a text is <<"text", its place>>.                         *)
EXTENDS Integers, FiniteSets

CONSTANTS
  L,           \* LINE_LENGTH, 16 in the code
  Byte,        \* the values of an unsigned char, 256
  Ticks,       \* TT_SCROLL, 250
  Lengths,     \* of the two texts: a set of pairs
  MaxResets, MaxNumbers   \* bounds: calls of LCD_Scroll1Reset; digits drawn

ScrollAssumption ==
  /\ L \in Nat /\ L > 2 /\ Byte \in Nat /\ Byte > 2 * L + 1
  /\ Ticks \in Nat \ {0} /\ Lengths \subseteq Nat \X Nat

VARIABLES
  length,      \* strlen of the texts
  state, last, window, timer,  \* scroll1_state, _last_window, _current_window, _timer
  shown,       \* the windows of the text that have been on the line, in a row
  over,        \* resp_finish was returned
  stuck,       \* a call that does not return
  cells,       \* the display
  number, at,  \* the digit that LCD_BigNumbers has drawn, and where
  resets, numbers

scrolls == <<state, last, window, timer, shown, over>>
vars    == <<length, scrolls, stuck, cells, number, at, resets, numbers>>

Lines   == {1, 2}
Columns == 1..L
Blank   == <<"blank", 0>>
NoNumber == 10

Init ==
  /\ length \in Lengths
  /\ state = [k \in Lines |-> "init"] /\ last = [k \in Lines |-> 0]
  /\ window = [k \in Lines |-> 0] /\ timer = [k \in Lines |-> 0]
  /\ shown = [k \in Lines |-> 0] /\ over = [k \in Lines |-> FALSE]
  /\ stuck = FALSE /\ cells = [k \in Lines |-> [c \in Columns |-> Blank]]
  /\ number = NoNumber /\ at = 0 /\ resets = 0 /\ numbers = 0
-----------------------------------------------------------------------------
(* SCROLL_INIT                                                             *)
OneMargin(n) == n + L   \* mutant: without the margin after the text
Total(n)     == n + 2 * L
Begin(k) ==
  /\ state[k] = "init"
  /\ last' = [last EXCEPT ![k] = Total(length[k]) % Byte]
  /\ window' = [window EXCEPT ![k] = 1]
  /\ state' = [state EXCEPT ![k] = "sending"]
  /\ shown' = [shown EXCEPT ![k] = 0] /\ over' = [over EXCEPT ![k] = FALSE]
  /\ UNCHANGED <<timer, stuck, cells, number>>

(* SCROLL_SENDING: the loop over i.  It runs up to Limit, and to leave it  *)
(* at its first Past it sets i to Limit, which i++ passes by one: of the   *)
(* largest unsigned char it makes 0 and the loop goes on.                  *)
Limit(k) == (window[k] + L) % Byte
Past(k)  == {i \in window[k]..(Limit(k) - 1) : i >= L /\ i >= last[k]}
Char(k, i) == IF i >= L /\ i < last[k] - L THEN <<"text", i - L + 1>> ELSE Blank
Sends(k)   == {i \in window[k]..(Limit(k) - 1) : \A j \in Past(k) : i < j}
OnLine(k)  == [c \in Columns |-> IF window[k] + c - 1 \in Sends(k)
                                 THEN Char(k, window[k] + c - 1) ELSE cells[k][c]]
Window(k, w) == [c \in Columns |-> LET i == w + c - 1
                 IN IF i >= L /\ i < L + length[k] THEN <<"text", i - L + 1>> ELSE Blank]

Hangs(k) == Past(k) # {} /\ Limit(k) = Byte - 1
Send(k) ==
  /\ state[k] = "sending" /\ timer[k] = 0
  /\ IF Hangs(k)
     THEN stuck' = TRUE /\ UNCHANGED <<scrolls, cells, number>>
     ELSE /\ cells' = [cells EXCEPT ![k] = OnLine(k)]
          /\ number' = IF Sends(k) = {} THEN number ELSE NoNumber
          /\ shown' = [shown EXCEPT ![k] =
                         IF /\ @ < length[k] + L /\ Past(k) = {}
                            /\ cells'[k] = Window(k, @ + 1)
                         THEN @ + 1 ELSE @]
          /\ state' = [state EXCEPT ![k] = IF Past(k) # {} THEN "finish" ELSE @]
          /\ window' = [window EXCEPT ![k] = (@ + 1) % Byte]
          /\ timer' = [timer EXCEPT ![k] = Ticks]
          /\ UNCHANGED <<last, over, stuck>>

(* SCROLL_FINISH: the caller has its resp_finish and does not call again.  *)
Finish(k) ==
  /\ state[k] = "finish"
  /\ state' = [state EXCEPT ![k] = "init"] /\ over' = [over EXCEPT ![k] = TRUE]
  /\ UNCHANGED <<last, window, timer, shown, stuck, cells, number>>

Scroll(k) ==
  /\ ~stuck /\ ~over[k]
  /\ Begin(k) \/ Send(k) \/ Finish(k)
  /\ UNCHANGED <<length, at, resets, numbers>>

(* LCD_Scroll1Reset, LCD_Scroll2Reset, before a text is shown again.       *)
Reset(k) ==
  /\ ~stuck /\ resets < MaxResets /\ resets' = resets + 1
  /\ state' = [state EXCEPT ![k] = "init"] /\ over' = [over EXCEPT ![k] = FALSE]
  /\ UNCHANGED <<length, last, window, timer, shown, stuck, cells, number, at, numbers>>

(* LCD_UpdateTimer.                                                        *)
Tick ==
  /\ \E k \in Lines : timer[k] > 0
  /\ timer' = [k \in Lines |-> IF timer[k] > 0 THEN timer[k] - 1 ELSE 0]
  /\ UNCHANGED <<length, state, last, window, shown, over, stuck, cells, number, at, resets, numbers>>
-----------------------------------------------------------------------------
(* LCD_BigNumbersInit draws these segments into the seven first characters *)
(* of the LCD; SEG_EMPTY is a space.                                       *)
LatIzq    == 0
BarraAlta == 1
LatDer    == 2
BarraBaja == 3
AltaBaja  == 4
CorteIzq  == 5
CorteDer  == 6
Empty     == 7

Glyph(n) ==
  CASE n = 0 -> <<LatIzq, BarraAlta, LatDer,  LatIzq, BarraBaja, LatDer>>
    [] n = 1 -> <<Empty, Empty, LatDer,       Empty, Empty, LatDer>>
    [] n = 2 -> <<CorteIzq, AltaBaja, LatDer, LatIzq, BarraBaja, CorteDer>>
    [] n = 3 -> <<Empty, AltaBaja, LatDer,    CorteIzq, BarraBaja, LatDer>>
    [] n = 4 -> <<LatIzq, BarraBaja, LatDer,  Empty, Empty, LatDer>>
    [] n = 5 -> <<LatIzq, AltaBaja, CorteDer, CorteIzq, BarraBaja, LatDer>>
    [] n = 6 -> <<LatIzq, AltaBaja, CorteDer, LatIzq, BarraBaja, LatDer>>
    [] n = 7 -> <<Empty, BarraAlta, LatDer,   Empty, Empty, LatDer>>
    [] n = 8 -> <<LatIzq, AltaBaja, LatDer,   LatIzq, BarraBaja, LatDer>>
    [] n = 9 -> <<LatIzq, AltaBaja, LatDer,   Empty, Empty, LatDer>>
Cell(n, k, c) == LET s == Glyph(n)[3 * (k - 1) + c]
                 IN IF s = Empty THEN Blank ELSE <<"segment", s>>

(* LCD_BigNumbers(position, n), on a page where no line scrolls.           *)
Number(position, n) ==
  /\ \A k \in Lines : state[k] = "init"
  /\ numbers < MaxNumbers /\ numbers' = numbers + 1
  /\ cells' = [k \in Lines |-> [c \in Columns |->
                 IF c - position \in 1..3 THEN Cell(n, k, c - position) ELSE cells[k][c]]]
  /\ number' = n /\ at' = position
  /\ UNCHANGED <<length, scrolls, stuck, resets>>

Next ==
  \/ \E k \in Lines : Scroll(k) \/ Reset(k)
  \/ \E position \in 0..(L - 3), n \in 0..9 : Number(position, n)
  \/ Tick

(* The main loop calls both scrolls for ever, and the timer runs.          *)
Fairness == WF_vars(Tick) /\ \A k \in Lines : WF_vars(Scroll(k))
Spec     == Init /\ [][Next]_vars /\ Fairness
-----------------------------------------------------------------------------
Fits(k)  == length[k] + 2 * L + 1 < Byte - 1
Legible  == number # NoNumber =>
  {n \in 0..9 : \A k \in Lines, c \in 1..3 : cells[k][at + c] = Cell(n, k, c)} = {number}
Whole(k) == shown[k] = length[k] + L

(* A text that, with its margins and one more, stays under the largest     *)
(* unsigned char scrolls through: all its windows are on the line, in      *)
(* order, and the call returns resp_finish; of a longer one some window    *)
(* never is (LCD_Scroll1, LCD_Scroll2).  A digit that was drawn, and not   *)
(* scrolled over, is read as no other digit (LCD_BigNumbers).              *)
ScrollsThrough ==
  /\ [](Legible /\ \A k \in Lines : over[k] => (Whole(k) <=> Fits(k)))
  /\ (\A k \in Lines : Fits(k)) => \A k \in Lines : []<>over[k]
=============================================================================
