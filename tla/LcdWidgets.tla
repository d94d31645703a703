----------------------------- MODULE LcdWidgets -----------------------------
(***************************************************************************)
(* The widgets of test_gtk/lcd_utils.c that the menu uses.  Each is a      *)
(* function called over and over: a switch on a static state, which looks  *)
(* at the switch action a of that call and at one timer all of them share, *)
(* and returns resp_continue until the user has made a choice.             *)
(*                                                                         *)
(* A widget is a relation W(a, resp) between the two states of a call: it  *)
(* fixes the next value of the variables it owns or shares and leaves the  *)
(* others to its caller.  LCD_Password and LCD_ShowSelectv2 are two        *)
(* machines over the same variable, show_select_state.                     *)
(*                                                                         *)
(* Of the display only the digits on the second line, the value at the end *)
(* of the first and the blinking cursor are kept: what the user reads      *)
(* before accepting.                                                       *)
(***************************************************************************)
EXTENDS Integers

CONSTANTS
  TicksOn, TicksOff,   \* the timeouts: TT_SHOW_SELECT_IN_ON and _OFF, and
                       \* those of the blinking screens
  SizeofPassword,      \* 8 in the code
  MaxDigit             \* 9 in the code

ASSUME WidgetAssumption ==
  /\ TicksOn \in Nat \ {0} /\ TicksOff \in Nat \ {0}
  /\ SizeofPassword \in Nat \ {0} /\ MaxDigit \in Nat

VARIABLES
  blinking, howMany,  \* blinking_state, blinking_how_many
  select, turn,       \* show_select_state, show_select_change_sw_action
  psw, at, cursor,    \* password_num, blinking_on, the LCD's blinking cursor
  encoder, line,      \* encoder_select_state, encoder_line_selected
  options, choice,    \* options_state, options_curr_sel
  change, value,      \* change_state, change_current_val
  lit,                \* display_on_or_off
  timer,              \* show_select_timer
  digits, field       \* on the display: second line, end of the first

blinkVars   == <<blinking, howMany>>
selectVars  == <<select, turn>>
pswVars     == <<psw, at, cursor>>
encoderVars == <<encoder, line>>
optionsVars == <<options, choice>>
changeVars  == <<change, value>>
display     == <<digits, field>>
widgetVars  == <<blinking, howMany, select, turn, psw, at, cursor, encoder,
                 line, options, choice, change, value, lit, timer, digits,
                 field>>

Turns   == {"up", "dwn"}
Actions == Turns \cup {"none", "enter"}
Resp    == {"continue", "selected", "change", "change_all_up", "finish"}

Pos      == 0..(SizeofPassword - 1)
Digit    == 0..MaxDigit
Password == [Pos -> Digit]
Zeros    == [p \in Pos |-> 0]
Blank    == -1               \* nothing, or what another widget wrote

\* show_select_state: one variable, two enumerations.
SHOW_INIT        == 0
SHOW_ON          == 1
SHOW_WAIT_ON     == 2
SHOW_WAIT_OFF    == 3
SHOW_SELECTED    == 4
SHOW_SELECTED_1  == 5
SHOW_CHANGE      == 6
SHOW_CHANGE_1    == 7

PSW_INIT         == 0
PSW_1            == 1
PSW_2            == 2
PSW_CHANGE_NUM   == 3
PSW_CHANGE_NUM_1 == 4
PSW_CHANGE_NUM_2 == 5
PSW_ENDING       == 6
PSW_ENDING_1     == 7
PSW_ENDING_2     == 8
PSW_ENDED        == 9

WidgetsInit ==
  /\ blinking = "INIT" /\ howMany = 0
  /\ select = SHOW_INIT /\ turn = "none"
  /\ psw = Zeros /\ at = 0 /\ cursor = FALSE
  /\ encoder = "LINE1" /\ line = 0
  /\ options = "INIT" /\ choice = 0
  /\ change = "INIT" /\ value = 0
  /\ lit = FALSE /\ timer = 0
  /\ digits = Blank /\ field = Blank

\* A turn moves a value by one between two limits, where it stays.
MovedPast(v, a, min, max) ==     \* mutant: off by one
  IF a = "up" THEN IF v <= max THEN v + 1 ELSE v
              ELSE IF v > min THEN v - 1 ELSE v
Moved(v, a, min, max) ==
  IF a = "up" THEN IF v < max THEN v + 1 ELSE v
              ELSE IF v > min THEN v - 1 ELSE v

\* Test_Timeouts, every millisecond.
TimerTick == timer > 0 /\ timer' = timer - 1
-----------------------------------------------------------------------------
(* LCD_ShowBlink with BLINK_DIRECT and one screen, the only way the menu   *)
(* calls it: the two lines for TicksOn, blank for TicksOff.                *)
BlinkInit ==
  /\ blinking = "INIT" /\ blinking' = "MARK_D"
  /\ howMany' = 1 /\ timer' = 0
  /\ UNCHANGED display

BlinkMark ==
  /\ blinking = "MARK_D" /\ timer = 0 /\ howMany > 0
  /\ blinking' = "SPACE_D" /\ howMany' = howMany - 1
  /\ timer' = TicksOn
  /\ digits' = Blank /\ field' = Blank

BlinkSpace ==
  /\ blinking = "SPACE_D" /\ timer = 0
  /\ blinking' = "MARK_D" /\ timer' = TicksOff
  /\ digits' = Blank /\ field' = Blank
  /\ UNCHANGED howMany

BlinkWaits ==
  /\ blinking # "INIT" /\ timer > 0
  /\ UNCHANGED <<blinkVars, timer, display>>

BlinkEndsOnly ==                 \* mutant: the state is not reset
  /\ blinking = "MARK_D" /\ timer = 0 /\ howMany = 0
  /\ UNCHANGED <<blinkVars, timer, display>>
BlinkEnds ==
  /\ blinking = "MARK_D" /\ timer = 0 /\ howMany = 0
  /\ blinking' = "INIT"
  /\ UNCHANGED <<howMany, timer, display>>

ShowBlink(resp) ==
  \/ resp = "continue" /\ (BlinkInit \/ BlinkMark \/ BlinkSpace \/ BlinkWaits)
  \/ resp = "finish" /\ BlinkEnds
-----------------------------------------------------------------------------
(* LCD_ShowSelectv2: the name of a screen blinks until the encoder turns   *)
(* or is pressed; the answer waits until it is released.                   *)

\* A turn or a press decides the next state, whatever the timer did.
Chosen(a, otherwise) ==
  IF a = "enter" THEN SHOW_SELECTED
  ELSE IF a \in Turns THEN SHOW_CHANGE ELSE otherwise

ShowDraws ==
  \/ /\ select = SHOW_INIT /\ select' = SHOW_ON
     /\ digits' = Blank
     /\ UNCHANGED <<turn, timer, field>>
  \/ /\ select = SHOW_ON /\ select' = SHOW_WAIT_ON
     /\ timer' = TicksOn
     /\ field' = Blank
     /\ UNCHANGED <<turn, digits>>

ShowWaits(a) ==
  /\ \/ /\ select = SHOW_WAIT_ON
        /\ select' = Chosen(a, IF timer = 0 THEN SHOW_WAIT_OFF ELSE select)
        /\ IF timer = 0 THEN timer' = TicksOff /\ field' = Blank
                        ELSE UNCHANGED <<timer, field>>
     \/ /\ select = SHOW_WAIT_OFF
        /\ select' = Chosen(a, IF timer = 0 THEN SHOW_ON ELSE select)
        /\ UNCHANGED <<timer, field>>
  /\ turn' = IF a \in Turns THEN a ELSE turn
  /\ UNCHANGED digits

ShowDecides ==
  /\ \/ select = SHOW_SELECTED /\ select' = SHOW_SELECTED_1 /\ digits' = Blank
     \/ select = SHOW_CHANGE /\ select' = SHOW_CHANGE_1 /\ UNCHANGED digits
  /\ field' = Blank
  /\ UNCHANGED <<turn, timer>>

PressedAgain(a) == a = "enter"   \* mutant: waits for another press
Released(a) == a = "none"

ShowHeld(a) ==
  /\ select \in {SHOW_SELECTED_1, SHOW_CHANGE_1} /\ ~Released(a)
  /\ UNCHANGED <<selectVars, timer, display>>

ShowAnswers(a, resp) ==
  /\ Released(a)
  /\ \/ select = SHOW_SELECTED_1 /\ resp = "selected"
     \/ /\ select = SHOW_CHANGE_1
        /\ resp = IF turn = "up" THEN "change_all_up" ELSE "change"
  /\ select' = SHOW_INIT
  /\ UNCHANGED <<turn, timer, display>>

LCD_ShowSelectv2(a, resp) ==
  \/ /\ resp = "continue"
     /\ ShowDraws \/ ShowWaits(a) \/ ShowDecides \/ ShowHeld(a)
  \/ ShowAnswers(a, resp)
-----------------------------------------------------------------------------
(* LCD_Password: a cursor moves over the digits; a press opens the digit   *)
(* under it, which blinks while turns change it; beyond the last digit a   *)
(* press accepts the whole.                                                *)
PswDraws ==
  /\ select = PSW_INIT /\ select' = PSW_1
  /\ psw' = Zeros /\ at' = 0
  /\ digits' = Zeros /\ field' = Blank
  /\ UNCHANGED <<cursor, timer>>

PswShowsCursor(a) ==
  /\ select = PSW_1 /\ a = "none"
  /\ select' = PSW_2 /\ cursor' = TRUE
  /\ UNCHANGED <<psw, at, timer, display>>

PswMoves(a) ==
  /\ select = PSW_2
  /\ \/ /\ a = "dwn"
        /\ at' = IF at > 0 THEN at - 1 ELSE at
        /\ UNCHANGED select
     \/ /\ a = "up" /\ at < SizeofPassword - 1
        /\ at' = at + 1
        /\ UNCHANGED select
     \/ /\ a = "up" /\ at >= SizeofPassword - 1
        /\ select' = PSW_ENDING
        /\ UNCHANGED at
     \/ /\ a = "enter"
        /\ select' = PSW_CHANGE_NUM
        /\ UNCHANGED at
  /\ UNCHANGED <<psw, cursor, timer, display>>

PswOpensDigit ==
  /\ select = PSW_CHANGE_NUM /\ select' = PSW_CHANGE_NUM_1
  /\ cursor' = FALSE /\ timer' = TicksOff
  /\ digits' = [digits EXCEPT ![at] = Blank]
  /\ UNCHANGED <<psw, at, field>>

PswShowsDigit(a) ==
  /\ select = PSW_CHANGE_NUM_1 /\ timer = 0 /\ a = "none"
  /\ select' = PSW_CHANGE_NUM_2 /\ timer' = TicksOn
  /\ digits' = [digits EXCEPT ![at] = psw[at]]
  /\ UNCHANGED <<pswVars, field>>

PswHidesDigit(a) ==
  /\ select = PSW_CHANGE_NUM_2 /\ timer = 0 /\ a = "none"
  /\ select' = PSW_CHANGE_NUM_1 /\ timer' = TicksOff
  /\ digits' = [digits EXCEPT ![at] = Blank]
  /\ UNCHANGED <<pswVars, field>>

TurnsUnseen == PSW_CHANGE_NUM_2   \* mutant: the new digit is not drawn
TurnsTo     == PSW_CHANGE_NUM_1

PswTurnsDigit(a) ==
  /\ select = PSW_CHANGE_NUM_2 /\ a \in Turns
  /\ select' = TurnsTo /\ timer' = 0
  /\ psw' = [psw EXCEPT ![at] = Moved(@, a, 0, MaxDigit)]
  /\ UNCHANGED <<at, cursor, display>>

PswClosesDigit(a) ==
  /\ select = PSW_CHANGE_NUM_2 /\ a = "enter"
  /\ select' = PSW_1
  /\ UNCHANGED <<pswVars, timer, display>>

KeepsCursor == cursor     \* mutant: no CURSOR_OFF
CursorOff   == FALSE

PswEnding ==
  /\ select = PSW_ENDING /\ select' = PSW_ENDING_1
  /\ cursor' = CursorOff /\ timer' = TicksOff
  /\ UNCHANGED <<psw, at, display>>

PswEndBlinks(a) ==
  /\ timer = 0 /\ a = "none"
  /\ \/ select = PSW_ENDING_1 /\ select' = PSW_ENDING_2 /\ timer' = TicksOn
     \/ select = PSW_ENDING_2 /\ select' = PSW_ENDING_1 /\ timer' = TicksOff
  /\ UNCHANGED <<pswVars, display>>

PswEndChosen(a) ==
  /\ select = PSW_ENDING_2
  /\ \/ a = "enter" /\ select' = PSW_ENDED /\ UNCHANGED at
     \/ a = "dwn" /\ select' = PSW_1 /\ at' = SizeofPassword - 1
  /\ UNCHANGED <<psw, cursor, timer, display>>

\* No case of the switch applies to this action now.
PswWaits(a) ==
  /\ \/ select \in {PSW_1, PSW_ENDED} /\ a # "none"
     \/ select = PSW_2 /\ a = "none"
     \/ select \in {PSW_CHANGE_NUM_1, PSW_ENDING_1} /\ (timer > 0 \/ a # "none")
     \/ select = PSW_CHANGE_NUM_2 /\ a = "none" /\ timer > 0
     \/ select = PSW_ENDING_2 /\ (a = "up" \/ (a = "none" /\ timer > 0))
  /\ UNCHANGED <<select, pswVars, timer, display>>

\* The password is password_num: psw.
PswAnswers(a, resp) ==
  /\ select = PSW_ENDED /\ a = "none"
  /\ select' = PSW_INIT /\ resp = "selected"
  /\ UNCHANGED <<pswVars, timer, display>>

LCD_Password(a, resp) ==
  /\ \/ /\ resp = "continue"
        /\ \/ PswDraws \/ PswShowsCursor(a) \/ PswMoves(a) \/ PswOpensDigit
           \/ PswShowsDigit(a) \/ PswHidesDigit(a) \/ PswTurnsDigit(a)
           \/ PswClosesDigit(a) \/ PswEnding \/ PswEndBlinks(a)
           \/ PswEndChosen(a) \/ PswWaits(a)
     \/ PswAnswers(a, resp)
  /\ UNCHANGED turn
-----------------------------------------------------------------------------
(* LCD_EncoderShowSelect: two lines to choose from, each of them shown by  *)
(* LCD_ShowSelectv2.                                                       *)
Lines == <<"LINE1", "LINE2">>

EncoderShows(a, resp) ==
  \E n \in {1, 2}, shown \in Resp :
    /\ encoder = Lines[n]
    /\ LCD_ShowSelectv2(a, shown)
    /\ \/ /\ shown \in {"change", "change_all_up"} /\ resp = shown
          /\ encoder' = Lines[3 - n]
          /\ UNCHANGED line
       \/ /\ shown = "selected" /\ resp = "continue"
          /\ encoder' = "SELECTED" /\ line' = n
       \/ /\ shown = "continue" /\ resp = shown
          /\ UNCHANGED encoderVars

EncoderSelected ==
  /\ encoder = "SELECTED" /\ encoder' = "SELECTED_1"
  /\ digits' = Blank
  /\ UNCHANGED <<selectVars, line, timer, field>>

EncoderHeld(a) ==
  /\ encoder = "SELECTED_1" /\ ~Released(a)
  /\ UNCHANGED <<selectVars, encoderVars, timer, display>>

\* The line is encoder_line_selected: line.
EncoderAnswers(a, resp) ==
  /\ encoder = "SELECTED_1" /\ Released(a)
  /\ encoder' = "LINE1" /\ resp = "selected"
  /\ UNCHANGED <<selectVars, line, timer, display>>

LCD_EncoderShowSelect(a, resp) ==
  \/ EncoderShows(a, resp)
  \/ resp = "continue" /\ (EncoderSelected \/ EncoderHeld(a))
  \/ EncoderAnswers(a, resp)
-----------------------------------------------------------------------------
(* LCD_EncoderOptionsOnOff: "Si" or "No" blinks at the end of the first    *)
(* line; every turn changes it.                                            *)
OptionsDraws(bool) ==
  /\ options = "INIT" /\ options' = "REDRAW"
  /\ choice' = bool /\ lit' = TRUE
  /\ timer' = TicksOn
  /\ digits' = Blank /\ field' = Blank

OptionsRedraws(a) ==
  /\ options = "REDRAW"
  /\ field' = choice
  /\ IF Released(a) THEN options' = "WAIT_IN_ON" /\ timer' = TicksOn
                    ELSE UNCHANGED <<options, timer>>
  /\ UNCHANGED <<choice, lit, digits>>

\* The timer is looked at after the switch, and what it sets remains.
OptionsWaits(a) ==
  /\ options = "WAIT_IN_ON"
  /\ choice' = IF a \in Turns THEN 1 - choice ELSE choice
  /\ options' = IF (timer = 0 /\ ~lit) \/ a \in Turns THEN "REDRAW"
                ELSE IF a = "enter" THEN "SELECT_OPTION" ELSE options
  /\ lit' = IF timer = 0 THEN ~lit ELSE lit
  /\ timer' = IF timer > 0 THEN timer ELSE IF lit THEN TicksOff ELSE TicksOn
  /\ field' = IF timer = 0 /\ lit THEN Blank ELSE field
  /\ digits' = IF a = "enter" THEN Blank ELSE digits

OptionsHeld(a) ==
  /\ options = "SELECT_OPTION" /\ ~Released(a)
  /\ UNCHANGED <<optionsVars, lit, timer, display>>

\* The value is options_curr_sel: choice.
OptionsAnswers(a, resp) ==
  /\ options = "SELECT_OPTION" /\ Released(a)
  /\ options' = "INIT" /\ resp = "finish"
  /\ UNCHANGED <<choice, lit, timer, display>>

LCD_EncoderOptionsOnOff(bool, a, resp) ==
  \/ /\ resp = "continue"
     /\ \/ OptionsDraws(bool) \/ OptionsRedraws(a)
        \/ OptionsWaits(a) \/ OptionsHeld(a)
  \/ OptionsAnswers(a, resp)
-----------------------------------------------------------------------------
(* LCD_EncoderChange: a number blinks at the end of the first line; every  *)
(* turn moves it by one between min and max.                               *)
ChangeDraws(orig) ==
  /\ change = "INIT" /\ change' = "SHOW_AGAIN"
  /\ value' = orig /\ lit' = TRUE
  /\ timer' = TicksOn
  /\ digits' = Blank /\ field' = Blank

ChangeShows ==
  /\ change = "SHOW_AGAIN" /\ change' = "WAIT_IN_ON"
  /\ field' = value
  /\ UNCHANGED <<value, lit, timer, digits>>

\* A turn restarts the timer, even at the limit.
ChangeTurns(a, min, max) ==
  /\ change = "WAIT_IN_ON" /\ a \in Turns
  /\ value' = Moved(value, a, min, max)
  /\ change' = IF value' # value THEN "SHOW_AGAIN" ELSE change
  /\ timer' = TicksOn
  /\ UNCHANGED <<lit, display>>

ChangeWaits(a) ==
  /\ change = "WAIT_IN_ON" /\ a \notin Turns
  /\ change' = IF timer = 0 /\ ~lit THEN "SHOW_AGAIN"
               ELSE IF a = "enter" THEN "SELECT_DONE" ELSE change
  /\ lit' = IF timer = 0 THEN ~lit ELSE lit
  /\ timer' = IF timer > 0 THEN timer ELSE IF lit THEN TicksOff ELSE TicksOn
  /\ field' = IF timer = 0 /\ lit THEN Blank ELSE field
  /\ UNCHANGED <<value, digits>>

ChangeHeld(a) ==
  /\ change = "SELECT_DONE" /\ ~Released(a)
  /\ UNCHANGED <<changeVars, lit, timer, display>>

\* The value is change_current_val: value.
ChangeAnswers(a, resp) ==
  /\ change = "SELECT_DONE" /\ Released(a)
  /\ change' = "INIT" /\ resp = "finish"
  /\ UNCHANGED <<value, lit, timer, display>>

LCD_EncoderChange(orig, min, max, a, resp) ==
  \/ /\ resp = "continue"
     /\ \/ ChangeDraws(orig) \/ ChangeShows \/ ChangeTurns(a, min, max)
        \/ ChangeWaits(a) \/ ChangeHeld(a)
  \/ ChangeAnswers(a, resp)
=============================================================================
