------------------------------ MODULE LcdMenu ------------------------------
(***************************************************************************)
(* The configuration menu of test_gtk: MENU_Main (menues.c) over the       *)
(* widgets of lcd_utils.c, run by the GTK loop of main_glade_lcd_4_20.c.   *)
(*                                                                         *)
(* One thread runs the loop: the buttons' callbacks, the millisecond       *)
(* timeout that counts show_select_timer down, and the idle callback       *)
(* Test_Main_Loop, which calls MENU_Main once and then forgets the last    *)
(* button.  No callback runs during another, so each is one action; only   *)
(* the do-while of the wrong password, inside MENU_Main, is not.           *)
(***************************************************************************)
EXTENDS LcdWidgets

CONSTANTS
  DefaultPassword,
  MinTime, MaxTime,   \* MINIMUN_TIME_ALLOWED 1, MAXIMUN_TIME_ALLOWED 100
  Opened              \* bound: the screens on which the user presses

ASSUME MenuAssumption ==
  /\ DefaultPassword \in Password
  /\ MinTime \in Nat /\ MaxTime \in Nat /\ MinTime <= MaxTime
  /\ MaxTime < 256

VARIABLES
  menu,       \* menu_state
  cfg,        \* configurations
  button,     \* switch_actions
  rejecting   \* MENU_Main is inside the loop that shows the wrong password

vars == <<widgetVars, menu, cfg, button, rejecting>>

\* The screens that show a name form a ring: where the encoder leads.
Up   == [SHOW_TREATMENT_TIME |-> "SHOW_ALARM",
         SHOW_ALARM          |-> "SHOW_TICKER",
         SHOW_TICKER         |-> "SHOW_MODE",
         SHOW_MODE           |-> "SHOW_PASS",
         SHOW_PASS           |-> "SHOW_END_CONF",
         SHOW_END_CONF       |-> "SHOW_TREATMENT_TIME"]
Down == [SHOW_TREATMENT_TIME |-> "SHOW_END_CONF",
         SHOW_ALARM          |-> "SHOW_TREATMENT_TIME",
         SHOW_TICKER         |-> "SHOW_ALARM",
         SHOW_MODE           |-> "SHOW_TICKER",
         SHOW_PASS           |-> "SHOW_MODE",
         SHOW_END_CONF       |-> "SHOW_PASS"]
\* The screen a press opens.
Opens == [SHOW_TREATMENT_TIME |-> "CONF_TREATMENT_TIME",
          SHOW_ALARM          |-> "CONF_ALARM",
          SHOW_TICKER         |-> "CONF_TICKER",
          SHOW_MODE           |-> "CONF_MODE",
          SHOW_PASS           |-> "CONF_PASS",
          SHOW_END_CONF       |-> "END_CONF"]

Shown           == DOMAIN Up
PasswordScreens == {"GET_PASSWORD", "CONF_PASS"}
OnOffScreens    == {"CONF_ALARM", "CONF_TICKER", "CONF_CONFIRM", "END_CONF"}
Menu == Shown \cup PasswordScreens \cup OnOffScreens
          \cup {"INIT", "CONF_TREATMENT_TIME", "CONF_MODE"}

Init ==
  /\ WidgetsInit
  /\ menu = "INIT"
  /\ cfg = [treatment_time_min |-> 0, alarms_onoff |-> 0, ticker_onoff |-> 0,
            operation_mode |-> "MODE_UNKNOW", saved_psw |-> Zeros,
            new_psw |-> Zeros]
  /\ button = "none" /\ rejecting = FALSE
-----------------------------------------------------------------------------
(* The cases of MENU_Main, for the action a of this call.                  *)
EntersHeld(a) == a = "enter"     \* mutant: the test the wrong way round
Enters(a) == a # "enter"

MenuInit(a) ==
  /\ menu = "INIT"
  /\ \E resp \in Resp :
       /\ ShowBlink(resp)
       /\ IF resp = "finish" /\ Enters(a)
          THEN menu' = "GET_PASSWORD" /\ select' = PSW_INIT
          ELSE UNCHANGED <<menu, select>>
  /\ UNCHANGED <<turn, pswVars, encoderVars, optionsVars, changeVars, lit,
                 cfg, rejecting>>

Accepts(psw_) == psw_ \in {DefaultPassword, cfg.saved_psw}

GetPassword(a) ==
  /\ menu = "GET_PASSWORD"
  /\ \E resp \in Resp :
       /\ LCD_Password(a, resp)
       /\ menu' = IF resp = "selected" /\ Accepts(psw)
                  THEN "SHOW_TREATMENT_TIME" ELSE menu
       /\ rejecting' = (resp = "selected" /\ ~Accepts(psw))
  /\ UNCHANGED <<blinkVars, encoderVars, optionsVars, changeVars, lit, cfg>>

\* A name is shown: turns lead along the ring, a press opens the screen.
ShowName(a) ==
  /\ menu \in Shown
  /\ \E resp \in Resp :
       /\ LCD_ShowSelectv2(a, resp)
       /\ menu' = CASE resp = "change"        -> Down[menu]
                    [] resp = "change_all_up" -> Up[menu]
                    [] resp = "selected"      -> Opens[menu]
                    [] OTHER                  -> menu
       /\ change' = IF menu' = "CONF_TREATMENT_TIME" THEN "INIT" ELSE change
       /\ options' = IF menu' \in OnOffScreens THEN "INIT" ELSE options
  /\ UNCHANGED <<blinkVars, pswVars, encoderVars, choice, value, lit, cfg,
                 rejecting>>

\* treatment_time_min is an unsigned char.
ConfTreatmentTime(a) ==
  /\ menu = "CONF_TREATMENT_TIME"
  /\ \E resp \in Resp :
       /\ LCD_EncoderChange(cfg.treatment_time_min, MinTime, MaxTime, a, resp)
       /\ IF resp = "finish"
          THEN /\ menu' = "SHOW_TREATMENT_TIME"
               /\ cfg' = [cfg EXCEPT !.treatment_time_min = value % 256]
          ELSE UNCHANGED <<menu, cfg>>
  /\ UNCHANGED <<blinkVars, selectVars, pswVars, encoderVars, optionsVars,
                 rejecting>>

\* A screen that asks yes or no: its answer edits the configuration.
OnOff(screen, bool, edited, next, a) ==
  /\ menu = screen
  /\ \E resp \in Resp :
       /\ LCD_EncoderOptionsOnOff(bool, a, resp)
       /\ IF resp = "finish" THEN menu' = next /\ cfg' = edited
                             ELSE UNCHANGED <<menu, cfg>>
  /\ UNCHANGED <<blinkVars, selectVars, pswVars, encoderVars, changeVars,
                 rejecting>>

ConfAlarm(a) ==
  OnOff("CONF_ALARM", cfg.alarms_onoff,
        [cfg EXCEPT !.alarms_onoff = choice], "SHOW_TREATMENT_TIME", a)

ConfTicker(a) ==
  OnOff("CONF_TICKER", cfg.ticker_onoff,
        [cfg EXCEPT !.ticker_onoff = choice], "SHOW_TREATMENT_TIME", a)

ConfMode(a) ==
  /\ menu = "CONF_MODE"
  /\ \E resp \in Resp :
       /\ LCD_EncoderShowSelect(a, resp)
       /\ IF resp = "selected"
          THEN /\ menu' = "SHOW_TREATMENT_TIME"
               /\ cfg' = [cfg EXCEPT !.operation_mode =
                            IF line = 2 THEN "CARD_MODE" ELSE "NORMAL_MODE"]
          ELSE UNCHANGED <<menu, cfg>>
  /\ UNCHANGED <<blinkVars, pswVars, optionsVars, changeVars, lit, rejecting>>

ConfPass(a) ==
  /\ menu = "CONF_PASS"
  /\ \E resp \in Resp :
       /\ LCD_Password(a, resp)
       /\ IF resp = "selected"
          THEN menu' = "CONF_CONFIRM" /\ cfg' = [cfg EXCEPT !.new_psw = psw]
          ELSE UNCHANGED <<menu, cfg>>
  /\ UNCHANGED <<blinkVars, encoderVars, optionsVars, changeVars, lit,
                 rejecting>>

AnyAnswer == TRUE                \* mutant: the answer is not looked at
AnswersYes == choice = 1

ConfConfirm(a) ==
  OnOff("CONF_CONFIRM", 1,
        [cfg EXCEPT !.saved_psw = IF AnswersYes THEN cfg.new_psw ELSE @],
        "SHOW_TREATMENT_TIME", a)

\* Yes or no, the loop ignores resp_need_to_save.
EndConf(a) == OnOff("END_CONF", 1, cfg, "INIT", a)

MENU_Main(a) ==
  \/ MenuInit(a) \/ GetPassword(a) \/ ShowName(a)
  \/ ConfTreatmentTime(a) \/ ConfAlarm(a) \/ ConfTicker(a) \/ ConfMode(a)
  \/ ConfPass(a) \/ ConfConfirm(a) \/ EndConf(a)

\* One turn of the loop inside MENU_Main: no other callback runs meanwhile.
Reject ==
  /\ rejecting
  /\ \E resp \in Resp :
       /\ ShowBlink(resp)
       /\ rejecting' = (resp = "continue")
       /\ menu' = IF resp = "continue" THEN menu ELSE "INIT"
  /\ UNCHANGED <<selectVars, pswVars, encoderVars, optionsVars, changeVars,
                 lit, cfg, button>>
-----------------------------------------------------------------------------
(* The callbacks of the GTK loop.                                          *)
Press(b) ==
  /\ ~rejecting
  /\ b = "enter" => menu \in Opened
  /\ button' = b
  /\ UNCHANGED <<widgetVars, menu, cfg, rejecting>>

TestTimeouts ==
  /\ ~rejecting
  /\ TimerTick
  /\ UNCHANGED <<blinkVars, selectVars, pswVars, encoderVars, optionsVars,
                 changeVars, lit, display, menu, cfg, button, rejecting>>

TestMainLoop ==
  /\ ~rejecting
  /\ MENU_Main(button)
  /\ button' = "none"

Next ==
  \/ \E b \in Turns \cup {"enter"} : Press(b)
  \/ TestTimeouts \/ TestMainLoop \/ Reject

Spec == Init /\ [][Next]_vars

(* GTK dispatches the timeout and the idle callback for ever.  The user is *)
(* slower than the loop: the button is released again and again while the  *)
(* loop runs.                                                              *)
FairSpec ==
  /\ Spec
  /\ WF_vars(TestTimeouts) /\ WF_vars(TestMainLoop) /\ WF_vars(Reject)
  /\ SF_vars(TestMainLoop /\ Released(button))
-----------------------------------------------------------------------------
Bit == {0, 1}

TypeOK ==
  /\ blinking \in {"INIT", "MARK_D", "SPACE_D"} /\ howMany \in Bit
  /\ select \in SHOW_INIT..PSW_ENDED /\ turn \in Actions \ {"enter"}
  /\ psw \in Password /\ at \in Pos /\ cursor \in BOOLEAN
  /\ encoder \in {"LINE1", "LINE2", "SELECTED", "SELECTED_1"} /\ line \in 0..2
  /\ options \in {"INIT", "REDRAW", "WAIT_IN_ON", "SELECT_OPTION"}
  /\ choice \in Bit
  /\ change \in {"INIT", "SHOW_AGAIN", "WAIT_IN_ON", "SELECT_DONE"}
  /\ value \in 0..MaxTime
  /\ lit \in BOOLEAN /\ timer \in 0..TicksOn \cup 0..TicksOff
  /\ menu \in Menu
  /\ cfg \in [treatment_time_min : 0..MaxTime,
              alarms_onoff : Bit, ticker_onoff : Bit,
              operation_mode : {"MODE_UNKNOW", "NORMAL_MODE", "CARD_MODE"},
              saved_psw : Password, new_psw : Password]
  /\ button \in Actions /\ rejecting \in BOOLEAN

(* Every widget but the one on the screen is in its initial state, though  *)
(* nearly all of them share show_select_state and show_select_timer, and   *)
(* MODE, PASS, CONFIRM and INIT start theirs without a reset (menues.c:    *)
(* 249, 280, 454, 78): no screen begins half way through another's widget. *)
NoneHalfway ==
  /\ blinking # "INIT" => menu = "INIT" \/ rejecting
  /\ select # SHOW_INIT => menu \in Shown \cup PasswordScreens \cup {"CONF_MODE"}
  /\ select > SHOW_CHANGE_1 => menu \in PasswordScreens
  /\ encoder # "LINE1" => menu = "CONF_MODE"
  /\ encoder \in {"SELECTED", "SELECTED_1"} => select = SHOW_INIT
  /\ options # "INIT" => menu \in OnOffScreens
  /\ change # "INIT" => menu = "CONF_TREATMENT_TIME"
  /\ rejecting => menu = "GET_PASSWORD" /\ select = PSW_INIT

(* The display's cursor blinks only while it moves over the digits of a    *)
(* password (lcd_utils.c:633-634): every way out turns it off.             *)
CursorOnDigits ==
  cursor => /\ menu \in PasswordScreens
            /\ select \in {PSW_2, PSW_CHANGE_NUM, PSW_ENDING}

(* What the user accepts is what the display shows: the digits, outside    *)
(* the one that blinks, are password_num; yes or no and the minutes are    *)
(* the current value, or blank between two blinks.                         *)
AcceptsWhatIsShown ==
  /\ menu \in PasswordScreens /\ select \in {PSW_1, PSW_2} \cup PSW_ENDING..PSW_ENDED
       => digits = psw
  /\ options = "SELECT_OPTION" => field \in {Blank, choice}
  /\ change = "SELECT_DONE" => field \in {Blank, value}

(* The saved password changes only to the digits typed last, after Si was  *)
(* accepted: new_psw waits in the configuration over a whole screen        *)
(* (menues.c:453, 481).                                                    *)
SavesWhatWasTyped ==
  [][cfg'.saved_psw # cfg.saved_psw
       => /\ cfg'.saved_psw = psw
          /\ options = "SELECT_OPTION" /\ field \in {Blank, 1}]_vars

(* Once the user stops, the menu comes to a screen that waits for him      *)
(* (unless it hangs on a wrong password): no widget waits for what is not  *)
(* going to happen.                                                        *)
AwaitsUser ==
  \/ menu \in PasswordScreens /\ select \in
       {PSW_2, PSW_CHANGE_NUM_1, PSW_CHANGE_NUM_2, PSW_ENDING_1, PSW_ENDING_2}
  \/ /\ menu \in Shown \/ (menu = "CONF_MODE" /\ encoder \in {"LINE1", "LINE2"})
     /\ select \in {SHOW_ON, SHOW_WAIT_ON, SHOW_WAIT_OFF}
  \/ options \in {"REDRAW", "WAIT_IN_ON"}
  \/ change \in {"SHOW_AGAIN", "WAIT_IN_ON"}
ComesToRest ==
  <>[](button = "none") => <>[](rejecting \/ AwaitsUser)

(* A Set that is lost: pressed on a choice or on the minutes, and heard in *)
(* the very call that ends the dark half of the blinking.  The call writes *)
(* "Seleccionado..." and then the state that draws the value again         *)
(* (lcd_utils.c:1079-1098, 1202-1226).                                     *)
PressLost ==
  /\ button = "enter" /\ timer = 0 /\ ~lit
  /\ options = "WAIT_IN_ON" \/ change = "WAIT_IN_ON"

(* A Set pressed on a choice or on the minutes selects it, unless the user *)
(* turns before the loop looks or the press is lost as PressLost says.     *)
(* What is selected is carried out: the screens' names, the choices, the   *)
(* minutes and the lines of the mode; and a turn between the names is      *)
(* followed.  All of it however fast the user goes on turning and          *)
(* pressing, if only he lets go now and then.                              *)
ChoiceTaken ==
  /\ (options = "WAIT_IN_ON" /\ button = "enter")
       ~> (options = "SELECT_OPTION" \/ PressLost \/ button \in Turns)
  /\ (change = "WAIT_IN_ON" /\ button = "enter")
       ~> (change = "SELECT_DONE" \/ PressLost \/ button \in Turns)
  /\ \A s \in Shown : (menu = s /\ select = SHOW_SELECTED) ~> menu = Opens[s]
  /\ \A s \in Shown :
       (menu = s /\ select = SHOW_CHANGE) ~> menu \in {Up[s], Down[s]}
  /\ options = "SELECT_OPTION" ~> options = "INIT"
  /\ change = "SELECT_DONE" ~> change = "INIT"
  /\ encoder = "SELECTED" ~> menu = "SHOW_TREATMENT_TIME"

(* menues.c:67: MENU_Main returns the new selection or the former state.   *)
MainReturns == rejecting ~> ~rejecting
=============================================================================
