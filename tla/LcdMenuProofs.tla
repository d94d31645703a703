--------------------------- MODULE LcdMenuProofs ---------------------------
(* What holds of LcdMenu for every password length, timeout and limit.     *)
EXTENDS LcdMenu, TLAPS

USE DEF SHOW_INIT, SHOW_ON, SHOW_WAIT_ON, SHOW_WAIT_OFF, SHOW_SELECTED,
        SHOW_SELECTED_1, SHOW_CHANGE, SHOW_CHANGE_1,
        PSW_INIT, PSW_1, PSW_2, PSW_CHANGE_NUM, PSW_CHANGE_NUM_1,
        PSW_CHANGE_NUM_2, PSW_ENDING, PSW_ENDING_1, PSW_ENDING_2, PSW_ENDED

Timers == 0..TicksOn \cup 0..TicksOff

(* The digits on the display are the password, but for the one that blinks *)
(* (which CHANGE_NUM_1 is about to draw).                                  *)
DigitsSeen ==
  /\ select \in {PSW_1, PSW_2, PSW_CHANGE_NUM, PSW_CHANGE_NUM_2}
       \cup PSW_ENDING..PSW_ENDED => digits = psw
  /\ select = PSW_CHANGE_NUM_1 => [digits EXCEPT ![at] = psw[at]] = psw

CursorAtDigit == cursor => select \in {PSW_2, PSW_CHANGE_NUM, PSW_ENDING}

PswTypes == /\ select \in PSW_INIT..PSW_ENDED
            /\ psw \in Password /\ at \in Pos /\ cursor \in BOOLEAN
            /\ timer \in Timers
PswInv   == PswTypes /\ DigitsSeen /\ CursorAtDigit

LEMMA Redrawn ==
  ASSUME NEW S, NEW T, NEW f \in [S -> T], NEW p \in S, NEW b
  PROVE  [[f EXCEPT ![p] = b] EXCEPT ![p] = f[p]] = f
  OBVIOUS

(* A call of LCD_Password keeps its invariant, and answers clean.          *)
LEMMA PasswordStep ==
  ASSUME PswInv, NEW a \in Actions, NEW resp, LCD_Password(a, resp)
  PROVE  /\ PswInv' /\ turn' = turn
         /\ resp = "selected" =>
              select' = PSW_INIT /\ psw' = psw /\ ~cursor' /\ select = PSW_ENDED
<1> USE WidgetAssumption DEF PswInv, PswTypes, DigitsSeen, CursorAtDigit, Timers,
        Password, Pos, Digit, pswVars, display
<1>1. CASE PswAnswers(a, resp)
  BY <1>1 DEF PswAnswers, LCD_Password
<1>2. CASE PswDraws /\ resp = "continue"
  BY <1>2 DEF PswDraws, Zeros, LCD_Password
<1>3. CASE PswShowsCursor(a) /\ resp = "continue"
  BY <1>3 DEF PswShowsCursor, LCD_Password
<1>4. CASE PswMoves(a) /\ resp = "continue"
  BY <1>4 DEF PswMoves, LCD_Password
<1>5. CASE PswOpensDigit /\ resp = "continue"
  <2>1. [digits' EXCEPT ![at'] = psw'[at']] = psw'
    BY <1>5, Redrawn DEF PswOpensDigit
  <2>2. cursor' \in BOOLEAN BY <1>5, Zenon DEF PswOpensDigit
  <2>3. PswTypes' BY <1>5, <2>2 DEF PswOpensDigit
  <2>4. DigitsSeen' BY <1>5, <2>1 DEF PswOpensDigit
  <2>5. CursorAtDigit' BY <1>5 DEF PswOpensDigit
  <2> QED BY <1>5, <2>3, <2>4, <2>5 DEF LCD_Password
<1>6. CASE PswShowsDigit(a) /\ resp = "continue"
  BY <1>6 DEF PswShowsDigit, LCD_Password
<1>7. CASE PswHidesDigit(a) /\ resp = "continue"
  <2>1. [digits' EXCEPT ![at'] = psw'[at']] = psw'
    BY <1>7, Redrawn DEF PswHidesDigit
  <2> QED BY <1>7, <2>1 DEF PswHidesDigit, LCD_Password
<1>8. CASE PswTurnsDigit(a) /\ resp = "continue"
  BY <1>8 DEF PswTurnsDigit, TurnsTo, Moved, Turns, LCD_Password
<1>9. CASE PswClosesDigit(a) /\ resp = "continue"
  BY <1>9 DEF PswClosesDigit, LCD_Password
<1>10. CASE PswEnding /\ resp = "continue"
  <2>0. cursor' \in BOOLEAN BY <1>10, Zenon DEF PswEnding, CursorOff
  <2>1. PswTypes' BY <1>10, <2>0 DEF PswEnding, CursorOff
  <2>2. DigitsSeen' BY <1>10 DEF PswEnding, CursorOff
  <2>3. CursorAtDigit' BY <1>10 DEF PswEnding, CursorOff
  <2> QED BY <1>10, <2>1, <2>2, <2>3 DEF LCD_Password
<1>11. CASE PswEndBlinks(a) /\ resp = "continue"
  BY <1>11 DEF PswEndBlinks, LCD_Password
<1>12. CASE PswEndChosen(a) /\ resp = "continue"
  BY <1>12 DEF PswEndChosen, LCD_Password
<1>13. CASE PswWaits(a) /\ resp = "continue"
  BY <1>13 DEF PswWaits, LCD_Password
<1> QED BY <1>1, <1>2, <1>3, <1>4, <1>5, <1>6, <1>7, <1>8, <1>9, <1>10, <1>11,
           <1>12, <1>13 DEF LCD_Password

(* A call of LCD_ShowSelectv2 stays among its own states, and starts over  *)
(* with every answer.                                                      *)
ShowTypes == /\ select \in SHOW_INIT..SHOW_CHANGE_1
             /\ turn \in Actions \ {"enter"} /\ timer \in Timers

LEMMA ShowSelectStep ==
  ASSUME ShowTypes, NEW a \in Actions, NEW resp, LCD_ShowSelectv2(a, resp)
  PROVE  /\ ShowTypes'
         /\ resp # "continue" => select' = SHOW_INIT
         /\ resp \in Resp \ {"finish"}
<1> USE WidgetAssumption DEF ShowTypes, Timers, Actions, Turns, Resp
<1>1. CASE ShowAnswers(a, resp)
  BY <1>1 DEF ShowAnswers
<1>2. CASE ShowDraws /\ resp = "continue"
  BY <1>2 DEF ShowDraws
<1>3. CASE ShowWaits(a) /\ resp = "continue"
  BY <1>3 DEF ShowWaits, Chosen
<1>4. CASE ShowDecides /\ resp = "continue"
  BY <1>4 DEF ShowDecides
<1>5. CASE ShowHeld(a) /\ resp = "continue"
  BY <1>5 DEF ShowHeld, selectVars
<1> QED BY <1>1, <1>2, <1>3, <1>4, <1>5 DEF LCD_ShowSelectv2

(* So does a call of LCD_EncoderShowSelect, over it.                       *)
EncoderInv ==
  /\ ShowTypes
  /\ encoder \in {"LINE1", "LINE2", "SELECTED", "SELECTED_1"} /\ line \in 0..2
  /\ encoder \in {"SELECTED", "SELECTED_1"} => select = SHOW_INIT

LEMMA EncoderStep ==
  ASSUME EncoderInv, NEW a \in Actions, NEW resp, LCD_EncoderShowSelect(a, resp)
  PROVE  /\ EncoderInv'
         /\ resp = "selected" => encoder' = "LINE1" /\ select' = SHOW_INIT
<1> USE DEF EncoderInv
<1>1. CASE EncoderAnswers(a, resp)
  BY <1>1 DEF EncoderAnswers, selectVars, ShowTypes
<1>2. CASE resp = "continue" /\ EncoderSelected
  BY <1>2 DEF EncoderSelected, selectVars, ShowTypes
<1>3. CASE resp = "continue" /\ EncoderHeld(a)
  BY <1>3 DEF EncoderHeld, encoderVars, selectVars, ShowTypes
<1>4. CASE EncoderShows(a, resp)
  <2>1. PICK n \in {1, 2}, shown \in Resp :
          /\ encoder = Lines[n] /\ LCD_ShowSelectv2(a, shown)
          /\ \/ /\ shown \in {"change", "change_all_up"} /\ resp = shown
                /\ encoder' = Lines[3 - n] /\ line' = line
             \/ /\ shown = "selected" /\ resp = "continue"
                /\ encoder' = "SELECTED" /\ line' = n
             \/ /\ shown = "continue" /\ resp = shown
                /\ encoder' = encoder /\ line' = line
    BY <1>4 DEF EncoderShows, encoderVars
  <2>2. ShowTypes' /\ (shown # "continue" => select' = SHOW_INIT)
    BY <2>1, ShowSelectStep
  <2>3. encoder \in {"LINE1", "LINE2"} /\ Lines[3 - n] \in {"LINE1", "LINE2"}
    BY <2>1 DEF Lines
  <2> QED BY <2>1, <2>2, <2>3
<1> QED BY <1>1, <1>2, <1>3, <1>4 DEF LCD_EncoderShowSelect

(* A call of LCD_EncoderOptionsOnOff draws what it may later answer.       *)
OptionsInv ==
  /\ options \in {"INIT", "REDRAW", "WAIT_IN_ON", "SELECT_OPTION"}
  /\ choice \in Bit /\ lit \in BOOLEAN /\ timer \in Timers
  /\ options \in {"WAIT_IN_ON", "SELECT_OPTION"} => field \in {Blank, choice}

LEMMA OptionsStep ==
  ASSUME OptionsInv, NEW bool \in Bit, NEW a \in Actions, NEW resp,
         LCD_EncoderOptionsOnOff(bool, a, resp)
  PROVE  /\ OptionsInv'
         /\ resp = "finish" => /\ options = "SELECT_OPTION" /\ options' = "INIT"
                               /\ choice' = choice
<1> USE WidgetAssumption DEF OptionsInv, Timers, Bit
<1>1. CASE OptionsAnswers(a, resp)
  BY <1>1 DEF OptionsAnswers
<1>2. CASE resp = "continue" /\ OptionsDraws(bool)
  <2>1. lit' \in BOOLEAN BY <1>2, Zenon DEF OptionsDraws
  <2> QED BY <1>2, <2>1 DEF OptionsDraws
<1>3. CASE resp = "continue" /\ OptionsRedraws(a)
  BY <1>3 DEF OptionsRedraws
<1>4. CASE resp = "continue" /\ OptionsWaits(a)
  <2>1. lit' = IF timer = 0 THEN ~lit ELSE lit
    BY <1>4 DEF OptionsWaits
  <2>2. lit' \in BOOLEAN BY <2>1, Zenon
  <2>3. choice' \in Bit /\ timer' \in Timers
    BY <1>4 DEF OptionsWaits
  <2>4. options' \in {"REDRAW", "WAIT_IN_ON", "SELECT_OPTION"}
    BY <1>4 DEF OptionsWaits
  <2>5. options' # "REDRAW" => field' \in {Blank, choice'}
    BY <1>4 DEF OptionsWaits, Turns
  <2> QED BY <1>4, <2>2, <2>3, <2>4, <2>5
<1>5. CASE resp = "continue" /\ OptionsHeld(a)
  BY <1>5 DEF OptionsHeld, optionsVars, display
<1> QED BY <1>1, <1>2, <1>3, <1>4, <1>5 DEF LCD_EncoderOptionsOnOff

(* So does a call of LCD_EncoderChange, whose value stays up to max.       *)
ChangeInv(max) ==
  /\ change \in {"INIT", "SHOW_AGAIN", "WAIT_IN_ON", "SELECT_DONE"}
  /\ value \in 0..max /\ lit \in BOOLEAN /\ timer \in Timers
  /\ change \in {"WAIT_IN_ON", "SELECT_DONE"} => field \in {Blank, value}

LEMMA ChangeStep ==
  ASSUME NEW min \in Nat, NEW max \in Nat, ChangeInv(max), NEW orig \in 0..max,
         NEW a \in Actions, NEW resp, LCD_EncoderChange(orig, min, max, a, resp)
  PROVE  /\ ChangeInv(max)'
         /\ resp = "finish" => change' = "INIT" /\ value' = value
<1> USE WidgetAssumption DEF ChangeInv, Timers
<1>1. CASE ChangeAnswers(a, resp)
  BY <1>1 DEF ChangeAnswers
<1>2. CASE resp = "continue" /\ ChangeDraws(orig)
  <2>1. lit' \in BOOLEAN BY <1>2, Zenon DEF ChangeDraws
  <2> QED BY <1>2, <2>1 DEF ChangeDraws
<1>3. CASE resp = "continue" /\ ChangeShows
  BY <1>3 DEF ChangeShows
<1>4. CASE resp = "continue" /\ ChangeTurns(a, min, max)
  BY <1>4 DEF ChangeTurns, Moved, display
<1>5. CASE resp = "continue" /\ ChangeWaits(a)
  <2>1. lit' = IF timer = 0 THEN ~lit ELSE lit
    BY <1>5 DEF ChangeWaits
  <2>2. lit' \in BOOLEAN BY <2>1, Zenon
  <2>3. value' \in 0..max /\ timer' \in Timers
    BY <1>5 DEF ChangeWaits
  <2>4. change' \in {"SHOW_AGAIN", "WAIT_IN_ON", "SELECT_DONE"}
    BY <1>5 DEF ChangeWaits
  <2>5. field' \in {Blank, value'}
    BY <1>5 DEF ChangeWaits
  <2> QED BY <1>5, <2>2, <2>3, <2>4, <2>5
<1>6. CASE resp = "continue" /\ ChangeHeld(a)
  BY <1>6 DEF ChangeHeld, changeVars, display
<1> QED BY <1>1, <1>2, <1>3, <1>4, <1>5, <1>6 DEF LCD_EncoderChange

(* A call of LCD_ShowBlink finishes where it began.                        *)
BlinkInv == /\ blinking \in {"INIT", "MARK_D", "SPACE_D"} /\ howMany \in Bit
            /\ timer \in Timers

LEMMA BlinkStep ==
  ASSUME BlinkInv, NEW resp, ShowBlink(resp)
  PROVE  /\ BlinkInv'
         /\ resp = "finish" => blinking' = "INIT"
         /\ resp \in {"continue", "finish"}
  BY WidgetAssumption
  DEF BlinkInv, Timers, Bit, ShowBlink, BlinkInit, BlinkMark, BlinkSpace,
      BlinkWaits, BlinkEnds, blinkVars
-----------------------------------------------------------------------------
(* The inductive invariant: what is checked, the digits whatever the state *)
(* of the password, and what a question still holds of the answer before.  *)
AsShown ==
  /\ menu \in PasswordScreens => DigitsSeen
  /\ options \in {"WAIT_IN_ON", "SELECT_OPTION"} => field \in {Blank, choice}
  /\ change \in {"WAIT_IN_ON", "SELECT_DONE"} => field \in {Blank, value}
  /\ menu = "CONF_CONFIRM" => cfg.new_psw = psw

IInv == TypeOK /\ NoneHalfway /\ CursorOnDigits /\ AsShown

Other == {"INIT", "CONF_TREATMENT_TIME", "CONF_MODE"}

LEMMA Screens ==
  /\ Shown = {"SHOW_TREATMENT_TIME", "SHOW_ALARM", "SHOW_TICKER", "SHOW_MODE",
              "SHOW_PASS", "SHOW_END_CONF"}
  /\ \A s \in Shown : /\ Up[s] \in Shown /\ Down[s] \in Shown
                      /\ Opens[s] \in {"CONF_TREATMENT_TIME", "CONF_ALARM",
                            "CONF_TICKER", "CONF_MODE", "CONF_PASS", "END_CONF"}
  BY DEF Shown, Up, Down, Opens

LEMMA InitIInv == Init => IInv
<1> SUFFICES ASSUME Init PROVE IInv
  OBVIOUS
<1> USE WidgetAssumption, MenuAssumption DEF Init, WidgetsInit
<1>0. cursor \in BOOLEAN /\ lit \in BOOLEAN /\ rejecting \in BOOLEAN /\ ~cursor
      /\ ~rejecting
  BY Zenon
<1>1. Zeros \in Password /\ 0 \in Pos
  BY DEF Zeros, Password, Pos, Digit
<1>2. TypeOK
  BY <1>0, <1>1 DEF TypeOK, Bit, Actions, Turns, Menu
<1>3. NoneHalfway /\ CursorOnDigits
  BY <1>0 DEF NoneHalfway, CursorOnDigits
<1>4. AsShown
  BY DEF AsShown, PasswordScreens
<1> QED BY <1>2, <1>3, <1>4 DEF IInv

LEMMA MenuInitIInv ==
  ASSUME IInv, MenuInit(button), button' = "none", ~rejecting
  PROVE  IInv' /\ cfg' = cfg
<1>0. PICK resp \in Resp : /\ ShowBlink(resp)
                           /\ IF resp = "finish" /\ Enters(button)
                              THEN menu' = "GET_PASSWORD" /\ select' = PSW_INIT
                              ELSE menu' = menu /\ select' = select
  BY DEF MenuInit
<1>1. BlinkInv' /\ (resp = "finish" => blinking' = "INIT")
  BY <1>0, BlinkStep DEF BlinkInv, IInv, TypeOK, Timers
<1>2. UNCHANGED <<turn, psw, at, cursor, encoder, line, options, choice, change,
                  value, lit, cfg, rejecting>> /\ menu = "INIT"
  BY DEF MenuInit, pswVars, encoderVars, optionsVars, changeVars
<1>3. select = SHOW_INIT /\ options = "INIT" /\ change = "INIT" /\ ~cursor
      /\ encoder = "LINE1"
  BY <1>2, Screens DEF IInv, NoneHalfway, CursorOnDigits, PasswordScreens, OnOffScreens
<1>4. TypeOK'
  BY <1>0, <1>1, <1>2 DEF IInv, TypeOK, BlinkInv, Timers, Menu, PasswordScreens, Actions
<1>5. NoneHalfway' /\ CursorOnDigits'
  BY <1>0, <1>1, <1>2, <1>3 DEF NoneHalfway, CursorOnDigits, PasswordScreens
<1>6. AsShown'
  BY <1>0, <1>2, <1>3 DEF AsShown, DigitsSeen, PasswordScreens
<1> QED BY <1>2, <1>4, <1>5, <1>6 DEF IInv

\* What IInv says of the password widget, on its screens.
LEMMA OnPassword ==
  ASSUME IInv, menu \in PasswordScreens
  PROVE  /\ PswInv
         /\ blinking = "INIT" \/ rejecting
         /\ encoder = "LINE1" /\ options = "INIT" /\ change = "INIT"
  BY DEF IInv, TypeOK, NoneHalfway, CursorOnDigits, AsShown, PswInv, PswTypes,
         CursorAtDigit, Timers, PasswordScreens, OnOffScreens

LEMMA GetPasswordIInv ==
  ASSUME IInv, GetPassword(button), button' = "none", ~rejecting
  PROVE  IInv' /\ cfg' = cfg
<1>0. PICK resp \in Resp :
        /\ LCD_Password(button, resp)
        /\ menu' = IF resp = "selected" /\ Accepts(psw)
                   THEN "SHOW_TREATMENT_TIME" ELSE menu
        /\ rejecting' = (resp = "selected" /\ ~Accepts(psw))
  BY DEF GetPassword
<1>1. menu = "GET_PASSWORD" /\ menu \in PasswordScreens
  BY DEF GetPassword, PasswordScreens
<1>2. UNCHANGED <<blinking, howMany, encoder, line, options, choice, change,
                  value, lit, cfg>>
  BY DEF GetPassword, blinkVars, encoderVars, optionsVars, changeVars
<1>3. button \in Actions
  BY DEF IInv, TypeOK
<1>4. /\ PswInv' /\ turn' = turn
      /\ resp = "selected" => select' = PSW_INIT /\ ~cursor'
  BY <1>0, <1>1, <1>3, OnPassword, PasswordStep
<1>5. rejecting' \in BOOLEAN /\ (rejecting' => resp = "selected" /\ ~Accepts(psw))
  BY <1>0, Zenon
<1>6. menu' \in {"SHOW_TREATMENT_TIME", "GET_PASSWORD"}
      /\ (resp # "selected" => menu' = "GET_PASSWORD")
      /\ (rejecting' => menu' = "GET_PASSWORD")
  BY <1>0, <1>1, <1>5
<1>7. TypeOK'
  BY <1>2, <1>4, <1>5, <1>6, Screens
  DEF IInv, TypeOK, PswInv, PswTypes, Timers, Menu, PasswordScreens, Actions
<1>8. NoneHalfway'
  BY <1>1, <1>2, <1>4, <1>5, <1>6, OnPassword, Screens
  DEF NoneHalfway, PasswordScreens, OnOffScreens, PswInv, PswTypes
<1>9. CursorOnDigits' /\ AsShown'
  BY <1>1, <1>2, <1>4, <1>6, OnPassword, Screens
  DEF CursorOnDigits, AsShown, PswInv, CursorAtDigit, PasswordScreens
<1> QED BY <1>2, <1>7, <1>8, <1>9 DEF IInv

LEMMA ConfPassIInv ==
  ASSUME IInv, ConfPass(button), button' = "none", ~rejecting
  PROVE  IInv' /\ cfg'.saved_psw = cfg.saved_psw
<1>0. PICK resp \in Resp :
        /\ LCD_Password(button, resp)
        /\ IF resp = "selected"
           THEN menu' = "CONF_CONFIRM" /\ cfg' = [cfg EXCEPT !.new_psw = psw]
           ELSE menu' = menu /\ cfg' = cfg
  BY DEF ConfPass
<1>1. menu = "CONF_PASS" /\ menu \in PasswordScreens
  BY DEF ConfPass, PasswordScreens
<1>2. UNCHANGED <<blinking, howMany, encoder, line, options, choice, change,
                  value, lit, rejecting>>
  BY DEF ConfPass, blinkVars, encoderVars, optionsVars, changeVars
<1>3. button \in Actions
  BY DEF IInv, TypeOK
<1>4. /\ PswInv' /\ turn' = turn
      /\ resp = "selected" => select' = PSW_INIT /\ ~cursor' /\ psw' = psw
  BY <1>0, <1>1, <1>3, OnPassword, PasswordStep
<1>5. psw \in Password
  BY DEF IInv, TypeOK
<1>6. TypeOK'
  BY <1>0, <1>1, <1>2, <1>4, <1>5
  DEF IInv, TypeOK, PswInv, PswTypes, Timers, Menu, PasswordScreens, OnOffScreens,
      Actions
<1>7. NoneHalfway'
  BY <1>0, <1>1, <1>2, <1>4, OnPassword
  DEF IInv, NoneHalfway, PasswordScreens, OnOffScreens, PswInv, PswTypes
<1>8. CursorOnDigits' /\ AsShown'
  BY <1>0, <1>1, <1>2, <1>4, OnPassword
  DEF IInv, TypeOK, CursorOnDigits, AsShown, PswInv, CursorAtDigit, PasswordScreens
<1>9. cfg'.saved_psw = cfg.saved_psw
  BY <1>0 DEF IInv, TypeOK
<1> QED BY <1>6, <1>7, <1>8, <1>9 DEF IInv

LEMMA ShowNameIInv ==
  ASSUME IInv, ShowName(button), button' = "none", ~rejecting
  PROVE  IInv' /\ cfg' = cfg
<1>0. PICK resp \in Resp :
        /\ LCD_ShowSelectv2(button, resp)
        /\ menu' = CASE resp = "change"        -> Down[menu]
                     [] resp = "change_all_up" -> Up[menu]
                     [] resp = "selected"      -> Opens[menu]
                     [] OTHER                  -> menu
        /\ change' = IF menu' = "CONF_TREATMENT_TIME" THEN "INIT" ELSE change
        /\ options' = IF menu' \in OnOffScreens THEN "INIT" ELSE options
  BY DEF ShowName
<1>1. menu \in Shown /\ menu \notin PasswordScreens /\ menu \notin OnOffScreens
      /\ menu \notin {"INIT", "CONF_MODE", "CONF_TREATMENT_TIME"}
  BY Screens DEF ShowName, PasswordScreens, OnOffScreens
<1>2. UNCHANGED <<blinking, howMany, psw, at, cursor, encoder, line, choice,
                  value, lit, cfg, rejecting>>
  BY DEF ShowName, blinkVars, pswVars, encoderVars
<1>3. /\ blinking = "INIT" /\ encoder = "LINE1" /\ options = "INIT"
      /\ change = "INIT" /\ ~cursor /\ select \in SHOW_INIT..SHOW_CHANGE_1
      /\ button \in Actions
  BY <1>1 DEF IInv, TypeOK, NoneHalfway, CursorOnDigits
<1>4. ShowTypes' /\ (resp # "continue" => select' = SHOW_INIT)
      /\ resp \in Resp \ {"finish"}
  BY <1>0, <1>3, ShowSelectStep DEF ShowTypes, IInv, TypeOK, Timers
<1>5. /\ change' = "INIT" /\ options' = "INIT"
      /\ resp = "continue" => menu' = menu
      /\ menu' \in Shown \cup {"CONF_TREATMENT_TIME", "CONF_ALARM",
                       "CONF_TICKER", "CONF_MODE", "CONF_PASS", "END_CONF"}
  BY <1>0, <1>1, <1>3, <1>4, Screens DEF Resp
<1>6. TypeOK'
  BY <1>2, <1>4, <1>5
  DEF IInv, TypeOK, ShowTypes, Timers, Menu, PasswordScreens, OnOffScreens, Actions
<1>7. NoneHalfway' /\ CursorOnDigits'
  BY <1>1, <1>2, <1>3, <1>4, <1>5
  DEF NoneHalfway, CursorOnDigits, ShowTypes
<1>8. AsShown'
  BY <1>1, <1>2, <1>4, <1>5, Screens DEF AsShown, PasswordScreens, DigitsSeen
<1> QED BY <1>2, <1>6, <1>7, <1>8 DEF IInv

LEMMA ConfTreatmentTimeIInv ==
  ASSUME IInv, ConfTreatmentTime(button), button' = "none", ~rejecting
  PROVE  IInv' /\ cfg'.saved_psw = cfg.saved_psw
<1>0. PICK resp \in Resp :
        /\ LCD_EncoderChange(cfg.treatment_time_min, MinTime, MaxTime, button, resp)
        /\ IF resp = "finish"
           THEN /\ menu' = "SHOW_TREATMENT_TIME"
                /\ cfg' = [cfg EXCEPT !.treatment_time_min = value % 256]
           ELSE menu' = menu /\ cfg' = cfg
  BY DEF ConfTreatmentTime
<1>1. menu = "CONF_TREATMENT_TIME" /\ menu \notin Shown
  BY Screens DEF ConfTreatmentTime
<1>2. UNCHANGED <<blinking, howMany, select, turn, psw, at, cursor, encoder,
                  line, options, choice, rejecting>>
  BY DEF ConfTreatmentTime, blinkVars, selectVars, pswVars, encoderVars, optionsVars
<1>3. /\ blinking = "INIT" /\ encoder = "LINE1" /\ options = "INIT"
      /\ select = SHOW_INIT /\ ~cursor
  BY <1>1 DEF IInv, TypeOK, NoneHalfway, CursorOnDigits, PasswordScreens, OnOffScreens
<1>4. ChangeInv(MaxTime) /\ cfg.treatment_time_min \in 0..MaxTime
      /\ button \in Actions
  BY DEF IInv, TypeOK, AsShown, ChangeInv, Timers
<1>5. ChangeInv(MaxTime)' /\ (resp = "finish" => change' = "INIT")
  BY <1>0, <1>4, ChangeStep, MenuAssumption
<1>6. value % 256 \in 0..MaxTime
  BY <1>4, MenuAssumption DEF ChangeInv
<1>7. TypeOK'
  BY <1>0, <1>1, <1>2, <1>5, <1>6, Screens
  DEF IInv, TypeOK, ChangeInv, Timers, Menu, Actions
<1>8. NoneHalfway' /\ CursorOnDigits'
  BY <1>0, <1>1, <1>2, <1>3, <1>5 DEF NoneHalfway, CursorOnDigits
<1>9. AsShown' /\ cfg'.saved_psw = cfg.saved_psw
  BY <1>0, <1>1, <1>2, <1>3, <1>5
  DEF IInv, TypeOK, AsShown, ChangeInv, PasswordScreens
<1> QED BY <1>7, <1>8, <1>9 DEF IInv

LEMMA ConfModeIInv ==
  ASSUME IInv, ConfMode(button), button' = "none", ~rejecting
  PROVE  IInv' /\ cfg'.saved_psw = cfg.saved_psw
<1>0. PICK resp \in Resp :
        /\ LCD_EncoderShowSelect(button, resp)
        /\ IF resp = "selected"
           THEN /\ menu' = "SHOW_TREATMENT_TIME"
                /\ cfg' = [cfg EXCEPT !.operation_mode =
                             IF line = 2 THEN "CARD_MODE" ELSE "NORMAL_MODE"]
           ELSE menu' = menu /\ cfg' = cfg
  BY DEF ConfMode
<1>1. menu = "CONF_MODE" /\ menu \notin Shown
  BY Screens DEF ConfMode
<1>2. UNCHANGED <<blinking, howMany, psw, at, cursor, options, choice, change,
                  value, lit, rejecting>>
  BY DEF ConfMode, blinkVars, pswVars, optionsVars, changeVars
<1>3. /\ blinking = "INIT" /\ options = "INIT" /\ change = "INIT" /\ ~cursor
      /\ EncoderInv /\ button \in Actions
  BY <1>1 DEF IInv, TypeOK, NoneHalfway, CursorOnDigits, PasswordScreens,
              OnOffScreens, EncoderInv, ShowTypes, Timers
<1>4. /\ EncoderInv'
      /\ resp = "selected" => encoder' = "LINE1" /\ select' = SHOW_INIT
  BY <1>0, <1>3, EncoderStep
<1>5. TypeOK'
  BY <1>0, <1>1, <1>2, <1>4, Screens
  DEF IInv, TypeOK, EncoderInv, ShowTypes, Timers, Menu, Actions
<1>6. NoneHalfway' /\ CursorOnDigits'
  BY <1>0, <1>1, <1>2, <1>3, <1>4, Screens
  DEF NoneHalfway, CursorOnDigits, EncoderInv, ShowTypes
<1>7. AsShown' /\ cfg'.saved_psw = cfg.saved_psw
  BY <1>0, <1>1, <1>2, <1>3 DEF IInv, TypeOK, AsShown, PasswordScreens
<1> QED BY <1>5, <1>6, <1>7 DEF IInv

Cfg == [treatment_time_min : 0..MaxTime, alarms_onoff : Bit, ticker_onoff : Bit,
        operation_mode : {"MODE_UNKNOW", "NORMAL_MODE", "CARD_MODE"},
        saved_psw : Password, new_psw : Password]

\* Any question answered yes or no, whatever its answer edits.
LEMMA OnOffIInv ==
  ASSUME IInv, button' = "none", ~rejecting,
         NEW screen \in OnOffScreens, NEW bool \in Bit, NEW edited \in Cfg,
         NEW next \in {"SHOW_TREATMENT_TIME", "INIT"},
         OnOff(screen, bool, edited, next, button)
  PROVE  /\ IInv'
         /\ cfg' = cfg \/ (cfg' = edited /\ options = "SELECT_OPTION" /\ psw' = psw)
<1>0. PICK resp \in Resp :
        /\ LCD_EncoderOptionsOnOff(bool, button, resp)
        /\ IF resp = "finish" THEN menu' = next /\ cfg' = edited
                              ELSE menu' = menu /\ cfg' = cfg
  BY DEF OnOff
<1>1. /\ menu = screen /\ menu \notin Shown /\ menu \notin PasswordScreens
      /\ menu \notin {"INIT", "CONF_MODE", "CONF_TREATMENT_TIME"}
      /\ next \notin PasswordScreens /\ next # "CONF_CONFIRM"
  BY Screens DEF OnOff, OnOffScreens, PasswordScreens
<1>2. UNCHANGED <<blinking, howMany, select, turn, psw, at, cursor, encoder,
                  line, change, value, rejecting>>
  BY DEF OnOff, blinkVars, selectVars, pswVars, encoderVars, changeVars
<1>3. /\ blinking = "INIT" /\ encoder = "LINE1" /\ change = "INIT" /\ ~cursor
      /\ select = SHOW_INIT /\ OptionsInv /\ button \in Actions
  BY <1>1 DEF IInv, TypeOK, NoneHalfway, CursorOnDigits, AsShown, OptionsInv, Timers
<1>4. /\ OptionsInv'
      /\ resp = "finish" => options = "SELECT_OPTION" /\ options' = "INIT"
  BY <1>0, <1>3, OptionsStep
<1>5. TypeOK'
  BY <1>0, <1>1, <1>2, <1>4, Screens
  DEF IInv, TypeOK, OptionsInv, Timers, Menu, Cfg, Actions
<1>6. NoneHalfway' /\ CursorOnDigits'
  BY <1>0, <1>1, <1>2, <1>3, <1>4 DEF NoneHalfway, CursorOnDigits
<1>7. AsShown'
  BY <1>0, <1>1, <1>2, <1>3, <1>4 DEF IInv, AsShown, OptionsInv
<1> QED BY <1>0, <1>2, <1>4, <1>5, <1>6, <1>7 DEF IInv

LEMMA QuestionsIInv ==
  ASSUME IInv, button' = "none", ~rejecting,
         \/ ConfAlarm(button) \/ ConfTicker(button)
         \/ ConfConfirm(button) \/ EndConf(button)
  PROVE  /\ IInv'
         /\ cfg'.saved_psw # cfg.saved_psw =>
              /\ cfg'.saved_psw = psw
              /\ options = "SELECT_OPTION" /\ field \in {Blank, 1}
<1>1. cfg \in Cfg /\ choice \in Bit /\ 1 \in Bit
      /\ {"CONF_ALARM", "CONF_TICKER", "CONF_CONFIRM", "END_CONF"} = OnOffScreens
  BY DEF IInv, TypeOK, Cfg, Bit, OnOffScreens
<1>2. CASE ConfAlarm(button)
  <2>1. [cfg EXCEPT !.alarms_onoff = choice] \in Cfg /\ cfg.alarms_onoff \in Bit
        /\ [cfg EXCEPT !.alarms_onoff = choice].saved_psw = cfg.saved_psw
    BY <1>1 DEF Cfg
  <2>2. OnOff("CONF_ALARM", cfg.alarms_onoff,
              [cfg EXCEPT !.alarms_onoff = choice], "SHOW_TREATMENT_TIME", button)
    BY <1>2 DEF ConfAlarm
  <2>3. /\ IInv'
        /\ cfg' = cfg \/ cfg' = [cfg EXCEPT !.alarms_onoff = choice]
    BY <1>1, <2>1, <2>2, OnOffIInv
  <2> QED BY <2>1, <2>3
<1>3. CASE ConfTicker(button)
  <2>1. [cfg EXCEPT !.ticker_onoff = choice] \in Cfg /\ cfg.ticker_onoff \in Bit
        /\ [cfg EXCEPT !.ticker_onoff = choice].saved_psw = cfg.saved_psw
    BY <1>1 DEF Cfg
  <2>2. OnOff("CONF_TICKER", cfg.ticker_onoff,
              [cfg EXCEPT !.ticker_onoff = choice], "SHOW_TREATMENT_TIME", button)
    BY <1>3 DEF ConfTicker
  <2>3. /\ IInv'
        /\ cfg' = cfg \/ cfg' = [cfg EXCEPT !.ticker_onoff = choice]
    BY <1>1, <2>1, <2>2, OnOffIInv
  <2> QED BY <2>1, <2>3
<1>4. CASE ConfConfirm(button)
  <2> DEFINE edited ==
        [cfg EXCEPT !.saved_psw = IF AnswersYes THEN cfg.new_psw ELSE @]
  <2>1. edited \in Cfg
        /\ (edited.saved_psw # cfg.saved_psw => choice = 1
                                             /\ edited.saved_psw = cfg.new_psw)
    BY <1>1 DEF Cfg, AnswersYes
  <2>2. OnOff("CONF_CONFIRM", 1, edited, "SHOW_TREATMENT_TIME", button)
    BY <1>4 DEF ConfConfirm
  <2> HIDE DEF edited
  <2>3. /\ IInv'
        /\ cfg' = cfg \/ (cfg' = edited /\ options = "SELECT_OPTION")
    BY <1>1, <2>1, <2>2, OnOffIInv
  <2>4. menu = "CONF_CONFIRM"
    BY <1>4 DEF ConfConfirm, OnOff
  <2> QED BY <2>1, <2>3, <2>4 DEF IInv, AsShown
<1>5. CASE EndConf(button)
  <2>1. OnOff("END_CONF", 1, cfg, "INIT", button)
    BY <1>5 DEF EndConf
  <2> QED BY <1>1, <2>1, OnOffIInv
<1> QED BY <1>2, <1>3, <1>4, <1>5

LEMMA RejectIInv ==
  ASSUME IInv, Reject
  PROVE  IInv' /\ cfg' = cfg
<1>0. PICK resp \in Resp : /\ ShowBlink(resp)
                           /\ rejecting' = (resp = "continue")
                           /\ menu' = IF resp = "continue" THEN menu ELSE "INIT"
  BY DEF Reject
<1>1. rejecting /\ menu = "GET_PASSWORD" /\ select = SHOW_INIT
  BY DEF Reject, IInv, NoneHalfway
<1>2. UNCHANGED <<select, turn, psw, at, cursor, encoder, line, options, choice,
                  change, value, lit, cfg, button>>
  BY DEF Reject, selectVars, pswVars, encoderVars, optionsVars, changeVars
<1>3. /\ BlinkInv' /\ resp \in {"continue", "finish"}
      /\ resp = "finish" => blinking' = "INIT"
  BY <1>0, BlinkStep DEF BlinkInv, IInv, TypeOK, Timers
<1>4. options = "INIT" /\ change = "INIT" /\ ~cursor /\ encoder = "LINE1"
  BY <1>1 DEF IInv, NoneHalfway, CursorOnDigits, OnOffScreens
<1>5. rejecting' \in BOOLEAN /\ (rejecting' <=> resp = "continue")
  BY <1>0, Zenon
<1>6. TypeOK'
  BY <1>0, <1>1, <1>2, <1>3, <1>5
  DEF IInv, TypeOK, BlinkInv, Timers, Menu, PasswordScreens
<1>7. NoneHalfway' /\ CursorOnDigits'
  BY <1>0, <1>1, <1>2, <1>3, <1>4, <1>5 DEF NoneHalfway, CursorOnDigits
<1>8. AsShown'
  BY <1>0, <1>1, <1>2, <1>4 DEF AsShown, DigitsSeen, PasswordScreens
<1> QED BY <1>2, <1>6, <1>7, <1>8 DEF IInv
-----------------------------------------------------------------------------
\* What a step may do to the saved password.
SavesTyped ==
  cfg'.saved_psw # cfg.saved_psw =>
    /\ cfg'.saved_psw = psw
    /\ options = "SELECT_OPTION" /\ field \in {Blank, 1}

LEMMA NextIInv == IInv /\ [Next]_vars => IInv' /\ SavesTyped
<1> SUFFICES ASSUME IInv, [Next]_vars PROVE IInv' /\ SavesTyped
  OBVIOUS
<1> USE DEF SavesTyped
<1>1. ASSUME NEW b \in Turns \cup {"enter"}, Press(b)
      PROVE  IInv' /\ cfg' = cfg
  <2>1. UNCHANGED <<widgetVars, menu, cfg, rejecting>> /\ button' \in Actions
    BY <1>1 DEF Press, Actions
  <2> QED
    BY <2>1 DEF IInv, TypeOK, NoneHalfway, CursorOnDigits, AsShown, DigitsSeen,
                widgetVars
<1>2. CASE TestTimeouts
  <2>1. timer' \in Timers
    BY <1>2, WidgetAssumption DEF TestTimeouts, TimerTick, IInv, TypeOK, Timers
  <2>2. UNCHANGED <<blinking, howMany, select, turn, psw, at, cursor, encoder,
          line, options, choice, change, value, lit, digits, field, menu, cfg,
          button, rejecting>>
    BY <1>2 DEF TestTimeouts, blinkVars, selectVars, pswVars, encoderVars,
                optionsVars, changeVars, display
  <2> QED
    BY <2>1, <2>2 DEF IInv, TypeOK, Timers, NoneHalfway, CursorOnDigits, AsShown,
                      DigitsSeen
<1>3. CASE TestMainLoop
  <2>1. button' = "none" /\ ~rejecting /\ MENU_Main(button)
    BY <1>3 DEF TestMainLoop
  <2>2. CASE MenuInit(button)
    BY <2>1, <2>2, MenuInitIInv
  <2>3. CASE GetPassword(button)
    BY <2>1, <2>3, GetPasswordIInv
  <2>4. CASE ShowName(button)
    BY <2>1, <2>4, ShowNameIInv
  <2>5. CASE ConfTreatmentTime(button)
    BY <2>1, <2>5, ConfTreatmentTimeIInv
  <2>6. CASE \/ ConfAlarm(button) \/ ConfTicker(button)
             \/ ConfConfirm(button) \/ EndConf(button)
    BY <2>1, <2>6, QuestionsIInv
  <2>7. CASE ConfMode(button)
    BY <2>1, <2>7, ConfModeIInv
  <2>8. CASE ConfPass(button)
    BY <2>1, <2>8, ConfPassIInv
  <2> QED BY <2>1, <2>2, <2>3, <2>4, <2>5, <2>6, <2>7, <2>8 DEF MENU_Main
<1>4. CASE Reject
  BY <1>4, RejectIInv
<1>5. CASE UNCHANGED vars
  BY <1>5 DEF vars, IInv, TypeOK, NoneHalfway, CursorOnDigits, AsShown,
              DigitsSeen, widgetVars
<1> QED BY <1>1, <1>2, <1>3, <1>4, <1>5 DEF Next

LEMMA IInvAlways == Spec => []IInv
  BY InitIInv, NextIInv, PTL DEF Spec

(* Whatever the user presses and whenever, the menu's state is well typed: *)
(* digits within the password, minutes within the maximum.                 *)
THEOREM TypesHold == Spec => []TypeOK
<1>1. IInv => TypeOK
  BY DEF IInv
<1> QED BY IInvAlways, <1>1, PTL

(* No screen begins half way through the widget of another, although they  *)
(* share show_select_state and four of them start theirs without a reset.  *)
THEOREM HandedOverClean == Spec => []NoneHalfway
<1>1. IInv => NoneHalfway
  BY DEF IInv
<1> QED BY IInvAlways, <1>1, PTL

(* The LCD's cursor never blinks outside the digits of a password.         *)
THEOREM CursorStaysOnDigits == Spec => []CursorOnDigits
<1>1. IInv => CursorOnDigits
  BY DEF IInv
<1> QED BY IInvAlways, <1>1, PTL

(* What is accepted is what is on the display, for passwords of any length *)
(* and any timeouts.                                                       *)
THEOREM AcceptedIsShown == Spec => []AcceptsWhatIsShown
<1>1. IInv => AcceptsWhatIsShown
  BY DEF IInv, AsShown, DigitsSeen, AcceptsWhatIsShown
<1> QED BY IInvAlways, <1>1, PTL

(* The saved password changes only to the digits typed last, on a yes.     *)
THEOREM SavedIsTyped == Spec => SavesWhatWasTyped
<1>1. IInv /\ [Next]_vars =>
        [cfg'.saved_psw # cfg.saved_psw
           => /\ cfg'.saved_psw = psw
              /\ options = "SELECT_OPTION" /\ field \in {Blank, 1}]_vars
  BY NextIInv DEF SavesTyped
<1> QED BY IInvAlways, <1>1, PTL DEF Spec, SavesWhatWasTyped
=============================================================================
