----------------------------- MODULE MCLcdMenu -----------------------------
(* LcdMenu for TLC: passwords of one or two digits, and the screens on     *)
(* which the user presses, a few of them in each run.                      *)
EXTENDS LcdMenu

Ones == [p \in Pos |-> MaxDigit]     \* the default password

Session == {"INIT", "GET_PASSWORD", "SHOW_END_CONF", "END_CONF"}

Settings == Session \cup
  {"SHOW_TREATMENT_TIME", "CONF_TREATMENT_TIME", "SHOW_ALARM", "CONF_ALARM",
   "SHOW_TICKER", "CONF_TICKER"}

Passwords == Session \cup {"SHOW_PASS", "CONF_PASS", "CONF_CONFIRM"}

SettingsAndPasswords == Settings \cup Passwords

\* One screen of each widget.
Widgets == Session \cup
  {"SHOW_TREATMENT_TIME", "CONF_TREATMENT_TIME", "SHOW_MODE", "CONF_MODE"}
=============================================================================
