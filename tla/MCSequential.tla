----------------------------- MODULE MCSequential -----------------------------
(* The parts of the repository that run in one thread, and the allocator   *)
(* below them, each checked on an instance of its own: `part' says which   *)
(* one a behaviour is of; "ma8" is the filter of Ma8Total, "memory" the    *)
(* allocator of KoreMemory, "pid" and "sums" are the programs of Numbers,   *)
(* "csv", "dates" and "records" the parts of DailyFiles.                   *)
EXTENDS Ma8Total, KoreCli, KoreMemory, Numbers, DailyFiles, RequestBodies, TLC

CONSTANTS m1, m2           \* two modules of a Kore server

VARIABLES
  phase, lines, depth, at, domains, auths, validators, modules, numbers, users, built,
  length, state, last, window, timer, shown, over, stuck, cells, number, place, resets, drawn

(* An authentication block; patterns and params; modules; the settings.    *)
Auths == INSTANCE KoreConfig
  WITH Names <- {"d"}, Covers <- {}, Paths <- {"/"}, AuthNames <- {"a"},
       ValidatorNames <- {"v"}, Functions <- {"f"}, Modules <- {m1},
       Exports <- m1 :> <<{"f"}>>,
       Directives <- {"load", "domain", "static", "authentication", "type", "value",
                      "authentication_validator", "validator", "close", "redirect"},
       MaxLines <- 9, MaxDepth <- 1, MaxEach <- 1
Patterns == INSTANCE KoreConfig
  WITH Names <- {"d", "*"}, Covers <- {<<"*", "d">>, <<"*", "*">>}, Paths <- {"/"},
       AuthNames <- {}, ValidatorNames <- {"v"}, Functions <- {"f"}, Modules <- {m1},
       Exports <- m1 :> <<{"f"}>>,
       Directives <- {"load", "domain", "dynamic", "params", "validate", "validator",
                      "close", "restrict", "include"},
       MaxLines <- 10, MaxDepth <- 2, MaxEach <- 2
Loaded == INSTANCE KoreConfig
  WITH Names <- {"d"}, Covers <- {}, Paths <- {"/"}, AuthNames <- {},
       ValidatorNames <- {"v"}, Functions <- {"f", "g"}, Modules <- {m1, m2},
       Exports <- m1 :> <<{"f"}, {"f", "g"}, {}>> @@ m2 :> <<{"g"}, {"f", "g"}>>,
       Directives <- {"load", "domain", "static", "validator"},
       MaxLines <- 6, MaxDepth <- 1, MaxEach <- 2
Settings == INSTANCE KoreConfig
  WITH Names <- {"d"}, Covers <- {}, Paths <- {"/"}, AuthNames <- {},
       ValidatorNames <- {}, Functions <- {}, Modules <- {m1}, Exports <- m1 :> <<{}>>,
       Directives <- {"load", "domain", "runas", "root", "keymgr_runas", "keymgr_root",
                      "certfile", "certkey", "accesslog", "client_verify", "workers",
                      "http_body_max", "close"},
       MaxLines <- 5, MaxDepth <- 1, MaxEach <- 1

(* KoreCli itself is an application of shared objects; of single binaries, *)
(* which are linked anew each time, one command goes wrong.                *)
Binary == INSTANCE KoreCli WITH Single <- TRUE, MaxTrouble <- 1
Scroll == INSTANCE LcdScroll
  WITH at <- place, numbers <- drawn, L <- 3, Byte <- 16, Ticks <- 1,
       Lengths <- {<<7, 0>>, <<8, 0>>, <<9, 0>>, <<10, 0>>, <<0, 7>>},
       MaxResets <- 1, MaxNumbers <- 1

(* Parts of which the contents look like the boundary and the line ends.   *)
MCKinds == {<<"F">>, <<"o", "r", "n", "P">>}
MCDatas == {<<>>, <<"d", "r", "n">>, <<"-", "-", "r">>}

(* In quotes a quote, and a comma and a line end; without them nothing,    *)
(* spaces, and a quote that a strict parser refuses.                       *)
MCFields == [quoted : {TRUE}, value : {<<"quote">>, <<"comma", "lf", "space">>}]
            \cup [quoted : {FALSE},
                  value : {<<>>, <<"space", "a", "space">>, <<"a", "quote">>}]

(* Over the ends of years and Februaries, of today and not, of a day there *)
(* is not, backwards, and from January to the days named like those of it. *)
Date(y, m, d) == [year |-> y, mon |-> m, mday |-> d]
Asks(a, b, day) == [first |-> a, last |-> b, today |-> day]
MCRequests ==
  {Asks(Date(2023, 12, 29), Date(2024, 1, 2), Date(2024, 1, 5)),
   Asks(Date(2024, 2, 27), Date(2024, 3, 2), Date(2024, 3, 2)),
   Asks(Date(2024, 2, 30), Date(2024, 3, 4), Date(2024, 3, 10)),
   Asks(Date(2023, 2, 27), Date(2023, 2, 31), Date(2024, 3, 2)),
   Asks(Date(2024, 3, 2), Date(2024, 3, 2), Date(2024, 3, 2)),
   Asks(Date(2024, 3, 3), Date(2024, 3, 2), Date(2024, 3, 2)),
   Asks(Date(2024, 3, 3), Date(2024, 3, 1), Date(2024, 3, 2)),
   Asks(Date(2024, 1, 10), Date(2024, 12, 3), Date(2025, 1, 2))}
MCLost == {Date(2024, 1, 11), Date(2024, 11, 1), Date(2024, 2, 29)}

(* Answered or not, of no length, with fields that are full, too long or   *)
(* without a space, and too short a row.                                   *)
CallRow(o, d, t, s, e) ==
  <<<<>>, o, d, <<>>, <<>>, <<>>, <<>>, <<>>, <<>>, t, <<>>, <<>>, <<>>, s, e>>
MCCallRows ==
  {CallRow(<<"a">>, <<"b">>, <<"d", " ", "h">>, <<"1">>, <<"A">>),
   CallRow(<<"a", "a", "a", "a">>, <<"b", "b">>, <<"d">>, <<"1">>, <<"A">>),
   CallRow(<<"a", "b">>, <<"c", "c", "c", "c", "c">>, <<" ">>, <<"1">>, <<"A", "x">>),
   CallRow(<<"a", "b", "c">>, <<"b">>, <<"d", " ", "h">>, <<"z">>, <<"A">>),
   CallRow(<<"a", "b", "c">>, <<"b">>, <<"d", " ", "h">>, <<"1">>, <<"N">>),
   <<<<"a">>, <<"b">>>>}

(* Gains that wrap around, and messages of one, two and three bytes.       *)
MCGains    == [kp : {0, 3, 29}, ki : {0, 1, 3, 5}, kd : {0, 2, 5}]
MCErrors   == {-5, -1, 0, 1, 3}
MCMessages == [1..1 -> SUBSET (0..7)] \cup [1..2 -> {{}, {0}, {7}, {0, 3, 6}, 0..7}]
              \cup {<<{1, 5}, {}, {2, 7}>>}

(* What each module assumes of its constants.                              *)
ASSUME /\ Auths!ConfigAssumption /\ Patterns!ConfigAssumption
       /\ Loaded!ConfigAssumption /\ Settings!ConfigAssumption
       /\ CliAssumption /\ Binary!CliAssumption
       /\ Body!BodyAssumption /\ MemoryAssumption /\ Scroll!ScrollAssumption
       /\ NumbersAssumption /\ DailyAssumption

configVars ==
  <<phase, lines, depth, at, domains, auths, validators, modules, numbers, users, built>>
scrollVars ==
  <<length, state, last, window, timer, shown, over, stuck, cells, number, place, resets,
    drawn>>
koreVars  == <<configVars, cliVars, bodyVars, memoryVars>>
ownVars   == <<scrollVars, numbersVars, dailyVars>>
partsVars == <<koreVars, ownVars>>

Configs == {"auths", "patterns", "loaded", "settings"}
Kodevs  == {"shared", "binary"}

(* Where a part has several initial states, the others see one of them.    *)
PartsInit ==
  /\ part \in Configs \cup Kodevs
       \cup {"ma8", "body", "csv", "memory", "scroll", "dates", "records", "pid", "sums"}
  /\ TotalInit
  /\ IF part = "settings" THEN Settings!Init ELSE Loaded!Init
  /\ CliInit /\ (part \in Kodevs \/ app = "none")
  /\ Body!Init
  /\ \/ part = "body"
     \/ form = <<[kind |-> <<"F">>, data |-> <<>>]>> /\ disk /\ body = Body!Encoded(form)
  /\ MemoryInit
  /\ Scroll!Init /\ (part = "scroll" \/ length = <<8, 0>>)
  /\ NumbersInit /\ (part = "pid" \/ gain = [kp |-> 0, ki |-> 0, kd |-> 0])
  /\ Csv!Init
  /\ \/ part = "csv"
     \/ /\ given = <<<<[quoted |-> FALSE, value |-> <<>>]>>>> /\ text = Csv!File(given)
        /\ strict /\ null
  /\ Dates!Init
  /\ part = "dates" \/ (request.first = Date(2024, 2, 30) /\ missing = {} /\ live)
  /\ Calls!Init /\ (part = "records" \/ (daily = <<<<<<"a">>, <<"b">>>>>> /\ ended))

Is(a) == part = a /\ UNCHANGED part
Kore ==
  \/ /\ \/ Is("auths") /\ Auths!Next
        \/ Is("patterns") /\ Patterns!Next
        \/ Is("loaded") /\ Loaded!Next
        \/ Is("settings") /\ Settings!Next
     /\ UNCHANGED <<cliVars, bodyVars, memoryVars>>
  \/ /\ \/ Is("shared") /\ CliNext
        \/ Is("binary") /\ Binary!CliNext
     /\ UNCHANGED <<configVars, bodyVars, memoryVars>>
  \/ BodyNext /\ UNCHANGED <<configVars, cliVars, memoryVars>>
  \/ Is("memory") /\ MemoryNext /\ UNCHANGED <<configVars, cliVars, bodyVars>>
Own ==
  \/ Is("scroll") /\ Scroll!Next /\ UNCHANGED <<numbersVars, dailyVars>>
  \/ NumbersNext /\ UNCHANGED <<scrollVars, dailyVars>>
  \/ DailyNext /\ UNCHANGED <<scrollVars, numbersVars>>
PartsNext ==
  \/ Is("ma8") /\ TotalNext /\ UNCHANGED partsVars
  \/ Kore /\ UNCHANGED <<vars, ownVars>>
  \/ Own /\ UNCHANGED <<vars, koreVars>>

(* The fairness of LcdScroll and CdrDates, for the behaviours of theirs.   *)
ScrollFairness ==
  /\ WF_scrollVars(part = "scroll" /\ Scroll!Tick)
  /\ \A k \in 1..2 : WF_scrollVars(part = "scroll" /\ Scroll!Scroll(k))
DatesFairness == WF_datesVars(part = "dates" /\ Dates!Next)

PartsSpec ==
  PartsInit /\ [][PartsNext]_<<part, vars, partsVars>> /\ ScrollFairness /\ DatesFairness
-----------------------------------------------------------------------------
(* Configuration: a domain is found under its own name; an argument is     *)
(* checked where its params line says; a page crashes a worker in the      *)
(* known cases only; and after a reload no page handler or validator calls *)
(* into a module that was unloaded (kore_domain_new, http_argument_add,    *)
(* kore_auth_run, kore_module_reload).  The connect callback of a listener *)
(* is not promised: it is looked up once.                                  *)
ConfigurationHolds ==
  /\ part = "auths" => Auths!ConfigurationHolds
  /\ part = "patterns" => Patterns!ConfigurationHolds
  /\ part = "loaded" => Loaded!ConfigurationHolds
  /\ part = "settings" => Settings!ConfigurationHolds

(* Scrolling texts: every window of a text is shown, in order, if it is    *)
(* short enough for the unsigned char; and the loop over the days of a     *)
(* request ends, whatever its dates are (LCD_Scroll1, CreateCdrFromDates). *)
LoopsEnd == Scroll!ScrollsThrough /\ (part = "dates" => Dates!LoopEnds)
=============================================================================
