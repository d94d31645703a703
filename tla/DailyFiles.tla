------------------------------- MODULE DailyFiles -------------------------------
(* What a child of the CDR server does with the daily files, a behaviour   *)
(* of each: the rows of a file are parsed (CsvParser), the days of a       *)
(* request are gone through (CdrDates), and the fields and rows of a file  *)
(* become lines of lama.cal (CdrRecords).                                  *)
EXTENDS Parts, Integers, Sequences

CONSTANTS
  CsvFields, MaxFields, BlkSize, MaxFailures,   \* of CsvParser
  Requests, Lost,                               \* of CdrDates
  CallRows, MaxRows, Size, Room                 \* of CdrRecords

VARIABLES
  given, text, strict, null, next, upto, pstate, lstate, buf, size, row, parsed,
  status, failures,
  request, missing, live, dayStep, first, gotOne, merged, returned,
  daily, ended, call, campos, cdr, processed, billing, lamaStep

Csv   == INSTANCE CsvParser
  WITH Fields <- CsvFields, rows <- given, p <- pstate, l <- lstate, got <- parsed
Dates == INSTANCE CdrDates
  WITH pc <- dayStep, work <- merged, found <- gotOne, answer <- returned
Calls == INSTANCE CdrRecords
  WITH Rows <- CallRows, rows <- daily, row <- call, campos_por_linea <- campos,
       processed_lines <- processed, out <- billing, pc <- lamaStep

DailyAssumption ==
  Csv!CsvAssumption /\ Dates!DatesAssumption /\ Calls!RecordsAssumption

csvVars ==
  <<given, text, strict, null, next, upto, pstate, lstate, buf, size, row, parsed, status,
    failures>>
datesVars   == <<request, missing, live, dayStep, first, gotOne, merged, returned>>
recordsVars == <<daily, ended, call, campos, cdr, processed, billing, lamaStep>>
dailyVars   == <<csvVars, datesVars, recordsVars>>

DailyInit == Csv!Init /\ Dates!Init /\ Calls!Init
DailyNext ==
  /\ UNCHANGED part
  /\ \/ part = "csv" /\ Csv!Next /\ UNCHANGED <<datesVars, recordsVars>>
     \/ part = "dates" /\ Dates!Next /\ UNCHANGED <<csvVars, recordsVars>>
     \/ part = "records" /\ Calls!Next /\ UNCHANGED <<csvVars, datesVars>>

DailySpec == DailyInit /\ [][DailyNext]_<<part, dailyVars>>
-----------------------------------------------------------------------------
(* Daily files: the days of a request are read in order, whatever dates    *)
(* they are; the rows of a CSV file are read however the calls of          *)
(* csv_parse are cut; and each answered call has its line in lama.cal      *)
(* (CreateCdrFromDates, libcsv.c, AsteriskCDRProcessFile).                 *)
RecordsArrive ==
  /\ part = "csv" => Csv!RowsArrive
  /\ part = "dates" => Dates!DaysArrive
  /\ part = "records" => Calls!LinesAreRight
=============================================================================
