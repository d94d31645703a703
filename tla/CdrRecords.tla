----------------------------- MODULE CdrRecords -----------------------------
(* From the rows of a daily file to the lines of lama.cal                  *)
(* (AsteriskCDRProcessFile of test_csv3/cdr_asterisk.c): cb1 puts the      *)
(* fields of a row into the struct cdr, cb2 writes a line if the call was  *)
(* answered, and clears it.  csv_parse calls them as CsvParser says.       *)
EXTENDS Naturals, Sequences, FiniteSets, SequencesExt

CONSTANTS
  Rows,      \* what a row can be: a sequence of fields, which are sequences
  MaxRows,   \* bound: the rows of a file
  Size,      \* CDR_FIELD_SIZE = 40
  Room       \* bytes of fecha and of hora in cb2: 20

Nul   == "0"
Blank == " "

(* cb2 copies what is before the first space of a date, and what is behind *)
(* it, with no regard to the room there is: the dates of the rows leave    *)
(* room for the NUL, as Asterisk's do.                                     *)
HasRoom(date) ==
  /\ Len(date) < Size
  /\ \A k \in DOMAIN date :
       (date[k] = Blank /\ \A j \in 1..(k - 1) : date[j] # Blank)
         => k - 1 < Room /\ Len(date) - k < Room

(* A field is a sequence of characters, without a NUL.                     *)
RecordsAssumption ==
  /\ Size \in Nat \ {0} /\ Room \in Nat \ {0} /\ MaxRows \in Nat
  /\ Rows \subseteq Seq(Seq(STRING \ {Nul}))
  /\ \A r \in Rows : Len(r) > 9 => HasRoom(r[10])

VARIABLES
  rows,      \* of the file
  ended,     \* the last row has its end of line
  row,       \* the row that is parsed
  campos_por_linea,
  cdr,       \* the bytes of the struct
  processed_lines,
  out,       \* lama.cal, without its first line
  pc         \* "parse", "fini" after the line that closes the file, "done"

vars == <<rows, ended, row, campos_por_linea, cdr, processed_lines, out, pc>>

(* The fields that are used, with their place in the row and in the struct.*)
Columns == [abonado |-> 1, destino |-> 2, fecha_hora |-> 9, segundos |-> 13, estado |-> 14]
Start   == [abonado |-> 0, destino |-> Size, fecha_hora |-> 2 * Size,
            segundos |-> 3 * Size, estado |-> 4 * Size]

Cleared == [i \in 1..(5 * Size) |-> Nul]
Files   == UNION {[1..n -> Rows] : n \in 1..MaxRows}

Init ==
  /\ rows \in Files /\ ended \in BOOLEAN
  /\ row = 1 /\ campos_por_linea = 0
  /\ cdr = Cleared /\ processed_lines = 0
  /\ out = <<>> /\ pc = "parse"
-----------------------------------------------------------------------------
(* strncpy of at most Size characters: none behind them, so a field of     *)
(* that length has no end of its own.                                      *)
Copied(name, value) ==
  LET n == IF Len(value) <= Size THEN Len(value) ELSE Size
      s == Start[name]
  IN [i \in DOMAIN cdr |-> IF i \in (s + 1)..(s + n) THEN value[i - s] ELSE cdr[i]]

(* What a string that begins at a field is, for who reads it.              *)
String(name) ==
  LET s == Start[name]
      n == CHOOSE n \in 0..(Len(cdr) - s) :
             /\ \A i \in 1..n : cdr[s + i] # Nul
             /\ s + n < Len(cdr) => cdr[s + n + 1] = Nul
  IN SubSeq(cdr, s + 1, s + n)

(* csv_parse gives every field but the last one of a row that has no end,  *)
(* and that row; csv_fini gives them.                                      *)
Fields   == rows[row]
IsOpen   == row = Len(rows) /\ ~ended
AllGiven == row > Len(rows) \/ (IsOpen /\ campos_por_linea = Len(Fields) - 1)
Giving   == IF pc = "fini" THEN row <= Len(rows) ELSE pc = "parse" /\ ~AllGiven

cb1 ==
  /\ Giving /\ campos_por_linea < Len(Fields)
  /\ campos_por_linea' = campos_por_linea + 1
  /\ cdr' = IF \E name \in DOMAIN Columns : Columns[name] = campos_por_linea
              THEN LET name == CHOOSE name \in DOMAIN Columns : Columns[name] = campos_por_linea
                   IN Copied(name, Fields[campos_por_linea + 1])
              ELSE cdr
  /\ UNCHANGED <<rows, ended, row, processed_lines, out, pc>>

(* estado begins with ANSWERED, of which "A" is the first character, and   *)
(* atoi(segundos) is at least one.                                         *)
Answered == Len(String("estado")) > 0 /\ Head(String("estado")) = "A"
Lasted   == Len(String("segundos")) > 0 /\ Head(String("segundos")) = "1"

(* fecha and hora keep what was on the stack when there is no space.       *)
Stack == {<<>>, <<"?">>}
Split ==
  LET t == String("fecha_hora") IN
  IF Contains(t, Blank)
    THEN LET k == CHOOSE k \in DOMAIN t : t[k] = Blank /\ \A j \in 1..(k - 1) : t[j] # Blank
         IN {<<SubSeq(t, 1, k - 1), SubSeq(t, k + 1, Len(t))>>}
    ELSE Stack \X Stack
Written(d) ==
  <<String("abonado"), String("destino"), d[1], d[2], String("segundos")>>

KeepsCdr   == cdr        \* mutant: no FlushCDR
FlushCDR   == Cleared
cb2 ==
  /\ Giving /\ campos_por_linea = Len(Fields)
  /\ IF Answered /\ Lasted
       THEN /\ \E d \in Split : out' = Append(out, Written(d))
            /\ processed_lines' = processed_lines + 1
       ELSE UNCHANGED <<out, processed_lines>>
  /\ cdr' = FlushCDR /\ campos_por_linea' = 0
  /\ row' = row + 1
  /\ UNCHANGED <<rows, ended, pc>>

(* ",FIN,%d" is written before csv_fini, which may give one row more.      *)
Fin(n) == <<<<"FIN">>, n>>
Close ==
  /\ pc = "parse" /\ AllGiven
  /\ out' = Append(out, Fin(processed_lines))
  /\ pc' = "fini"
  /\ UNCHANGED <<rows, ended, row, campos_por_linea, cdr, processed_lines>>

Done ==
  /\ pc = "fini" /\ row > Len(rows)
  /\ pc' = "done"
  /\ UNCHANGED <<rows, ended, row, campos_por_linea, cdr, processed_lines, out>>

Next == cb1 \/ cb2 \/ Close \/ Done

Spec == Init /\ [][Next]_vars
-----------------------------------------------------------------------------
Field(r, name) == IF Columns[name] < Len(r) THEN r[Columns[name] + 1] ELSE <<>>
Begins(s, c)   == s # <<>> /\ Head(s) = c
Billable(r)    == Begins(Field(r, "estado"), "A") /\ Begins(Field(r, "segundos"), "1")
ToBeSplit(r)   == Contains(Field(r, "fecha_hora"), Blank) /\ HasRoom(Field(r, "fecha_hora"))

(* The answered calls in the first rows of the file.                       *)
Billed[n \in 0..Len(rows)] ==
  IF n = 0 THEN <<>>
  ELSE IF Billable(rows[n]) THEN Append(Billed[n - 1], rows[n]) ELSE Billed[n - 1]

LineIsRight(l, r) ==
  /\ Len(Field(r, "abonado")) < Size => l[1] = Field(r, "abonado")
  /\ Len(Field(r, "destino")) < Size => l[2] = Field(r, "destino")
  /\ ToBeSplit(r) => l[3] \o <<Blank>> \o l[4] = Field(r, "fecha_hora")

AreRight(lines, calls) ==
  Len(lines) = Len(calls) /\ \A i \in DOMAIN lines : LineIsRight(lines[i], calls[i])

Closes(k) ==
  /\ out[k] = Fin(k - 1)
  /\ k = Len(out) \/ (k = Len(out) - 1 /\ ~ended /\ Billable(Last(rows)))

(* Every answered call, and no other, has its line, with nothing in it of  *)
(* the rows before; a number that does not fill its field is the caller's, *)
(* and the date is the call's if it has a space and leaves room for a NUL  *)
(* in fecha and hora (cdr_asterisk.c:242-243, 266-274).  The closing line  *)
(* counts the lines before it: it is the last one unless the file has no   *)
(* end of line after its last row, which is then behind it, not counted    *)
(* (cb1, cb2, AsteriskCDRProcessFile).                                     *)
LinesAreRight ==
  pc = "done" =>
    \E k \in DOMAIN out : Closes(k) /\ AreRight(RemoveAt(out, k), Billed[Len(rows)])
=============================================================================
