------------------------------- MODULE CsvParser -------------------------------
(* The CSV parser that the servers of daily files read them with           *)
(* (libcsv.c of test_csv3, the same in LAMA, test_csv and test_csv2): a    *)
(* file is written field by field, with csv_fwrite2 or as it is, and       *)
(* parsed in calls of csv_parse that end anywhere.                         *)
(* A character is "quote", "comma" (the delimiter), "lf" (CR or LF),       *)
(* "space" or another letter.                                              *)
EXTENDS Naturals, Sequences, SequencesExt

CONSTANTS
  Fields,       \* of the files: [quoted : BOOLEAN, value : a sequence]
  MaxFields,    \* bound: the fields of a file
  BlkSize,      \* blk_size, MEM_BLK_SIZE = 128
  MaxFailures   \* bound: calls that end because there is no memory

(* What is written without quotes has no delimiter and no line end in it,  *)
(* and does not begin with a quote: it would be read as something else.    *)
Plain(v) ==
  /\ \A i \in DOMAIN v : v[i] \notin {"comma", "lf"}
  /\ \A i \in DOMAIN v : v[i] = "quote" => \E k \in 1..(i - 1) : v[k] # "space"
FieldAssumption(f) == f.value \in Seq(STRING) /\ (f.quoted \/ Plain(f.value))
CsvAssumption ==
  /\ BlkSize \in Nat \ {0} /\ MaxFields \in Nat
  /\ \A f \in Fields : FieldAssumption(f)

VARIABLES
  rows, text,   \* what was written, and how
  strict, null, \* the options CSV_STRICT and CSV_APPEND_NULL
  next, upto,   \* the next character; where this call of csv_parse ends
  p, l,         \* pstate, quoted, spaces and entry_pos: of the parser, and the
                \* local variables of the call
  buf, size,    \* entry_buf and entry_size
  row, got,     \* the fields of the row that was begun; the rows before it
  status, failures

file   == <<rows, text, strict, null>>
output == <<row, got>>
vars   == <<file, next, upto, p, l, buf, size, output, status, failures>>

(* csv_fwrite2: in quotes, and each quote in it twice.                     *)
Doubled(v) == FlattenSeq([i \in DOMAIN v |-> IF v[i] = "quote" THEN <<"quote", "quote">> ELSE <<v[i]>>])
Written(f) == IF f.quoted THEN <<"quote">> \o Doubled(f.value) \o <<"quote">> ELSE f.value
Line(r)    ==
  FlattenSeq([k \in DOMAIN r |-> Written(r[k]) \o <<IF k = Len(r) THEN "lf" ELSE "comma">>])
File(rs)   == FlattenSeq([i \in DOMAIN rs |-> Line(rs[i])])

Lists(S, n) == UNION {[1..i -> S] : i \in 1..n}
Files == {rs \in Lists(Lists(Fields, MaxFields), MaxFields) : Len(FlattenSeq(rs)) <= MaxFields}
Fresh(state) == [pstate |-> state, quoted |-> FALSE, spaces |-> 0, pos |-> 0]

(* csv_init.  The last line may have no end.                               *)
Init ==
  /\ rows \in Files /\ strict \in BOOLEAN /\ null \in BOOLEAN
  /\ text \in {File(rows), Front(File(rows))}
  /\ next = 1 /\ upto = 0
  /\ p = Fresh("ROW_NOT_BEGUN") /\ l = p
  /\ buf = <<>> /\ size = 0 /\ row = <<>> /\ got = <<>>
  /\ status = "CSV_SUCCESS" /\ failures = 0

InCall == upto # 0
Full   == l.pos = (IF null THEN size - 1 ELSE size)

(* csv_increase_buffer: by blk_size or, when that fails, by a half, a      *)
(* quarter, ... of it.                                                     *)
Increases == {k \in 1..BlkSize : \E n \in 0..BlkSize : k = BlkSize \div 2^n}
IncreaseBuffer(grown) ==
  \/ /\ \E k \in Increases : size' = grown + k
     /\ UNCHANGED <<l, p, upto, status, failures>>
  \/ /\ failures < MaxFailures /\ failures' = failures + 1
     /\ p' = l /\ upto' = 0 /\ status' = "CSV_ENOMEM"
     /\ UNCHANGED <<l, size>>

Call ==
  /\ ~InCall /\ next <= Len(text) /\ status # "CSV_EPARSE"
  /\ upto' \in next..Len(text)
  /\ l' = p
  /\ UNCHANGED <<file, next, p, buf, size, output, status, failures>>
Grow ==
  /\ InCall /\ (size = 0 \/ (Full /\ next <= upto))
  /\ IncreaseBuffer(size)
  /\ UNCHANGED <<file, next, buf, output>>

LosesQuoted == [l EXCEPT !.quoted = p.quoted]   \* mutant: not saved
Saved       == l
Return ==
  /\ InCall /\ size > 0 /\ next > upto
  /\ p' = Saved /\ upto' = 0
  /\ UNCHANGED <<file, next, l, buf, size, output, status, failures>>
-----------------------------------------------------------------------------
Char    == text[next]
IsSpace == Char = "space"
IsTerm  == Char = "lf"
IsLetter == Char \notin {"quote", "comma", "lf", "space"}

Skip       == UNCHANGED <<l, buf, output>>
Becomes(s) == l' = s /\ UNCHANGED <<buf, output>>
(* SUBMIT_CHAR, and the state and the spaces after it.                     *)
Keep(state, spaces) ==
  /\ buf' = Append(SubSeq(buf, 1, l.pos), Char)
  /\ l' = [l EXCEPT !.pos = @ + 1, !.pstate = state, !.spaces = spaces]
  /\ UNCHANGED output
(* SUBMIT_FIELD of the first n characters, and SUBMIT_ROW.                 *)
Field(s, n) == SubSeq(buf, 1, n - (IF s.quoted THEN 0 ELSE s.spaces))
SubmitField(n) ==
  /\ row' = Append(row, Field(l, n)) /\ l' = Fresh("FIELD_NOT_BEGUN")
  /\ UNCHANGED <<buf, got>>
SubmitRow(s, n) ==
  /\ got' = Append(got, Append(row, Field(s, n))) /\ row' = <<>>
  /\ l' = Fresh("ROW_NOT_BEGUN") /\ UNCHANGED buf

NotBegun ==
  /\ l.pstate \in {"ROW_NOT_BEGUN", "FIELD_NOT_BEGUN"}
  /\ \/ IsSpace /\ Skip
     \/ IsTerm /\ l.pstate = "FIELD_NOT_BEGUN" /\ SubmitRow(l, l.pos)
     \/ IsTerm /\ l.pstate = "ROW_NOT_BEGUN" /\ Skip
     \/ Char = "comma" /\ SubmitField(l.pos)
     \/ Char = "quote" /\ Becomes([l EXCEPT !.pstate = "FIELD_BEGUN", !.quoted = TRUE])
     \/ IsLetter /\ Keep("FIELD_BEGUN", l.spaces)

Begun ==
  /\ l.pstate = "FIELD_BEGUN"
  /\ \/ Char = "quote" /\ l.quoted /\ Keep("FIELD_MIGHT_HAVE_ENDED", l.spaces)
     \/ Char = "quote" /\ ~l.quoted /\ Keep("FIELD_BEGUN", 0)
     \/ Char = "comma" /\ l.quoted /\ Keep("FIELD_BEGUN", l.spaces)
     \/ Char = "comma" /\ ~l.quoted /\ SubmitField(l.pos)
     \/ IsTerm /\ l.quoted /\ Keep("FIELD_BEGUN", l.spaces)
     \/ IsTerm /\ ~l.quoted /\ SubmitRow(l, l.pos)
     \/ IsSpace /\ ~l.quoted /\ Keep("FIELD_BEGUN", l.spaces + 1)
     \/ IsSpace /\ l.quoted /\ Keep("FIELD_BEGUN", 0)
     \/ IsLetter /\ Keep("FIELD_BEGUN", 0)

MightHaveEnded ==
  /\ l.pstate = "FIELD_MIGHT_HAVE_ENDED"
  /\ \/ Char = "comma" /\ SubmitField(l.pos - l.spaces - 1)
     \/ IsTerm /\ SubmitRow(l, l.pos - l.spaces - 1)
     \/ IsSpace /\ Keep("FIELD_MIGHT_HAVE_ENDED", l.spaces + 1)
     \/ Char = "quote" /\ l.spaces = 0 /\ Becomes([l EXCEPT !.pstate = "FIELD_BEGUN"])
     \/ Char = "quote" /\ l.spaces > 0 /\ Keep("FIELD_MIGHT_HAVE_ENDED", 0)
     \/ IsLetter /\ Keep("FIELD_BEGUN", 0)

(* A quote where a strict parser wants none ends the call.                 *)
Unescaped ==
  \/ l.pstate = "FIELD_BEGUN" /\ Char = "quote" /\ ~l.quoted
  \/ l.pstate = "FIELD_MIGHT_HAVE_ENDED" /\ Char = "quote" /\ l.spaces > 0
  \/ l.pstate = "FIELD_MIGHT_HAVE_ENDED" /\ IsLetter

Parse ==
  /\ InCall /\ size > 0 /\ next <= upto /\ ~Full
  /\ IF strict /\ Unescaped
     THEN p' = l /\ upto' = 0 /\ status' = "CSV_EPARSE" /\ UNCHANGED <<next, l, buf, output>>
     ELSE /\ next' = next + 1
          /\ NotBegun \/ Begun \/ MightHaveEnded
          /\ UNCHANGED <<p, upto, status>>
  /\ UNCHANGED <<file, size, failures>>

(* csv_fini, once the file has ended.                                      *)
Fini ==
  /\ ~InCall /\ next = Len(text) + 1
  /\ p.pstate # "ROW_NOT_BEGUN"
  /\ SubmitRow(p, IF p.pstate = "FIELD_MIGHT_HAVE_ENDED" THEN p.pos - p.spaces - 1 ELSE p.pos)
  /\ p' = l' /\ status' = "CSV_SUCCESS"
  /\ UNCHANGED <<file, next, upto, size, failures>>

Next == Call \/ Grow \/ Return \/ Parse \/ Fini

Spec == Init /\ [][Next]_vars
-----------------------------------------------------------------------------
Trim(v)    == LET letters == {i \in DOMAIN v : v[i] # "space"}
              IN IF letters = {} THEN <<>> ELSE SubSeq(v, Min(letters), Max(letters))
Values(r)  == [i \in DOMAIN r |-> IF r[i].quoted THEN r[i].value ELSE Trim(r[i].value)]
IsBlank(r) == Len(r) = 1 /\ ~r[1].quoted /\ Values(r) = <<<<>>>>
Shown      == LET shown[i \in 0..Len(rows)] ==    \* of the first i rows
                    IF i = 0 THEN <<>>
                    ELSE IF ~IsBlank(rows[i]) THEN Append(shown[i - 1], Values(rows[i]))
                    ELSE shown[i - 1]
              IN shown
Expected   == Shown[Len(rows)]

(* The rows that were written are the rows that are read, with their       *)
(* fields, quotes and line ends in them, those without quotes trimmed, and *)
(* without the blank lines; wherever the calls of csv_parse end, for lack  *)
(* of memory too when the caller goes on from the character it returned.   *)
(* A strict parser refuses only a quote in a field without quotes; and no  *)
(* character, or the NUL after the field, falls beyond the buffer          *)
(* (csv_parse, csv_fini, csv_increase_buffer).                             *)
RowsArrive ==
  /\ IsPrefix(got, Expected)
  /\ next = Len(text) + 1 /\ ~InCall /\ p.pstate = "ROW_NOT_BEGUN" => got = Expected
  /\ status = "CSV_EPARSE" =>
       strict /\ \E f \in ToSet(FlattenSeq(rows)) : ~f.quoted /\ "quote" \in ToSet(f.value)
  /\ size > 0 => l.pos + (IF null THEN 1 ELSE 0) <= size
=============================================================================
