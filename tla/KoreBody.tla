-------------------------------- MODULE KoreBody --------------------------------
(* The body of a request, in memory or in a file (http_body_disk_offload): *)
(* the multipart form in it, which http.c parses out of reads of any size, *)
(* then what the page reads of the files in the form and of the body       *)
(* itself.  A byte is a letter: "-" and "x" make the boundary, "r" and "n" *)
(* are CR and LF, "F" and "P" are the content-disposition headers of a     *)
(* field and of a file, "o" is another header.                             *)
EXTENDS Naturals, Sequences, SequencesExt

CONSTANTS
  Kinds,      \* of the parts of a form: headers, <<"F">>, <<"P">>, <<"o", "r", "n", "F">>
  Datas,      \* contents of the parts: without the boundary
  MaxParts,   \* bound: parts of a form
  Chunk,      \* the buffer of multipart_find_data, 4096
  MaxReads    \* bound: reads of the page

Letters  == {"-", "x", "r", "n", "F", "P", "o", "d"}
CRLF     == <<"r", "n">>
Boundary == <<"-", "x">>

(* The content-disposition headers of a part.                              *)
Headers(text) == SelectSeq(text, LAMBDA c : c \in {"F", "P"})

(* What a form in this format is: a part has one such header and no empty  *)
(* line among its headers, and the client chose a boundary that its data   *)
(* do not contain.                                                         *)
BodyAssumption ==
  /\ Kinds \cup Datas \subseteq Seq(Letters)
  /\ \A k \in Kinds :
       /\ Headers(k) \in {<<"F">>, <<"P">>}
       /\ \A j \in 1..Len(k) : SubSeq(k \o CRLF \o CRLF, j, j + 3) # CRLF \o CRLF
  /\ \A d \in Datas : \A j \in 1..(Len(d) - 1) : SubSeq(d, j, j + 1) # Boundary
  /\ MaxParts \in Nat /\ Chunk \in Nat \ {0} /\ MaxReads \in Nat

VARIABLES
  form,       \* the parts that the client sent
  body, disk, \* what came of them; it is in a file
  offset,     \* http_body_offset; http_body_length is the rest
  cursor,     \* where the next http_body_read reads: in the buffer or the file
  in, out, olen,       \* multipart_find_data
  pc, hdrs,            \* what is looked for; headers of the part to go
  position,            \* of the file that is being added
  args, files,         \* req->arguments, req->files
  failed,              \* a read of the file has failed
  spoilt,              \* a call since the last rewind has moved the cursor away
  got, reads           \* what the page has read last; how often

find == <<in, out, olen, pc, hdrs, position>>
vars == <<form, body, disk, offset, cursor, find, args, files, failed, spoilt, got, reads>>

Piece(z)   == CRLF \o z.kind \o CRLF \o CRLF \o z.data \o CRLF \o Boundary
Encoded(f) ==
  Boundary \o FlattenSeq([i \in DOMAIN f |-> Piece(f[i])]) \o <<"-", "-">> \o CRLF

Forms == UNION {[1..n -> [kind : Kinds, data : Datas]] : n \in 1..MaxParts}

(* The whole body, or one that the client has cut short.                   *)
Init ==
  /\ form \in Forms /\ disk \in BOOLEAN
  /\ \E n \in {Len(Encoded(form)), Len(Encoded(form)) - 6} : body = SubSeq(Encoded(form), 1, n)
  /\ offset = 0 /\ cursor = 0
  /\ in = <<>> /\ out = <<>> /\ olen = 0 /\ pc = "boundary" /\ hdrs = <<>> /\ position = 0
  /\ args = <<>> /\ files = <<>>
  /\ failed = FALSE /\ spoilt = FALSE /\ got = <<>> /\ reads = 0

Left     == Len(body) - offset
Sizes(n) == IF disk THEN 1..(IF n < Left THEN n ELSE Left) ELSE {IF n < Left THEN n ELSE Left}
Bytes(from, n) ==
  [i \in 1..n |-> IF from + i <= Len(body) THEN body[from + i] ELSE "past the end"]
-----------------------------------------------------------------------------
Needle == CASE pc = "crlf" -> CRLF [] pc = "headers" -> CRLF \o CRLF [] OTHER -> Boundary
Finding == pc \in {"boundary", "crlf", "headers", "field", "file"}

(* Where the first byte of the needle is in the buffer; what is passed over *)
(* when the needle is not there.                                           *)
FirstAt == SelectInSeq(in, LAMBDA c : c = Needle[1])
Fits    == FirstAt # 0 /\ Len(in) - FirstAt + 1 >= Len(Needle)
Matches == Fits /\ SubSeq(in, FirstAt, FirstAt + Len(Needle) - 1) = Needle

PassesAll == IF Fits THEN FirstAt ELSE Len(in)  \* mutant: and half a needle
Passes    == IF Fits THEN FirstAt ELSE IF FirstAt = 0 THEN Len(in) ELSE FirstAt - 1

ReadMore ==
  /\ Finding /\ Len(in) < Len(Needle) /\ Left > 0
  /\ \E n \in Sizes(Chunk) :
       /\ in' = in \o Bytes(cursor, n)
       /\ offset' = offset + n /\ cursor' = cursor + n
  /\ UNCHANGED <<form, body, disk, out, olen, pc, hdrs, position, args, files, failed, spoilt, got, reads>>

Pass ==
  /\ Finding /\ Len(in) >= Len(Needle) /\ ~Matches
  /\ out' = out \o SubSeq(in, 1, Passes)
  /\ olen' = olen + Passes
  /\ in' = SubSeq(in, Passes + 1, Len(in))
  /\ UNCHANGED <<form, body, disk, offset, cursor, pc, hdrs, position, args, files, failed, spoilt, got, reads>>

(* The headers of a part one after the other: each content-disposition     *)
(* takes the bytes up to the next boundary.                                *)
ToHeader(hs, left) ==
  /\ hdrs' = hs
  /\ pc' = IF hs = <<>> THEN "crlf" ELSE IF hs[1] = "F" THEN "field" ELSE "file"
  /\ position' = offset - left

(* The needle is there: `data' is what came before it.                     *)
Found ==
  /\ Finding /\ Len(in) >= Len(Needle) /\ Matches
  /\ LET data == out \o SubSeq(in, 1, FirstAt - 1)
         len  == olen + FirstAt - 1
         rest == SubSeq(in, FirstAt + Len(Needle), Len(in))
     IN /\ out' = <<>> /\ olen' = 0
        /\ \/ pc = "boundary" /\ pc' = "crlf" /\ UNCHANGED <<hdrs, position, args, files>>
           \/ /\ pc = "crlf"
              /\ pc' = IF Len(rest) < 4 /\ Left = 0 THEN "done" ELSE "headers"
              /\ UNCHANGED <<hdrs, position, args, files>>
           \/ /\ pc = "headers"
              /\ ToHeader(Headers(data), Len(rest))
              /\ UNCHANGED <<args, files>>
           \/ /\ pc = "field" /\ ToHeader(Tail(hdrs), Len(rest))
              /\ args' = IF Len(data) < 3 THEN args
                         ELSE Append(args, SubSeq(data, 1, Len(data) - 2))
              /\ UNCHANGED files
           \/ /\ pc = "file" /\ ToHeader(Tail(hdrs), Len(rest))
              /\ files' = IF len < 3 THEN files
                          ELSE Append(files, [position |-> position, length |-> len - 2, offset |-> 0])
              /\ UNCHANGED args
        /\ in' = IF pc' = "done" THEN <<>> ELSE rest
  /\ UNCHANGED <<form, body, disk, offset, cursor, failed, spoilt, got, reads>>

(* The body ends, or cannot be read.                                       *)
NotFound ==
  /\ Finding /\ Len(in) < Len(Needle)
  /\ \/ Left = 0 /\ UNCHANGED failed
     \/ disk /\ failed' = TRUE
  /\ IF pc \in {"field", "file"} THEN ToHeader(Tail(hdrs), Len(in))
     ELSE pc' = "done" /\ UNCHANGED <<hdrs, position>>
  /\ out' = <<>> /\ olen' = 0 /\ in' = IF pc' = "done" THEN <<>> ELSE in
  /\ UNCHANGED <<form, body, disk, offset, cursor, args, files, spoilt, got, reads>>
-----------------------------------------------------------------------------
PageReads == pc = "done" /\ ~failed /\ reads < MaxReads /\ reads' = reads + 1
Rest      == UNCHANGED <<form, body, disk, find, args, failed>>

NoSeek(f)  == IF disk THEN cursor ELSE f.position + f.offset  \* mutant
SeekOf(f)  == f.position + f.offset

(* http_file_read: of a body on disk it moves the place that               *)
(* http_body_read goes on from.                                            *)
FileRead(i, n) ==
  /\ PageReads
  /\ LET f == files[i]
         most == IF n < f.length - f.offset THEN n ELSE f.length - f.offset
     IN \E k \in (IF disk /\ most > 0 THEN 1..most ELSE {most}) :
          /\ got' = <<i, f.offset, Bytes(SeekOf(f), k)>>
          /\ files' = [files EXCEPT ![i].offset = @ + k]
          /\ IF disk /\ most > 0 THEN cursor' = SeekOf(f) + k /\ spoilt' = TRUE
             ELSE UNCHANGED <<cursor, spoilt>>
  /\ Rest /\ UNCHANGED offset
FileRewind(i) ==
  /\ PageReads /\ files' = [files EXCEPT ![i].offset = 0]
  /\ Rest /\ UNCHANGED <<offset, cursor, spoilt, got>>

BodyRead(n) ==
  /\ PageReads /\ Left > 0
  /\ \E k \in Sizes(n) :
       LET there == IF disk /\ cursor + k > Len(body) THEN 0 ELSE k   \* the file has ended
       IN /\ got' = <<0, offset, Bytes(cursor, there)>>
          /\ offset' = offset + there /\ cursor' = cursor + there
  /\ Rest /\ UNCHANGED <<files, spoilt>>

BodyRewind ==
  /\ PageReads /\ offset' = 0 /\ cursor' = 0 /\ spoilt' = FALSE /\ got' = <<>>
  /\ Rest /\ UNCHANGED files

(* http_populate_post: takes the whole of a body in memory and leaves its  *)
(* cursor at the end; reads on in a file.  This form has no arguments of   *)
(* its kind.                                                               *)
PopulatePost ==
  /\ PageReads
  /\ IF disk
     THEN LET k == IF cursor + Left <= Len(body) THEN Left
                   ELSE IF cursor <= Len(body) THEN Len(body) - cursor ELSE 0
          IN offset' = offset + k /\ cursor' = cursor + k /\ UNCHANGED spoilt
     ELSE cursor' = Len(body) /\ spoilt' = TRUE /\ UNCHANGED offset
  /\ Rest /\ UNCHANGED <<files, got>>

Next ==
  \/ ReadMore \/ Pass \/ Found \/ NotFound
  \/ \E i \in DOMAIN files : FileRewind(i) \/ \E n \in {1, 3} : FileRead(i, n)
  \/ \E n \in {1, 3} : BodyRead(n)
  \/ BodyRewind \/ PopulatePost

Spec == Init /\ [][Next]_vars
-----------------------------------------------------------------------------
Sent(h) ==
  FlattenSeq([i \in DOMAIN form |->
                IF Headers(form[i].kind) = <<h>> /\ form[i].data # <<>>
                THEN <<form[i].data>> ELSE <<>>])
Content(f) == Bytes(f.position, f.length)

(* The fields and files of a form arrive as they were sent, in the order   *)
(* they were sent, however the body is cut into reads and however the      *)
(* contents resemble the boundary; of a body that is cut short, those that *)
(* were complete (multipart_find_data, multipart_add_field,                *)
(* multipart_file_add).  After a read that fails, and another that does    *)
(* not, the parser goes on in the middle of a part.                        *)
PartsArrive ==
  LET fields == Sent("F")
      parts  == Sent("P")
      found  == [i \in DOMAIN files |-> Content(files[i])]
  IN ~failed =>
     /\ IsPrefix(args, fields) /\ IsPrefix(found, parts)
     /\ pc = "done" /\ body = Encoded(form) => args = fields /\ found = parts

(* A page reads of each file its own bytes and, after a rewind, of the     *)
(* body its own bytes from the first on, as long as it does not read files *)
(* on disk or populate its arguments in between (http_file_read,           *)
(* http_body_read, http_body_rewind).                                      *)
ReadsInOrder ==
  got # <<>> =>
    LET i == got[1]
        whole == IF i = 0 THEN body ELSE Content(files[i])
    IN (i = 0 => ~spoilt) =>
         got[3] = SubSeq(whole, got[2] + 1, got[2] + Len(got[3]))
=============================================================================
