---------------------------- MODULE RequestBodies -----------------------------
(* The bodies of requests (KoreBody), beside other parts that run in one   *)
(* thread.                                                                 *)
EXTENDS Parts, Naturals, Sequences

CONSTANTS Kinds, Datas, MaxParts, Chunk, MaxReads   \* of KoreBody

VARIABLES
  form, body, disk, offset, cursor, in, found, olen, looks, hdrs, position, args, files,
  failed, spoilt, reply, reads

Body == INSTANCE KoreBody WITH out <- found, pc <- looks, got <- reply

bodyVars ==
  <<form, body, disk, offset, cursor, in, found, olen, looks, hdrs, position, args, files,
    failed, spoilt, reply, reads>>

BodyNext == part = "body" /\ Body!Next /\ UNCHANGED part
BodySpec == Body!Init /\ [][BodyNext]_<<part, bodyVars>>
-----------------------------------------------------------------------------
(* Bodies: the parts of a form arrive as they were sent, and a page reads  *)
(* the bytes of a file and of the body in order (multipart_find_data,      *)
(* http_body_read, http_file_read).                                        *)
BodyArrives == part = "body" => Body!PartsArrive /\ Body!ReadsInOrder
=============================================================================
