-------------------------------- MODULE Disk --------------------------------
(***************************************************************************)
(* Files as receiver.py and handlers.py write them, with Path.write_bytes  *)
(* and write_text (external): in place, by opening the file, which makes   *)
(* it or empties it, and writing to it from its beginning.  A reader, or   *)
(* the end of the process, may come between the two, and so may another    *)
(* thread that writes the same file.                                       *)
(*                                                                         *)
(* A file is known by the contents that there are bytes of in it: one when *)
(* it is whole; none when it was just emptied, or cut short by the end of  *)
(* its writer; several where two writers had it open and the later content *)
(* is the shorter one, so that the tail of the earlier one shows.          *)
(***************************************************************************)
File(C) == [there : BOOLEAN, bytes : SUBSET C]

NoFile  == [there |-> FALSE, bytes |-> {}]
Emptied == [there |-> TRUE, bytes |-> {}]

(* What writing c into the open file can make of it. *)
Written(file, c) ==
  {[there |-> TRUE, bytes |-> {c}], [there |-> TRUE, bytes |-> file.bytes \cup {c}]}

(* What a reader can make out: the one content of a whole file, or nothing. *)
Whole(file) == {c \in file.bytes : file.bytes = {c}}
=============================================================================
