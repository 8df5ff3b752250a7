------------------------------- MODULE Device -------------------------------
(***************************************************************************)
(* The device between the emulator (src/temp_emulator/emulator.c) and the  *)
(* temperature logger, as its reader sees it.  A message is text closed by *)
(* DELIM.  The reader takes at most MSG_LEN bytes at once, so that what    *)
(* matters of a message is where it is cut:                                *)
(*                                                                         *)
(*   "whole"         exactly MSG_LEN bytes, as both sides agree on         *)
(*   "noise"         the same, but not the text of a number                *)
(*   "head", "tail"  the first MSG_LEN bytes of a longer message, without  *)
(*                   DELIM, and the rest of it                             *)
(*   "short"         a shorter message                                     *)
(***************************************************************************)
EXTENDS Naturals, Sequences

CONSTANT Messages  \* the messages that occur

ASSUME DeviceAssumption == Messages \subseteq {"whole", "noise", "long", "short"}

VARIABLES
  stream,   \* the pieces not yet read
  sending   \* is the emulator there?

deviceVars == <<stream, sending>>

Piece == {"whole", "noise", "head", "tail", "short"}

DeviceTypeOK == stream \in Seq(Piece) /\ sending \in BOOLEAN

DeviceInit == stream = <<>> /\ sending = TRUE

\* MSG_LEN - flen(temp) - 2 digits follow the point: that is MSG_LEN bytes, one
\* more for a minus sign or where rounding adds a digit.  Other devices send
\* other things.
Pieces(message) == IF message = "long" THEN <<"head", "tail">> ELSE <<message>>

\* fprintf and fflush: one write.  What comes while there is something left to
\* read might as well come later.
Send ==
  /\ sending /\ stream = <<>>
  /\ \E message \in Messages : stream' = Pieces(message)
  /\ UNCHANGED sending

\* Ctrl-C: is_working, and the device is closed.
Close ==
  /\ sending /\ stream = <<>>
  /\ sending' = FALSE
  /\ UNCHANGED stream

Open ==
  /\ ~sending
  /\ sending' = TRUE
  /\ UNCHANGED stream

-----------------------------------------------------------------------------
(* The reading end.                                                         *)

Delimited(piece) == piece # "head"

\* A read that stops inside a piece leaves the end of it.
Rest(piece) == IF Delimited(piece) THEN "tail" ELSE "head"

Take == stream # <<>> /\ stream' = Tail(stream) /\ UNCHANGED sending

AtEnd == stream = <<>> /\ ~sending
=============================================================================
