---------------------------- MODULE MCFrameParser ----------------------------
(* Payloads are cut down to one byte and the buffer to six; the frames hold  *)
(* start and end bytes where ciphertext can put them, and two are not in the *)
(* table: a command and a length the code does not know.                     *)
EXTENDS FrameParser, TLC

MCKnown == <<"A">> :> 0 @@ <<"H", "X">> :> 1

MCFrames ==
  { <<"S", "A", "c", "E">>,
    <<"S", "H", "X", "E", "E", "E">>,
    <<"S", "H", "X", "S", "A", "E">>,
    <<"S", "H", "c", "E">>,
    <<"S", "H", "X", "c", "E">> }
=============================================================================
