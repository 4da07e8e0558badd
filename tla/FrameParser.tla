----------------------------- MODULE FrameParser -----------------------------
(* The receive path: the machine's frames pass byte by byte through the      *)
(* buffer of EugsterProtocol.  Ciphertext may hold the start and the end     *)
(* byte, notifications get lost, time passes between any two bytes, and the  *)
(* link may go in the middle of a frame.  A checksum accepts every frame     *)
(* that was sent, and may by chance accept any other run of bytes of the     *)
(* right shape.                                                              *)
EXTENDS Naturals, Sequences

CONSTANTS
  Bytes,      \* the values of a byte that matter
  START, END, \* the bytes S and E
  Known,      \* KNOWN_COMMANDS: command letters -> length of the payload
  Frames,     \* byte sequences the machine sends
  MaxBuffer,  \* 128 in the code
  MaxQueue    \* bound: frames the machine has under way

(* The shape of a frame of command c: S, c, payload, checksum, E.            *)
Expected(c) == Len(c) + Known[c] + 3

HasCommand(buf, c) ==
  /\ Len(buf) > Len(c)
  /\ \A i \in 1..Len(c) : buf[i + 1] = c[i]

(* The commands of the table: no one begins another, all fit the buffer.     *)
ASSUME KnownAssumption ==
  /\ MaxBuffer \in Nat \ {0} /\ START # END
  /\ \A c \in DOMAIN Known : Len(c) \in {1, 2} /\ Known[c] \in Nat /\ Expected(c) <= MaxBuffer
  /\ \A c, d \in DOMAIN Known, f \in Frames : HasCommand(f, c) /\ HasCommand(f, d) => c = d

ASSUME FramesAssumption ==
  /\ Frames \subseteq Seq(Bytes) /\ DOMAIN Known \subseteq Seq(Bytes) /\ {START, END} \subseteq Bytes
  /\ \A f \in Frames : Len(f) >= 4 /\ f[1] = START /\ f[Len(f)] = END

VARIABLES
  queue,   \* frames sent and not yet taken in; the head is being received
  taken,   \* bytes of the head that arrived or were lost
  buffer,  \* _recv_buffer
  stale,   \* more than a second has passed since _frame_start_time
  out,     \* frames dispatched since the head's first byte
  clean    \* ghost: the head met an empty or stale buffer and was not disturbed

vars == <<queue, taken, buffer, stale, out, clean>>

Init ==
  /\ queue = <<>> /\ taken = 0 /\ buffer = <<>> /\ stale = FALSE
  /\ out = <<>> /\ clean = FALSE

-----------------------------------------------------------------------------
(* Only a buffer of its command's length closes a frame.                     *)
Matched(buf) == \E c \in DOMAIN Known : HasCommand(buf, c) /\ Len(buf) = Expected(c)

Before == IF taken = 0 THEN <<>> ELSE out

(* Mutant: the byte that finds a stale buffer is dropped with it.            *)
StartsLater(b) ==
  /\ buffer = <<>> \/ stale
  /\ buffer' = IF b = START /\ buffer = <<>> THEN <<b>> ELSE <<>>
  /\ stale' = FALSE
  /\ out' = Before

(* _process_byte outside a frame, or more than a second into one.            *)
Starts(b) ==
  /\ buffer = <<>> \/ stale
  /\ buffer' = IF b = START THEN <<b>> ELSE <<>>
  /\ stale' = FALSE
  /\ out' = Before

(* Mutant: one byte too many.                                                *)
FullLate == Len(buffer) > MaxBuffer

Full == Len(buffer) >= MaxBuffer

(* A full buffer goes, and the byte that met it.                             *)
Overflows ==
  /\ buffer # <<>> /\ ~stale /\ Full
  /\ buffer' = <<>>
  /\ out' = Before
  /\ UNCHANGED stale

(* Mutant: any end byte closes a frame.                                      *)
ClosesAny(b) == b = END /\ Len(buffer) >= 3

Closes(b) == b = END /\ Len(buffer) >= 3 /\ Matched(Append(buffer, b))

Collects(b) ==
  /\ buffer # <<>> /\ ~stale /\ ~Full /\ ~Closes(b)
  /\ buffer' = Append(buffer, b)
  /\ out' = Before
  /\ UNCHANGED stale

(* _try_parse_frame empties the buffer whatever the checksum says.           *)
Completes(b) ==
  LET frame == Append(buffer, b) IN
    /\ buffer # <<>> /\ ~stale /\ ~Full /\ Closes(b)
    /\ buffer' = <<>>
    /\ \/ out' = Append(Before, frame)
       \/ frame \notin Frames /\ out' = Before
    /\ UNCHANGED stale

IsLast == taken + 1 = Len(Head(queue))
Undisturbed == IF taken = 0 THEN buffer = <<>> \/ stale ELSE clean

(* The head moves on by one byte.                                            *)
HeadMoves(undisturbed) ==
  IF IsLast
    THEN queue' = Tail(queue) /\ taken' = 0 /\ clean' = FALSE
    ELSE taken' = taken + 1 /\ clean' = undisturbed /\ UNCHANGED queue

-----------------------------------------------------------------------------
Send(f) ==
  /\ Len(queue) < MaxQueue
  /\ queue' = Append(queue, f)
  /\ UNCHANGED <<taken, buffer, stale, out, clean>>

(* on_ble_data: the next byte of a notification.                             *)
Receive ==
  /\ queue # <<>>
  /\ LET b == Head(queue)[taken + 1] IN
       Starts(b) \/ Overflows \/ Collects(b) \/ Completes(b)
  /\ HeadMoves(Undisturbed)

Lose ==
  /\ queue # <<>>
  /\ out' = Before
  /\ HeadMoves(FALSE)
  /\ UNCHANGED <<buffer, stale>>

(* A second passes; nothing runs until the next byte.                        *)
SecondPasses ==
  /\ buffer # <<>> /\ ~stale
  /\ stale' = TRUE
  /\ clean' = FALSE
  /\ UNCHANGED <<queue, taken, buffer, out>>

(* The link goes with all that is under way, and the next one is received by *)
(* a new protocol object.                                                    *)
LinkLost ==
  /\ queue # <<>> \/ buffer # <<>>
  /\ queue' = <<>> /\ taken' = 0 /\ clean' = FALSE
  /\ buffer' = <<>> /\ stale' = FALSE
  /\ UNCHANGED out

Next ==
  \/ \E f \in Frames : Send(f)
  \/ Receive
  \/ Lose
  \/ SecondPasses
  \/ LinkLost

Spec == Init /\ [][Next]_vars

-----------------------------------------------------------------------------
(* The buffer is a start byte and what came after it, within its limit, and  *)
(* never holds a whole frame back.                                           *)
BufferBounded ==
  /\ Len(buffer) <= MaxBuffer
  /\ buffer # <<>> => buffer[1] = START
  /\ ~(Len(buffer) >= 4 /\ buffer[Len(buffer)] = END /\ Matched(buffer))

(* While a frame of the table arrives undisturbed the buffer holds exactly   *)
(* what has come of it and nothing has been dispatched, whatever start and   *)
(* end bytes its ciphertext holds and whatever was left there before.        *)
InStep ==
  clean /\ Matched(Head(queue)) =>
    buffer = SubSeq(Head(queue), 1, taken) /\ ~stale /\ out = <<>>

(* A frame of the table that begins in an empty buffer, or a second after    *)
(* the buffer's first byte, and then arrives whole within a second, is       *)
(* dispatched once and alone: no loss, reconnect or unknown frame before it  *)
(* costs more than that second, and a reconnect costs none of it.            *)
DeliveredWhole ==
  [][Receive /\ IsLast /\ Undisturbed /\ Matched(Head(queue))
       => out' = <<Head(queue)>>]_vars
=============================================================================
