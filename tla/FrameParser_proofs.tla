------------------------- MODULE FrameParser_proofs -------------------------
(* Proofs about FrameParser, for any table of commands, any frames and any   *)
(* size of the buffer that holds them.  The core is that no proper prefix of *)
(* a frame of the table has the shape of a frame (PrefixIsNoFrame): the      *)
(* commands are prefix-free and fix the length, so an end byte inside the    *)
(* ciphertext does not close a frame, and the one that ends it does.         *)
EXTENDS FrameParser, SequenceTheorems, TLAPS

(* The types, and where in the stream the parser is.                         *)
Types ==
  /\ queue \in Seq(Frames)
  /\ taken \in Nat
  /\ queue = <<>> => taken = 0
  /\ queue # <<>> => taken < Len(Head(queue))
  /\ buffer \in Seq(Bytes)
  /\ stale \in BOOLEAN /\ clean \in BOOLEAN
  /\ clean => queue # <<>> /\ taken > 0

(* The inductive invariant.                                                  *)
IInv == Types /\ BufferBounded /\ InStep

-----------------------------------------------------------------------------
(* What the assumptions say of one frame.                                    *)
LEMMA FrameFacts ==
  ASSUME NEW f \in Frames
  PROVE  /\ f \in Seq(Bytes) /\ Len(f) \in Nat /\ Len(f) >= 4
         /\ f[1] = START /\ f[Len(f)] = END
BY FramesAssumption, LenProperties

(* The next byte of a frame and the bytes before it.                         *)
LEMMA PrefixGrows ==
  ASSUME NEW f \in Seq(Bytes), NEW n \in Nat, n < Len(f)
  PROVE  /\ SubSeq(f, 1, n) \in Seq(Bytes) /\ Len(SubSeq(f, 1, n)) = n
         /\ f[n + 1] \in Bytes
         /\ Append(SubSeq(f, 1, n), f[n + 1]) = SubSeq(f, 1, n + 1)
         /\ \A i \in 1..n : SubSeq(f, 1, n)[i] = f[i]
<1>1. Len(f) \in Nat /\ \A i \in 1..Len(f) : f[i] \in Bytes
  BY LenProperties, ElementOfSeq
<1> DEFINE p == SubSeq(f, 1, n)
           q == SubSeq(f, 1, n + 1)
<1>2. p \in Seq(Bytes) /\ Len(p) = n /\ \A i \in 1..n : p[i] = f[i]
  BY <1>1, SubSeqProperties
<1>3. q \in Seq(Bytes) /\ Len(q) = n + 1 /\ \A i \in 1..(n + 1) : q[i] = f[i]
  BY <1>1, SubSeqProperties
<1>4. f[n + 1] \in Bytes
  BY <1>1
<1> HIDE DEF p, q
<1>5. /\ Append(p, f[n + 1]) \in Seq(Bytes) /\ Len(Append(p, f[n + 1])) = n + 1
      /\ \A i \in 1..n : Append(p, f[n + 1])[i] = p[i]
      /\ Append(p, f[n + 1])[n + 1] = f[n + 1]
  BY <1>2, <1>4, AppendProperties
<1>6. \A i \in 1..(n + 1) : Append(p, f[n + 1])[i] = q[i]
  <2> SUFFICES ASSUME NEW i \in 1..(n + 1) PROVE Append(p, f[n + 1])[i] = q[i]
    OBVIOUS
  <2>1. CASE i \in 1..n
    BY <1>2, <1>3, <1>5, <2>1
  <2>2. CASE i = n + 1
    BY <1>3, <1>5, <2>2
  <2>3. i \in 1..n \/ i = n + 1
    OBVIOUS
  <2> QED
    BY <2>1, <2>2, <2>3
<1>7. Append(p, f[n + 1]) = q
  BY <1>3, <1>5, <1>6, SeqEqual
<1> QED
  BY <1>2, <1>4, <1>7 DEF p, q

(* A frame of the table fits the buffer, and no proper prefix of it has the  *)
(* shape of a frame.                                                         *)
LEMMA PrefixIsNoFrame ==
  ASSUME NEW f \in Frames, Matched(f),
         NEW n \in Nat, n < Len(f)
  PROVE  Len(f) <= MaxBuffer /\ ~Matched(SubSeq(f, 1, n))
<1>1. PICK c \in DOMAIN Known : HasCommand(f, c) /\ Len(f) = Expected(c)
  BY DEF Matched
<1>2. Len(f) <= MaxBuffer
  BY <1>1, KnownAssumption
<1>3. f \in Seq(Bytes)
  BY FrameFacts
<1>4. Len(SubSeq(f, 1, n)) = n /\ \A i \in 1..n : SubSeq(f, 1, n)[i] = f[i]
  BY <1>3, PrefixGrows
<1>5. ASSUME NEW d \in DOMAIN Known, HasCommand(SubSeq(f, 1, n), d), n = Expected(d) PROVE FALSE
  <2>1. Len(d) \in {1, 2} /\ n > Len(d) /\ Len(f) \in Nat
    BY <1>3, <1>4, <1>5, KnownAssumption, LenProperties DEF HasCommand
  <2>2. \A i \in 1..Len(d) : i + 1 \in 1..n
    BY <2>1
  <2>3. HasCommand(f, d)
    BY <1>4, <1>5, <2>1, <2>2 DEF HasCommand
  <2>4. c = d
    BY <1>1, <2>3, KnownAssumption
  <2> QED
    BY <1>1, <1>5, <2>4
<1> QED
  BY <1>2, <1>4, <1>5 DEF Matched

-----------------------------------------------------------------------------
(* What arrives undisturbed is collected byte by byte, and its last byte     *)
(* dispatches it.                                                            *)
LEMMA Undisturbs ==
  ASSUME IInv, Receive, Undisturbed, Matched(Head(queue))
  PROVE  /\ IsLast => out' = <<Head(queue)>> /\ buffer' = <<>>
         /\ ~IsLast => buffer' = SubSeq(Head(queue), 1, taken + 1) /\ ~stale' /\ out' = <<>>
<1> DEFINE f == Head(queue)
           b == f[taken + 1]
<1>1. queue # <<>> /\ (Starts(b) \/ Overflows \/ Collects(b) \/ Completes(b))
  BY DEF Receive
<1>2. f \in Frames /\ taken < Len(f) /\ taken \in Nat
  BY <1>1, HeadTailProperties DEF IInv, Types
<1>3. f \in Seq(Bytes) /\ Len(f) \in Nat /\ Len(f) >= 4 /\ f[1] = START /\ f[Len(f)] = END
  BY <1>2, FrameFacts
<1>4. Len(f) <= MaxBuffer /\ \A n \in Nat : n < Len(f) => ~Matched(SubSeq(f, 1, n))
  BY <1>2, PrefixIsNoFrame
<1>5. IsLast <=> taken + 1 = Len(f)
  BY DEF IsLast
<1>6. CASE taken = 0
  <2>1. b = START /\ ~IsLast /\ Before = <<>>
    BY <1>3, <1>5, <1>6 DEF Before
  <2>2. buffer = <<>> \/ stale
    BY <1>6 DEF Undisturbed
  <2>3. Starts(b)
    BY <1>1, <2>2 DEF Overflows, Collects, Completes
  <2>4. buffer' = <<START>> /\ ~stale' /\ out' = <<>>
    BY <2>1, <2>3 DEF Starts
  <2>5. SubSeq(f, 1, 1) = <<f[1]>>
    <3>1. Append(SubSeq(f, 1, 0), f[0 + 1]) = SubSeq(f, 1, 0 + 1)
      BY <1>3, PrefixGrows
    <3>2. SubSeq(f, 1, 0) = <<>>
      BY SubSeqEmpty
    <3>3. Append(<<>>, f[1]) = <<f[1]>>
      OBVIOUS
    <3>4. 0 + 1 = 1
      OBVIOUS
    <3> HIDE DEF f
    <3> QED
      BY <3>1, <3>2, <3>3, <3>4
  <2> QED
    BY <1>3, <1>6, <2>1, <2>4, <2>5
<1>7. CASE taken # 0
  <2>1. clean
    BY <1>7 DEF Undisturbed
  <2>2. buffer = SubSeq(f, 1, taken) /\ ~stale /\ out = <<>>
    BY <2>1 DEF IInv, InStep
  <2>3. Len(buffer) = taken /\ Append(buffer, b) = SubSeq(f, 1, taken + 1)
    BY <1>2, <1>3, <2>2, PrefixGrows
  <2>4. buffer # <<>> /\ ~Full
    BY <1>2, <1>3, <1>4, <1>7, <2>3, KnownAssumption DEF Full, IInv, Types
  <2>5. ~Starts(b) /\ ~Overflows
    BY <2>2, <2>4 DEF Starts, Overflows
  <2>6. Before = <<>>
    BY <1>7, <2>2 DEF Before
  <2>7. CASE IsLast
    <3>1. SubSeq(f, 1, taken + 1) = f
      BY <1>3, <1>5, <2>7, SubSeqFull
    <3>2. b = END /\ Len(buffer) >= 3
      BY <1>2, <1>3, <1>5, <2>3, <2>7
    <3>3. Append(buffer, b) = f
      BY <2>3, <3>1
    <3>4. Closes(b)
      BY <3>2, <3>3 DEF Closes
    <3>5. Completes(b)
      BY <1>1, <2>5, <3>4 DEF Collects
    <3>6. buffer' = <<>> /\ (out' = Append(Before, f) \/ f \notin Frames)
      BY <3>3, <3>5 DEF Completes
    <3>7. Append(<<>>, f) = <<f>>
      OBVIOUS
    <3> QED
      BY <1>2, <2>6, <2>7, <3>6, <3>7
  <2>8. CASE ~IsLast
    <3>1. taken + 1 \in Nat /\ taken + 1 < Len(f)
      BY <1>2, <1>3, <1>5, <2>8
    <3>2. ~Closes(b)
      BY <1>4, <2>3, <3>1 DEF Closes
    <3>3. Collects(b)
      BY <1>1, <2>5, <3>2 DEF Completes
    <3> QED
      BY <2>2, <2>3, <2>6, <2>8, <3>3 DEF Collects
  <2> QED
    BY <2>7, <2>8
<1> QED
  BY <1>6, <1>7

(* The head of the stream moves on by one byte.                              *)
LEMMA HeadMovesTypes ==
  ASSUME Types, queue # <<>>, NEW u \in BOOLEAN, HeadMoves(u)
  PROVE  /\ queue' \in Seq(Frames) /\ taken' \in Nat
         /\ queue' = <<>> => taken' = 0
         /\ queue' # <<>> => taken' < Len(Head(queue'))
         /\ clean' \in BOOLEAN
         /\ clean' => queue' = queue /\ queue # <<>> /\ taken' = taken + 1 /\ ~IsLast /\ u
<1>1. Head(queue) \in Frames /\ Tail(queue) \in Seq(Frames)
  BY HeadTailProperties DEF Types
<1>2. Len(Head(queue)) \in Nat
  BY <1>1, FrameFacts
<1>3. CASE IsLast
  <2>1. queue' = Tail(queue) /\ taken' = 0 /\ clean' = FALSE
    BY <1>3 DEF HeadMoves
  <2>2. queue' # <<>> => Head(queue') \in Frames
    BY <1>1, <2>1, HeadTailProperties
  <2>3. queue' # <<>> => Len(Head(queue')) >= 4 /\ Len(Head(queue')) \in Nat
    BY <2>2, FrameFacts
  <2>4. queue' # <<>> => taken' < Len(Head(queue'))
    BY <2>1, <2>3
  <2> QED
    BY <1>1, <2>1, <2>4
<1>4. CASE ~IsLast
  <2>1. taken' = taken + 1 /\ clean' = u /\ queue' = queue
    BY <1>4 DEF HeadMoves
  <2> QED
    BY <1>2, <1>4, <2>1 DEF Types, IsLast
<1> QED
  BY <1>3, <1>4

(* A byte that arrives: the buffer stays within its bounds.                  *)
LEMMA ReceiveBounded ==
  ASSUME IInv, Receive
  PROVE  buffer' \in Seq(Bytes) /\ stale' \in BOOLEAN /\ BufferBounded'
<1> DEFINE b == Head(queue)[taken + 1]
<1>0. buffer \in Seq(Bytes) /\ Len(buffer) \in Nat /\ stale \in BOOLEAN
      /\ MaxBuffer \in Nat \ {0}
  BY LenProperties, KnownAssumption DEF IInv, Types
<1>1. b \in Bytes
  <2>1. Head(queue) \in Frames /\ taken < Len(Head(queue)) /\ taken \in Nat
    BY HeadTailProperties DEF Receive, IInv, Types
  <2> QED
    BY <2>1, FrameFacts, PrefixGrows
<1> HIDE DEF b
<1>2. ASSUME buffer' = <<>>, stale' \in BOOLEAN
      PROVE  buffer' \in Seq(Bytes) /\ stale' \in BOOLEAN /\ BufferBounded'
  <2>1. Len(buffer') = 0 /\ buffer' \in Seq(Bytes)
    BY <1>2, EmptySeq
  <2> QED
    BY <1>0, <1>2, <2>1 DEF BufferBounded
<1>3. ASSUME Starts(b)
      PROVE  buffer' \in Seq(Bytes) /\ stale' \in BOOLEAN /\ BufferBounded'
  <2>1. CASE b # START
    BY <1>2, <1>3, <2>1 DEF Starts
  <2>2. CASE b = START
    <3>1. buffer' = <<START>> /\ stale' = FALSE
      BY <1>3, <2>2 DEF Starts
    <3>2. START \in Bytes
      BY FramesAssumption
    <3>3. buffer' \in Seq(Bytes) /\ Len(buffer') = 1 /\ buffer'[1] = START
      BY <3>1, <3>2
    <3>4. BufferBounded'
      BY <1>0, <3>3 DEF BufferBounded
    <3> QED
      BY <3>1, <3>3, <3>4
  <2> QED
    BY <2>1, <2>2
<1>4. ASSUME Overflows \/ Completes(b)
      PROVE  buffer' \in Seq(Bytes) /\ stale' \in BOOLEAN /\ BufferBounded'
  BY <1>0, <1>2, <1>4 DEF Overflows, Completes
<1>5. ASSUME Collects(b)
      PROVE  buffer' \in Seq(Bytes) /\ stale' \in BOOLEAN /\ BufferBounded'
  <2>1. buffer' = Append(buffer, b) /\ stale' = stale
        /\ buffer # <<>> /\ Len(buffer) < MaxBuffer /\ ~Closes(b)
    BY <1>0, <1>5 DEF Collects, Full
  <2>2. /\ buffer' \in Seq(Bytes) /\ Len(buffer') = Len(buffer) + 1
        /\ buffer'[Len(buffer')] = b
        /\ \A i \in 1..Len(buffer) : buffer'[i] = buffer[i]
    BY <1>0, <1>1, <2>1, AppendProperties
  <2>3. Len(buffer) >= 1
    BY <1>0, <2>1, EmptySeq
  <2>4. buffer'[1] = START
    BY <1>0, <2>1, <2>2, <2>3 DEF IInv, BufferBounded
  <2>5. ~(Len(buffer') >= 4 /\ buffer'[Len(buffer')] = END /\ Matched(buffer'))
    BY <1>0, <2>1, <2>2 DEF Closes
  <2> QED
    BY <1>0, <2>1, <2>2, <2>4, <2>5 DEF BufferBounded, Matched, HasCommand
<1> QED
  BY <1>3, <1>4, <1>5 DEF Receive, b
-----------------------------------------------------------------------------
(* At the start nothing is under way.                                        *)
LEMMA InitIInv == Init => IInv
<1> SUFFICES ASSUME Init PROVE IInv
  OBVIOUS
<1>1. buffer \in Seq(Bytes) /\ Len(buffer) = 0 /\ queue \in Seq(Frames)
  BY EmptySeq DEF Init
<1>2. Types
  BY <1>1 DEF Init, Types
<1>3. BufferBounded
  BY <1>1, KnownAssumption DEF Init, BufferBounded
<1>4. InStep
  BY DEF Init, InStep
<1> QED
  BY <1>2, <1>3, <1>4 DEF IInv

(* Another frame is sent: the head of the stream stays, unless it is the     *)
(* first.                                                                    *)
LEMMA SendIInv ==
  ASSUME IInv, NEW f \in Frames, Send(f)
  PROVE  IInv'
<1>0. /\ queue' = Append(queue, f)
      /\ UNCHANGED <<taken, buffer, stale, out, clean>>
  BY DEF Send
<1>1. queue \in Seq(Frames)
  BY DEF IInv, Types
<1>2. /\ queue' \in Seq(Frames) /\ queue' # <<>>
      /\ Head(queue') = IF queue = <<>> THEN f ELSE Head(queue)
  BY <1>0, <1>1, AppendProperties, HeadTailAppend
<1>3. Len(f) >= 4 /\ Len(f) \in Nat
  BY FrameFacts
<1>4. taken' < Len(Head(queue'))
  <2>1. CASE queue = <<>>
    BY <1>0, <1>2, <1>3, <2>1 DEF IInv, Types
  <2>2. CASE queue # <<>>
    BY <1>0, <1>2, <2>2 DEF IInv, Types
  <2> QED
    BY <2>1, <2>2
<1>5. Types'
  BY <1>0, <1>2, <1>4 DEF IInv, Types
<1>6. BufferBounded'
  BY <1>0 DEF IInv, BufferBounded, Matched, HasCommand
<1>7. InStep'
  <2>1. clean' => Head(queue') = Head(queue)
    BY <1>0, <1>2 DEF IInv, Types
  <2> QED
    BY <1>0, <2>1 DEF IInv, InStep, Matched, HasCommand
<1> QED
  BY <1>5, <1>6, <1>7 DEF IInv

(* A byte arrives.                                                           *)
LEMMA ReceiveIInv ==
  ASSUME IInv, Receive
  PROVE  IInv'
<1>1. queue # <<>> /\ HeadMoves(Undisturbed)
  BY DEF Receive
<1>2. Undisturbed \in BOOLEAN
  BY DEF IInv, Types, Undisturbed
<1>3. /\ queue' \in Seq(Frames) /\ taken' \in Nat
      /\ queue' = <<>> => taken' = 0
      /\ queue' # <<>> => taken' < Len(Head(queue'))
      /\ clean' \in BOOLEAN
      /\ clean' => queue' = queue /\ queue # <<>> /\ taken' = taken + 1 /\ ~IsLast /\ Undisturbed
  BY <1>1, <1>2, HeadMovesTypes DEF IInv
<1>4. buffer' \in Seq(Bytes) /\ stale' \in BOOLEAN /\ BufferBounded'
  BY ReceiveBounded
<1>5. Types'
  <2>1. clean' => taken' > 0
    BY <1>3 DEF IInv, Types
  <2> QED
    BY <1>3, <1>4, <2>1 DEF Types
<1>6. InStep'
  <2> SUFFICES ASSUME clean', Matched(Head(queue))
               PROVE  buffer' = SubSeq(Head(queue), 1, taken + 1) /\ ~stale' /\ out' = <<>>
    BY <1>3 DEF InStep, Matched, HasCommand
  <2> QED
    BY <1>3, Undisturbs
<1> QED
  BY <1>4, <1>5, <1>6 DEF IInv

(* The steps that take nothing in: a lost byte, a lost link, a second.       *)
LEMMA LosesIInv ==
  ASSUME IInv, Lose \/ SecondPasses \/ LinkLost
  PROVE  IInv'
<1>1. buffer' \in {buffer, <<>>} /\ clean' = FALSE /\ stale' \in BOOLEAN
  <2>1. CASE Lose
    BY <2>1 DEF Lose, HeadMoves, IInv, Types
  <2>2. CASE SecondPasses \/ LinkLost
    BY <2>2 DEF SecondPasses, LinkLost, IInv, Types
  <2> QED
    BY <2>1, <2>2
<1>2. /\ queue' \in Seq(Frames) /\ taken' \in Nat
      /\ queue' = <<>> => taken' = 0
      /\ queue' # <<>> => taken' < Len(Head(queue'))
  <2>1. CASE Lose
    BY <2>1, HeadMovesTypes DEF Lose, IInv
  <2>2. CASE SecondPasses
    BY <2>2 DEF SecondPasses, IInv, Types
  <2>3. CASE LinkLost
    BY <2>3, EmptySeq DEF LinkLost
  <2> QED
    BY <2>1, <2>2, <2>3
<1>3. buffer' \in Seq(Bytes)
  BY <1>1, EmptySeq DEF IInv, Types
<1>4. Types'
  BY <1>1, <1>2, <1>3 DEF IInv, Types
<1>5. BufferBounded'
  <2>1. CASE buffer' = buffer
    BY <2>1 DEF IInv, BufferBounded, Matched, HasCommand
  <2>2. CASE buffer' = <<>>
    BY <2>2, KnownAssumption DEF BufferBounded
  <2> QED
    BY <1>1, <2>1, <2>2
<1>6. InStep'
  BY <1>1 DEF InStep
<1> QED
  BY <1>4, <1>5, <1>6 DEF IInv

(* Every step preserves the invariant.                                       *)
LEMMA NextIInv == IInv /\ [Next]_vars => IInv'
<1> SUFFICES ASSUME IInv, [Next]_vars PROVE IInv'
  OBVIOUS
<1>1. CASE UNCHANGED vars
  BY <1>1 DEF vars, IInv, Types, BufferBounded, InStep, Matched, HasCommand
<1> QED
  BY <1>1, SendIInv, ReceiveIInv, LosesIInv DEF Next

(* The inductive invariant holds in every reachable state.                   *)
THEOREM Invariance == Spec => []IInv
BY InitIInv, NextIInv, PTL DEF Spec

(* The buffer never outgrows its limit, begins with a start byte, and never  *)
(* keeps a whole frame (_process_byte).                                      *)
THEOREM BufferIsBounded == Spec => []BufferBounded
<1>1. IInv => BufferBounded
  BY DEF IInv
<1> QED
  BY Invariance, <1>1, PTL

(* What arrives undisturbed is in the buffer byte for byte, whatever its     *)
(* ciphertext and whatever was received before it.                           *)
THEOREM ParserInStep == Spec => []InStep
<1>1. IInv => InStep
  BY DEF IInv
<1> QED
  BY Invariance, <1>1, PTL

(* Every frame of the table that arrives undisturbed is dispatched, once and *)
(* alone, by its last byte (_process_byte, _try_parse_frame).                *)
THEOREM FramesDelivered == Spec => DeliveredWhole
<1>1. IInv /\ [Next]_vars =>
        [Receive /\ IsLast /\ Undisturbed /\ Matched(Head(queue))
           => out' = <<Head(queue)>>]_vars
  BY Undisturbs
<1> QED
  BY Invariance, <1>1, PTL DEF Spec, DeliveredWhole
=============================================================================
