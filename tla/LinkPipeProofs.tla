--------------------------- MODULE LinkPipeProofs ---------------------------
(***************************************************************************)
(* Proofs about LinkPipe, for any datagrams, any chunk size and any        *)
(* capacity of the channel: the framing of one datagram first, then the    *)
(* direction as a whole.                                                   *)
(***************************************************************************)
EXTENDS LinkPipe, SequenceLemmas

\* The chunks of a datagram cover it: all but the last are full.
LEMMA ChunkBounds ==
  ASSUME NEW n \in Nat
  PROVE  /\ ChunkCount(n) \in Nat \ {0}
         /\ \A i \in 1..ChunkCount(n) :
              /\ (i - 1) * MaxChunk \in 0..n
              /\ ChunkEnd(n, i) \in (i - 1) * MaxChunk..n
              /\ ChunkEnd(n, i) <= (i - 1) * MaxChunk + MaxChunk
              /\ ChunkEnd(n, i) = IF i = ChunkCount(n) THEN n ELSE i * MaxChunk
         /\ n <= MaxChunk => ChunkCount(n) = 1
<1> DEFINE M == MaxChunk
           q == (n - 1) \div M
<1>0. M \in Nat \ {0}
  BY FramingAssumption
<1>1. CASE n = 0
  BY <1>0, <1>1 DEF ChunkCount, ChunkEnd
<1>2. CASE n # 0
  <2>1. n - 1 \in Nat
    BY <1>2
  <2>2. q \in Nat /\ M * q <= n - 1 /\ n - 1 < M * q + M
    BY <1>0, <2>1, SMT
  <2>3. ChunkCount(n) = q + 1
    BY <1>2 DEF ChunkCount
  <2> HIDE DEF q
  <2>4. ASSUME NEW i \in 1..(q + 1)
        PROVE  /\ (i - 1) * M \in 0..n
               /\ ChunkEnd(n, i) \in (i - 1) * M..n
               /\ ChunkEnd(n, i) <= (i - 1) * M + M
               /\ ChunkEnd(n, i) = IF i = q + 1 THEN n ELSE i * M
    <3>1. i * M = (i - 1) * M + M /\ i * M \in Nat /\ (i - 1) * M \in Nat
      BY <1>0, <2>2, SMT
    <3>2. (i - 1) * M <= M * q
      BY <1>0, <2>2, SMT
    <3>3. i # q + 1 => i * M <= M * q
      BY <1>0, <2>2, SMT
    <3>4. i = q + 1 => i * M = M * q + M
      BY <1>0, <2>2, SMT
    <3> DEFINE a == (i - 1) * M
               b == i * M
               c == M * q
    <3>5. ChunkEnd(n, i) = IF b < n THEN b ELSE n
      BY DEF ChunkEnd
    <3>6. a \in Nat /\ b = a + M /\ a <= c /\ (i # q + 1 => b <= c) /\ (i = q + 1 => b = c + M)
      BY <3>1, <3>2, <3>3, <3>4
    <3>7. c \in Nat /\ c <= n - 1 /\ n - 1 < c + M
      BY <1>0, <2>2, SMT
    <3> HIDE DEF a, b, c
    <3>8. a \in 0..n /\ ChunkEnd(n, i) \in a..n /\ ChunkEnd(n, i) <= a + M
      BY <1>0, <3>5, <3>6, <3>7
    <3>9. ChunkEnd(n, i) = IF i = q + 1 THEN n ELSE b
      BY <1>0, <3>5, <3>6, <3>7
    <3>10. QED
      BY <3>8, <3>9 DEF a, b
  <2>5. n <= M => q = 0
    BY <1>0, <2>1, SMT DEF q
  <2>6. QED
    BY <1>0, <2>2, <2>3, <2>4, <2>5
<1>3. QED
  BY <1>1, <1>2

\* A chunk is its header and the part of the datagram that follows what the
\* chunks before it carried.
LEMMA ChunkFacts ==
  ASSUME NEW S, NEW d \in Seq(S), NEW i \in 1..ChunkCount(Len(d))
  PROVE  /\ Chunk(d, i) # << >>
         /\ Head(Chunk(d, i)) = IF i = ChunkCount(Len(d)) THEN Final ELSE More
         /\ Tail(Chunk(d, i)) \in Seq(S)
         /\ Len(Chunk(d, i)) \in 1..(MaxChunk + 1)
         /\ SubSeq(d, 1, (i - 1) * MaxChunk) \o Tail(Chunk(d, i)) = SubSeq(d, 1, ChunkEnd(Len(d), i))
<1> DEFINE a == (i - 1) * MaxChunk
           e == ChunkEnd(Len(d), i)
           h == IF i = ChunkCount(Len(d)) THEN Final ELSE More
           s == SubSeq(d, a + 1, e)
<1>1. Len(d) \in Nat
  BY LenProperties
<1>2. a \in 0..Len(d) /\ e \in a..Len(d) /\ e <= a + MaxChunk
  BY <1>1, ChunkBounds
<1>3. Chunk(d, i) = << h >> \o s
  BY DEF Chunk
<1>4. MaxChunk \in Nat
  BY FramingAssumption
<1> HIDE DEF a, e, h
<1>5. s \in Seq(S) /\ Len(s) = IF a + 1 <= e THEN e - (a + 1) + 1 ELSE 0
  <2>1. \A j \in a + 1..e : d[j] \in S
    BY <1>1, <1>2
  <2>2. a + 1 \in Int /\ e \in Int
    BY <1>1, <1>2
  <2>3. QED
    BY <2>1, <2>2, SubSeqProperties
<1>6. Len(s) \in 0..MaxChunk
  BY <1>1, <1>2, <1>4, <1>5
<1>7. SubSeq(d, 1, a) \o s = SubSeq(d, 1, e)
  BY <1>1, <1>2, ConcatAdjacentSubSeq
<1> HIDE DEF s
<1>8. << h >> \o s # << >> /\ Head(<< h >> \o s) = h /\ Tail(<< h >> \o s) = s /\ Len(<< h >> \o s) = Len(s) + 1
  <2> DEFINE T == S \cup {h}
             c == << h >> \o s
  <2>1. << h >> \in Seq(T) /\ Len(<< h >>) = 1 /\ << h >>[1] = h /\ s \in Seq(T)
    BY <1>5, SeqMonotonic
  <2>2. c \in Seq(T) /\ Len(c) = 1 + Len(s) /\ Len(s) \in Nat
        /\ \A j \in 1..1 + Len(s) : c[j] = IF j <= 1 THEN << h >>[j] ELSE s[j - 1]
    BY <2>1, ConcatProperties, LenProperties
  <2> HIDE DEF c, T
  <2>3. c # << >> /\ Head(c) = h
    BY <2>1, <2>2
  <2>4. Tail(c) \in Seq(T) /\ Len(Tail(c)) = Len(s) /\ \A j \in 1..Len(s) : Tail(c)[j] = s[j]
    BY <2>2, <2>3, HeadTailProperties
  <2>5. Tail(c) = s
    BY <2>1, <2>4, SeqEqual
  <2>6. QED
    BY <2>2, <2>3, <2>5 DEF c
<1>9. /\ Chunk(d, i) # << >> /\ Head(Chunk(d, i)) = h
      /\ Tail(Chunk(d, i)) \in Seq(S)
      /\ SubSeq(d, 1, a) \o Tail(Chunk(d, i)) = SubSeq(d, 1, e)
  BY <1>3, <1>5, <1>7, <1>8
<1>10. Len(Chunk(d, i)) \in 1..(MaxChunk + 1)
  BY <1>3, <1>4, <1>6, <1>8
<1>11. QED
  BY <1>9, <1>10 DEF h, a, e

\* What goes over the link: a header byte and at most MaxChunk bytes.
Chunks == {c \in Seq(Nat) : Len(c) \in 1..(MaxChunk + 1)}

\* frame gives as many chunks as ChunkCount says, each of them a chunk.
LEMMA FrameFacts ==
  ASSUME NEW d \in Datagrams
  PROVE  /\ d \in Seq(Nat) /\ Len(d) \in Nat /\ Len(d) <= MaxDatagram
         /\ frame(d) \in Seq(Chunks)
         /\ Len(frame(d)) = ChunkCount(Len(d))
         /\ \A i \in 1..ChunkCount(Len(d)) : frame(d)[i] = Chunk(d, i)
<1>1. d \in Seq(Nat) /\ Len(d) \in Nat /\ Len(d) <= MaxDatagram
  BY PipeAssumption, LenProperties
<1>2. ChunkCount(Len(d)) \in Nat
  BY <1>1, ChunkBounds
<1>3. ASSUME NEW i \in 1..ChunkCount(Len(d))
      PROVE  Chunk(d, i) \in Chunks
  <2>1. /\ Chunk(d, i) # << >>
        /\ Head(Chunk(d, i)) = IF i = ChunkCount(Len(d)) THEN Final ELSE More
        /\ Tail(Chunk(d, i)) \in Seq(Nat)
        /\ Len(Chunk(d, i)) \in 1..(MaxChunk + 1)
    BY <1>1, ChunkFacts
  <2>2. Chunk(d, i) \in Seq(Nat)
    <3>1. << IF i = ChunkCount(Len(d)) THEN Final ELSE More >> \in Seq(Nat)
      BY DEF Final, More
    <3>2. SubSeq(d, (i - 1) * MaxChunk + 1, ChunkEnd(Len(d), i)) \in Seq(Nat)
      <4>1. /\ (i - 1) * MaxChunk \in 0..Len(d)
            /\ ChunkEnd(Len(d), i) \in (i - 1) * MaxChunk..Len(d)
        BY <1>1, ChunkBounds
      <4> DEFINE a == (i - 1) * MaxChunk
                 e == ChunkEnd(Len(d), i)
      <4> HIDE DEF a, e
      <4>2. a \in 0..Len(d) /\ e \in a..Len(d)
        BY <4>1 DEF a, e
      <4>3. a + 1 \in Int /\ e \in Int /\ \A j \in a + 1..e : d[j] \in Nat
        BY <1>1, <4>2
      <4>4. SubSeq(d, a + 1, e) \in Seq(Nat)
        BY <4>3, SubSeqProperties
      <4>5. QED
        BY <4>4 DEF a, e
    <3>3. QED
      BY <3>1, <3>2, ConcatProperties DEF Chunk
  <2>3. QED
    BY <2>1, <2>2 DEF Chunks
<1>4. QED
  BY <1>1, <1>2, <1>3 DEF frame
-----------------------------------------------------------------------------
\* The types of the variables, with the queues' elements.
TypeInv ==
  /\ pump \in {"from_sc", "first", "send_task", "ended"}
  /\ sent \in Seq(Datagrams)
  /\ commands \in Seq(Chunks)
  /\ events \in Seq(Chunks)
  /\ channel \in Seq(Chunks)
  /\ buf \in Seq(Nat)
  /\ delivered \in Seq(Seq(Nat))
  /\ dropped \in Nat

\* What a chunk makes of the buffer and returns.
LEMMA PushFacts ==
  ASSUME NEW b \in Seq(Nat), NEW c \in Chunks
  PROVE  /\ c \in Seq(Nat) /\ c # << >>
         /\ Head(c) \in Nat /\ Tail(c) \in Seq(Nat) /\ Len(Tail(c)) <= MaxChunk
         /\ b \o Tail(c) \in Seq(Nat)
         /\ push(b, c).buf = IF Head(c) = Final THEN << >> ELSE b \o Tail(c)
         /\ push(b, c).out = IF Head(c) = Final /\ Len(b \o Tail(c)) <= MaxDatagram
                             THEN << b \o Tail(c) >> ELSE << >>
<1>1. c \in Seq(Nat) /\ Len(c) \in 1..(MaxChunk + 1)
  BY DEF Chunks
<1>2. MaxChunk \in Nat /\ MaxDatagram \in Nat
  BY FramingAssumption
<1>3. c # << >>
  BY <1>1, <1>2
<1>4. Head(c) \in Nat /\ Tail(c) \in Seq(Nat) /\ Len(c) = Len(Tail(c)) + 1 /\ Len(Tail(c)) \in Nat
  BY <1>1, <1>3, TailFacts
<1>5. Len(Tail(c)) <= MaxChunk
  BY <1>1, <1>2, <1>4
<1>6. b \o Tail(c) \in Seq(Nat) /\ Len(b \o Tail(c)) \in Nat
  BY <1>4, ConcatProperties, LenProperties
<1> DEFINE s == b \o Tail(c)
<1> HIDE DEF s
<1>7. push(b, c) = IF Head(c) # Final
                   THEN [buf |-> s, out |-> << >>]
                   ELSE [buf |-> << >>, out |-> IF Len(s) > MaxDatagram THEN << >> ELSE << s >>]
  BY <1>3 DEF push, s
<1>8. /\ push(b, c).buf = IF Head(c) = Final THEN << >> ELSE s
      /\ push(b, c).out = IF Head(c) = Final /\ Len(s) <= MaxDatagram THEN << s >> ELSE << >>
  <2>1. Len(s) > MaxDatagram <=> ~ (Len(s) <= MaxDatagram)
    BY <1>2, <1>6 DEF s
  <2>2. QED
    BY <1>7, <2>1
<1>9. QED
  BY <1>1, <1>3, <1>4, <1>5, <1>6, <1>8 DEF s

\* The types hold at the start.
LEMMA TypeInit == Init => TypeInv
BY DEF Init, TypeInv

\* Every step keeps the types.
LEMMA TypeStep == TypeInv /\ [Next]_vars => TypeInv'
<1> SUFFICES ASSUME TypeInv, [Next]_vars
             PROVE  TypeInv'
  OBVIOUS
<1> USE DEF TypeInv
<1>1. CASE ReadDatagram
  <2>1. PICK d \in Datagrams :
          /\ sent' = Append(sent, d)
          /\ pump' = PumpAfter(d)
          /\ commands' = IF Frames(d) THEN commands \o frame(d) ELSE commands
    BY <1>1 DEF ReadDatagram
  <2>2. commands \o frame(d) \in Seq(Chunks)
    BY FrameFacts, ConcatProperties
  <2>3. commands' \in Seq(Chunks)
    BY <2>1, <2>2
  <2>4. sent' \in Seq(Datagrams)
    BY <2>1
  <2>5. pump' \in {"from_sc", "first", "send_task", "ended"}
    BY <2>1 DEF PumpAfter
  <2>6. QED
    BY <1>1, <2>3, <2>4, <2>5 DEF ReadDatagram
<1>2. CASE SendToLink
  <2>1. Head(commands) \in Chunks /\ Tail(commands) \in Seq(Chunks)
    BY <1>2, TailFacts DEF SendToLink
  <2>2. Append(events, Head(commands)) \in Seq(Chunks)
    BY <2>1, AppendFacts
  <2>3. events' \in Seq(Chunks) /\ dropped' \in Nat
    <3>1. CASE Len(Head(commands)) <= LinkMdu
      BY <1>2, <2>2, <3>1 DEF SendToLink
    <3>2. CASE ~ (Len(Head(commands)) <= LinkMdu)
      BY <1>2, <3>2 DEF SendToLink
    <3>3. QED
      BY <3>1, <3>2
  <2>4. QED
    BY <1>2, <2>1, <2>3 DEF SendToLink
<1>3. CASE LosePacket
  <2>1. Tail(commands) \in Seq(Chunks)
    BY <1>3, TailFacts DEF LosePacket
  <2>2. QED
    BY <1>3, <2>1 DEF LosePacket
<1>4. CASE RouteLinkData
  <2>1. Head(events) \in Chunks /\ Tail(events) \in Seq(Chunks)
    BY <1>4, TailFacts DEF RouteLinkData
  <2>2. Append(channel, Head(events)) \in Seq(Chunks)
    BY <2>1, AppendFacts
  <2>3. channel' \in Seq(Chunks) /\ dropped' \in Nat
    <3>1. CASE Len(channel) < ChannelCap
      BY <1>4, <2>2, <3>1 DEF RouteLinkData
    <3>2. CASE ~ (Len(channel) < ChannelCap)
      BY <1>4, <3>2 DEF RouteLinkData
    <3>3. QED
      BY <3>1, <3>2
  <2>4. QED
    BY <1>4, <2>1, <2>3 DEF RouteLinkData
<1>5. CASE RelayChunk
  <2>1. Head(channel) \in Chunks /\ Tail(channel) \in Seq(Chunks)
    BY <1>5, TailFacts DEF RelayChunk
  <2>2. push(buf, Head(channel)).buf \in Seq(Nat) /\ push(buf, Head(channel)).out \in Seq(Seq(Nat))
    <3>1. /\ buf \o Tail(Head(channel)) \in Seq(Nat)
          /\ push(buf, Head(channel)).buf
               = IF Head(Head(channel)) = Final THEN << >> ELSE buf \o Tail(Head(channel))
          /\ push(buf, Head(channel)).out
               = IF Head(Head(channel)) = Final /\ Len(buf \o Tail(Head(channel))) <= MaxDatagram
                 THEN << buf \o Tail(Head(channel)) >> ELSE << >>
      BY <2>1, PushFacts
    <3>2. << buf \o Tail(Head(channel)) >> \in Seq(Seq(Nat))
      BY <3>1
    <3>3. << >> \in Seq(Nat) /\ << >> \in Seq(Seq(Nat))
      OBVIOUS
    <3> HIDE DEF TypeInv
    <3>4. QED
      BY <3>1, <3>2, <3>3
  <2>3. delivered \o push(buf, Head(channel)).out \in Seq(Seq(Nat))
    BY <2>2, ConcatProperties
  <2>4. QED
    BY <1>5, <2>1, <2>2, <2>3 DEF RelayChunk
<1>6. CASE UNCHANGED vars
  BY <1>6 DEF vars
<1>7. QED
  BY <1>1, <1>2, <1>3, <1>4, <1>5, <1>6 DEF Next

\* TypeOK, for any datagrams and any chunk size: a chunk has its header byte
\* and no more than MaxChunk bytes behind it (framing.rs frame).
THEOREM TypeCorrect == Spec => []TypeOK
<1>1. TypeInv => TypeOK
  <2> SUFFICES ASSUME TypeInv
               PROVE  TypeOK
    OBVIOUS
  <2>1. ASSUME NEW q \in {commands, events, channel}, NEW i \in 1..Len(q)
        PROVE  Len(q[i]) \in 1..(MaxChunk + 1)
    <3>1. q[i] \in Chunks
      BY <2>1 DEF TypeInv
    <3>2. QED
      BY <3>1 DEF Chunks
  <2>2. QED
    BY <2>1 DEF TypeInv, TypeOK
<1>2. QED
  BY <1>1, TypeInit, TypeStep, PTL DEF Spec
-----------------------------------------------------------------------------
\* Everything under way, the oldest chunk first.
Line == channel \o events \o commands

\* What a step does to the line and its ends: a datagram enters or is not
\* framed, a chunk is dropped or leaves, or chunks move on.
Enters(d) ==
  /\ Frames(d)
  /\ sent' = Append(sent, d) /\ pump' = PumpAfter(d)
  /\ Line' = Line \o frame(d)
  /\ UNCHANGED << buf, delivered, dropped >>

Skips(d) ==
  /\ ~ Frames(d)
  /\ sent' = Append(sent, d) /\ pump' = PumpAfter(d)
  /\ UNCHANGED << Line, buf, delivered, dropped >>

Drops(p) ==
  /\ Line' = Without(Line, p)
  /\ dropped' = dropped + 1
  /\ UNCHANGED << pump, sent, buf, delivered >>

Leaves ==
  /\ Line # << >>
  /\ Line' = Tail(Line)
  /\ buf' = push(buf, Head(Line)).buf
  /\ delivered' = delivered \o push(buf, Head(Line)).out
  /\ UNCHANGED << pump, sent, dropped >>

Moves == UNCHANGED << Line, pump, sent, buf, delivered, dropped >>

\* What is on the line is chunks.
LEMMA LineType == TypeInv => Line \in Seq(Chunks) /\ Len(Line) \in Nat
<1> SUFFICES ASSUME TypeInv
             PROVE  Line \in Seq(Chunks) /\ Len(Line) \in Nat
  OBVIOUS
<1>1. channel \in Seq(Chunks) /\ events \in Seq(Chunks) /\ commands \in Seq(Chunks)
  BY DEF TypeInv
<1>2. channel \o events \in Seq(Chunks)
  BY <1>1, ConcatProperties
<1>3. Line \in Seq(Chunks)
  BY <1>1, <1>2, ConcatProperties DEF Line
<1>4. QED
  BY <1>3, LenProperties

\* Queues of chunks in a row may be cut anywhere.
LEMMA QueuesAssociate ==
  ASSUME NEW x \in Seq(Chunks), NEW y \in Seq(Chunks), NEW z \in Seq(Chunks)
  PROVE  x \o (y \o z) = (x \o y) \o z
BY ConcatAssociative

\* Whatever queues a chunk passes through, a step of the direction is one of
\* these steps of the line.
LEMMA LineSteps ==
  ASSUME TypeInv, [Next]_vars
  PROVE  \/ \E d \in Datagrams : Enters(d) \/ Skips(d)
         \/ \E p \in 1..Len(Line) : Drops(p)
         \/ Leaves
         \/ Moves
<1> DEFINE x == channel \o events
<1>1. channel \in Seq(Chunks) /\ events \in Seq(Chunks) /\ commands \in Seq(Chunks)
  BY DEF TypeInv
<1>2. x \in Seq(Chunks)
  BY <1>1, ConcatProperties
<1>3. Line = x \o commands /\ Line' = x' \o commands'
  BY DEF Line
<1>a. CASE ReadDatagram
  <2>1. PICK d \in Datagrams :
          /\ sent' = Append(sent, d)
          /\ pump' = PumpAfter(d)
          /\ commands' = IF Frames(d) THEN commands \o frame(d) ELSE commands
    BY <1>a DEF ReadDatagram
  <2>2. x' = x /\ UNCHANGED << buf, delivered, dropped >>
    BY <1>a DEF ReadDatagram
  <2>3. frame(d) \in Seq(Chunks)
    BY FrameFacts
  <2> HIDE DEF x
  <2>4. x \o (commands \o frame(d)) = (x \o commands) \o frame(d)
    BY <1>1, <1>2, <2>3, QueuesAssociate
  <2>5. CASE Frames(d)
    BY <1>3, <2>1, <2>2, <2>4, <2>5 DEF Enters
  <2>6. CASE ~ Frames(d)
    BY <1>3, <2>1, <2>2, <2>6 DEF Skips
  <2>7. QED
    BY <2>5, <2>6
<1>b. ASSUME commands # << >>, commands' = Tail(commands), UNCHANGED << events, channel >>,
             dropped' = dropped + 1, UNCHANGED << pump, sent, buf, delivered >>
      PROVE  \E p \in 1..Len(Line) : Drops(p)
  <2>1. x' = x
    BY <1>b
  <2> HIDE DEF x
  <2>2. Len(x) + 1 \in 1..Len(Line) /\ x \o Tail(commands) = Without(Line, Len(x) + 1)
    BY <1>1, <1>2, <1>3, <1>b, LoseHead
  <2>3. Drops(Len(x) + 1)
    BY <1>3, <1>b, <2>1, <2>2 DEF Drops
  <2>4. QED
    BY <2>2, <2>3
<1>c. CASE SendToLink
  <2>1. commands # << >> /\ commands' = Tail(commands) /\ UNCHANGED << pump, sent, channel, buf, delivered >>
    BY <1>c DEF SendToLink
  <2>2. CASE Len(Head(commands)) <= LinkMdu
    <3> DEFINE h == Head(commands)
    <3>1. events' = Append(events, h) /\ dropped' = dropped
      BY <1>c, <2>2 DEF SendToLink
    <3>2. h \in Chunks
      BY <1>1, <2>1, TailFacts
    <3> HIDE DEF h
    <3>3. x' = Append(x, h)
      BY <1>1, <2>1, <3>1, <3>2, AppendToBoth
    <3> HIDE DEF x
    <3>4. Append(x, h) \o Tail(commands) = x \o commands
      BY <1>1, <1>2, <2>1, MoveHead DEF h
    <3>5. Line' = Line
      BY <1>3, <2>1, <3>3, <3>4
    <3>6. QED
      BY <2>1, <3>1, <3>5 DEF Moves
  <2>3. CASE ~ (Len(Head(commands)) <= LinkMdu)
    BY <1>b, <1>c, <2>3 DEF SendToLink
  <2>4. QED
    BY <2>2, <2>3
<1>d. CASE LosePacket
  BY <1>b, <1>d DEF LosePacket
<1>e. CASE RouteLinkData
  <2>1. events # << >> /\ events' = Tail(events) /\ UNCHANGED << pump, sent, commands, buf, delivered >>
    BY <1>e DEF RouteLinkData
  <2>2. CASE Len(channel) < ChannelCap
    <3>1. channel' = Append(channel, Head(events)) /\ dropped' = dropped
      BY <1>e, <2>2 DEF RouteLinkData
    <3>2. x' = x
      BY <1>1, <2>1, <3>1, MoveHead
    <3> HIDE DEF x
    <3>3. QED
      BY <1>3, <2>1, <3>1, <3>2 DEF Moves
  <2>3. CASE ~ (Len(channel) < ChannelCap)
    <3>1. channel' = channel /\ dropped' = dropped + 1
      BY <1>e, <2>3 DEF RouteLinkData
    <3> DEFINE p == Len(channel) + 1
    <3>2. p \in 1..Len(x) /\ x' = Without(x, p)
      BY <1>1, <2>1, <3>1, LoseHead
    <3> HIDE DEF x, p
    <3>3. p \in 1..Len(Line) /\ Line' = Without(Line, p)
      BY <1>1, <1>2, <1>3, <2>1, <3>2, WithoutFirst
    <3>4. Drops(p)
      BY <2>1, <3>1, <3>3 DEF Drops
    <3>5. QED
      BY <3>3, <3>4
  <2>4. QED
    BY <2>2, <2>3
<1>f. CASE RelayChunk
  <2>1. /\ channel # << >> /\ channel' = Tail(channel)
        /\ buf' = push(buf, Head(channel)).buf
        /\ delivered' = delivered \o push(buf, Head(channel)).out
        /\ UNCHANGED << pump, sent, commands, events, dropped >>
    BY <1>f DEF RelayChunk
  <2>2. x # << >> /\ Head(x) = Head(channel) /\ x' = Tail(x)
    BY <1>1, <2>1, TakeFirst
  <2> HIDE DEF x
  <2>3. Line # << >> /\ Head(Line) = Head(x) /\ Line' = Tail(Line)
    BY <1>1, <1>2, <1>3, <2>1, <2>2, TakeFirst
  <2>4. QED
    BY <2>1, <2>2, <2>3 DEF Leaves
<1>g. CASE UNCHANGED vars
  <2>1. UNCHANGED << channel, events, commands, pump, sent, buf, delivered, dropped >>
    BY <1>g DEF vars
  <2>2. QED
    BY <2>1 DEF Moves, Line
<1>h. QED
  BY <1>a, <1>c, <1>d, <1>e, <1>f, <1>g DEF Next
-----------------------------------------------------------------------------
\* A subsequence stays one when both sequences grow by the same element, when
\* the other one grows, when it loses an element, and when it is cut off.
LEMMA SubsequenceGrows ==
  ASSUME NEW S, NEW s \in Seq(S), NEW t \in Seq(S), NEW e \in S, IsSubsequence(s, t)
  PROVE  IsSubsequence(Append(s, e), Append(t, e))
<1>1. PICK f \in [1..Len(s) -> 1..Len(t)] :
        /\ \A i, j \in 1..Len(s) : i < j => f[i] < f[j]
        /\ \A i \in 1..Len(s) : s[i] = t[f[i]]
  BY DEF IsSubsequence
<1> DEFINE s1 == Append(s, e)
           t1 == Append(t, e)
           g == [i \in 1..Len(s) + 1 |-> IF i = Len(s) + 1 THEN Len(t) + 1 ELSE f[i]]
<1>2. Len(s) \in Nat /\ Len(t) \in Nat
  BY LenProperties
<1>3. Len(s1) = Len(s) + 1 /\ s1[Len(s) + 1] = e /\ \A i \in 1..Len(s) : s1[i] = s[i]
  BY AppendFacts
<1>4. Len(t1) = Len(t) + 1 /\ t1[Len(t) + 1] = e /\ \A i \in 1..Len(t) : t1[i] = t[i]
  BY AppendFacts
<1> HIDE DEF s1, t1
<1>5. \A i \in 1..Len(s) : f[i] \in 1..Len(t) /\ g[i] = f[i]
  BY <1>2
<1>6. g[Len(s) + 1] = Len(t) + 1
  BY <1>2
<1>7. g \in [1..Len(s1) -> 1..Len(t1)]
  BY <1>2, <1>3, <1>4, <1>5
<1> HIDE DEF g
<1>8. ASSUME NEW i \in 1..Len(s1), NEW j \in 1..Len(s1), i < j
      PROVE  g[i] < g[j]
  <2>1. i \in 1..Len(s)
    BY <1>2, <1>3, <1>8
  <2>2. CASE j \in 1..Len(s)
    BY <1>1, <1>5, <1>8, <2>1, <2>2
  <2>3. CASE j = Len(s) + 1
    BY <1>2, <1>5, <1>6, <2>1, <2>3
  <2>4. QED
    BY <1>2, <1>3, <2>2, <2>3
<1>9. ASSUME NEW i \in 1..Len(s1)
      PROVE  s1[i] = t1[g[i]]
  <2>1. CASE i \in 1..Len(s)
    <3>1. s1[i] = s[i] /\ s[i] = t[f[i]]
      BY <1>1, <1>3, <2>1
    <3>2. f[i] \in 1..Len(t) /\ g[i] = f[i]
      BY <1>5, <2>1
    <3>3. t1[f[i]] = t[f[i]]
      BY <1>4, <3>2
    <3>4. QED
      BY <3>1, <3>2, <3>3
  <2>2. CASE i = Len(s) + 1
    BY <1>3, <1>4, <1>6, <2>2
  <2>3. QED
    BY <1>2, <1>3, <2>1, <2>2
<1>10. IsSubsequence(s1, t1)
  BY <1>7, <1>8, <1>9 DEF IsSubsequence
<1>11. QED
  BY <1>10 DEF s1, t1

\* What loses an element stays a subsequence.
LEMMA SubsequenceExtends ==
  ASSUME NEW S, NEW s \in Seq(S), NEW t \in Seq(S), NEW e \in S, IsSubsequence(s, t)
  PROVE  IsSubsequence(s, Append(t, e))
<1>1. PICK f \in [1..Len(s) -> 1..Len(t)] :
        /\ \A i, j \in 1..Len(s) : i < j => f[i] < f[j]
        /\ \A i \in 1..Len(s) : s[i] = t[f[i]]
  BY DEF IsSubsequence
<1>2. /\ Len(t) \in Nat /\ Len(Append(t, e)) = Len(t) + 1
      /\ \A i \in 1..Len(t) : Append(t, e)[i] = t[i]
  BY AppendFacts
<1>3. f \in [1..Len(s) -> 1..Len(Append(t, e))]
  BY <1>1, <1>2
<1>4. \A i \in 1..Len(s) : s[i] = Append(t, e)[f[i]]
  BY <1>1, <1>2
<1>5. QED
  BY <1>1, <1>3, <1>4 DEF IsSubsequence

LEMMA SubsequenceLoses ==
  ASSUME NEW S, NEW s \in Seq(S), NEW t, NEW p \in 1..Len(s), IsSubsequence(s, t)
  PROVE  IsSubsequence(Without(s, p), t)
<1>1. PICK f \in [1..Len(s) -> 1..Len(t)] :
        /\ \A i, j \in 1..Len(s) : i < j => f[i] < f[j]
        /\ \A i \in 1..Len(s) : s[i] = t[f[i]]
  BY DEF IsSubsequence
<1> DEFINE w == Without(s, p)
           g == [i \in 1..Len(s) - 1 |-> IF i < p THEN f[i] ELSE f[i + 1]]
<1>2. Len(s) \in Nat /\ p \in Nat
  BY LenProperties
<1>3. /\ Len(w) = Len(s) - 1
      /\ \A i \in 1..Len(s) - 1 : w[i] = IF i < p THEN s[i] ELSE s[i + 1]
  BY WithoutFacts
<1> HIDE DEF w
<1>4. \A i \in 1..Len(s) - 1 : i \in 1..Len(s) /\ i + 1 \in 1..Len(s)
  BY <1>2
<1>5. \A i \in 1..Len(s) - 1 : g[i] = IF i < p THEN f[i] ELSE f[i + 1]
  OBVIOUS
<1>6. g \in [1..Len(w) -> 1..Len(t)]
  BY <1>3, <1>4
<1> HIDE DEF g
<1>7. ASSUME NEW i \in 1..Len(w), NEW j \in 1..Len(w), i < j
      PROVE  g[i] < g[j]
  <2>1. i \in 1..Len(s) - 1 /\ j \in 1..Len(s) - 1
    BY <1>3
  <2>2. i \in 1..Len(s) /\ i + 1 \in 1..Len(s) /\ j \in 1..Len(s) /\ j + 1 \in 1..Len(s)
    BY <1>4, <2>1
  <2>3. CASE i < p /\ j < p
    BY <1>1, <1>5, <1>7, <2>1, <2>2, <2>3
  <2>4. CASE i < p /\ ~ (j < p)
    <3>1. i < j + 1
      BY <1>7, <2>1
    <3>2. QED
      BY <1>1, <1>5, <2>1, <2>2, <2>4, <3>1
  <2>5. CASE ~ (i < p)
    <3>1. ~ (j < p) /\ i + 1 < j + 1
      BY <1>2, <1>7, <2>1, <2>5
    <3>2. QED
      BY <1>1, <1>5, <2>1, <2>2, <2>5, <3>1
  <2>6. QED
    BY <2>3, <2>4, <2>5
<1>8. ASSUME NEW i \in 1..Len(w)
      PROVE  w[i] = t[g[i]]
  <2>1. i \in 1..Len(s) - 1
    BY <1>3
  <2>2. i \in 1..Len(s) /\ i + 1 \in 1..Len(s)
    BY <1>4, <2>1
  <2>3. CASE i < p
    BY <1>1, <1>3, <1>5, <2>1, <2>2, <2>3
  <2>4. CASE ~ (i < p)
    BY <1>1, <1>3, <1>5, <2>1, <2>2, <2>4
  <2>5. QED
    BY <2>3, <2>4
<1>9. IsSubsequence(w, t)
  BY <1>6, <1>7, <1>8 DEF IsSubsequence
<1>10. QED
  BY <1>9 DEF w

\* The first part of a subsequence is one.
LEMMA SubsequenceCut ==
  ASSUME NEW S, NEW s \in Seq(S), NEW r \in Seq(S), NEW t, IsSubsequence(s \o r, t)
  PROVE  IsSubsequence(s, t)
<1> DEFINE z == s \o r
<1>1. PICK f \in [1..Len(z) -> 1..Len(t)] :
        /\ \A i, j \in 1..Len(z) : i < j => f[i] < f[j]
        /\ \A i \in 1..Len(z) : z[i] = t[f[i]]
  BY DEF IsSubsequence
<1>2. /\ Len(s) \in Nat /\ Len(r) \in Nat
      /\ Len(z) = Len(s) + Len(r)
      /\ \A i \in 1..Len(s) : z[i] = s[i]
  BY ConcatFacts
<1> HIDE DEF z
<1> DEFINE g == [i \in 1..Len(s) |-> f[i]]
<1>3. \A i \in 1..Len(s) : i \in 1..Len(z)
  BY <1>2
<1>4. g \in [1..Len(s) -> 1..Len(t)]
  BY <1>3
<1>5. \A i, j \in 1..Len(s) : i < j => g[i] < g[j]
  BY <1>1, <1>3
<1>6. \A i \in 1..Len(s) : s[i] = t[g[i]]
  BY <1>1, <1>2, <1>3
<1>7. QED
  BY <1>4, <1>5, <1>6 DEF IsSubsequence
-----------------------------------------------------------------------------
\* What the bodies of a queue's chunks are, and how they follow the queue.
LEMMA BodiesFacts ==
  ASSUME NEW q \in Seq(Chunks)
  PROVE  /\ Bodies(q) \in Seq(Seq(Nat))
         /\ Len(q) \in Nat /\ Len(Bodies(q)) = Len(q)
         /\ \A i \in 1..Len(q) : Bodies(q)[i] = Tail(q[i])
<1>1. Len(q) \in Nat
  BY LenProperties
<1>2. ASSUME NEW i \in 1..Len(q)
      PROVE  Tail(q[i]) \in Seq(Nat)
  <2>1. q[i] \in Chunks /\ << >> \in Seq(Nat)
    OBVIOUS
  <2>2. QED
    BY <2>1, PushFacts
<1>3. QED
  BY <1>1, <1>2 DEF Bodies

\* The bodies of a line that gets a chunk.
LEMMA BodiesAppend ==
  ASSUME NEW q \in Seq(Chunks), NEW c \in Chunks
  PROVE  Bodies(Append(q, c)) = Append(Bodies(q), Tail(c))
<1> DEFINE r == Append(q, c)
           b == Bodies(q)
           e == Tail(c)
<1>1. /\ r \in Seq(Chunks) /\ Len(q) \in Nat /\ Len(r) = Len(q) + 1
      /\ \A i \in 1..Len(q) : r[i] = q[i]
      /\ r[Len(q) + 1] = c
  BY AppendFacts
<1> HIDE DEF r
<1>2. /\ Bodies(r) \in Seq(Seq(Nat)) /\ Len(Bodies(r)) = Len(r)
      /\ \A i \in 1..Len(r) : Bodies(r)[i] = Tail(r[i])
  BY <1>1, BodiesFacts
<1>3. /\ b \in Seq(Seq(Nat)) /\ Len(b) = Len(q)
      /\ \A i \in 1..Len(q) : b[i] = Tail(q[i])
  BY BodiesFacts
<1>4. e \in Seq(Nat)
  BY PushFacts, EmptySeq
<1> HIDE DEF b, e
<1>5. /\ Append(b, e) \in Seq(Seq(Nat)) /\ Len(Append(b, e)) = Len(q) + 1
      /\ \A i \in 1..Len(q) : Append(b, e)[i] = b[i]
      /\ Append(b, e)[Len(q) + 1] = e
  BY <1>3, <1>4, AppendFacts
<1>6. ASSUME NEW i \in 1..Len(Bodies(r))
      PROVE  Bodies(r)[i] = Append(b, e)[i]
  <2>1. CASE i \in 1..Len(q)
    <3>1. i \in 1..Len(r)
      BY <1>1, <2>1
    <3>2. QED
      BY <1>1, <1>2, <1>3, <1>5, <2>1, <3>1
  <2>2. CASE i = Len(q) + 1
    BY <1>1, <1>2, <1>5, <2>2 DEF e
  <2>3. i \in 1..Len(q) + 1
    BY <1>1, <1>2
  <2>4. i \in 1..Len(q) \/ i = Len(q) + 1
    BY <1>1, <2>3
  <2>5. QED
    BY <2>1, <2>2, <2>4
<1>7. Bodies(r) = Append(b, e)
  BY <1>1, <1>2, <1>5, <1>6, SeqEqual
<1>8. QED
  BY <1>7 DEF r, b, e

\* The bodies of a line whose first chunk is taken.
LEMMA BodiesTail ==
  ASSUME NEW q \in Seq(Chunks), q # << >>
  PROVE  /\ Bodies(q) # << >>
         /\ Head(Bodies(q)) = Tail(Head(q))
         /\ Bodies(Tail(q)) = Tail(Bodies(q))
<1> DEFINE b == Bodies(q)
           r == Tail(q)
<1>1. /\ b \in Seq(Seq(Nat)) /\ Len(q) \in Nat /\ Len(b) = Len(q)
      /\ \A i \in 1..Len(q) : b[i] = Tail(q[i])
  BY BodiesFacts
<1>2. /\ r \in Seq(Chunks) /\ Len(r) \in Nat /\ Len(q) = Len(r) + 1
      /\ \A i \in 1..Len(r) : r[i] = q[i + 1]
      /\ Head(q) = q[1]
  BY TailFacts
<1> HIDE DEF b, r
<1>3. b # << >>
  BY <1>1, <1>2
<1>4. /\ Tail(b) \in Seq(Seq(Nat)) /\ Len(Tail(b)) \in Nat /\ Len(b) = Len(Tail(b)) + 1
      /\ \A i \in 1..Len(Tail(b)) : Tail(b)[i] = b[i + 1]
      /\ Head(b) = b[1]
  BY <1>1, <1>3, TailFacts
<1>5. /\ Bodies(r) \in Seq(Seq(Nat)) /\ Len(Bodies(r)) = Len(r)
      /\ \A i \in 1..Len(r) : Bodies(r)[i] = Tail(r[i])
  BY <1>2, BodiesFacts
<1>6. ASSUME NEW i \in 1..Len(Bodies(r))
      PROVE  Bodies(r)[i] = Tail(b)[i]
  <2>1. i \in 1..Len(r) /\ i \in 1..Len(Tail(b)) /\ i + 1 \in 1..Len(q)
    BY <1>1, <1>2, <1>4, <1>5
  <2>2. QED
    BY <1>1, <1>2, <1>4, <1>5, <2>1
<1>7. Bodies(r) = Tail(b)
  <2>1. Len(Bodies(r)) = Len(Tail(b))
    BY <1>1, <1>2, <1>4, <1>5
  <2>2. QED
    BY <1>4, <1>5, <1>6, <2>1, SeqEqual
<1>8. Head(b) = Tail(Head(q))
  BY <1>1, <1>2, <1>4
<1>9. QED
  BY <1>3, <1>7, <1>8 DEF b, r

\* The bodies of a line that loses a chunk.
LEMMA BodiesWithout ==
  ASSUME NEW q \in Seq(Chunks), NEW p \in 1..Len(q)
  PROVE  Bodies(Without(q, p)) = Without(Bodies(q), p)
<1> DEFINE b == Bodies(q)
           r == Without(q, p)
<1>1. /\ b \in Seq(Seq(Nat)) /\ Len(q) \in Nat /\ Len(b) = Len(q)
      /\ \A i \in 1..Len(q) : b[i] = Tail(q[i])
  BY BodiesFacts
<1>2. /\ r \in Seq(Chunks) /\ Len(r) = Len(q) - 1
      /\ \A i \in 1..Len(q) - 1 : r[i] = IF i < p THEN q[i] ELSE q[i + 1]
  BY WithoutFacts
<1> HIDE DEF b, r
<1>3. /\ Without(b, p) \in Seq(Seq(Nat)) /\ Len(Without(b, p)) = Len(q) - 1
      /\ \A i \in 1..Len(q) - 1 : Without(b, p)[i] = IF i < p THEN b[i] ELSE b[i + 1]
  <2>1. p \in 1..Len(b)
    BY <1>1
  <2>2. QED
    BY <1>1, <2>1, WithoutFacts
<1>4. /\ Bodies(r) \in Seq(Seq(Nat)) /\ Len(Bodies(r)) = Len(r)
      /\ \A i \in 1..Len(r) : Bodies(r)[i] = Tail(r[i])
  BY <1>2, BodiesFacts
<1>5. ASSUME NEW i \in 1..Len(Bodies(r))
      PROVE  Bodies(r)[i] = Without(b, p)[i]
  <2>1. i \in 1..Len(r) /\ i \in 1..Len(q) - 1 /\ i \in 1..Len(q) /\ i + 1 \in 1..Len(q)
    BY <1>1, <1>2, <1>4
  <2>2. CASE i < p
    BY <1>1, <1>2, <1>3, <1>4, <2>1, <2>2
  <2>3. CASE ~ (i < p)
    BY <1>1, <1>2, <1>3, <1>4, <2>1, <2>3
  <2>4. QED
    BY <2>2, <2>3
<1>6. Bodies(r) = Without(b, p)
  BY <1>2, <1>3, <1>4, <1>5, SeqEqual
<1>7. QED
  BY <1>6 DEF b, r
-----------------------------------------------------------------------------
\* While all datagrams fit one chunk, every chunk under way is final and the
\* reassembler's buffer is empty between two of them.
PlainInv ==
  Unfragmented => buf = << >> /\ \A i \in 1..Len(Line) : Head(Line[i]) = Final

\* What the channel has in transit is the bodies of the line.
LEMMA TransitFacts == TypeInv => Transit = Bodies(Line) /\ Transit \in Seq(Seq(Nat))
BY LineType, BodiesFacts DEF Transit, Line

\* The only chunk of a datagram that fits one.
LEMMA OneChunk ==
  ASSUME NEW d \in Datagrams, Len(d) <= MaxChunk
  PROVE  /\ Chunk(d, 1) \in Chunks
         /\ Head(Chunk(d, 1)) = Final
         /\ Tail(Chunk(d, 1)) = d
         /\ \A q \in Seq(Chunks) : q \o frame(d) = Append(q, Chunk(d, 1))
<1>1. /\ d \in Seq(Nat) /\ Len(d) \in Nat
      /\ frame(d) \in Seq(Chunks)
      /\ Len(frame(d)) = ChunkCount(Len(d))
      /\ \A i \in 1..ChunkCount(Len(d)) : frame(d)[i] = Chunk(d, i)
  BY FrameFacts
<1>2. ChunkCount(Len(d)) = 1 /\ 1 \in 1..ChunkCount(Len(d)) /\ ChunkEnd(Len(d), 1) = Len(d)
  <2>1. ChunkCount(Len(d)) = 1
    BY <1>1, ChunkBounds
  <2>2. 1 \in 1..ChunkCount(Len(d))
    BY <2>1
  <2>3. ChunkEnd(Len(d), 1) = IF 1 = ChunkCount(Len(d)) THEN Len(d) ELSE 1 * MaxChunk
    BY <1>1, <2>2, ChunkBounds
  <2>4. QED
    BY <2>1, <2>2, <2>3
<1> DEFINE c == Chunk(d, 1)
<1>3. /\ Head(c) = IF 1 = ChunkCount(Len(d)) THEN Final ELSE More
      /\ Tail(c) \in Seq(Nat)
      /\ SubSeq(d, 1, (1 - 1) * MaxChunk) \o Tail(c) = SubSeq(d, 1, ChunkEnd(Len(d), 1))
  BY <1>1, <1>2, ChunkFacts
<1>4. frame(d)[1] = c
  BY <1>1, <1>2
<1> HIDE DEF c
<1>5. Tail(c) = d
  <2>1. (1 - 1) * MaxChunk = 0
    BY FramingAssumption
  <2>2. SubSeq(d, 1, 0) = << >>
    BY SubSeqEmpty
  <2>3. << >> \o Tail(c) = Tail(c)
    BY <1>3, ConcatEmptySeq
  <2>4. SubSeq(d, 1, Len(d)) = d
    BY <1>1, SubSeqFull
  <2>5. QED
    BY <1>2, <1>3, <2>1, <2>2, <2>3, <2>4
<1>6. c \in Chunks
  <2>1. 1 \in 1..Len(frame(d))
    BY <1>1, <1>2
  <2>2. QED
    BY <1>1, <1>4, <2>1, ElementOfSeq
<1>7. frame(d) = << c >>
  <2>1. << c >> \in Seq(Chunks) /\ Len(<< c >>) = 1 /\ << c >>[1] = c
    BY <1>6
  <2>2. \A i \in 1..Len(frame(d)) : frame(d)[i] = << c >>[i]
    BY <1>1, <1>2, <1>4, <2>1
  <2>3. QED
    BY <1>1, <1>2, <2>1, <2>2, SeqEqual
<1>8. \A q \in Seq(Chunks) : q \o frame(d) = Append(q, c)
  BY <1>6, <1>7, AppendIsConcat
<1>9. QED
  BY <1>2, <1>3, <1>5, <1>6, <1>8 DEF c

\* A datagram that does not fit one chunk stays in the history.
LEMMA UnfragmentedBefore ==
  ASSUME TypeInv, [Next]_vars, Unfragmented'
  PROVE  /\ Unfragmented
         /\ \A d \in Datagrams : sent' = Append(sent, d) => Len(d) <= MaxChunk
<1>1. sent \in Seq(Datagrams) /\ sent' \in Seq(Datagrams) /\ Len(sent) \in Nat
  BY TypeStep, LenProperties DEF TypeInv
<1>2. \A i \in 1..Len(sent') : Len(sent'[i]) <= MaxChunk
  BY DEF Unfragmented
<1>3. ASSUME NEW d \in Datagrams, sent' = Append(sent, d)
      PROVE  Unfragmented /\ Len(d) <= MaxChunk
  <2>1. /\ Len(sent') = Len(sent) + 1
        /\ \A i \in 1..Len(sent) : sent'[i] = sent[i]
        /\ sent'[Len(sent) + 1] = d
    BY <1>1, <1>3, AppendFacts
  <2>2. Len(sent) + 1 \in 1..Len(sent') /\ \A i \in 1..Len(sent) : i \in 1..Len(sent')
    BY <1>1, <2>1
  <2>3. QED
    BY <1>2, <2>1, <2>2 DEF Unfragmented
<1>4. CASE sent' = sent
  <2>1. \A d \in Datagrams : sent' # Append(sent, d)
    BY <1>1, <1>4, AppendFacts
  <2>2. QED
    BY <1>4, <2>1 DEF Unfragmented
<1>5. sent' = sent \/ \E d \in Datagrams : sent' = Append(sent, d)
  BY LineSteps DEF Enters, Skips, Drops, Leaves, Moves
<1>6. QED
  BY <1>3, <1>4, <1>5

\* Every step keeps the chunks of unfragmented datagrams final.
LEMMA PlainKept ==
  ASSUME TypeInv, PlainInv, [Next]_vars
  PROVE  PlainInv'
<1> SUFFICES ASSUME Unfragmented'
             PROVE  buf' = << >> /\ \A i \in 1..Len(Line') : Head(Line'[i]) = Final
  BY DEF PlainInv
<1>1. buf = << >> /\ (\A i \in 1..Len(Line) : Head(Line[i]) = Final)
  BY UnfragmentedBefore DEF PlainInv
<1>2. Line \in Seq(Chunks) /\ Len(Line) \in Nat
  BY LineType
<1>3. ASSUME NEW d \in Datagrams, Enters(d)
      PROVE  buf' = << >> /\ \A i \in 1..Len(Line') : Head(Line'[i]) = Final
  <2>1. sent' = Append(sent, d) /\ Line' = Line \o frame(d) /\ buf' = buf
    BY <1>3 DEF Enters
  <2>2. Len(d) <= MaxChunk
    BY <2>1, UnfragmentedBefore
  <2>3. Chunk(d, 1) \in Chunks /\ Head(Chunk(d, 1)) = Final /\ Line' = Append(Line, Chunk(d, 1))
    BY <1>2, <2>1, <2>2, OneChunk
  <2>4. /\ Len(Line') = Len(Line) + 1
        /\ \A i \in 1..Len(Line) : Line'[i] = Line[i]
        /\ Line'[Len(Line) + 1] = Chunk(d, 1)
    BY <1>2, <2>3, AppendFacts
  <2>5. ASSUME NEW i \in 1..Len(Line')
        PROVE  Head(Line'[i]) = Final
    <3>1. i \in 1..Len(Line) \/ i = Len(Line) + 1
      BY <1>2, <2>4
    <3>2. QED
      BY <1>1, <2>3, <2>4, <3>1
  <2>6. QED
    BY <1>1, <2>1, <2>5
<1>4. ASSUME NEW p \in 1..Len(Line), Drops(p)
      PROVE  buf' = << >> /\ \A i \in 1..Len(Line') : Head(Line'[i]) = Final
  <2>1. Line' = Without(Line, p) /\ buf' = buf
    BY <1>4 DEF Drops
  <2>2. /\ Len(Without(Line, p)) = Len(Line) - 1
        /\ \A i \in 1..Len(Line) - 1 : Without(Line, p)[i] = IF i < p THEN Line[i] ELSE Line[i + 1]
    BY <1>2, WithoutFacts
  <2>3. ASSUME NEW i \in 1..Len(Line')
        PROVE  Head(Line'[i]) = Final
    <3>1. i \in 1..Len(Line) - 1 /\ i \in 1..Len(Line) /\ i + 1 \in 1..Len(Line)
      BY <1>2, <2>1, <2>2
    <3>2. CASE i < p
      BY <1>1, <2>1, <2>2, <3>1, <3>2
    <3>3. CASE ~ (i < p)
      BY <1>1, <2>1, <2>2, <3>1, <3>3
    <3>4. QED
      BY <3>2, <3>3
  <2>4. QED
    BY <1>1, <2>1, <2>3
<1>5. ASSUME Leaves
      PROVE  buf' = << >> /\ \A i \in 1..Len(Line') : Head(Line'[i]) = Final
  <2>1. Line # << >> /\ Line' = Tail(Line) /\ buf' = push(buf, Head(Line)).buf
    BY <1>5 DEF Leaves
  <2>2. /\ Len(Tail(Line)) \in Nat /\ Len(Line) = Len(Tail(Line)) + 1
        /\ \A i \in 1..Len(Tail(Line)) : Tail(Line)[i] = Line[i + 1]
        /\ Head(Line) = Line[1] /\ Head(Line) \in Chunks
    BY <1>2, <2>1, TailFacts
  <2>3. 1 \in 1..Len(Line) /\ \A i \in 1..Len(Tail(Line)) : i + 1 \in 1..Len(Line)
    BY <2>2
  <2>4. Head(Head(Line)) = Final
    BY <1>1, <2>2, <2>3
  <2>5. push(buf, Head(Line)).buf = << >>
    <3>1. buf \in Seq(Nat)
      BY DEF TypeInv
    <3>2. push(buf, Head(Line)).buf = IF Head(Head(Line)) = Final THEN << >> ELSE buf \o Tail(Head(Line))
      BY <2>2, <3>1, PushFacts
    <3>3. QED
      BY <2>4, <3>2
  <2>6. QED
    BY <1>1, <2>1, <2>2, <2>3, <2>5
<1>6. ASSUME NEW d \in Datagrams, Skips(d)
      PROVE  buf' = << >> /\ \A i \in 1..Len(Line') : Head(Line'[i]) = Final
  BY <1>1, <1>6 DEF Skips
<1>7. CASE Moves
  BY <1>1, <1>7 DEF Moves
<1>8. QED
  BY <1>3, <1>4, <1>5, <1>6, <1>7, LineSteps

\* Each step of the direction is a step of the channel, or none.
LEMMA ChannelSteps ==
  ASSUME TypeInv, PlainInv, [Next]_vars, Unfragmented'
  PROVE  \/ \E d \in Datagrams : Channel!Send(d) \/ Channel!Discard(d)
         \/ \E p \in 1..Len(Transit) : Channel!Lose(p)
         \/ Channel!Deliver
         \/ UNCHANGED << sent, Transit, delivered >>
<1>1. buf = << >> /\ \A i \in 1..Len(Line) : Head(Line[i]) = Final
  BY UnfragmentedBefore DEF PlainInv
<1>2. /\ Line \in Seq(Chunks) /\ Len(Line) \in Nat
      /\ Transit = Bodies(Line) /\ Transit' = Bodies(Line')
  <2>1. Transit' = Bodies(Line')
    BY DEF Transit, Line
  <2>2. QED
    BY <2>1, LineType, TransitFacts
<1>3. ASSUME NEW d \in Datagrams, Enters(d)
      PROVE  Channel!Send(d)
  <2>1. sent' = Append(sent, d) /\ Line' = Line \o frame(d) /\ delivered' = delivered
    BY <1>3 DEF Enters
  <2>2. Len(d) <= MaxChunk
    BY <2>1, UnfragmentedBefore
  <2>3. Chunk(d, 1) \in Chunks /\ Tail(Chunk(d, 1)) = d /\ Line' = Append(Line, Chunk(d, 1))
    BY <1>2, <2>1, <2>2, OneChunk
  <2>4. Bodies(Line') = Append(Bodies(Line), d)
    BY <1>2, <2>3, BodiesAppend
  <2>5. QED
    BY <1>2, <2>1, <2>4 DEF Channel!Send
<1>4. ASSUME NEW p \in 1..Len(Line), Drops(p)
      PROVE  p \in 1..Len(Transit) /\ Channel!Lose(p)
  <2>1. Line' = Without(Line, p) /\ UNCHANGED << sent, delivered >>
    BY <1>4 DEF Drops
  <2>2. Bodies(Line') = Without(Bodies(Line), p) /\ Len(Bodies(Line)) = Len(Line)
    BY <1>2, <2>1, BodiesWithout, BodiesFacts
  <2>3. QED
    BY <1>2, <2>1, <2>2 DEF Channel!Lose, Without
<1>5. ASSUME Leaves
      PROVE  Channel!Deliver
  <2> DEFINE c == Head(Line)
  <2>1. Line # << >> /\ Line' = Tail(Line) /\ delivered' = delivered \o push(buf, c).out /\ sent' = sent
    BY <1>5 DEF Leaves
  <2>2. c = Line[1] /\ c \in Chunks /\ 1 \in 1..Len(Line)
    BY <1>2, <2>1, TailFacts
  <2>3. Head(c) = Final
    BY <1>1, <2>2
  <2>4. Bodies(Line) # << >> /\ Head(Bodies(Line)) = Tail(c) /\ Bodies(Line') = Tail(Bodies(Line))
    BY <1>2, <2>1, BodiesTail
  <2> HIDE DEF c
  <2>5. push(buf, c).out = << Tail(c) >> /\ Tail(c) \in Seq(Nat)
    <3>1. buf \in Seq(Nat)
      BY DEF TypeInv
    <3>2. /\ Tail(c) \in Seq(Nat) /\ Len(Tail(c)) <= MaxChunk
          /\ push(buf, c).out = IF Head(c) = Final /\ Len(buf \o Tail(c)) <= MaxDatagram
                                THEN << buf \o Tail(c) >> ELSE << >>
      BY <2>2, <3>1, PushFacts
    <3>3. buf \o Tail(c) = Tail(c)
      BY <1>1, <3>2, ConcatEmptySeq
    <3>4. Len(Tail(c)) <= MaxDatagram
      <4>1. Len(Tail(c)) \in Nat
        BY <3>2, LenProperties
      <4>2. QED
        BY <3>2, <4>1, FramingAssumption
    <3>5. QED
      BY <2>3, <3>2, <3>3, <3>4
  <2>6. delivered' = Append(delivered, Tail(c))
    <3>1. delivered \in Seq(Seq(Nat))
      BY DEF TypeInv
    <3>2. QED
      BY <2>1, <2>5, <3>1, AppendIsConcat
  <2>7. QED
    BY <1>2, <2>1, <2>4, <2>6 DEF Channel!Deliver
<1>6. ASSUME NEW d \in Datagrams, Skips(d)
      PROVE  Channel!Discard(d)
  BY <1>2, <1>6 DEF Skips, Channel!Discard
<1>7. CASE Moves
  BY <1>2, <1>7 DEF Moves
<1>8. QED
  BY <1>3, <1>4, <1>5, <1>6, <1>7, LineSteps

\* At the start nothing is under way, here or in the channel.
LEMMA PlainInit == Init => PlainInv /\ Channel!Init
<1> SUFFICES ASSUME Init
             PROVE  PlainInv /\ Channel!Init
  OBVIOUS
<1>1. /\ sent = << >> /\ commands = << >> /\ events = << >> /\ channel = << >>
      /\ buf = << >> /\ delivered = << >>
  BY DEF Init
<1>2. Line = << >> /\ Len(Line) = 0
  BY <1>1 DEF Line
<1>3. Transit = << >>
  <2>1. TypeInv
    BY TypeInit
  <2>2. Transit = Bodies(Line) /\ Transit \in Seq(Seq(Nat)) /\ Len(Bodies(Line)) = 0
    BY <1>2, <2>1, TransitFacts, LineType, BodiesFacts
  <2>3. QED
    BY <2>2, EmptySeq
<1>4. QED
  BY <1>1, <1>2, <1>3 DEF PlainInv, Channel!Init

\* A direction that carries datagrams of one chunk only is a lossy channel in
\* order, for any datagrams, MDU and capacity (relay.rs, both directions).
THEOREM Refines == Spec => ImplementsChannel
<1>1. TypeInv /\ PlainInv /\ [Next]_vars => TypeInv' /\ PlainInv'
  BY TypeStep, PlainKept
<1>2. TypeInv /\ PlainInv /\ [Next]_vars => [Unfragmented' => Channel!Next]_(Channel!vars)
  <2> SUFFICES ASSUME TypeInv, PlainInv, [Next]_vars, Unfragmented',
                      ~ UNCHANGED << sent, Transit, delivered >>
               PROVE  Channel!Next
    BY DEF Channel!vars
  <2>1. QED
    BY ChannelSteps DEF Channel!Next
<1>3. QED
  BY <1>1, <1>2, TypeInit, PlainInit, PTL DEF Spec, ImplementsChannel
-----------------------------------------------------------------------------
\* What has come out and what is still under way, in this order, is what went
\* in with some datagrams left out.
OrderInv == Unfragmented => IsSubsequence(delivered \o Transit, sent)

\* The order holds at the start.
LEMMA OrderInit == Init => OrderInv
<1> SUFFICES ASSUME Init
             PROVE  IsSubsequence(delivered \o Transit, sent)
  BY DEF OrderInv
<1>1. sent = << >> /\ delivered = << >> /\ Transit = << >>
  BY PlainInit DEF Init, Channel!Init
<1>2. << >> \o << >> = << >> /\ 1..Len(<< >>) = {}
  OBVIOUS
<1>3. \A t : IsSubsequence(<< >>, t)
  <2> TAKE t
  <2> DEFINE f == [i \in {} |-> i]
  <2>1. f \in [1..Len(<< >>) -> 1..Len(t)]
    BY <1>2
  <2>2. \A i \in 1..Len(<< >>) : FALSE
    BY <1>2
  <2> HIDE DEF f
  <2>3. QED
    BY <2>1, <2>2 DEF IsSubsequence
<1>4. QED
  BY <1>1, <1>2, <1>3

\* Every step keeps the order.
LEMMA OrderKept ==
  ASSUME TypeInv, PlainInv, OrderInv, [Next]_vars
  PROVE  OrderInv'
<1> SUFFICES ASSUME Unfragmented'
             PROVE  IsSubsequence(delivered' \o Transit', sent')
  BY DEF OrderInv
<1> DEFINE S == Seq(Nat)
<1>1. IsSubsequence(delivered \o Transit, sent)
  BY UnfragmentedBefore DEF OrderInv
<1>2. delivered \in Seq(S) /\ Transit \in Seq(S)
  BY TransitFacts DEF TypeInv
<1>3. sent \in Seq(S) /\ \A d \in Datagrams : d \in S
  <2>1. Datagrams \subseteq S
    BY PipeAssumption
  <2>2. sent \in Seq(Datagrams)
    BY DEF TypeInv
  <2>3. QED
    BY <2>1, <2>2, SeqMonotonic
<1> HIDE DEF S
<1>4. delivered \o Transit \in Seq(S)
  BY <1>2, ConcatProperties
<1>5. ASSUME NEW d \in Datagrams, Channel!Send(d)
      PROVE  IsSubsequence(delivered' \o Transit', sent')
  <2>1. sent' = Append(sent, d) /\ Transit' = Append(Transit, d) /\ delivered' = delivered
    BY <1>5 DEF Channel!Send
  <2>2. delivered \o Append(Transit, d) = Append(delivered \o Transit, d)
    BY <1>2, <1>3, AppendToBoth
  <2>3. IsSubsequence(Append(delivered \o Transit, d), Append(sent, d))
    BY <1>1, <1>3, <1>4, SubsequenceGrows
  <2>4. QED
    BY <2>1, <2>2, <2>3
<1>6. ASSUME NEW p \in 1..Len(Transit), Channel!Lose(p)
      PROVE  IsSubsequence(delivered' \o Transit', sent')
  <2>1. sent' = sent /\ Transit' = Without(Transit, p) /\ delivered' = delivered
    BY <1>6 DEF Channel!Lose, Without
  <2>2. /\ Len(delivered) + p \in 1..Len(delivered \o Transit)
        /\ delivered \o Without(Transit, p) = Without(delivered \o Transit, Len(delivered) + p)
    BY <1>2, WithoutSecond
  <2>3. IsSubsequence(Without(delivered \o Transit, Len(delivered) + p), sent)
    BY <1>1, <1>4, <2>2, SubsequenceLoses
  <2>4. QED
    BY <2>1, <2>2, <2>3
<1>7. ASSUME Channel!Deliver
      PROVE  IsSubsequence(delivered' \o Transit', sent')
  <2>1. /\ Transit # << >> /\ sent' = sent /\ Transit' = Tail(Transit)
        /\ delivered' = Append(delivered, Head(Transit))
    BY <1>7 DEF Channel!Deliver
  <2>2. Append(delivered, Head(Transit)) \o Tail(Transit) = delivered \o Transit
    BY <1>2, <2>1, MoveHead
  <2>3. QED
    BY <1>1, <2>1, <2>2
<1>8. ASSUME NEW d \in Datagrams, Channel!Discard(d)
      PROVE  IsSubsequence(delivered' \o Transit', sent')
  <2>1. sent' = Append(sent, d) /\ Transit' = Transit /\ delivered' = delivered
    BY <1>8 DEF Channel!Discard
  <2>2. IsSubsequence(delivered \o Transit, Append(sent, d))
    BY <1>1, <1>3, <1>4, SubsequenceExtends
  <2>3. QED
    BY <2>1, <2>2
<1>9. CASE UNCHANGED << sent, Transit, delivered >>
  BY <1>1, <1>9
<1>10. QED
  BY <1>5, <1>6, <1>7, <1>8, <1>9, ChannelSteps

\* Datagrams of one chunk come out in order and none twice, whatever the link,
\* the engine and the channel drop.
THEOREM InOrder == Spec => []DeliveredInOrder
<1>1. TypeInv /\ PlainInv /\ OrderInv /\ [Next]_vars => TypeInv' /\ PlainInv' /\ OrderInv'
  BY TypeStep, PlainKept, OrderKept
<1>2. TypeInv /\ OrderInv => DeliveredInOrder
  <2> SUFFICES ASSUME TypeInv, OrderInv, Unfragmented
               PROVE  IsSubsequence(delivered, sent)
    BY DEF DeliveredInOrder
  <2>1. delivered \in Seq(Seq(Nat)) /\ Transit \in Seq(Seq(Nat))
    BY TransitFacts DEF TypeInv
  <2>2. IsSubsequence(delivered \o Transit, sent)
    BY DEF OrderInv
  <2>3. QED
    BY <2>1, <2>2, SubsequenceCut
<1>3. QED
  BY <1>1, <1>2, TypeInit, PlainInit, OrderInit, PTL DEF Spec
-----------------------------------------------------------------------------
\* What a chunk makes of a buffer that holds the chunks before it.
LEMMA PushNext ==
  ASSUME NEW d \in Datagrams, NEW i \in 1..ChunkCount(Len(d)), NEW b,
         b = IF i = 1 THEN << >> ELSE SubSeq(d, 1, (i - 1) * MaxChunk)
  PROVE  /\ Chunk(d, i) \in Chunks
         /\ i = ChunkCount(Len(d)) =>
              push(b, Chunk(d, i)).buf = << >> /\ push(b, Chunk(d, i)).out = << d >>
         /\ i # ChunkCount(Len(d)) =>
              /\ push(b, Chunk(d, i)).buf = SubSeq(d, 1, i * MaxChunk)
              /\ push(b, Chunk(d, i)).out = << >>
<1> DEFINE c == Chunk(d, i)
           e == ChunkEnd(Len(d), i)
           last == i = ChunkCount(Len(d))
<1>1. /\ d \in Seq(Nat) /\ Len(d) \in Nat /\ Len(d) <= MaxDatagram
      /\ frame(d) \in Seq(Chunks) /\ Len(frame(d)) = ChunkCount(Len(d))
      /\ frame(d)[i] = c
  BY FrameFacts
<1>2. /\ Head(c) = IF last THEN Final ELSE More
      /\ SubSeq(d, 1, (i - 1) * MaxChunk) \o Tail(c) = SubSeq(d, 1, e)
  BY <1>1, ChunkFacts
<1>3. /\ (i - 1) * MaxChunk \in 0..Len(d)
      /\ e = IF last THEN Len(d) ELSE i * MaxChunk
  BY <1>1, ChunkBounds
<1>4. b = SubSeq(d, 1, (i - 1) * MaxChunk) /\ b \in Seq(Nat)
  <2> DEFINE a == (i - 1) * MaxChunk
  <2>1. i = 1 => a = 0
    BY FramingAssumption
  <2>2. a \in 0..Len(d)
    BY <1>3
  <2> HIDE DEF a
  <2>3. SubSeq(d, 1, a) \in Seq(Nat)
    BY <1>1, <2>2, SubSeqProperties
  <2>4. SubSeq(d, 1, 0) = << >>
    BY SubSeqEmpty
  <2>5. QED
    BY <2>1, <2>3, <2>4 DEF a
<1>5. c \in Chunks
  BY <1>1, ElementOfSeq
<1>6. b \o Tail(c) = SubSeq(d, 1, e)
  BY <1>2, <1>4
<1> HIDE DEF c, e
<1>7. /\ push(b, c).buf = IF Head(c) = Final THEN << >> ELSE b \o Tail(c)
      /\ push(b, c).out = IF Head(c) = Final /\ Len(b \o Tail(c)) <= MaxDatagram
                          THEN << b \o Tail(c) >> ELSE << >>
  BY <1>4, <1>5, PushFacts
<1>8. CASE last
  <2>1. b \o Tail(c) = d
    BY <1>1, <1>3, <1>6, <1>8, SubSeqFull
  <2>2. push(b, c).buf = << >> /\ push(b, c).out = << d >>
    BY <1>1, <1>2, <1>7, <1>8, <2>1
  <2>3. QED
    BY <1>5, <1>8, <2>2 DEF c
<1>9. CASE ~ last
  <2>1. Head(c) # Final
    BY <1>2, <1>9 DEF Final, More
  <2>2. push(b, c).buf = SubSeq(d, 1, i * MaxChunk) /\ push(b, c).out = << >>
    BY <1>3, <1>6, <1>7, <1>9, <2>1
  <2>3. QED
    BY <1>5, <1>9, <2>2 DEF c
<1>10. QED
  BY <1>8, <1>9

\* While nothing was lost, each chunk on the line is the next one of the
\* datagrams sent: who[j] and idx[j] are the datagram and the place of chunk j,
\* and one more pair names the chunk to be sent next.
Tags(line, s, who, idx) ==
  /\ who \in [1..Len(line) + 1 -> Nat] /\ idx \in [1..Len(line) + 1 -> Nat]
  /\ who[Len(line) + 1] = Len(s) + 1 /\ idx[Len(line) + 1] = 1
  /\ \A j \in 1..Len(line) :
       /\ who[j] \in 1..Len(s)
       /\ idx[j] \in 1..ChunkCount(Len(s[who[j]]))
       /\ line[j] = Chunk(s[who[j]], idx[j])
       /\ idx[j] = ChunkCount(Len(s[who[j]])) => who[j + 1] = who[j] + 1 /\ idx[j + 1] = 1
       /\ idx[j] # ChunkCount(Len(s[who[j]])) => who[j + 1] = who[j] /\ idx[j + 1] = idx[j] + 1

\* The relay task has taken exactly what precedes chunk i of datagram k.
Taken(s, out, b, k, i) ==
  /\ k \in 1..Len(s) + 1
  /\ i = 1 \/ k \in 1..Len(s)
  /\ out = SubSeq(s, 1, k - 1)
  /\ b = IF i = 1 THEN << >> ELSE SubSeq(s[k], 1, (i - 1) * MaxChunk)

\* s is what sent carries: g tells the place in sent of each datagram of s.
Carries(s, g) ==
  /\ s \in Seq(Datagrams)
  /\ g \in [1..Len(s) -> Carried]
  /\ \A i, j \in 1..Len(s) : i < j => g[i] < g[j]
  /\ \A i \in 1..Len(s) : s[i] = sent[g[i]]
  /\ \A k \in Carried : \E i \in 1..Len(s) : k = g[i]

\* The relay task of a client's source frames one packet before the others.
FirstInv == pump = "first" <=> sent = << >> /\ pump # "from_sc"

LosslessInv ==
  /\ FirstInv
  /\ dropped = 0 =>
       \E s, g, who, idx :
         /\ Carries(s, g)
         /\ Tags(Line, s, who, idx)
         /\ Taken(s, delivered, buf, who[1], idx[1])

\* What is carried once another datagram has been read: that one too, if it is
\* framed.
LEMMA CarriedAfter ==
  ASSUME TypeInv, FirstInv, NEW d \in Datagrams,
         sent' = Append(sent, d), pump' = PumpAfter(d)
  PROVE  /\ Carried' = IF Frames(d) THEN Carried \cup {Len(sent) + 1} ELSE Carried
         /\ FirstInv'
<1>1. /\ sent \in Seq(Datagrams) /\ Len(sent) \in Nat
      /\ Len(sent') = Len(sent) + 1
      /\ \A i \in 1..Len(sent) : sent'[i] = sent[i]
      /\ sent'[Len(sent) + 1] = d
  BY AppendFacts, LenProperties DEF TypeInv
<1>2. sent' # << >>
  BY <1>1
<1>3. pump' # "first"
  BY DEF PumpAfter
<1>4. pump' = "from_sc" <=> pump = "from_sc"
  BY DEF PumpAfter
<1>5. FirstInv'
  BY <1>2, <1>3 DEF FirstInv
<1>6. Len(sent) = 0 <=> sent = << >>
  BY <1>1
<1>7. ASSUME NEW k \in 1..Len(sent)
      PROVE  k \in Carried' <=> k \in Carried
  <2>1. k \in 1..Len(sent')
    BY <1>1
  <2>2. QED
    BY <1>1, <1>4, <2>1 DEF Carried
<1>8. Len(sent) + 1 \in Carried' <=> Frames(d)
  <2>1. Len(sent) + 1 \in 1..Len(sent')
    BY <1>1
  <2>2. Len(sent) + 1 \in Carried' <=> d # << >> \/ (Len(sent) = 0 /\ pump # "from_sc")
    BY <1>1, <1>4, <2>1 DEF Carried
  <2>3. pump = "first" <=> Len(sent) = 0 /\ pump # "from_sc"
    BY <1>6 DEF FirstInv
  <2>4. QED
    BY <2>2, <2>3 DEF Frames
<1>9. Carried \subseteq 1..Len(sent) /\ Carried' \subseteq 1..Len(sent')
  BY DEF Carried
<1>10. \A k \in 1..Len(sent') : k \in 1..Len(sent) \/ k = Len(sent) + 1
  BY <1>1
<1>11. Len(sent) + 1 \notin 1..Len(sent)
  BY <1>1
<1>12. Carried' = IF Frames(d) THEN Carried \cup {Len(sent) + 1} ELSE Carried
  <2> DEFINE n == Len(sent) + 1
             S == 1..Len(sent)
  <2>1. \A k \in S : k \in Carried' <=> k \in Carried
    BY <1>7
  <2>2. n \in Carried' <=> Frames(d)
    BY <1>8
  <2>3. Carried \subseteq S /\ n \notin S /\ \A k \in Carried' : k \in S \/ k = n
    BY <1>9, <1>10, <1>11
  <2> HIDE DEF n, S
  <2>4. CASE Frames(d)
    <3>1. Carried' = Carried \cup {n}
      BY <2>1, <2>2, <2>3, <2>4
    <3>2. QED
      BY <2>4, <3>1 DEF n
  <2>5. CASE ~ Frames(d)
    <3>1. Carried' = Carried
      BY <2>1, <2>2, <2>3, <2>5
    <3>2. QED
      BY <2>5, <3>1
  <2>6. QED
    BY <2>4, <2>5
<1>13. QED
  BY <1>5, <1>12

\* A datagram that is framed joins what is carried.
LEMMA CarriesEnter ==
  ASSUME TypeInv, FirstInv, NEW d \in Datagrams, Enters(d), NEW s, NEW g, Carries(s, g)
  PROVE  \E h : Carries(Append(s, d), h)'
<1> DEFINE l == Len(s)
           n == Len(sent) + 1
           r == Append(s, d)
           h == [i \in 1..l + 1 |-> IF i <= l THEN g[i] ELSE n]
<1>1. /\ sent \in Seq(Datagrams) /\ Len(sent) \in Nat
      /\ sent' = Append(sent, d) /\ pump' = PumpAfter(d) /\ Frames(d)
  BY LenProperties DEF TypeInv, Enters
<1>2. /\ \A i \in 1..Len(sent) : sent'[i] = sent[i]
      /\ sent'[n] = d
  BY <1>1, AppendFacts
<1>3. Carried' = Carried \cup {n} /\ Carried \subseteq 1..Len(sent)
  <2>1. Carried' = Carried \cup {n}
    BY <1>1, CarriedAfter
  <2>2. QED
    BY <2>1 DEF Carried
<1>4. /\ s \in Seq(Datagrams) /\ g \in [1..l -> Carried]
      /\ \A i, j \in 1..l : i < j => g[i] < g[j]
      /\ \A i \in 1..l : s[i] = sent[g[i]]
      /\ \A k \in Carried : \E i \in 1..l : k = g[i]
  BY DEF Carries
<1>5. /\ l \in Nat /\ r \in Seq(Datagrams) /\ Len(r) = l + 1
      /\ \A i \in 1..l : r[i] = s[i]
      /\ r[l + 1] = d
  BY <1>4, AppendFacts, LenProperties
<1> HIDE DEF r, l, n
<1>6. /\ \A i \in 1..l : i \in 1..l + 1 /\ h[i] = g[i]
      /\ l + 1 \in 1..l + 1 /\ h[l + 1] = n
  BY <1>5
<1>7. \A i \in 1..l + 1 : i \in 1..l \/ i = l + 1
  BY <1>5
<1>8. h \in [1..l + 1 -> Carried \cup {n}]
  <2>1. \A i \in 1..l + 1 : (IF i <= l THEN g[i] ELSE n) \in Carried \cup {n}
    <3>1. \A i \in 1..l + 1 : i <= l => i \in 1..l
      BY <1>5
    <3>2. QED
      BY <1>4, <3>1
  <2>2. QED
    BY <2>1
<1> HIDE DEF h
<1>9. ASSUME NEW i \in 1..l + 1, NEW j \in 1..l + 1, i < j
      PROVE  h[i] < h[j]
  <2>1. i \in 1..l
    BY <1>5, <1>9
  <2>2. CASE j \in 1..l
    BY <1>4, <1>6, <1>9, <2>1, <2>2
  <2>3. CASE j = l + 1
    <3>1. g[i] \in 1..Len(sent)
      BY <1>3, <1>4, <2>1
    <3>2. g[i] < n
      BY <1>1, <3>1 DEF n
    <3>3. QED
      BY <1>6, <2>1, <2>3, <3>2
  <2>4. QED
    BY <1>7, <2>2, <2>3
<1>10. \A i \in 1..l + 1 : r[i] = sent'[h[i]]
  <2>1. \A i \in 1..l : sent'[g[i]] = sent[g[i]]
    BY <1>2, <1>3, <1>4
  <2>2. QED
    BY <1>2, <1>4, <1>5, <1>6, <1>7, <2>1
<1>11. \A k \in Carried' : \E i \in 1..l + 1 : k = h[i]
  BY <1>3, <1>4, <1>6
<1>12. h \in [1..l + 1 -> Carried']
  BY <1>3, <1>8
<1>13. \E x :
         /\ x \in [1..l + 1 -> Carried']
         /\ \A i, j \in 1..l + 1 : i < j => x[i] < x[j]
         /\ \A i \in 1..l + 1 : r[i] = sent'[x[i]]
         /\ \A k \in Carried' : \E i \in 1..l + 1 : k = x[i]
  BY <1>9, <1>10, <1>11, <1>12
<1>14. PICK x :
         /\ x \in [1..Len(r) -> Carried']
         /\ \A i, j \in 1..Len(r) : i < j => x[i] < x[j]
         /\ \A i \in 1..Len(r) : r[i] = sent'[x[i]]
         /\ \A k \in Carried' : \E i \in 1..Len(r) : k = x[i]
  BY <1>5, <1>13
<1>15. r \in Seq(Datagrams)
  BY <1>5
<1>16. Carries(Append(s, d), x)'
  BY <1>14, <1>15 DEF Carries, r
<1>17. QED
  BY <1>16

\* A datagram enters the line behind what is tagged.
LEMMA TagsEnter ==
  ASSUME NEW s \in Seq(Datagrams), NEW line \in Seq(Chunks), NEW who, NEW idx,
         Tags(line, s, who, idx), NEW d \in Datagrams
  PROVE  \E w, x : Tags(line \o frame(d), Append(s, d), w, x) /\ w[1] = who[1] /\ x[1] = idx[1]
<1> DEFINE l == Len(line)
           n == Len(s)
           c == ChunkCount(Len(d))
           L == line \o frame(d)
           r == Append(s, d)
           w == [j \in 1..l + c + 1 |-> IF j <= l THEN who[j] ELSE IF j <= l + c THEN n + 1 ELSE n + 2]
           x == [j \in 1..l + c + 1 |-> IF j <= l THEN idx[j] ELSE IF j <= l + c THEN j - l ELSE 1]
<1>1. /\ Len(d) \in Nat /\ frame(d) \in Seq(Chunks) /\ Len(frame(d)) = c
      /\ \A i \in 1..c : frame(d)[i] = Chunk(d, i)
  BY FrameFacts
<1>2. c \in Nat /\ c >= 1
  <2>1. c \in Nat \ {0}
    BY <1>1, ChunkBounds
  <2>2. QED
    BY <2>1
<1>3. /\ l \in Nat /\ Len(L) = l + c
      /\ \A j \in 1..l : L[j] = line[j]
      /\ \A j \in l + 1..l + c : L[j] = frame(d)[j - l]
  <2> HIDE DEF c
  <2>1. frame(d) \in Seq(Chunks)
    BY <1>1
  <2>2. /\ Len(line) \in Nat
        /\ Len(line \o frame(d)) = Len(line) + Len(frame(d))
        /\ \A j \in 1..Len(line) : (line \o frame(d))[j] = line[j]
        /\ \A j \in (Len(line) + 1)..(Len(line) + Len(frame(d))) :
             (line \o frame(d))[j] = frame(d)[j - Len(line)]
    BY <2>1, ConcatFacts
  <2>3. QED
    BY <1>1, <2>2
<1>4. n \in Nat /\ Len(r) = n + 1 /\ (\A k \in 1..n : r[k] = s[k]) /\ r[n + 1] = d
  BY AppendFacts
<1>5. /\ who \in [1..l + 1 -> Nat] /\ idx \in [1..l + 1 -> Nat]
      /\ who[l + 1] = n + 1 /\ idx[l + 1] = 1
      /\ \A j \in 1..l :
           /\ who[j] \in 1..n
           /\ idx[j] \in 1..ChunkCount(Len(s[who[j]]))
           /\ line[j] = Chunk(s[who[j]], idx[j])
           /\ idx[j] = ChunkCount(Len(s[who[j]])) => who[j + 1] = who[j] + 1 /\ idx[j + 1] = 1
           /\ idx[j] # ChunkCount(Len(s[who[j]])) => who[j + 1] = who[j] /\ idx[j + 1] = idx[j] + 1
  BY DEF Tags
<1> HIDE DEF l, n, c, L, r
<1>6. \A j \in 1..l + 1 : j \in 1..l + c + 1 /\ w[j] = who[j] /\ x[j] = idx[j]
  <2> SUFFICES ASSUME NEW j \in 1..l + 1
               PROVE  j \in 1..l + c + 1 /\ w[j] = who[j] /\ x[j] = idx[j]
    OBVIOUS
  <2>1. j \in 1..l + c + 1
    BY <1>2, <1>3
  <2>2. CASE j <= l
    BY <2>1, <2>2
  <2>3. CASE ~ (j <= l)
    <3>1. j = l + 1 /\ j <= l + c /\ j - l = 1
      BY <1>2, <1>3, <2>3
    <3>2. QED
      BY <1>5, <2>1, <2>3, <3>1
  <2>4. QED
    BY <2>2, <2>3, <2>1
<1>7. \A j \in l + 1..l + c : w[j] = n + 1 /\ x[j] = j - l
  BY <1>2, <1>3
<1>8. w[l + c + 1] = n + 2 /\ x[l + c + 1] = 1
  BY <1>2, <1>3
<1>9. w \in [1..l + c + 1 -> Nat] /\ x \in [1..l + c + 1 -> Nat]
  <2> SUFFICES ASSUME NEW j \in 1..l + c + 1
               PROVE  w[j] \in Nat /\ x[j] \in Nat
    OBVIOUS
  <2> HIDE DEF w, x
  <2>1. CASE j \in 1..l + 1
    BY <1>5, <1>6, <2>1
  <2>2. CASE j \in l + 1..l + c
    BY <1>3, <1>4, <1>7, <2>2
  <2>3. CASE j = l + c + 1
    BY <1>4, <1>8, <2>3
  <2>4. QED
    BY <1>2, <1>3, <2>1, <2>2, <2>3
<1> HIDE DEF w, x
<1>10. ASSUME NEW j \in 1..l
       PROVE  /\ w[j] \in 1..Len(r)
              /\ x[j] \in 1..ChunkCount(Len(r[w[j]]))
              /\ L[j] = Chunk(r[w[j]], x[j])
              /\ x[j] = ChunkCount(Len(r[w[j]])) => w[j + 1] = w[j] + 1 /\ x[j + 1] = 1
              /\ x[j] # ChunkCount(Len(r[w[j]])) => w[j + 1] = w[j] /\ x[j + 1] = x[j] + 1
  <2>1. j \in 1..l + 1 /\ j + 1 \in 1..l + 1
    BY <1>3
  <2>2. w[j] = who[j] /\ x[j] = idx[j] /\ w[j + 1] = who[j + 1] /\ x[j + 1] = idx[j + 1]
    BY <1>6, <2>1
  <2>3. who[j] \in 1..n /\ who[j] \in 1..n + 1
    BY <1>4, <1>5
  <2>4. r[who[j]] = s[who[j]] /\ L[j] = line[j]
    BY <1>3, <1>4, <2>3
  <2>5. QED
    BY <1>4, <1>5, <2>2, <2>3, <2>4
<1>11. ASSUME NEW j \in l + 1..l + c
       PROVE  /\ w[j] \in 1..Len(r)
              /\ x[j] \in 1..ChunkCount(Len(r[w[j]]))
              /\ L[j] = Chunk(r[w[j]], x[j])
              /\ x[j] = ChunkCount(Len(r[w[j]])) => w[j + 1] = w[j] + 1 /\ x[j + 1] = 1
              /\ x[j] # ChunkCount(Len(r[w[j]])) => w[j + 1] = w[j] /\ x[j + 1] = x[j] + 1
  <2>1. w[j] = n + 1 /\ x[j] = j - l /\ r[w[j]] = d /\ w[j] \in 1..Len(r)
    BY <1>4, <1>7
  <2>2. j - l \in 1..c /\ ChunkCount(Len(r[w[j]])) = c
    BY <1>2, <1>3, <2>1 DEF c
  <2>3. L[j] = Chunk(r[w[j]], x[j])
    <3>1. L[j] = frame(d)[j - l]
      BY <1>3
    <3>2. QED
      BY <1>1, <2>1, <2>2, <3>1
  <2>4. CASE j = l + c
    <3>1. x[j] = c
      BY <1>2, <1>3, <2>1, <2>4
    <3>2. w[j + 1] = n + 2 /\ x[j + 1] = 1 /\ n + 2 = w[j] + 1
      BY <1>4, <1>8, <2>1, <2>4
    <3>3. QED
      BY <2>1, <2>2, <2>3, <3>1, <3>2
  <2>5. CASE j # l + c
    <3>1. j + 1 \in l + 1..l + c /\ (j + 1) - l = (j - l) + 1 /\ j - l # c
      BY <1>2, <1>3, <2>5
    <3>2. w[j + 1] = n + 1 /\ x[j + 1] = (j - l) + 1
      BY <1>7, <3>1
    <3>3. QED
      BY <2>1, <2>2, <2>3, <3>1, <3>2
  <2>6. QED
    BY <2>4, <2>5
<1>12. Tags(L, r, w, x)
  <2>1. \A j \in 1..l + c : j \in 1..l \/ j \in l + 1..l + c
    BY <1>2, <1>3
  <2>2. n + 2 = (n + 1) + 1
    BY <1>4
  <2>3. \A j \in 1..l + c :
          /\ w[j] \in 1..Len(r)
          /\ x[j] \in 1..ChunkCount(Len(r[w[j]]))
          /\ L[j] = Chunk(r[w[j]], x[j])
          /\ x[j] = ChunkCount(Len(r[w[j]])) => w[j + 1] = w[j] + 1 /\ x[j + 1] = 1
          /\ x[j] # ChunkCount(Len(r[w[j]])) => w[j + 1] = w[j] /\ x[j + 1] = x[j] + 1
    BY <1>10, <1>11, <2>1
  <2>4. QED
    BY <1>3, <1>4, <1>8, <1>9, <2>2, <2>3 DEF Tags
<1>13. w[1] = who[1] /\ x[1] = idx[1]
  <2>1. 1 \in 1..l + 1
    BY <1>3
  <2>2. QED
    BY <1>6, <2>1
<1>14. QED
  BY <1>12, <1>13 DEF L, r

\* The first chunk leaves the line, and the tags move up.
LEMMA TagsLeave ==
  ASSUME NEW s, NEW line \in Seq(Chunks), line # << >>, NEW who, NEW idx, Tags(line, s, who, idx)
  PROVE  \E w, x : Tags(Tail(line), s, w, x) /\ w[1] = who[2] /\ x[1] = idx[2]
<1> DEFINE L == Tail(line)
           l == Len(L)
           w == [j \in 1..l + 1 |-> who[j + 1]]
           x == [j \in 1..l + 1 |-> idx[j + 1]]
<1>1. l \in Nat /\ Len(line) = l + 1 /\ \A j \in 1..l : L[j] = line[j + 1]
  BY TailFacts
<1> HIDE DEF L, l
<1>2. \A j \in 1..l + 1 : w[j] = who[j + 1] /\ x[j] = idx[j + 1] /\ j + 1 \in 1..Len(line) + 1
  BY <1>1
<1>3. /\ who \in [1..Len(line) + 1 -> Nat] /\ idx \in [1..Len(line) + 1 -> Nat]
      /\ who[Len(line) + 1] = Len(s) + 1 /\ idx[Len(line) + 1] = 1
      /\ \A j \in 1..Len(line) :
           /\ who[j] \in 1..Len(s)
           /\ idx[j] \in 1..ChunkCount(Len(s[who[j]]))
           /\ line[j] = Chunk(s[who[j]], idx[j])
           /\ idx[j] = ChunkCount(Len(s[who[j]])) => who[j + 1] = who[j] + 1 /\ idx[j + 1] = 1
           /\ idx[j] # ChunkCount(Len(s[who[j]])) => who[j + 1] = who[j] /\ idx[j + 1] = idx[j] + 1
  BY DEF Tags
<1>4. w \in [1..l + 1 -> Nat] /\ x \in [1..l + 1 -> Nat]
  BY <1>2, <1>3
<1> HIDE DEF w, x
<1>5. w[l + 1] = Len(s) + 1 /\ x[l + 1] = 1
  <2>1. l + 1 \in 1..l + 1
    BY <1>1
  <2>2. QED
    BY <1>1, <1>2, <1>3, <2>1
<1>6. ASSUME NEW j \in 1..l
      PROVE  /\ w[j] \in 1..Len(s)
             /\ x[j] \in 1..ChunkCount(Len(s[w[j]]))
             /\ L[j] = Chunk(s[w[j]], x[j])
             /\ x[j] = ChunkCount(Len(s[w[j]])) => w[j + 1] = w[j] + 1 /\ x[j + 1] = 1
             /\ x[j] # ChunkCount(Len(s[w[j]])) => w[j + 1] = w[j] /\ x[j + 1] = x[j] + 1
  <2> DEFINE k == j + 1
  <2>1. k \in 1..Len(line) /\ j \in 1..l + 1 /\ k \in 1..l + 1
    BY <1>1
  <2>2. w[j] = who[k] /\ x[j] = idx[k] /\ w[j + 1] = who[k + 1] /\ x[j + 1] = idx[k + 1] /\ L[j] = line[k]
    BY <1>1, <1>2, <2>1
  <2> HIDE DEF k
  <2>3. QED
    BY <1>3, <2>1, <2>2
<1>7. Tags(L, s, w, x)
  BY <1>4, <1>5, <1>6 DEF Tags, l
<1>8. w[1] = who[2] /\ x[1] = idx[2]
  <2>1. 1 \in 1..l + 1 /\ 1 + 1 = 2
    BY <1>1
  <2>2. QED
    BY <1>2, <2>1
<1>9. QED
  BY <1>7, <1>8 DEF L

\* Reading a datagram leaves what was taken, and taking a chunk adds it.
LEMMA TakenEnter ==
  ASSUME NEW s \in Seq(Datagrams), NEW d \in Datagrams, NEW out, NEW b, NEW k, NEW i,
         Taken(s, out, b, k, i)
  PROVE  Taken(Append(s, d), out, b, k, i)
<1> DEFINE r == Append(s, d)
           n == Len(s)
<1>1. /\ r \in Seq(Datagrams) /\ n \in Nat /\ Len(r) = n + 1
      /\ \A j \in 1..n : r[j] = s[j]
  BY AppendFacts
<1> HIDE DEF r, n
<1>2. /\ k \in 1..n + 1 /\ (i = 1 \/ k \in 1..n)
      /\ out = SubSeq(s, 1, k - 1)
      /\ b = IF i = 1 THEN << >> ELSE SubSeq(s[k], 1, (i - 1) * MaxChunk)
  BY DEF Taken, n
<1>3. SubSeq(r, 1, k - 1) = SubSeq(s, 1, k - 1)
  <2> DEFINE m == k - 1
  <2>1. m \in 0..n
    BY <1>1, <1>2
  <2> HIDE DEF m
  <2>2. /\ SubSeq(s, 1, m) \in Seq(Datagrams) /\ Len(SubSeq(s, 1, m)) = m
        /\ \A j \in 1..m : SubSeq(s, 1, m)[j] = s[j]
    <3>1. m \in Int /\ \A j \in 1..m : s[j] \in Datagrams
      BY <1>1, <2>1, ElementOfSeq DEF n
    <3>2. /\ SubSeq(s, 1, m) \in Seq(Datagrams)
          /\ Len(SubSeq(s, 1, m)) = IF 1 <= m THEN m - 1 + 1 ELSE 0
          /\ \A j \in 1..m - 1 + 1 : SubSeq(s, 1, m)[j] = s[1 + j - 1]
      BY <3>1, SubSeqProperties
    <3>3. QED
      BY <2>1, <3>2
  <2>3. /\ SubSeq(r, 1, m) \in Seq(Datagrams) /\ Len(SubSeq(r, 1, m)) = m
        /\ \A j \in 1..m : SubSeq(r, 1, m)[j] = r[j]
    <3>0. \A j \in 1..m : j \in 1..Len(r)
      BY <1>1, <2>1
    <3>1. m \in Int /\ \A j \in 1..m : r[j] \in Datagrams
      BY <1>1, <2>1, <3>0, ElementOfSeq
    <3>2. /\ SubSeq(r, 1, m) \in Seq(Datagrams)
          /\ Len(SubSeq(r, 1, m)) = IF 1 <= m THEN m - 1 + 1 ELSE 0
          /\ \A j \in 1..m - 1 + 1 : SubSeq(r, 1, m)[j] = r[1 + j - 1]
      BY <3>1, SubSeqProperties
    <3>3. QED
      BY <2>1, <3>2
  <2>4. \A j \in 1..m : r[j] = s[j]
    BY <1>1, <2>1
  <2>5. SubSeq(r, 1, m) = SubSeq(s, 1, m)
    BY <2>2, <2>3, <2>4, SeqEqual
  <2>6. QED
    BY <2>5 DEF m
<1>4. i # 1 => r[k] = s[k]
  BY <1>1, <1>2
<1>5. k \in 1..Len(r) + 1 /\ (i = 1 \/ k \in 1..Len(r))
  BY <1>1, <1>2
<1>6. Taken(r, out, b, k, i)
  BY <1>2, <1>3, <1>4, <1>5 DEF Taken
<1>7. QED
  BY <1>6 DEF r

\* What has been taken, once one more chunk is pushed.
LEMMA TakenLeave ==
  ASSUME NEW s \in Seq(Datagrams), NEW out, NEW b, NEW k \in 1..Len(s),
         NEW i \in 1..ChunkCount(Len(s[k])), Taken(s, out, b, k, i)
  PROVE  LET r == push(b, Chunk(s[k], i))
         IN  /\ i = ChunkCount(Len(s[k])) => Taken(s, out \o r.out, r.buf, k + 1, 1)
             /\ i # ChunkCount(Len(s[k])) => Taken(s, out \o r.out, r.buf, k, i + 1)
<1> DEFINE d == s[k]
           r == push(b, Chunk(s[k], i))
<1>1. d \in Datagrams /\ Len(s) \in Nat
  BY ElementOfSeq, LenProperties
<1>2. /\ out = SubSeq(s, 1, k - 1)
      /\ b = IF i = 1 THEN << >> ELSE SubSeq(d, 1, (i - 1) * MaxChunk)
  BY DEF Taken
<1> HIDE DEF d
<1>3. /\ i = ChunkCount(Len(d)) =>
           push(b, Chunk(d, i)).buf = << >> /\ push(b, Chunk(d, i)).out = << d >>
      /\ i # ChunkCount(Len(d)) =>
           /\ push(b, Chunk(d, i)).buf = SubSeq(d, 1, i * MaxChunk)
           /\ push(b, Chunk(d, i)).out = << >>
  <2>1. i \in 1..ChunkCount(Len(d))
    BY DEF d
  <2>2. QED
    BY <1>1, <1>2, <2>1, PushNext
<1>4. push(b, Chunk(d, i)) = r
  BY DEF d
<1> HIDE DEF r
<1>5. CASE i = ChunkCount(Len(d))
  <2>1. r.buf = << >> /\ r.out = << d >>
    BY <1>3, <1>4, <1>5
  <2>2. SubSeq(s, 1, k) = SubSeq(s, 1, k - 1) \o << d >>
    <3>1. 1 \in 1..Len(s) /\ k \in 1..Len(s)
      BY <1>1
    <3>2. QED
      BY <3>1, SubSeqRecursiveSecond DEF d
  <2>3. k + 1 \in 1..Len(s) + 1 /\ (k + 1) - 1 = k
    BY <1>1
  <2>4. Taken(s, out \o r.out, r.buf, k + 1, 1)
    BY <1>2, <2>1, <2>2, <2>3 DEF Taken
  <2>5. QED
    BY <1>5, <2>4 DEF r, d
<1>6. CASE i # ChunkCount(Len(d))
  <2>1. r.buf = SubSeq(d, 1, i * MaxChunk) /\ r.out = << >>
    BY <1>3, <1>4, <1>6
  <2>2. i \in Nat /\ i + 1 # 1 /\ (i + 1) - 1 = i
    <3>1. ChunkCount(Len(d)) \in Nat
      BY <1>1, FrameFacts, ChunkBounds
    <3>2. i \in 1..ChunkCount(Len(d))
      BY DEF d
    <3>3. QED
      BY <3>1, <3>2
  <2>3. out \o << >> = out
    <3>1. \A j \in 1..k - 1 : s[j] \in Datagrams
      BY <1>1, ElementOfSeq
    <3>2. out \in Seq(Datagrams)
      BY <1>1, <1>2, <3>1, SubSeqProperties
    <3>3. QED
      BY <3>2, ConcatEmptySeq
  <2>4. k \in 1..Len(s) + 1
    BY <1>1
  <2>5. Taken(s, out \o r.out, r.buf, k, i + 1)
    BY <1>2, <2>1, <2>2, <2>3, <2>4 DEF Taken, d
  <2>6. QED
    BY <1>6, <2>5 DEF r, d
<1>7. QED
  BY <1>5, <1>6 DEF d


\* One that is not framed does not.
LEMMA CarriesSkip ==
  ASSUME TypeInv, FirstInv, NEW d \in Datagrams, Skips(d), NEW s, NEW g, Carries(s, g)
  PROVE  Carries(s, g)'
<1>1. /\ sent \in Seq(Datagrams)
      /\ sent' = Append(sent, d) /\ pump' = PumpAfter(d) /\ ~ Frames(d)
  BY DEF TypeInv, Skips
<1>2. \A i \in 1..Len(sent) : sent'[i] = sent[i]
  BY <1>1, AppendFacts
<1>3. Carried' = Carried
  BY <1>1, CarriedAfter
<1>4. Carried \subseteq 1..Len(sent)
  BY DEF Carried
<1>5. /\ s \in Seq(Datagrams) /\ g \in [1..Len(s) -> Carried]
      /\ \A i, j \in 1..Len(s) : i < j => g[i] < g[j]
      /\ \A i \in 1..Len(s) : s[i] = sent[g[i]]
      /\ \A k \in Carried : \E i \in 1..Len(s) : k = g[i]
  BY DEF Carries
<1>6. \A i \in 1..Len(s) : s[i] = sent'[g[i]]
  BY <1>2, <1>4, <1>5
<1>7. QED
  BY <1>3, <1>5, <1>6 DEF Carries

\* The tags of the empty line.
LEMMA LosslessInit == Init => LosslessInv
<1> SUFFICES ASSUME Init
             PROVE  /\ FirstInv
                    /\ \E s, g, who, idx :
                         /\ Carries(s, g)
                         /\ Tags(Line, s, who, idx)
                         /\ Taken(s, delivered, buf, who[1], idx[1])
  BY DEF LosslessInv
<1>1. /\ Line = << >> /\ sent = << >> /\ delivered = << >> /\ buf = << >>
      /\ pump \in {"from_sc", "first"}
  BY DEF Init, Line
<1>2. FirstInv
  BY <1>1 DEF FirstInv
<1> DEFINE one == [j \in 1..1 |-> 1]
           none == [j \in 1..0 |-> 1]
<1>3. one \in [1..1 -> Nat] /\ one[1] = 1
  OBVIOUS
<1>4. Len(<< >>) = 0 /\ 0 + 1 = 1 /\ 1 - 1 = 0 /\ << >> \in Seq(Datagrams) /\ 1..0 = {}
  OBVIOUS
<1>5. Carried = {}
  BY <1>1, <1>4 DEF Carried
<1>6. none \in [1..0 -> Carried]
  BY <1>4
<1> HIDE DEF one, none
<1>7. Carries(<< >>, none)
  BY <1>4, <1>5, <1>6 DEF Carries
<1>8. Tags(<< >>, << >>, one, one)
  BY <1>3, <1>4 DEF Tags
<1>9. SubSeq(<< >>, 1, 0) = << >>
  BY SubSeqEmpty
<1>10. Taken(<< >>, << >>, << >>, 1, 1)
  BY <1>4, <1>9 DEF Taken
<1>11. QED
  BY <1>1, <1>2, <1>3, <1>7, <1>8, <1>10

\* Who frames the first packet.
LEMMA FirstKept ==
  ASSUME TypeInv, FirstInv, [Next]_vars
  PROVE  FirstInv'
<1>1. ASSUME NEW d \in Datagrams, Enters(d) \/ Skips(d)
      PROVE  FirstInv'
  BY <1>1, CarriedAfter DEF Enters, Skips
<1>2. ASSUME UNCHANGED << pump, sent >>
      PROVE  FirstInv'
  BY <1>2 DEF FirstInv
<1>3. QED
  BY <1>1, <1>2, LineSteps DEF Drops, Leaves, Moves

\* Every step without a loss keeps the tags.
LEMMA LosslessKept ==
  ASSUME TypeInv, LosslessInv, [Next]_vars
  PROVE  LosslessInv'
<1>a. FirstInv /\ FirstInv'
  BY FirstKept DEF LosslessInv
<1> DEFINE Goal == \E s, g, w, x :
             /\ Carries(s, g)'
             /\ Tags(Line', s, w, x)
             /\ Taken(s, delivered', buf', w[1], x[1])
<1> SUFFICES ASSUME dropped' = 0
             PROVE  Goal
  BY <1>a DEF LosslessInv
<1>1. /\ sent \in Seq(Datagrams) /\ dropped \in Nat
      /\ Line \in Seq(Chunks) /\ Len(Line) \in Nat
  BY LineType DEF TypeInv
<1>2. ASSUME NEW p \in 1..Len(Line), Drops(p)
      PROVE  FALSE
  BY <1>1, <1>2 DEF Drops
<1>3. dropped = 0
  BY <1>2, LineSteps DEF Enters, Skips, Leaves, Moves
<1>4. PICK s, g, who, idx :
        /\ Carries(s, g)
        /\ Tags(Line, s, who, idx)
        /\ Taken(s, delivered, buf, who[1], idx[1])
  BY <1>3 DEF LosslessInv
<1>5. s \in Seq(Datagrams)
  BY <1>4 DEF Carries
<1>6. ASSUME UNCHANGED << pump, sent >>
      PROVE  Carries(s, g)'
  BY <1>4, <1>6 DEF Carries, Carried
<1>7. ASSUME NEW d \in Datagrams, Enters(d)
      PROVE  Goal
  <2>1. Line' = Line \o frame(d) /\ delivered' = delivered /\ buf' = buf
    BY <1>7 DEF Enters
  <2>2. PICK h : Carries(Append(s, d), h)'
    BY <1>a, <1>4, <1>7, CarriesEnter
  <2>3. PICK w, x : Tags(Line \o frame(d), Append(s, d), w, x) /\ w[1] = who[1] /\ x[1] = idx[1]
    BY <1>1, <1>4, <1>5, TagsEnter
  <2>4. Taken(Append(s, d), delivered, buf, who[1], idx[1])
    BY <1>4, <1>5, TakenEnter
  <2>5. QED
    BY <2>1, <2>2, <2>3, <2>4
<1>8. ASSUME NEW d \in Datagrams, Skips(d)
      PROVE  Goal
  <2>1. Line' = Line /\ delivered' = delivered /\ buf' = buf
    BY <1>8 DEF Skips
  <2>2. Carries(s, g)'
    BY <1>a, <1>4, <1>8, CarriesSkip
  <2>3. QED
    BY <1>4, <2>1, <2>2
<1>9. ASSUME Leaves
      PROVE  Goal
  <2> DEFINE k == who[1]
             i == idx[1]
             c == Chunk(s[k], i)
  <2>1. /\ Line # << >> /\ Line' = Tail(Line) /\ UNCHANGED << pump, sent >>
        /\ buf' = push(buf, Head(Line)).buf
        /\ delivered' = delivered \o push(buf, Head(Line)).out
    BY <1>9 DEF Leaves
  <2>2. Head(Line) = Line[1] /\ 1 \in 1..Len(Line) /\ 1 + 1 = 2
    BY <1>1, <2>1
  <2>3. /\ k \in 1..Len(s)
        /\ i \in 1..ChunkCount(Len(s[k]))
        /\ Line[1] = c
        /\ i = ChunkCount(Len(s[k])) => who[2] = k + 1 /\ idx[2] = 1
        /\ i # ChunkCount(Len(s[k])) => who[2] = k /\ idx[2] = i + 1
    BY <1>4, <2>2 DEF Tags
  <2>4. PICK w, x : Tags(Tail(Line), s, w, x) /\ w[1] = who[2] /\ x[1] = idx[2]
    BY <1>1, <1>4, <1>5, <2>1, TagsLeave
  <2>5. Taken(s, delivered, buf, k, i)
    BY <1>4
  <2> HIDE DEF k, i
  <2>6. /\ i = ChunkCount(Len(s[k])) =>
             Taken(s, delivered \o push(buf, c).out, push(buf, c).buf, k + 1, 1)
        /\ i # ChunkCount(Len(s[k])) =>
             Taken(s, delivered \o push(buf, c).out, push(buf, c).buf, k, i + 1)
    BY <1>5, <2>3, <2>5, TakenLeave DEF TypeInv
  <2> HIDE DEF c
  <2>7. Taken(s, delivered \o push(buf, c).out, push(buf, c).buf, w[1], x[1])
    BY <2>3, <2>4, <2>6
  <2>8. Carries(s, g)'
    BY <1>6, <2>1
  <2>9. QED
    BY <2>1, <2>2, <2>3, <2>4, <2>7, <2>8
<1>10. CASE Moves
  <2>1. Line' = Line /\ delivered' = delivered /\ buf' = buf /\ UNCHANGED << pump, sent >>
    BY <1>10 DEF Moves
  <2>2. QED
    BY <1>4, <1>6, <2>1
<1>11. QED
  BY <1>2, <1>7, <1>8, <1>9, <1>10, LineSteps

\* While no chunk was lost, the datagrams a side carries come out once each,
\* whole and in order, those of several chunks and those whose last chunk is
\* full too, and at rest all of them; the empty ones that from_sc skips or that
\* end send_task are none of these (framing.rs frame and Reassembler::push).
THEOREM NothingLost == Spec => []Lossless
<1>1. TypeInv /\ LosslessInv => Lossless
  <2> SUFFICES ASSUME TypeInv, LosslessInv, dropped = 0
               PROVE  Lossless
    BY DEF Lossless
  <2>1. PICK s, g, who, idx :
          /\ Carries(s, g)
          /\ Tags(Line, s, who, idx)
          /\ Taken(s, delivered, buf, who[1], idx[1])
    BY DEF LosslessInv
  <2>2. /\ s \in Seq(Datagrams) /\ Len(s) \in Nat
        /\ g \in [1..Len(s) -> Carried]
        /\ \A i, j \in 1..Len(s) : i < j => g[i] < g[j]
        /\ \A i \in 1..Len(s) : s[i] = sent[g[i]]
        /\ \A k \in Carried : \E i \in 1..Len(s) : k = g[i]
    BY <2>1, LenProperties DEF Carries
  <2>3. Carried \subseteq Nat
    <3>1. Carried \subseteq 1..Len(sent)
      BY DEF Carried
    <3>2. QED
      BY <3>1
  <2> DEFINE k == who[1]
             n == k - 1
  <2>4. k \in 1..Len(s) + 1 /\ delivered = SubSeq(s, 1, n)
    BY <2>1 DEF Taken
  <2> HIDE DEF k
  <2>5. n \in 0..Len(s) /\ n \in Nat
    BY <2>2, <2>4
  <2>6. Len(delivered) = n /\ \A i \in 1..n : delivered[i] = s[i]
    <3>1. \A j \in 1..n : s[j] \in Datagrams
      BY <2>2, <2>5, ElementOfSeq
    <3>2. /\ Len(SubSeq(s, 1, n)) = IF 1 <= n THEN n - 1 + 1 ELSE 0
          /\ \A i \in 1..n - 1 + 1 : SubSeq(s, 1, n)[i] = s[1 + i - 1]
      BY <2>5, <3>1, SubSeqProperties
    <3>3. QED
      BY <2>4, <2>5, <3>2
  <2>7. ASSUME AtRest
        PROVE  n = Len(s) /\ buf = << >>
    <3>1. Line = << >> /\ Len(<< >>) = 0 /\ 0 + 1 = 1
      BY <2>7 DEF AtRest, Line
    <3>2. k = Len(s) + 1 /\ idx[1] = 1
      BY <2>1, <3>1 DEF Tags, k
    <3>3. buf = << >>
      BY <2>1, <3>2 DEF Taken
    <3>4. QED
      BY <2>2, <3>2, <3>3
  <2> HIDE DEF n
  <2> DEFINE f == [i \in 1..n |-> g[i]]
  <2>8. \A i \in 1..n : i \in 1..Len(s)
    BY <2>2, <2>5
  <2>9. f \in [1..n -> Carried] /\ \A i \in 1..n : f[i] = g[i]
    BY <2>2, <2>8
  <2> HIDE DEF f
  <2>10. \A i, j \in 1..n : i < j => f[i] < f[j]
    BY <2>2, <2>8, <2>9
  <2>11. \A i \in 1..n : delivered[i] = sent[f[i]]
    BY <2>2, <2>6, <2>8, <2>9
  <2>12. ASSUME NEW c \in Carried, AtRest \/ \E i \in 1..n : c < f[i]
         PROVE  \E i \in 1..n : c = f[i]
    <3>1. PICK j \in 1..Len(s) : c = g[j]
      BY <2>2
    <3>2. CASE AtRest
      BY <2>7, <2>9, <3>1, <3>2
    <3>3. ASSUME NEW i \in 1..n, c < f[i]
          PROVE  j \in 1..n
      <4>1. i \in 1..Len(s) /\ g[j] < g[i]
        BY <2>8, <2>9, <3>1, <3>3
      <4>2. g[i] \in Nat /\ g[j] \in Nat
        BY <2>2, <2>3, <4>1
      <4>3. ~ (i < j)
        BY <2>2, <4>1, <4>2
      <4>4. QED
        BY <2>5, <4>1, <4>3
    <3>4. QED
      BY <2>9, <2>12, <3>1, <3>2, <3>3
  <2>13. f \in [1..Len(delivered) -> Carried]
    BY <2>6, <2>9
  <2>14. QED
    BY <2>6, <2>7, <2>10, <2>11, <2>12, <2>13 DEF Lossless
<1>2. TypeInv /\ LosslessInv /\ [Next]_vars => TypeInv' /\ LosslessInv'
  BY TypeStep, LosslessKept
<1>3. QED
  BY <1>1, <1>2, TypeInit, LosslessInit, PTL DEF Spec
=============================================================================
