---------------------------- MODULE DeliveryProofs ----------------------------
(***************************************************************************)
(* Theorems about the delivery of an answer: the client's text is whole    *)
(* and in order, and no ending reads as another; and that what the         *)
(* components of MCSequential promise alone they keep in it. Induction     *)
(* over natural numbers is taken from SequentialProofs.                    *)
(***************************************************************************)
EXTENDS MCSequential, SequentialProofs, SequenceTheorems

-------------------------------------------------------------------------------
(* Sequences.                                                              *)

Text == Seq(Nat)

\* The concatenation of the first i texts.
Flat(texts) == CHOOSE g : g = [i \in 1..Len(texts) |->
                 IF i = 1 THEN texts[i] ELSE g[i - 1] \o texts[i]]

\* The prefixes of a concatenation, one from the other.
FlatTo(g, texts, n) == \A i \in 1..n : g[i] = IF i = 1 THEN texts[i] ELSE g[i - 1] \o texts[i]

\* The prefixes exist.
LEMMA FlatExists ==
  ASSUME NEW texts \in Seq(Text), NEW n \in Nat, n <= Len(texts)
  PROVE  \E g \in [1..n -> Text] : FlatTo(g, texts, n)
<1> DEFINE good == {m \in Nat : m <= Len(texts) => \E g \in [1..m -> Text] : FlatTo(g, texts, m)}
<1>1. 0 \in good
  <2>1. [i \in 1..0 |-> <<>>] \in [1..0 -> Text] /\ FlatTo([i \in 1..0 |-> <<>>], texts, 0)
    BY DEF FlatTo, Text
  <2> QED BY <2>1
<1>2. ASSUME NEW m \in Nat, m \in good PROVE m + 1 \in good
  <2>1. SUFFICES ASSUME m + 1 <= Len(texts)
                 PROVE  \E g \in [1..(m + 1) -> Text] : FlatTo(g, texts, m + 1)
    OBVIOUS
  <2>2. PICK g \in [1..m -> Text] : FlatTo(g, texts, m)
    <3>1. Len(texts) \in Nat
      OBVIOUS
    <3> QED BY <1>2, <2>1, <3>1
  <2> DEFINE next == IF m + 1 = 1 THEN texts[m + 1] ELSE g[m] \o texts[m + 1]
             h == [i \in 1..(m + 1) |-> IF i = m + 1 THEN next ELSE g[i]]
  <2>3. next \in Text
    <3>1. texts[m + 1] \in Text
      BY <2>1
    <3>2. m # 0 => g[m] \in Text
      OBVIOUS
    <3>3. m # 0 => g[m] \o texts[m + 1] \in Text
      BY <3>1, <3>2, ConcatProperties DEF Text
    <3> QED BY <3>1, <3>3
  <2> HIDE DEF next
  <2>4. h \in [1..(m + 1) -> Text]
    <3>1. \A i \in 1..(m + 1) : i # m + 1 => i \in 1..m
      OBVIOUS
    <3> QED BY <2>3, <3>1
  <2>5. \A i \in 1..(m + 1) : h[i] = IF i = 1 THEN texts[i] ELSE h[i - 1] \o texts[i]
    <3>1. ASSUME NEW i \in 1..(m + 1), i = m + 1
          PROVE  h[i] = IF i = 1 THEN texts[i] ELSE h[i - 1] \o texts[i]
      <4>1. i # 1 => h[i - 1] = g[m]
        BY <3>1
      <4>2. h[i] = next
        BY <3>1
      <4> HIDE DEF h
      <4> QED BY <3>1, <4>1, <4>2 DEF next
    <3>2. ASSUME NEW i \in 1..(m + 1), i # m + 1
          PROVE  h[i] = IF i = 1 THEN texts[i] ELSE h[i - 1] \o texts[i]
      <4>1. i \in 1..m /\ h[i] = g[i] /\ (i # 1 => h[i - 1] = g[i - 1])
        BY <3>2
      <4> HIDE DEF h
      <4> QED BY <2>2, <4>1 DEF FlatTo
    <3> QED BY <3>1, <3>2
  <2>6. FlatTo(h, texts, m + 1)
    BY <2>5 DEF FlatTo
  <2> HIDE DEF h
  <2> QED BY <2>4, <2>6
<1>3. Nat \subseteq good
  <2> HIDE DEF good
  <2> QED BY <1>1, <1>2, NatFrom0
<1> QED BY <1>3

\* They are what FlattenSeq computes.
LEMMA FlatIs ==
  ASSUME NEW texts \in Seq(Text)
  PROVE  /\ FlatTo(Flat(texts), texts, Len(texts))
         /\ FlattenSeq(texts) = IF texts = <<>> THEN <<>> ELSE Flat(texts)[Len(texts)]
<1> DEFINE F(g) == g = [i \in 1..Len(texts) |-> IF i = 1 THEN texts[i] ELSE g[i - 1] \o texts[i]]
<1>0. Len(texts) \in Nat /\ (Len(texts) = 0 <=> texts = <<>>)
  BY EmptySeq
<1>1. PICK g \in [1..Len(texts) -> Text] : FlatTo(g, texts, Len(texts))
  BY <1>0, FlatExists
<1>2. F(g)
  BY <1>1 DEF FlatTo
<1>3. F(Flat(texts))
  BY <1>2 DEF Flat
<1>4. FlatTo(Flat(texts), texts, Len(texts))
  BY <1>3 DEF FlatTo
<1>5. FlattenSeq(texts) = IF Len(texts) = 0 THEN texts ELSE Flat(texts)[Len(texts)]
  BY DEF FlattenSeq, Flat
<1> QED BY <1>0, <1>4, <1>5

\* The concatenation of one text more is longer by that text.
LEMMA FlattenAppend ==
  ASSUME NEW texts \in Seq(Text), NEW text \in Text
  PROVE  /\ FlattenSeq(<<>>) = <<>>
         /\ FlattenSeq(texts) \in Text
         /\ FlattenSeq(Append(texts, text)) = FlattenSeq(texts) \o text
<1> DEFINE more == Append(texts, text)
           n == Len(texts)
<1>0. /\ n \in Nat /\ more \in Seq(Text) /\ Len(more) = n + 1 /\ more # <<>>
      /\ more[n + 1] = text /\ \A i \in 1..n : more[i] = texts[i]
  BY AppendProperties
<1>1. FlattenSeq(<<>>) = <<>>
  <2>1. <<>> \in Seq(Text)
    OBVIOUS
  <2> QED BY <2>1, FlatIs
<1>2. FlatTo(Flat(texts), texts, n) /\ FlatTo(Flat(more), more, n + 1)
  BY <1>0, FlatIs
<1> HIDE DEF more
<1> DEFINE good == {i \in Nat : i \in 1..n => Flat(texts)[i] \in Text /\ Flat(more)[i] = Flat(texts)[i]}
<1>3. 0 \in good
  OBVIOUS
<1>4. ASSUME NEW i \in Nat, i \in good PROVE i + 1 \in good
  <2>1. SUFFICES ASSUME i + 1 \in 1..n
                 PROVE  Flat(texts)[i + 1] \in Text /\ Flat(more)[i + 1] = Flat(texts)[i + 1]
    OBVIOUS
  <2>2. texts[i + 1] \in Text /\ more[i + 1] = texts[i + 1]
    BY <1>0, <2>1
  <2>3. CASE i = 0
    BY <1>0, <1>2, <2>1, <2>2, <2>3 DEF FlatTo
  <2>4. CASE i # 0
    <3>1. Flat(texts)[i] \in Text /\ Flat(more)[i] = Flat(texts)[i]
      BY <1>4, <2>1, <2>4
    <3>2. /\ Flat(texts)[i + 1] = Flat(texts)[i] \o texts[i + 1]
          /\ Flat(more)[i + 1] = Flat(more)[i] \o more[i + 1]
      <4>1. i + 1 \in 1..n /\ i + 1 \in 1..(n + 1) /\ i + 1 # 1 /\ (i + 1) - 1 = i
        BY <1>0, <2>1, <2>4
      <4> QED BY <1>2, <4>1 DEF FlatTo
    <3>3. Flat(texts)[i] \o texts[i + 1] \in Text
      BY <2>2, <3>1, ConcatProperties DEF Text
    <3> QED BY <2>2, <3>1, <3>2, <3>3
  <2> QED BY <2>3, <2>4
<1>5. Nat \subseteq good
  <2> HIDE DEF good
  <2> QED BY <1>3, <1>4, NatFrom0
<1>6. FlattenSeq(more) = Flat(more)[n + 1]
  BY <1>0, FlatIs
<1>7. CASE texts = <<>>
  <2>1. n = 0
    BY <1>7
  <2>2. FlattenSeq(more) = text
    BY <1>0, <1>2, <1>6, <2>1 DEF FlatTo
  <2>3. <<>> \o text = text /\ <<>> \in Text
    BY ConcatEmptySeq DEF Text
  <2> QED BY <1>1, <1>7, <2>2, <2>3 DEF more
<1>8. CASE texts # <<>>
  <2>1. n \in 1..n /\ n + 1 \in 1..(n + 1) /\ n + 1 # 1 /\ (n + 1) - 1 = n
    BY <1>0, <1>8, EmptySeq
  <2>2. FlattenSeq(texts) = Flat(texts)[n] /\ n \in good
    BY <1>0, <1>5, <1>8, FlatIs
  <2>3. Flat(more)[n + 1] = Flat(more)[n] \o more[n + 1]
    BY <1>2, <2>1 DEF FlatTo
  <2> QED BY <1>0, <1>1, <1>6, <2>1, <2>2, <2>3 DEF more
<1> QED BY <1>7, <1>8

-------------------------------------------------------------------------------
(* What the client was sent.                                               *)

ChunkKinds == {"calls", "think", "stop", "length", "tool_calls", "usage", "[DONE]", "error"}
Chunks == {TextChunk(p) : p \in Text} \cup {Chunk(k) : k \in ChunkKinds}

SentIn(written) == FlattenSeq([i \in DOMAIN written |-> written[i][2]])

\* A chunk carries a text, which is empty unless it is a text chunk.
LEMMA ChunkText ==
  /\ \A c \in Chunks : c[2] \in Text
  /\ \A k \in ChunkKinds : Chunk(k) \in Chunks /\ Chunk(k)[2] = <<>>
  /\ \A p \in Text : TextChunk(p) \in Chunks /\ TextChunk(p)[2] = p
  /\ CallChunk = Chunk("calls")
  /\ \A k \in ChunkKinds, p \in Text : Chunk(k) # TextChunk(p)
  /\ \A j, k \in ChunkKinds : Chunk(j) = Chunk(k) => j = k
<1>1. <<>> \in Text
  BY DEF Text
<1>2. \A k, p : Chunk(k)[1] = k /\ Chunk(k)[2] = <<>> /\ TextChunk(p)[1] = "text" /\ TextChunk(p)[2] = p
  BY DEF Chunk, TextChunk
<1>3. CallChunk = Chunk("calls")
  BY DEF CallChunk, Chunk
<1>4. \A k \in ChunkKinds : k # "text"
  BY DEF ChunkKinds
<1>5. \A c \in Chunks : (\E p \in Text : c = TextChunk(p)) \/ (\E k \in ChunkKinds : c = Chunk(k))
  BY DEF Chunks
<1>6. /\ \A p \in Text : TextChunk(p) \in Chunks
      /\ \A k \in ChunkKinds : Chunk(k) \in Chunks
  BY DEF Chunks
<1>7. \A k \in ChunkKinds, p \in Text : Chunk(k) # TextChunk(p)
  BY <1>2, <1>4
<1>8. \A j, k \in ChunkKinds : Chunk(j) = Chunk(k) => j = k
  BY <1>2
<1>9. \A c \in Chunks : c[2] \in Text
  BY <1>1, <1>2, <1>5
<1> QED BY <1>2, <1>3, <1>6, <1>7, <1>8, <1>9

\* The text sent is that of the chunks, one after another.
LEMMA SentMore ==
  ASSUME NEW written \in Seq(Chunks), NEW c \in Chunks
  PROVE  /\ SentIn(<<>>) = <<>>
         /\ SentIn(written) \in Text
         /\ SentIn(Append(written, c)) = SentIn(written) \o c[2]
<1> DEFINE texts == [i \in DOMAIN written |-> written[i][2]]
           more == Append(written, c)
<1>1. /\ Len(written) \in Nat /\ DOMAIN written = 1..Len(written)
      /\ \A i \in 1..Len(written) : written[i] \in Chunks
  BY LenProperties, ElementOfSeq
<1>2. /\ DOMAIN more = 1..(Len(written) + 1)
      /\ more[Len(written) + 1] = c
      /\ \A i \in 1..Len(written) : more[i] = written[i]
  <2>1. more \in Seq(Chunks) /\ Len(more) = Len(written) + 1
    BY AppendProperties
  <2>2. DOMAIN more = 1..Len(more)
    BY <2>1, LenProperties
  <2> QED BY <2>1, <2>2, AppendProperties
<1>3. texts \in Seq(Text) /\ Len(texts) = Len(written)
  <2>1. \A i \in 1..Len(written) : written[i][2] \in Text
    BY <1>1, ChunkText
  <2>2. texts \in [1..Len(written) -> Text]
    BY <1>1, <2>1
  <2> QED BY <1>1, <2>2
<1>4. c[2] \in Text
  BY ChunkText
<1>5. [i \in DOMAIN more |-> more[i][2]] = Append(texts, c[2])
  <2> DEFINE t == [i \in DOMAIN more |-> more[i][2]]
             u == Append(texts, c[2])
             n == Len(written)
  <2>1. u \in Seq(Text) /\ Len(u) = n + 1 /\ u[n + 1] = c[2] /\ \A i \in 1..n : u[i] = texts[i]
    BY <1>3, <1>4, AppendProperties
  <2>2. DOMAIN u = 1..(n + 1) /\ u = [i \in 1..(n + 1) |-> u[i]]
    BY <2>1, LenProperties
  <2>3. \A i \in 1..(n + 1) : t[i] = u[i]
    <3>1. ASSUME NEW i \in 1..n PROVE t[i] = u[i]
      BY <1>1, <1>2, <2>1
    <3>2. t[n + 1] = u[n + 1]
      BY <1>1, <1>2, <2>1
    <3> QED BY <1>1, <3>1, <3>2
  <2>4. t = [i \in 1..(n + 1) |-> t[i]]
    BY <1>2
  <2> HIDE DEF t, u
  <2>5. t = u
    BY <2>2, <2>3, <2>4
  <2> QED BY <2>5 DEF t, u
<1>6. SentIn(<<>>) = <<>>
  <2>1. [i \in DOMAIN <<>> |-> <<>>[i][2]] = <<>>
    OBVIOUS
  <2>2. FlattenSeq(<<>>) = <<>>
    BY <1>3, <1>4, FlattenAppend
  <2> QED BY <2>1, <2>2 DEF SentIn
<1> HIDE DEF texts, more
<1>7. SentIn(written) = FlattenSeq(texts) /\ SentIn(more) = FlattenSeq(Append(texts, c[2]))
  BY <1>5 DEF SentIn, texts
<1> QED BY <1>3, <1>4, <1>6, <1>7, FlattenAppend DEF more

\* What was written before a chunk still is, and so is the chunk, and nothing else.
LEMMA WrittenMore ==
  ASSUME NEW written \in Seq(Chunks), NEW c \in Chunks
  PROVE  /\ Append(written, c) \in Seq(Chunks) /\ written \o <<c>> = Append(written, c)
         /\ Range(<<>>) = {} /\ Range(Append(written, c)) = Range(written) \cup {c}
         /\ Last(Append(written, c)) = c
<1> DEFINE more == Append(written, c)
           n == Len(written)
<1>1. n \in Nat /\ written \in [1..n -> Chunks] /\ DOMAIN written = 1..n
  BY LenProperties
<1>2. /\ more \in Seq(Chunks) /\ Len(more) = n + 1 /\ DOMAIN more = 1..(n + 1)
      /\ more[n + 1] = c /\ \A i \in 1..n : more[i] = written[i]
  BY AppendProperties, LenProperties
<1>3. written \o <<c>> = more
  BY AppendIsConcat
<1>4. Range(<<>>) = {}
  BY DEF Range
<1>5. Last(more) = c
  BY <1>2 DEF Last
<1> HIDE DEF more
<1>6. Range(more) = Range(written) \cup {c}
  <2>1. 1..(n + 1) = 1..n \cup {n + 1}
    BY <1>1
  <2>2. Range(more) = {more[i] : i \in 1..n} \cup {more[n + 1]}
    BY <1>2, <2>1 DEF Range
  <2>3. Range(written) = {written[i] : i \in 1..n}
    BY <1>1 DEF Range
  <2> QED BY <1>2, <2>2, <2>3
<1> QED BY <1>2, <1>3, <1>4, <1>5, <1>6 DEF more

-------------------------------------------------------------------------------
(* Types.                                                                  *)

Accumulators ==
  [pending : Text, streaming : BOOLEAN, calls : Text, reason : Reasons \cup {"none"}]

DeliveryType ==
  /\ mode \in [stream : BOOLEAN, tools : BOOLEAN]
  /\ lines \in Seq(Kinds) /\ usage \in Nat
  /\ acc \in Accumulators
  /\ out \in Seq(Chunks)
  /\ result \in {"none", "ok", "err", "reported"}

\* The piece of a new line joins the pending text.
LEMMA PieceType ==
  ASSUME DeliveryType
  PROVE  /\ Len(lines) \in Nat /\ Len(lines) + 1 \in Nat
         /\ acc.pending \in Text /\ acc.streaming \in BOOLEAN /\ acc.calls \in Text
         /\ Append(acc.pending, Len(lines) + 1) \in Text
         /\ <<Len(lines) + 1>> \in Text
         /\ \A kind \in Kinds : Append(lines, kind) \in Seq(Kinds)
<1>1. Len(lines) \in Nat
  BY DEF DeliveryType
<1>2. acc.pending \in Text /\ acc.streaming \in BOOLEAN /\ acc.calls \in Text
  BY DEF DeliveryType, Accumulators
<1>3. \A kind \in Kinds : Append(lines, kind) \in Seq(Kinds)
  BY DEF DeliveryType
<1>4. Append(acc.pending, Len(lines) + 1) \in Text /\ <<Len(lines) + 1>> \in Text
  BY <1>1, <1>2 DEF Text
<1> QED BY <1>1, <1>2, <1>3, <1>4

\* A tool call is added.
LEMMA CallType ==
  ASSUME NEW calls \in Text, NEW kind
  PROVE  WithCall(calls, kind) \in Text /\ WithCall(calls, kind) # <<>>
<1>1. Index(kind) \in 1..2
  BY DEF Index
<1>2. CASE Index(kind) <= Len(calls)
  <2> DEFINE i == Index(kind)
             more == [calls EXCEPT ![i] = @ + 1]
  <2>1. calls \in [1..Len(calls) -> Nat] /\ Len(calls) \in Nat /\ i \in 1..Len(calls)
    BY <1>1, <1>2 DEF Text
  <2>2. calls[i] + 1 \in Nat
    BY <2>1
  <2> HIDE DEF i
  <2>3. more \in Seq(Nat) /\ Len(more) = Len(calls)
    BY <2>1, <2>2, ExceptSeq DEF Text
  <2>4. more # <<>>
    BY <2>1, <2>3
  <2> QED BY <1>2, <2>3, <2>4 DEF WithCall, i, Text
<1>3. CASE ~(Index(kind) <= Len(calls))
  <2>1. Append(calls, 1) \in Seq(Nat) /\ Append(calls, 1) # <<>>
    BY AppendProperties DEF Text
  <2> QED BY <1>3, <2>1 DEF WithCall, Text
<1> QED BY <1>2, <1>3

\* A call's chunk follows the pending text, unless that is discarded.
LEMMA CallSent ==
  ASSUME DeliveryType, NEW kind, AcceptCall(kind)
  PROVE  /\ acc' = [acc EXCEPT !.pending = <<>>, !.calls = WithCall(acc.calls, kind),
                               !.streaming = acc'.streaming]
         /\ acc' \in Accumulators
         /\ acc'.pending = <<>> /\ acc'.calls # <<>>
         /\ \/ /\ out' = Append(out, CallChunk)
               /\ acc'.streaming = acc.streaming
               /\ acc.pending = <<>> \/ MarksOnly(acc.pending)
            \/ out' = Append(Append(out, TextChunk(acc.pending)), CallChunk)
<1> DEFINE discard == acc.pending = <<>> \/ (mode.tools /\ MarksOnly(acc.pending))
           s == acc.streaming \/ ~discard
<1>1. /\ acc' = [acc EXCEPT !.pending = <<>>, !.calls = WithCall(acc.calls, kind), !.streaming = s]
      /\ out' = out \o (IF discard THEN <<>> ELSE <<TextChunk(acc.pending)>>) \o <<CallChunk>>
  BY DEF AcceptCall, DeliveryType
<1>2. WithCall(acc.calls, kind) \in Text /\ WithCall(acc.calls, kind) # <<>>
  BY PieceType, CallType
<1>3. s \in BOOLEAN /\ <<>> \in Text
  BY DEF Text
<1>4. CallChunk \in Chunks /\ TextChunk(acc.pending) \in Chunks /\ out \in Seq(Chunks)
  BY PieceType, ChunkText DEF DeliveryType, ChunkKinds
<1>5. CASE discard
  <2>1. out' = out \o <<CallChunk>>
    BY <1>1, <1>4, <1>5, ConcatEmptySeq
  <2>2. out' = Append(out, CallChunk)
    BY <1>4, <2>1, AppendIsConcat
  <2>3. s = acc.streaming
    BY <1>5, PieceType
  <2> HIDE DEF s
  <2> QED BY <1>1, <1>2, <1>3, <1>5, <2>2, <2>3 DEF DeliveryType, Accumulators
<1>6. CASE ~discard
  <2>1. out' = (out \o <<TextChunk(acc.pending)>>) \o <<CallChunk>>
    BY <1>1, <1>6
  <2>2. out' = Append(Append(out, TextChunk(acc.pending)), CallChunk)
    BY <1>4, <2>1, AppendIsConcat, AppendProperties
  <2> HIDE DEF s, discard
  <2> QED BY <1>1, <1>2, <1>3, <2>2 DEF DeliveryType, Accumulators
<1> QED BY <1>5, <1>6

\* Text is sent at once, held back, or sent with what was held back.
LEMMA TextSent ==
  ASSUME DeliveryType, NEW kind, AcceptText(kind)
  PROVE  /\ acc' \in Accumulators
         /\ acc'.calls = acc.calls
         /\ \/ /\ ~mode.tools \/ acc.streaming
               /\ acc'.pending = acc.pending /\ acc'.streaming
               /\ out' = Append(out, TextChunk(<<Len(lines) + 1>>))
            \/ /\ mode.tools /\ ~acc.streaming /\ kind = "mark" /\ MarksOnly(acc.pending)
               /\ acc'.pending = Append(acc.pending, Len(lines) + 1) /\ ~acc'.streaming
               /\ out' = out
            \/ /\ acc'.pending = <<>> /\ acc'.streaming
               /\ out' = Append(out, TextChunk(Append(acc.pending, Len(lines) + 1)))
<1> DEFINE piece == Len(lines) + 1
           pending == Append(acc.pending, piece)
<1>1. /\ acc.pending \in Text /\ acc.streaming \in BOOLEAN /\ acc.calls \in Text
      /\ pending \in Text /\ <<>> \in Text
  BY PieceType DEF Text
<1>2. acc \in Accumulators
  BY DEF DeliveryType
<1>3. CASE ~mode.tools \/ acc.streaming
  <2>1. acc' = [acc EXCEPT !.streaming = TRUE] /\ out' = Append(out, TextChunk(<<piece>>))
    BY <1>3 DEF AcceptText
  <2> QED BY <1>2, <1>3, <2>1 DEF Accumulators
<1>4. CASE ~(~mode.tools \/ acc.streaming) /\ kind = "mark" /\ MarksOnly(acc.pending)
  <2>1. acc' = [acc EXCEPT !.pending = pending] /\ out' = out
    BY <1>4 DEF AcceptText
  <2> HIDE DEF pending
  <2>2. acc' \in Accumulators /\ acc'.calls = acc.calls
        /\ acc'.pending = pending /\ acc'.streaming = acc.streaming
    BY <1>1, <1>2, <2>1 DEF Accumulators
  <2> QED BY <1>4, <2>1, <2>2 DEF pending
<1>5. CASE ~(~mode.tools \/ acc.streaming) /\ ~(kind = "mark" /\ MarksOnly(acc.pending))
  <2>1. acc' = [acc EXCEPT !.pending = <<>>, !.streaming = TRUE] /\ out' = Append(out, TextChunk(pending))
    BY <1>5 DEF AcceptText
  <2> QED BY <1>1, <1>2, <2>1 DEF Accumulators
<1> QED BY <1>3, <1>4, <1>5

\* An unstreamed answer only collects.
LEMMA Collected ==
  ASSUME DeliveryType, NEW kind, Collect(kind)
  PROVE  /\ acc' \in Accumulators
         /\ acc'.pending = IF kind \in Texts THEN Append(acc.pending, Len(lines) + 1) ELSE acc.pending
         /\ out' = out
<1> DEFINE pending == IF kind \in Texts THEN Append(acc.pending, Len(lines) + 1) ELSE acc.pending
           calls == IF kind \in Calls THEN WithCall(acc.calls, kind) ELSE acc.calls
<1>1. pending \in Text /\ calls \in Text
  BY PieceType, CallType
<1>2. acc \in Accumulators
  BY DEF DeliveryType
<1>3. acc' = [acc EXCEPT !.pending = pending, !.calls = calls] /\ out' = out
  BY <1>2 DEF Collect
<1> HIDE DEF pending, calls
<1>4. acc' \in Accumulators /\ acc'.pending = pending
  BY <1>1, <1>2, <1>3 DEF Accumulators
<1> QED BY <1>3, <1>4 DEF pending

\* What the end makes of the pending text.
FlushedAs(parsed, flushed) ==
  \/ acc.pending = <<>> /\ ~parsed /\ flushed = out
  \/ parsed /\ mode.tools /\ MarksOnly(acc.pending) /\ flushed = Append(out, CallChunk)
  \/ ~parsed /\ acc.pending # <<>> /\ flushed = Append(out, TextChunk(acc.pending))

\* A stream ends complete or failed, after what was pending.
StreamEnd(parsed, flushed) ==
  LET reason == Append(flushed, Chunk(FinishReason(acc.calls # <<>> \/ parsed)))
  IN \/ /\ Succeeded /\ result' = "ok" /\ Sink
        /\ out' = IF usage # 0 THEN Append(Append(reason, Chunk("usage")), Chunk("[DONE]"))
                  ELSE Append(reason, Chunk("[DONE]"))
     \/ ~Succeeded /\ sunk' = sunk /\ flushed = <<>> /\ out' = <<>> /\ result' = "err"
     \/ /\ ~Succeeded /\ sunk' = sunk /\ flushed # <<>>
        /\ out' = Append(flushed, Chunk("error")) /\ result' = "reported"

\* An unstreamed answer ends with everything at once, or an error.
SyncEnd(parsed, flushed) ==
  LET calls == acc.calls # <<>> \/ parsed
  IN \/ /\ Succeeded /\ result' = "ok" /\ Sink
        /\ flushed = IF parsed \/ acc.pending = <<>> THEN <<>> ELSE <<TextChunk(acc.pending)>>
        /\ parsed => MarksOnly(acc.pending)
        /\ out' = Append(IF calls THEN Append(flushed, CallChunk) ELSE flushed,
                        Chunk(SyncReason(calls)))
     \/ sunk' = sunk /\ out' = out /\ result' = "err"

\* Which chunks the ends write.
LEMMA EndChunks ==
  /\ \A k \in {"usage", "[DONE]", "error"} : Chunk(k) \in Chunks
  /\ \A k \in Reasons : Chunk(k) \in Chunks
  /\ CallChunk \in Chunks
<1>1. \A k \in Reasons \cup {"usage", "[DONE]", "error", "calls"} : k \in ChunkKinds
  BY DEF ChunkKinds, Reasons
<1> QED BY <1>1, ChunkText

\* A finish reason is one.
LEMMA ReasonType ==
  ASSUME DeliveryType
  PROVE  \A calls : FinishReason(calls) \in Reasons /\ SyncReason(calls) \in Reasons
<1>1. acc.reason \in Reasons \cup {"none"}
  BY DEF DeliveryType, Accumulators
<1> QED BY <1>1 DEF FinishReason, SyncReason, Reasons

\* What is flushed are chunks.
LEMMA FlushedType ==
  ASSUME DeliveryType, NEW parsed, NEW flushed, FlushedAs(parsed, flushed)
  PROVE  flushed \in Seq(Chunks)
<1>1. out \in Seq(Chunks) /\ CallChunk \in Chunks /\ TextChunk(acc.pending) \in Chunks
  BY PieceType, ChunkText, EndChunks DEF DeliveryType
<1> QED BY <1>1, AppendProperties DEF FlushedAs

\* handleStream's end, case by case.
LEMMA StreamEnds ==
  ASSUME DeliveryType, EndStream
  PROVE  \E parsed \in BOOLEAN, flushed \in Seq(Chunks) :
           FlushedAs(parsed, flushed) /\ StreamEnd(parsed, flushed)
<1>1. PICK parsed \in Parses :
        LET flushed == Flushed(parsed)
            calls == acc.calls # <<>> \/ parsed
        IN IF Succeeded
           THEN /\ out' = flushed \o <<Chunk(FinishReason(calls))>>
                          \o (IF usage # 0 THEN <<Chunk("usage")>> ELSE <<>>) \o <<Chunk("[DONE]")>>
                /\ result' = "ok" /\ Sink
           ELSE /\ out' = IF flushed = <<>> THEN <<>> ELSE Append(flushed, Chunk("error"))
                /\ result' = IF flushed = <<>> THEN "err" ELSE "reported"
                /\ UNCHANGED sunk
  BY DEF EndStream
<1> DEFINE flushed == Flushed(parsed)
           reason == Chunk(FinishReason(acc.calls # <<>> \/ parsed))
<1>2. parsed \in BOOLEAN /\ (parsed => acc.pending # <<>> /\ mode.tools /\ MarksOnly(acc.pending))
  <2>1. Parses = IF mode.tools /\ acc.pending # <<>> /\ MarksOnly(acc.pending) THEN BOOLEAN ELSE {FALSE}
    BY DEF Parses
  <2> QED BY <1>1, <2>1
<1>3. FlushedAs(parsed, flushed)
  BY <1>2 DEF FlushedAs, Flushed
<1>4. flushed \in Seq(Chunks)
  BY <1>3, FlushedType
<1>5. reason \in Chunks /\ Chunk("usage") \in Chunks /\ Chunk("[DONE]") \in Chunks
  <2>1. FinishReason(acc.calls # <<>> \/ parsed) \in Reasons
    BY ReasonType
  <2> QED BY <2>1, EndChunks
<1> HIDE DEF flushed, reason
<1>6. CASE Succeeded
  <2>1. /\ out' = flushed \o <<reason>> \o (IF usage # 0 THEN <<Chunk("usage")>> ELSE <<>>)
                  \o <<Chunk("[DONE]")>>
        /\ result' = "ok" /\ Sink
    BY <1>1, <1>6 DEF flushed, reason
  <2>2. flushed \o <<reason>> = Append(flushed, reason) /\ Append(flushed, reason) \in Seq(Chunks)
    BY <1>4, <1>5, WrittenMore
  <2> DEFINE first == Append(flushed, reason)
  <2> HIDE DEF first
  <2>3. out' = IF usage # 0 THEN Append(Append(first, Chunk("usage")), Chunk("[DONE]"))
               ELSE Append(first, Chunk("[DONE]"))
    <3>1. first \in Seq(Chunks) /\ first \o <<>> = first
      BY <2>2, ConcatEmptySeq DEF first
    <3>2. first \o <<Chunk("usage")>> = Append(first, Chunk("usage"))
          /\ Append(first, Chunk("usage")) \in Seq(Chunks)
      BY <1>5, <3>1, WrittenMore
    <3>3. \A s \in Seq(Chunks) : s \o <<Chunk("[DONE]")>> = Append(s, Chunk("[DONE]"))
      BY <1>5, WrittenMore
    <3>4. out' = first \o (IF usage # 0 THEN <<Chunk("usage")>> ELSE <<>>) \o <<Chunk("[DONE]")>>
      BY <2>1, <2>2 DEF first
    <3>5. CASE usage # 0
      <4>1. out' = (first \o <<Chunk("usage")>>) \o <<Chunk("[DONE]")>>
        BY <3>4, <3>5
      <4> QED BY <3>2, <3>3, <3>5, <4>1
    <3>6. CASE usage = 0
      <4>1. out' = (first \o <<>>) \o <<Chunk("[DONE]")>>
        BY <3>4, <3>6
      <4> QED BY <3>1, <3>3, <3>6, <4>1
    <3> QED BY <3>5, <3>6
  <2>4. StreamEnd(parsed, flushed)
    BY <1>6, <2>1, <2>3 DEF StreamEnd, first, reason
  <2> QED BY <1>2, <1>3, <1>4, <2>4
<1>7. CASE ~Succeeded
  <2>1. StreamEnd(parsed, flushed)
    BY <1>1, <1>7 DEF StreamEnd, flushed
  <2> QED BY <1>2, <1>3, <1>4, <2>1
<1> QED BY <1>6, <1>7

\* handleSync's end, case by case.
LEMMA SyncEnds ==
  ASSUME DeliveryType, EndSync
  PROVE  \E parsed \in BOOLEAN, flushed \in Seq(Chunks) : SyncEnd(parsed, flushed)
<1>1. CASE ~Succeeded
  <2>1. SyncEnd(FALSE, <<>>)
    BY <1>1 DEF EndSync, SyncEnd
  <2>2. <<>> \in Seq(Chunks)
    OBVIOUS
  <2> HIDE DEF Chunks
  <2> QED BY <2>1, <2>2
<1>2. CASE Succeeded
  <2>1. PICK parsed \in IF acc.calls = <<>> THEN Parses ELSE {FALSE} :
          LET calls == acc.calls # <<>> \/ parsed
          IN out' = (IF parsed \/ acc.pending = <<>> THEN <<>> ELSE <<TextChunk(acc.pending)>>)
                    \o (IF calls THEN <<CallChunk>> ELSE <<>>) \o <<Chunk(SyncReason(calls))>>
    BY <1>2 DEF EndSync
  <2> DEFINE flushed == IF parsed \/ acc.pending = <<>> THEN <<>> ELSE <<TextChunk(acc.pending)>>
             calls == acc.calls # <<>> \/ parsed
  <2>2. parsed \in BOOLEAN /\ (parsed => MarksOnly(acc.pending))
    <3>1. Parses = IF mode.tools /\ acc.pending # <<>> /\ MarksOnly(acc.pending) THEN BOOLEAN ELSE {FALSE}
      BY DEF Parses
    <3> QED BY <2>1, <3>1
  <2>3. flushed \in Seq(Chunks) /\ calls \in BOOLEAN
    <3>1. TextChunk(acc.pending) \in Chunks
      BY PieceType, ChunkText
    <3>2. <<TextChunk(acc.pending)>> \in Seq(Chunks) /\ <<>> \in Seq(Chunks)
      BY <3>1
    <3> QED BY <2>2, <3>2
  <2>4. out' = flushed \o (IF calls THEN <<CallChunk>> ELSE <<>>) \o <<Chunk(SyncReason(calls))>>
    BY <2>1
  <2>5. CallChunk \in Chunks /\ Chunk(SyncReason(calls)) \in Chunks
    BY ReasonType, EndChunks
  <2>6. result' = "ok" /\ Sink
    BY <1>2 DEF EndSync
  <2> HIDE DEF flushed, calls
  <2>7. flushed \o (IF calls THEN <<CallChunk>> ELSE <<>>) = IF calls THEN Append(flushed, CallChunk) ELSE flushed
    <3>1. flushed \o <<CallChunk>> = Append(flushed, CallChunk) /\ flushed \o <<>> = flushed
      BY <2>3, <2>5, WrittenMore, ConcatEmptySeq
    <3> QED BY <3>1
  <2> DEFINE most == IF calls THEN Append(flushed, CallChunk) ELSE flushed
  <2>8. most \in Seq(Chunks)
    BY <2>3, <2>5, WrittenMore
  <2>9. out' = most \o <<Chunk(SyncReason(calls))>>
    BY <2>4, <2>7
  <2> HIDE DEF most
  <2>10. out' = Append(most, Chunk(SyncReason(calls)))
    BY <2>5, <2>8, <2>9, WrittenMore
  <2>11. SyncEnd(parsed, flushed)
    BY <1>2, <2>2, <2>6, <2>10 DEF SyncEnd, flushed, calls, most
  <2> QED BY <2>2, <2>3, <2>11
<1> QED BY <1>1, <1>2

\* Every step keeps the types, and an ended answer as it is.
LEMMA TypedAtFirst == DeliveryInit => DeliveryType
<1> SUFFICES ASSUME DeliveryInit PROVE DeliveryType
  OBVIOUS
<1>1. <<>> \in Text /\ <<>> \in Seq(Chunks) /\ <<>> \in Seq(Kinds)
  BY DEF Text
<1>2. [pending |-> <<>>, streaming |-> FALSE, calls |-> <<>>, reason |-> "none"] \in Accumulators
  BY <1>1 DEF Accumulators
<1> QED BY <1>1, <1>2 DEF DeliveryInit, DeliveryType

\* What a line does to the accumulator and the answer keeps their types.
LEMMA DeliverTyped ==
  ASSUME DeliveryType, NEW kind \in Kinds, Deliver(kind)
  PROVE  acc' \in Accumulators /\ out' \in Seq(Chunks)
<1>1. acc \in Accumulators /\ out \in Seq(Chunks)
  BY DEF DeliveryType
<1>2. CallChunk \in Chunks /\ Chunk("think") \in Chunks
  BY EndChunks, ChunkText DEF ChunkKinds
<1>3. /\ TextChunk(acc.pending) \in Chunks
      /\ TextChunk(<<Len(lines) + 1>>) \in Chunks
      /\ TextChunk(Append(acc.pending, Len(lines) + 1)) \in Chunks
  BY PieceType, ChunkText
<1>4. \A s \in Seq(Chunks), c \in Chunks : Append(s, c) \in Seq(Chunks)
  BY AppendProperties
<1>5. CASE Collect(kind)
  BY <1>1, <1>5, Collected
<1>6. CASE AcceptCall(kind)
  <2>1. acc' \in Accumulators
    BY <1>6, CallSent
  <2>2. out' \in {Append(out, CallChunk), Append(Append(out, TextChunk(acc.pending)), CallChunk)}
    BY <1>6, CallSent
  <2>3. Append(out, CallChunk) \in Seq(Chunks) /\ Append(out, TextChunk(acc.pending)) \in Seq(Chunks)
    BY <1>1, <1>2, <1>3, <1>4
  <2>4. Append(Append(out, TextChunk(acc.pending)), CallChunk) \in Seq(Chunks)
    BY <1>2, <1>4, <2>3
  <2> QED BY <2>1, <2>2, <2>3, <2>4
<1>7. CASE AcceptText(kind)
  BY <1>1, <1>3, <1>4, <1>7, TextSent
<1>8. CASE UNCHANGED acc /\ out' \in {out, Append(out, Chunk("think"))}
  BY <1>1, <1>2, <1>4, <1>8
<1>9. CASE kind \in Reasons /\ acc' = [acc EXCEPT !.reason = kind] /\ UNCHANGED out
  BY <1>1, <1>9 DEF Accumulators
<1> QED BY <1>5, <1>6, <1>7, <1>8, <1>9 DEF Deliver

\* The end of an answer leaves nothing pending.
LEMMA EndTyped ==
  ASSUME DeliveryType, EndStream \/ EndSync
  PROVE  /\ acc' = [acc EXCEPT !.pending = <<>>]
         /\ acc' \in Accumulators
         /\ acc'.pending = <<>> /\ acc'.calls = acc.calls
         /\ out' \in Seq(Chunks) /\ result' \in {"ok", "err", "reported"}
         /\ UNCHANGED <<mode, lines, upstream, client, silent, idle, usage>>
<1>1. acc \in Accumulators /\ out \in Seq(Chunks)
  BY DEF DeliveryType
<1>2. acc' = [acc EXCEPT !.pending = <<>>]
      /\ UNCHANGED <<mode, lines, upstream, client, silent, idle, usage>>
  BY DEF EndStream, EndSync
<1>3. <<>> \in Text
  BY DEF Text
<1>4. \A s \in Seq(Chunks), c \in Chunks : Append(s, c) \in Seq(Chunks)
  BY AppendProperties
<1>5. <<>> \in Seq(Chunks) /\ Chunk("usage") \in Chunks /\ Chunk("[DONE]") \in Chunks
      /\ Chunk("error") \in Chunks /\ CallChunk \in Chunks
      /\ \A calls : Chunk(FinishReason(calls)) \in Chunks /\ Chunk(SyncReason(calls)) \in Chunks
  BY EndChunks, ReasonType
<1>6. out' \in Seq(Chunks) /\ result' \in {"ok", "err", "reported"}
  <2>1. CASE EndStream
    <3>1. PICK parsed \in BOOLEAN, flushed \in Seq(Chunks) : StreamEnd(parsed, flushed)
      BY <2>1, StreamEnds
    <3>2. Chunk(FinishReason(acc.calls # <<>> \/ parsed)) \in Chunks
      BY <1>5
    <3>3. Append(flushed, Chunk(FinishReason(acc.calls # <<>> \/ parsed))) \in Seq(Chunks)
      BY <1>4, <3>2
    <3> HIDE DEF Chunks
    <3> QED BY <1>4, <1>5, <3>1, <3>3 DEF StreamEnd
  <2>2. CASE EndSync
    <3>1. PICK parsed \in BOOLEAN, flushed \in Seq(Chunks) : SyncEnd(parsed, flushed)
      BY <2>2, SyncEnds
    <3>2. Chunk(SyncReason(acc.calls # <<>> \/ parsed)) \in Chunks
      BY <1>5
    <3> HIDE DEF Chunks
    <3> QED BY <1>1, <1>4, <1>5, <3>1, <3>2 DEF SyncEnd
  <2> QED BY <2>1, <2>2
<1> QED BY <1>1, <1>2, <1>3, <1>6 DEF Accumulators

\* A step keeps the types.
LEMMA DeliveryTypeKept == DeliveryType /\ [DeliveryNext]_deliveryVars => DeliveryType'
<1> SUFFICES ASSUME DeliveryType, [DeliveryNext]_deliveryVars PROVE DeliveryType'
  OBVIOUS
<1>1. ASSUME NEW kind \in Kinds, Line(kind) PROVE DeliveryType'
  <2>1. acc' \in Accumulators /\ out' \in Seq(Chunks)
    BY <1>1, DeliverTyped DEF Line
  <2>2. lines' \in Seq(Kinds) /\ usage' \in Nat /\ mode' = mode /\ result' = result
    BY <1>1, PieceType DEF Line, DeliveryType
  <2> QED BY <2>1, <2>2 DEF DeliveryType
<1>2. ASSUME NEW how \in {"cut", "failed"}, Cut(how) PROVE DeliveryType'
  BY <1>2 DEF Cut, DeliveryType
<1>3. CASE ClientLeaves
  BY <1>3 DEF ClientLeaves, DeliveryType
<1>4. CASE Watchdog
  BY <1>4 DEF Watchdog, DeliveryType
<1>5. CASE EndStream \/ EndSync
  BY <1>5, EndTyped DEF DeliveryType
<1>6. CASE UNCHANGED deliveryVars
  BY <1>6 DEF deliveryVars, DeliveryType
<1> QED BY <1>1, <1>2, <1>3, <1>4, <1>5, <1>6 DEF DeliveryNext

-------------------------------------------------------------------------------
(* How an answer ends.                                                     *)

Endings == Reasons \cup {"usage", "[DONE]", "error"}

\* While an answer is under way the client was sent text, thought and tool calls, a
\* tool call exactly when the accumulator has one, and nothing was accounted.
UnderWay ==
  result = "none" =>
    /\ \A k \in Endings : Chunk(k) \notin Range(out)
    /\ sunk = <<>>
    /\ IF mode.stream THEN CallChunk \in Range(out) <=> acc.calls # <<>> ELSE out = <<>>

\* An answer that has ended ends truthfully.
Ended == result # "none" => EndingIsTruthful

\* No chunk of an ending is one of a text, of a thought or of a tool call.
LEMMA EndingsApart ==
  /\ \A k \in Endings : Chunk(k) # CallChunk /\ Chunk(k) # Chunk("think")
  /\ \A k \in Endings, p \in Text : Chunk(k) # TextChunk(p)
  /\ \A p \in Text : CallChunk # TextChunk(p)
  /\ CallChunk # Chunk("think")
  /\ \A j, k \in Endings : Chunk(j) = Chunk(k) => j = k
<1>1. Endings \subseteq ChunkKinds /\ "calls" \in ChunkKinds /\ "think" \in ChunkKinds
      /\ "calls" \notin Endings /\ "think" \notin Endings
  BY DEF Endings, Reasons, ChunkKinds
<1> QED BY <1>1, ChunkText

\* The chunks of text, thought and tool calls do not end an answer.
LEMMA StillUnderWay ==
  ASSUME NEW written \in Seq(Chunks), \A k \in Endings : Chunk(k) \notin Range(written)
  PROVE  /\ \A k \in Endings : Chunk(k) \notin Range(Append(written, CallChunk))
         /\ \A k \in Endings : Chunk(k) \notin Range(Append(written, Chunk("think")))
         /\ \A p \in Text : \A k \in Endings : Chunk(k) \notin Range(Append(written, TextChunk(p)))
         /\ CallChunk \in Range(Append(written, CallChunk))
         /\ CallChunk \in Range(Append(written, Chunk("think"))) <=> CallChunk \in Range(written)
         /\ \A p \in Text : CallChunk \in Range(Append(written, TextChunk(p)))
                            <=> CallChunk \in Range(written)
         /\ Append(written, CallChunk) \in Seq(Chunks)
         /\ \A p \in Text : Append(written, TextChunk(p)) \in Seq(Chunks)
<1>1. CallChunk \in Chunks /\ Chunk("think") \in Chunks /\ \A p \in Text : TextChunk(p) \in Chunks
  BY ChunkText, EndChunks DEF ChunkKinds
<1>2. \A c \in Chunks : /\ Append(written, c) \in Seq(Chunks)
                        /\ Range(Append(written, c)) = Range(written) \cup {c}
  BY WrittenMore
<1> HIDE DEF Chunks
<1> QED BY <1>1, <1>2, EndingsApart

\* At the start nothing was sent.
LEMMA UnderWayAtFirst == DeliveryInit => UnderWay /\ Ended
<1>1. Range(<<>>) = {}
  BY DEF Range
<1> QED BY <1>1 DEF DeliveryInit, UnderWay, Ended

\* Each step keeps an answer under way or ends it.
LEMMA UnderWayKept ==
  DeliveryType /\ UnderWay /\ [DeliveryNext]_deliveryVars => UnderWay'
<1> SUFFICES ASSUME DeliveryType, UnderWay, [DeliveryNext]_deliveryVars PROVE UnderWay'
  OBVIOUS
<1>1. ASSUME NEW kind \in Kinds, Line(kind) PROVE UnderWay'
  <2>1. result = "none" /\ UNCHANGED <<mode, sunk>> /\ Deliver(kind) /\ out \in Seq(Chunks)
    BY <1>1 DEF Line, Reading, DeliveryType
  <2>2. \A k \in Endings : Chunk(k) \notin Range(out)
    BY <2>1 DEF UnderWay
  <2>3. CASE UNCHANGED <<acc, out>>
    BY <2>1, <2>3 DEF UnderWay
  <2>4. CASE Collect(kind) /\ ~mode.stream
    BY <2>1, <2>4, Collected DEF UnderWay
  <2>5. CASE mode.stream /\ AcceptCall(kind)
    <3>1. acc'.calls # <<>> /\ acc.pending \in Text
      BY <2>5, CallSent, PieceType
    <3>2. \/ out' = Append(out, CallChunk)
          \/ out' = Append(Append(out, TextChunk(acc.pending)), CallChunk)
      BY <2>5, CallSent
    <3>3. CASE out' = Append(out, CallChunk)
      BY <2>1, <2>2, <2>5, <3>1, <3>3, StillUnderWay DEF UnderWay
    <3>4. CASE out' = Append(Append(out, TextChunk(acc.pending)), CallChunk)
      <4> DEFINE first == Append(out, TextChunk(acc.pending))
      <4>1. first \in Seq(Chunks) /\ \A k \in Endings : Chunk(k) \notin Range(first)
        BY <2>1, <2>2, <3>1, StillUnderWay
      <4> HIDE DEF first
      <4>2. /\ \A k \in Endings : Chunk(k) \notin Range(Append(first, CallChunk))
            /\ CallChunk \in Range(Append(first, CallChunk))
        BY <4>1, StillUnderWay
      <4>3. out' = Append(first, CallChunk)
        BY <3>4 DEF first
      <4> QED BY <2>1, <2>5, <3>1, <4>2, <4>3 DEF UnderWay
    <3> QED BY <3>2, <3>3, <3>4
  <2>6. CASE mode.stream /\ AcceptText(kind)
    <3>1. /\ acc'.calls = acc.calls /\ <<Len(lines) + 1>> \in Text
          /\ Append(acc.pending, Len(lines) + 1) \in Text
      BY <2>6, TextSent, PieceType
    <3>2. out' = out \/ \E p \in Text : out' = Append(out, TextChunk(p))
      BY <2>6, <3>1, TextSent
    <3> QED BY <2>1, <2>2, <2>6, <3>1, <3>2, StillUnderWay DEF UnderWay
  <2>7. CASE mode.stream /\ UNCHANGED acc /\ out' = Append(out, Chunk("think"))
    BY <2>1, <2>2, <2>7, StillUnderWay DEF UnderWay
  <2>8. CASE mode.stream /\ acc' = [acc EXCEPT !.reason = kind] /\ UNCHANGED out
    <3>1. acc'.calls = acc.calls
      BY <2>8 DEF DeliveryType, Accumulators
    <3> QED BY <2>1, <2>8, <3>1 DEF UnderWay
  <2> QED BY <2>1, <2>3, <2>4, <2>5, <2>6, <2>7, <2>8 DEF Deliver
<1>2. ASSUME NEW how \in {"cut", "failed"}, Cut(how) PROVE UnderWay'
  BY <1>2 DEF Cut, UnderWay
<1>3. CASE ClientLeaves
  BY <1>3 DEF ClientLeaves, UnderWay
<1>4. CASE Watchdog
  BY <1>4 DEF Watchdog, UnderWay
<1>5. CASE EndStream \/ EndSync
  BY <1>5, EndTyped DEF UnderWay
<1>6. CASE UNCHANGED deliveryVars
  BY <1>6 DEF deliveryVars, UnderWay
<1> QED BY <1>1, <1>2, <1>3, <1>4, <1>5, <1>6 DEF DeliveryNext

\* What is flushed ends nothing, and holds a tool call if there is one.
LEMMA FlushedHas ==
  ASSUME DeliveryType, UnderWay, result = "none", mode.stream,
         NEW parsed \in BOOLEAN, NEW flushed, FlushedAs(parsed, flushed)
  PROVE  /\ flushed \in Seq(Chunks)
         /\ \A k \in Endings : Chunk(k) \notin Range(flushed)
         /\ CallChunk \in Range(flushed) <=> acc.calls # <<>> \/ parsed
<1>1. /\ out \in Seq(Chunks) /\ acc.pending \in Text
      /\ \A k \in Endings : Chunk(k) \notin Range(out)
      /\ CallChunk \in Range(out) <=> acc.calls # <<>>
  BY PieceType DEF UnderWay, DeliveryType
<1> HIDE DEF Chunks, Text
<1> QED BY <1>1, StillUnderWay DEF FlushedAs

\* One finish reason is written, and with it no tool call and no [DONE].
LEMMA ReasonHas ==
  ASSUME NEW flushed \in Seq(Chunks), \A k \in Endings : Chunk(k) \notin Range(flushed),
         NEW reason \in Reasons
  PROVE  /\ Append(flushed, Chunk(reason)) \in Seq(Chunks)
         /\ \A k \in Reasons : Chunk(k) \in Range(Append(flushed, Chunk(reason))) <=> k = reason
         /\ CallChunk \in Range(Append(flushed, Chunk(reason))) <=> CallChunk \in Range(flushed)
         /\ Chunk("[DONE]") \notin Range(Append(flushed, Chunk(reason)))
<1> DEFINE more == Append(flushed, Chunk(reason))
<1>1. Chunk(reason) \in Chunks
  BY EndChunks
<1>2. more \in Seq(Chunks) /\ Range(more) = Range(flushed) \cup {Chunk(reason)}
  BY <1>1, WrittenMore
<1>3. Reasons \subseteq Endings /\ "[DONE]" \in Endings /\ "[DONE]" \notin Reasons
  BY DEF Endings, Reasons
<1>4. /\ \A k \in Reasons : Chunk(k) = Chunk(reason) <=> k = reason
      /\ Chunk("[DONE]") # Chunk(reason) /\ CallChunk # Chunk(reason)
  BY <1>3, EndingsApart
<1> HIDE DEF more, Chunks
<1> QED BY <1>2, <1>3, <1>4 DEF more

\* The usage and [DONE] after it change nothing of that.
LEMMA TailHas ==
  ASSUME NEW written \in Seq(Chunks), NEW k \in {"usage", "[DONE]"}
  PROVE  /\ Append(written, Chunk(k)) \in Seq(Chunks)
         /\ Last(Append(written, Chunk(k))) = Chunk(k)
         /\ CallChunk \in Range(Append(written, Chunk(k))) <=> CallChunk \in Range(written)
         /\ \A r \in Reasons : Chunk(r) \in Range(Append(written, Chunk(k))) <=> Chunk(r) \in Range(written)
<1>1. Chunk(k) \in Chunks
  BY EndChunks
<1>2. /\ Append(written, Chunk(k)) \in Seq(Chunks) /\ Last(Append(written, Chunk(k))) = Chunk(k)
      /\ Range(Append(written, Chunk(k))) = Range(written) \cup {Chunk(k)}
  BY <1>1, WrittenMore
<1>3. Reasons \cup {"usage", "[DONE]"} \subseteq Endings /\ k \notin Reasons
  BY DEF Endings, Reasons
<1>4. (\A r \in Reasons : Chunk(r) # Chunk(k)) /\ CallChunk # Chunk(k)
  BY <1>3, EndingsApart
<1> HIDE DEF Chunks
<1> QED BY <1>2, <1>4

\* A line adds its position to its kinds.
LEMMA LineAdds ==
  ASSUME DeliveryType, NEW kind \in Kinds, lines' = Append(lines, kind), NEW kinds
  PROVE  Of(kinds)' = Of(kinds) \cup (IF kind \in kinds THEN {Len(lines) + 1} ELSE {})
<1>1. lines \in Seq(Kinds) /\ Len(lines) \in Nat /\ DOMAIN lines = 1..Len(lines)
  BY LenProperties DEF DeliveryType
<1>2. /\ lines' \in Seq(Kinds) /\ DOMAIN lines' = 1..(Len(lines) + 1) /\ lines'[Len(lines) + 1] = kind
      /\ \A i \in 1..Len(lines) : lines'[i] = lines[i]
  BY <1>1, AppendProperties, LenProperties
<1> DEFINE n == Len(lines)
<1>3. 1..(n + 1) = 1..n \cup {n + 1}
  BY <1>1
<1>4. Of(kinds)' = {i \in 1..(n + 1) : lines'[i] \in kinds}
  BY <1>2 DEF Of
<1>5. Of(kinds) = {i \in 1..n : lines[i] \in kinds}
  BY <1>1 DEF Of
<1> HIDE DEF n
<1>6. {i \in 1..(n + 1) : lines'[i] \in kinds}
        = {i \in 1..n : lines'[i] \in kinds} \cup {i \in {n + 1} : lines'[i] \in kinds}
  BY <1>3
<1> QED BY <1>2, <1>4, <1>5, <1>6 DEF n

\* What the accumulator has is what the gateway said last.
Heard == mode.stream => Told = IF acc.reason = "none" THEN {} ELSE {acc.reason}

\* At the start it said nothing.
LEMMA HeardAtFirst == DeliveryInit => Heard
<1> SUFFICES ASSUME DeliveryInit PROVE Heard
  OBVIOUS
<1>1. Of(Reasons) = {} /\ acc.reason = "none"
  BY DEF DeliveryInit, Of
<1> QED BY <1>1 DEF Heard, Told

\* A line with a finish reason is the last such line, and another line is none.
LEMMA ToldAfter ==
  ASSUME DeliveryType, NEW kind \in Kinds, lines' = Append(lines, kind)
  PROVE  Told' = IF kind \in Reasons THEN {kind} ELSE Told
<1> DEFINE n == Len(lines) + 1
<1>1. Of(Reasons)' = Of(Reasons) \cup (IF kind \in Reasons THEN {n} ELSE {})
  BY LineAdds
<1>2. /\ n \in Nat /\ \A i \in Of(Reasons) : i \in 1..Len(lines) /\ i < n
      /\ lines'[n] = kind /\ \A i \in 1..Len(lines) : lines'[i] = lines[i]
  <2>1. DOMAIN lines = 1..Len(lines) /\ Len(lines) \in Nat
    BY LenProperties DEF DeliveryType
  <2>2. lines'[n] = kind /\ \A i \in 1..Len(lines) : lines'[i] = lines[i]
    BY <2>1, AppendProperties DEF DeliveryType
  <2> QED BY <2>1, <2>2 DEF Of
<1> DEFINE last(S) == {j \in S : \A k \in S : k <= j}
<1>3. Told' = {lines'[i] : i \in last(Of(Reasons)')} /\ Told = {lines[i] : i \in last(Of(Reasons))}
  BY DEF Told
<1> HIDE DEF n
<1>4. CASE kind \in Reasons
  <2>1. last(Of(Reasons)') = {n}
    BY <1>1, <1>2, <1>4
  <2> HIDE DEF last
  <2> QED BY <1>2, <1>3, <1>4, <2>1
<1>5. CASE kind \notin Reasons
  <2>1. Of(Reasons)' = Of(Reasons)
    BY <1>1, <1>5
  <2>2. \A i \in last(Of(Reasons)) : lines'[i] = lines[i]
    BY <1>2
  <2> HIDE DEF last
  <2> QED BY <1>3, <1>5, <2>1, <2>2
<1> QED BY <1>4, <1>5

\* Every step keeps that.
LEMMA HeardKept == DeliveryType /\ Heard /\ [DeliveryNext]_deliveryVars => Heard'
<1> SUFFICES ASSUME DeliveryType, Heard, [DeliveryNext]_deliveryVars PROVE Heard'
  OBVIOUS
<1>1. ASSUME NEW kind \in Kinds, Line(kind), mode.stream PROVE Heard'
  <2>1. Told' = IF kind \in Reasons THEN {kind} ELSE Told
    BY <1>1, ToldAfter DEF Line
  <2>2. mode' = mode /\ Deliver(kind)
    BY <1>1 DEF Line
  <2>3. acc'.reason = IF kind \in Reasons THEN kind ELSE acc.reason
    <3>1. acc \in Accumulators
      BY DEF DeliveryType
    <3>2. kind \in Reasons => kind \notin Calls /\ kind \notin Texts /\ kind # "reject"
      BY DEF Reasons, Calls, Texts
    <3>3. CASE kind \in Calls /\ AcceptCall(kind)
      BY <3>1, <3>2, <3>3 DEF AcceptCall, Accumulators
    <3>4. CASE kind \in Texts /\ AcceptText(kind)
      BY <3>1, <3>2, <3>4 DEF AcceptText, Accumulators
    <3>5. CASE kind \in Reasons /\ acc' = [acc EXCEPT !.reason = kind]
      BY <3>1, <3>5 DEF Accumulators
    <3>6. CASE kind \notin Reasons /\ acc' = acc
      BY <3>6
    <3> QED BY <1>1, <2>2, <3>2, <3>3, <3>4, <3>5, <3>6 DEF Deliver
  <2>4. "none" \notin Reasons
    BY DEF Reasons
  <2> QED BY <1>1, <2>1, <2>2, <2>3, <2>4 DEF Heard
<1>2. CASE UNCHANGED <<mode, lines, acc>>
  BY <1>2 DEF Heard, Told, Of
<1>3. CASE EndStream \/ EndSync
  <2>1. acc'.reason = acc.reason /\ UNCHANGED <<mode, lines>>
    BY <1>3, EndTyped DEF DeliveryType, Accumulators
  <2> QED BY <2>1 DEF Heard, Told, Of
<1>4. ASSUME NEW how \in {"cut", "failed"}, Cut(how) PROVE Heard'
  BY <1>2, <1>4 DEF Cut
<1>5. CASE ClientLeaves \/ Watchdog \/ UNCHANGED deliveryVars
  BY <1>2, <1>5 DEF ClientLeaves, Watchdog, deliveryVars
<1>6. ASSUME NEW kind \in Kinds, Line(kind), ~mode.stream PROVE Heard'
  BY <1>6 DEF Line, Heard
<1> QED BY <1>1, <1>3, <1>4, <1>5, <1>6 DEF DeliveryNext

\* The end of a stream is truthful.
LEMMA StreamEndsTruthfully ==
  ASSUME DeliveryType, UnderWay, Heard, EndStream PROVE EndingIsTruthful'
<1>1. result = "none" /\ mode.stream /\ sunk = <<>>
  BY DEF EndStream, Returned, UnderWay
<1>2. UNCHANGED <<mode, lines, upstream, usage>>
  BY EndTyped
<1>3. PICK parsed \in BOOLEAN, flushed \in Seq(Chunks) :
        FlushedAs(parsed, flushed) /\ StreamEnd(parsed, flushed)
  BY StreamEnds
<1> DEFINE calls == acc.calls # <<>> \/ parsed
           reason == Append(flushed, Chunk(FinishReason(calls)))
<1>4. /\ \A k \in Endings : Chunk(k) \notin Range(flushed)
      /\ CallChunk \in Range(flushed) <=> calls
  BY <1>1, <1>3, FlushedHas
<1>5. /\ \A k : Written(k)' <=> Chunk(k) \in Range(out')
      /\ Calling' <=> CallChunk \in Range(out')
      /\ ReasonsWritten' = {k \in Reasons : Chunk(k) \in Range(out')}
  BY DEF Written, Calling, ReasonsWritten, Range
<1>6. "error" \in Endings /\ "[DONE]" \in Endings /\ Reasons \subseteq Endings /\ "error" \notin Reasons
  BY DEF Endings, Reasons
<1>7. /\ (SawDone /\ ~Rejected /\ upstream = "cut")'
           <=> SawDone /\ ~Rejected /\ upstream = "cut"
      /\ Told' = Told
  BY <1>2 DEF SawDone, Rejected, Has, Told, Of
<1>8. /\ reason \in Seq(Chunks) /\ FinishReason(calls) \in Reasons
      /\ \A k \in Reasons : Chunk(k) \in Range(reason) <=> k = FinishReason(calls)
      /\ CallChunk \in Range(reason) <=> calls
      /\ Chunk("[DONE]") \notin Range(reason)
  <2> HIDE DEF Chunks, calls
  <2>1. FinishReason(calls) \in Reasons
    BY ReasonType
  <2> QED BY <1>3, <1>4, <2>1, ReasonHas
<1>9. {FinishReason(calls)} = IF calls THEN {"tool_calls"} ELSE IF Told # {} THEN Told ELSE {"stop"}
  BY <1>1 DEF FinishReason, Heard
<1>10. /\ Succeeded /\ result' = "ok" /\ Sink
       /\ out' = IF usage # 0 THEN Append(Append(reason, Chunk("usage")), Chunk("[DONE]"))
                 ELSE Append(reason, Chunk("[DONE]"))
       => EndingIsTruthful'
  <2> HIDE DEF reason, calls, Chunks
  <2>1. SUFFICES ASSUME Succeeded, result' = "ok", Sink,
                        out' = IF usage # 0 THEN Append(Append(reason, Chunk("usage")), Chunk("[DONE]"))
                               ELSE Append(reason, Chunk("[DONE]"))
                 PROVE  EndingIsTruthful'
    OBVIOUS
  <2>2. SawDone /\ ~Rejected /\ upstream = "cut"
    BY <2>1 DEF Succeeded
  <2>3. PICK w \in Seq(Chunks) :
          /\ out' = Append(w, Chunk("[DONE]"))
          /\ CallChunk \in Range(w) <=> CallChunk \in Range(reason)
          /\ \A k \in Reasons : Chunk(k) \in Range(w) <=> Chunk(k) \in Range(reason)
    <3>1. CASE usage # 0
      <4> DEFINE more == Append(reason, Chunk("usage"))
      <4>1. /\ more \in Seq(Chunks)
            /\ CallChunk \in Range(more) <=> CallChunk \in Range(reason)
            /\ \A k \in Reasons : Chunk(k) \in Range(more) <=> Chunk(k) \in Range(reason)
        BY <1>8, TailHas
      <4> QED BY <2>1, <3>1, <4>1
    <3>2. CASE usage = 0
      BY <1>8, <2>1, <3>2
    <3> QED BY <3>1, <3>2
  <2>4. /\ Last(out') = Chunk("[DONE]")
        /\ CallChunk \in Range(out') <=> CallChunk \in Range(w)
        /\ \A k \in Reasons : Chunk(k) \in Range(out') <=> Chunk(k) \in Range(w)
    BY <2>3, TailHas
  <2>5. ReasonsWritten' = {FinishReason(calls)} /\ (Calling' <=> calls)
    BY <1>5, <1>8, <2>3, <2>4
  <2>6. sunk' = IF usage # 0 THEN <<usage>> ELSE <<>>
    <3>1. Append(<<>>, usage) = <<usage>>
      BY DEF DeliveryType
    <3> QED BY <1>1, <2>1, <3>1 DEF Sink
  <2>7. result' = "ok" => ReasonsWritten' = IF Calling' THEN {"tool_calls"}
                                            ELSE IF mode'.stream /\ Told' # {} THEN Told' ELSE {"stop"}
    BY <1>1, <1>2, <1>7, <1>9, <2>5
  <2> QED BY <1>2, <1>7, <2>1, <2>2, <2>4, <2>6, <2>7 DEF EndingIsTruthful
<1>11. sunk' = sunk /\ out' = <<>> /\ result' = "err" => EndingIsTruthful'
  <2>1. Range(<<>>) = {}
    BY DEF Range
  <2> QED BY <1>1, <1>5, <2>1 DEF EndingIsTruthful
<1>12. sunk' = sunk /\ out' = Append(flushed, Chunk("error")) /\ result' = "reported" => EndingIsTruthful'
  <2>1. Chunk("error") \in Chunks
    BY EndChunks
  <2>2. /\ Range(Append(flushed, Chunk("error"))) = Range(flushed) \cup {Chunk("error")}
        /\ Last(Append(flushed, Chunk("error"))) = Chunk("error")
    BY <2>1, WrittenMore
  <2>3. (\A k \in Reasons : Chunk("error") # Chunk(k)) /\ Chunk("error") # Chunk("[DONE]")
    BY <1>6, EndingsApart
  <2> HIDE DEF Chunks
  <2> QED BY <1>1, <1>4, <1>5, <1>6, <2>2, <2>3 DEF EndingIsTruthful
<1> HIDE DEF calls
<1> QED BY <1>3, <1>10, <1>11, <1>12 DEF StreamEnd, calls

\* The end of an unstreamed answer is truthful.
LEMMA SyncEndsTruthfully ==
  ASSUME DeliveryType, UnderWay, EndSync PROVE EndingIsTruthful'
<1>1. result = "none" /\ out = <<>> /\ sunk = <<>> /\ ~mode.stream
  BY DEF EndSync, Returned, UnderWay
<1>2. UNCHANGED <<mode, lines, upstream, usage>>
  BY EndTyped
<1>3. PICK parsed \in BOOLEAN, flushed \in Seq(Chunks) : SyncEnd(parsed, flushed)
  BY SyncEnds
<1> DEFINE calls == acc.calls # <<>> \/ parsed
           most == IF calls THEN Append(flushed, CallChunk) ELSE flushed
<1>4. /\ \A k : Written(k)' <=> Chunk(k) \in Range(out')
      /\ Calling' <=> CallChunk \in Range(out')
      /\ ReasonsWritten' = {k \in Reasons : Chunk(k) \in Range(out')}
  BY DEF Written, Calling, ReasonsWritten, Range
<1>5. (SawDone /\ ~Rejected /\ upstream = "cut")'
        <=> SawDone /\ ~Rejected /\ upstream = "cut"
  BY <1>2 DEF SawDone, Rejected, Has
<1>6. Range(<<>>) = {}
  BY DEF Range
<1>7. sunk' = sunk /\ out' = out /\ result' = "err" => EndingIsTruthful'
  BY <1>1, <1>4, <1>6 DEF EndingIsTruthful
<1>8. ASSUME Succeeded, result' = "ok", Sink,
             flushed = IF parsed \/ acc.pending = <<>> THEN <<>> ELSE <<TextChunk(acc.pending)>>,
             out' = Append(most, Chunk(SyncReason(calls)))
      PROVE  EndingIsTruthful'
  <2>1. SawDone /\ ~Rejected /\ upstream = "cut"
    BY <1>8 DEF Succeeded
  <2>2. SyncReason(calls) \in Reasons
    BY ReasonType
  <2>3. (\A k \in Endings : Chunk(k) \notin Range(flushed)) /\ CallChunk \notin Range(flushed)
    <3>1. Range(<<TextChunk(acc.pending)>>) = {TextChunk(acc.pending)}
      BY DEF Range
    <3>2. Range(flushed) \subseteq {TextChunk(acc.pending)}
      BY <1>6, <1>8, <3>1
    <3>3. acc.pending \in Text
      BY PieceType
    <3> QED BY <3>2, <3>3, EndingsApart
  <2>4. /\ most \in Seq(Chunks) /\ \A k \in Endings : Chunk(k) \notin Range(most)
        /\ CallChunk \in Range(most) <=> calls
    <3> HIDE DEF calls, Chunks
    <3>1. CASE calls
      BY <1>3, <2>3, <3>1, StillUnderWay
    <3>2. CASE ~calls
      BY <1>3, <2>3, <3>2
    <3> QED BY <3>1, <3>2
  <2> HIDE DEF calls, most, Chunks
  <2>5. /\ \A k \in Reasons : Chunk(k) \in Range(out') <=> k = SyncReason(calls)
        /\ CallChunk \in Range(out') <=> calls
        /\ Chunk("[DONE]") \notin Range(out')
    BY <1>8, <2>2, <2>4, ReasonHas
  <2>6. sunk' = IF usage # 0 THEN <<usage>> ELSE <<>>
    <3>1. Append(<<>>, usage) = <<usage>>
      BY DEF DeliveryType
    <3> QED BY <1>1, <1>8, <3>1 DEF Sink
  <2>7. ReasonsWritten' = {SyncReason(calls)} /\ (Calling' <=> calls)
    BY <1>4, <2>2, <2>5
  <2>8. ReasonsWritten' = IF Calling' THEN {"tool_calls"}
                          ELSE IF mode'.stream /\ Told' # {} THEN Told' ELSE {"stop"}
    BY <1>1, <1>2, <2>7 DEF SyncReason
  <2> QED BY <1>2, <1>4, <1>5, <1>8, <2>1, <2>5, <2>6, <2>8 DEF EndingIsTruthful
<1> HIDE DEF Chunks
<1> QED BY <1>3, <1>7, <1>8 DEF SyncEnd

\* An answer that ends ends truthfully, and stays as it is.
LEMMA EndedKept ==
  DeliveryType /\ UnderWay /\ Heard /\ Ended /\ [DeliveryNext]_deliveryVars => Ended'
<1> SUFFICES ASSUME DeliveryType, UnderWay, Heard, Ended, [DeliveryNext]_deliveryVars PROVE Ended'
  OBVIOUS
<1>1. CASE result = "none" /\ result' = "none"
  BY <1>1 DEF Ended
<1>2. CASE EndStream \/ EndSync
  BY <1>2, StreamEndsTruthfully, SyncEndsTruthfully DEF Ended
<1>3. CASE UNCHANGED deliveryVars
  BY <1>3 DEF deliveryVars, Ended, EndingIsTruthful, ReasonsWritten, Told, Of,
                     Written, Calling, SawDone, Rejected, Has
<1>4. CASE result # "none" \/ result' # "none"
  <2>1. ASSUME NEW kind \in Kinds, Line(kind) PROVE FALSE
    BY <1>4, <2>1 DEF Line, Reading
  <2>2. ASSUME NEW how \in {"cut", "failed"}, Cut(how) PROVE FALSE
    BY <1>4, <2>2 DEF Cut, Reading
  <2>3. ~ClientLeaves /\ ~Watchdog
    BY <1>4 DEF ClientLeaves, Watchdog, Reading
  <2> QED BY <1>2, <1>3, <2>1, <2>2, <2>3 DEF DeliveryNext
<1> QED BY <1>1, <1>4

\* A truncated, rejected or idle answer never reads as complete, a failure is told
\* exactly once, a complete one has the one finish reason that fits it, tool calls before the
\* gateway's last word, and the statistics get the last usage of a completed answer alone
\* (handleStream, FinishReason, handleSync, OpenStreamLines).
THEOREM EndingIsTruthfulHolds == DeliverySpec => []EndingIsTruthful
<1>1. DeliveryType /\ UnderWay /\ Ended => EndingIsTruthful
  <2> SUFFICES ASSUME UnderWay, result = "none" PROVE EndingIsTruthful
    BY DEF Ended
  <2>1. Chunk("[DONE]") \notin Range(out) /\ sunk = <<>>
    BY DEF UnderWay, Endings
  <2>2. Written("[DONE]") <=> Chunk("[DONE]") \in Range(out)
    BY DEF Written, Range
  <2> QED BY <2>1, <2>2 DEF EndingIsTruthful
<1> QED BY <1>1, TypedAtFirst, UnderWayAtFirst, HeardAtFirst, DeliveryTypeKept, UnderWayKept,
           HeardKept, EndedKept, PTL
        DEF DeliverySpec

-------------------------------------------------------------------------------
(* The text of an answer.                                                  *)

\* Text of these kinds is always delivered.
Plain == {"text", "last"}

Given == SentIn(out) \o acc.pending

\* Text that a stream holds back may all be a tool call in words, and none is held
\* back once text was sent or where no tools are offered.
Held ==
  result = "none" /\ mode.stream =>
    MarksOnly(acc.pending) /\ (acc.streaming \/ ~mode.tools => acc.pending = <<>>)

\* TextInOrder, in terms of what was given.
Whole ==
  /\ InOrder(Given) /\ Range(Given) \subseteq Of(Texts)
  /\ CallChunk \in Range(out) => Of(Plain) \subseteq Range(Given)
  /\ CallChunk \notin Range(out) => Of(Texts) \subseteq Range(Given)

Answered == mode.stream \/ result # "err" => Whole

\* TextInOrder is about what was given.
LEMMA AnsweredIs == Answered => TextInOrder
<1>1. Calling <=> CallChunk \in Range(out)
  BY DEF Calling, Range
<1>2. SentText = SentIn(out)
  BY DEF SentText, SentIn
<1> QED BY <1>1, <1>2 DEF Answered, Whole, Given, TextInOrder, Plain

\* Numbers after all of a sequence in order extend it, and part of it is in order.
LEMMA OrderOfParts ==
  ASSUME NEW s \in Text, NEW t \in Text
  PROVE  /\ InOrder(s \o t) => InOrder(s)
         /\ Range(s \o t) = Range(s) \cup Range(t)
         /\ s \o <<>> = s /\ <<>> \o s = s
         /\ \A n \in Nat : /\ s \o Append(t, n) = Append(s \o t, n) /\ Append(s, n) = s \o <<n>>
                           /\ Range(Append(s, n)) = Range(s) \cup {n}
                           /\ InOrder(s) /\ (\A i \in Range(s) : i < n) => InOrder(Append(s, n))
<1>1. s \in Seq(Nat) /\ t \in Seq(Nat)
  BY DEF Text
<1>2. Range(s \o t) = Range(s) \cup Range(t)
  BY <1>1, RangeConcatenation
<1>3. s \o <<>> = s /\ <<>> \o s = s
  BY <1>1, ConcatEmptySeq
<1>4. InOrder(s \o t) => InOrder(s)
  <2>1. /\ s \o t \in Seq(Nat) /\ Len(s \o t) = Len(s) + Len(t) /\ Len(s) \in Nat /\ Len(t) \in Nat
        /\ \A i \in 1..Len(s) : (s \o t)[i] = s[i]
    BY <1>1, ConcatProperties, LenProperties
  <2>2. DOMAIN s = 1..Len(s) /\ DOMAIN (s \o t) = 1..(Len(s) + Len(t))
    BY <1>1, <2>1, LenProperties
  <2> QED BY <2>1, <2>2 DEF InOrder
<1>5. ASSUME NEW n \in Nat
      PROVE  /\ s \o Append(t, n) = Append(s \o t, n) /\ Append(s, n) = s \o <<n>>
             /\ Range(Append(s, n)) = Range(s) \cup {n}
             /\ InOrder(s) /\ (\A i \in Range(s) : i < n) => InOrder(Append(s, n))
  <2>1. <<n>> \in Seq(Nat) /\ s \o t \in Seq(Nat)
    BY <1>1, ConcatProperties
  <2>2. Append(s, n) = s \o <<n>> /\ Append(t, n) = t \o <<n>> /\ Append(s \o t, n) = (s \o t) \o <<n>>
    BY <1>1, <2>1, AppendIsConcat
  <2>3. s \o (t \o <<n>>) = (s \o t) \o <<n>>
    BY <1>1, <2>1, ConcatAssociative
  <2>4. Range(Append(s, n)) = Range(s) \cup {n}
    <3>1. Range(<<n>>) = {n}
      BY DEF Range
    <3>2. Range(s \o <<n>>) = Range(s) \cup Range(<<n>>)
      BY <1>1, <2>1, RangeConcatenation
    <3> QED BY <2>2, <3>1, <3>2
  <2>5. InOrder(s) /\ (\A i \in Range(s) : i < n) => InOrder(Append(s, n))
    <3> DEFINE more == Append(s, n)
    <3>1. /\ Len(s) \in Nat /\ DOMAIN s = 1..Len(s)
          /\ more \in Seq(Nat) /\ Len(more) = Len(s) + 1 /\ more[Len(s) + 1] = n
          /\ \A i \in 1..Len(s) : more[i] = s[i] /\ s[i] \in Nat
      BY <1>1, AppendProperties, LenProperties, ElementOfSeq
    <3>2. DOMAIN more = 1..(Len(s) + 1)
      BY <3>1, LenProperties
    <3> HIDE DEF more
    <3>3. ASSUME InOrder(s), \A i \in Range(s) : i < n,
                 NEW i \in DOMAIN more, NEW j \in DOMAIN more, i < j
          PROVE  more[i] < more[j]
      <4>1. i \in 1..Len(s) /\ (j \in 1..Len(s) \/ j = Len(s) + 1)
        BY <3>1, <3>2, <3>3
      <4>2. s[i] \in Range(s)
        BY <3>1, <4>1 DEF Range
      <4> QED BY <3>1, <3>3, <4>1, <4>2 DEF InOrder
    <3>4. InOrder(s) /\ (\A i \in Range(s) : i < n) => InOrder(more)
      BY <3>3 DEF InOrder
    <3> QED BY <3>4 DEF more
  <2> QED BY <2>2, <2>3, <2>4, <2>5
<1> QED BY <1>2, <1>3, <1>4, <1>5

\* The parts of what was given, and the kinds of its pieces.
LEMMA GivenParts ==
  ASSUME DeliveryType
  PROVE  /\ SentIn(out) \in Text /\ acc.pending \in Text /\ Given \in Text
         /\ Range(Given) = Range(SentIn(out)) \cup Range(acc.pending)
         /\ InOrder(Given) => InOrder(SentIn(out))
         /\ Of(Plain) \subseteq Of(Texts)
         /\ \A i \in Of(Texts) : i \in Nat /\ i < Len(lines) + 1
         /\ MarksOnly(acc.pending) => Range(acc.pending) \cap Of(Plain) = {}
<1>1. CallChunk \in Chunks
  BY EndChunks
<1>2. SentIn(out) \in Text /\ acc.pending \in Text
  BY <1>1, SentMore, PieceType DEF DeliveryType
<1>3. Given \in Text
  BY <1>2, ConcatProperties DEF Given, Text
<1>4. /\ Range(Given) = Range(SentIn(out)) \cup Range(acc.pending)
      /\ InOrder(Given) => InOrder(SentIn(out))
  BY <1>2, OrderOfParts DEF Given
<1>5. Of(Plain) \subseteq Of(Texts)
  BY DEF Of, Plain, Texts
<1>6. \A i \in Of(Texts) : i \in Nat /\ i < Len(lines) + 1
  <2>1. DOMAIN lines = 1..Len(lines) /\ Len(lines) \in Nat
    BY LenProperties DEF DeliveryType
  <2> QED BY <2>1 DEF Of
<1>7. MarksOnly(acc.pending) => Range(acc.pending) \cap Of(Plain) = {}
  BY DEF MarksOnly, Of, Plain
<1> QED BY <1>2, <1>3, <1>4, <1>5, <1>6, <1>7

\* What was given stays, or is given a tool call for the rest.
LEMMA SameGiven ==
  ASSUME Whole, Given' = Given, CallChunk \in Range(out) => CallChunk \in Range(out'),
         Of(Plain)' = Of(Plain), Of(Texts) \subseteq Of(Texts)', Of(Plain) \subseteq Of(Texts),
         CallChunk \in Range(out') \/ Of(Texts)' = Of(Texts)
  PROVE  Whole'
<1>1. InOrder(Given)' /\ Range(Given') = Range(Given)
  BY DEF Whole, InOrder
<1> HIDE DEF Given
<1> QED BY <1>1 DEF Whole

\* Pending text that may be the tool call is left out of an answer with that call.
LEMMA LessGiven ==
  ASSUME DeliveryType, Whole, Given' = SentIn(out), MarksOnly(acc.pending),
         CallChunk \in Range(out'),
         Of(Plain)' = Of(Plain), Of(Texts) \subseteq Of(Texts)'
  PROVE  Whole'
<1>1. InOrder(Given') /\ Range(Given') \subseteq Of(Texts) /\ Of(Plain) \subseteq Range(Given')
  BY GivenParts DEF Whole
<1>2. InOrder(Given)' <=> InOrder(Given')
  BY DEF InOrder
<1> HIDE DEF Given
<1> QED BY <1>1, <1>2 DEF Whole

\* A piece of text more comes after all others.
LEMMA MoreGiven ==
  ASSUME DeliveryType, Whole, NEW kind \in Texts,
         Given' = Append(Given, Len(lines) + 1),
         CallChunk \in Range(out') <=> CallChunk \in Range(out),
         lines' = Append(lines, kind)
  PROVE  Whole'
<1> DEFINE n == Len(lines) + 1
<1>1. n \in Nat /\ Given \in Text
  BY PieceType, GivenParts
<1>2. /\ Range(Given) \subseteq Of(Texts) /\ InOrder(Given)
      /\ \A i \in Range(Given) : i < n
  BY GivenParts DEF Whole
<1>3. InOrder(Given') /\ Range(Given') = Range(Given) \cup {n}
  <2>1. Range(Append(Given, n)) = Range(Given) \cup {n} /\ InOrder(Append(Given, n))
    <3> HIDE DEF n, Given
    <3> QED BY <1>1, <1>2, OrderOfParts
  <2> QED BY <2>1
<1>4. kind \in Kinds
  BY DEF Kinds
<1>5. Of(Texts)' = Of(Texts) \cup {n} /\ Of(Plain)' \subseteq Of(Plain) \cup {n}
  BY <1>4, LineAdds
<1>6. InOrder(Given)' <=> InOrder(Given')
  BY DEF InOrder
<1> HIDE DEF Given, n
<1> QED BY <1>2, <1>3, <1>5, <1>6 DEF Whole

\* At the start there is no text.
LEMMA WholeAtFirst == DeliveryInit => Held /\ Answered
<1> SUFFICES ASSUME DeliveryInit PROVE Held /\ Answered
  OBVIOUS
<1>1. acc.pending = <<>> /\ out = <<>> /\ lines = <<>>
  BY DEF DeliveryInit
<1>2. Range(<<>>) = {} /\ <<>> \in Text
  BY DEF Range, Text
<1>3. SentIn(<<>>) = <<>>
  <2>1. <<>> \in Seq(Chunks) /\ CallChunk \in Chunks
    BY EndChunks
  <2> QED BY <2>1, SentMore
<1>4. Given = <<>>
  BY <1>1, <1>2, <1>3, OrderOfParts DEF Given
<1>5. MarksOnly(acc.pending)
  BY <1>1, <1>2 DEF MarksOnly
<1>6. \A kinds : Of(kinds) = {}
  BY <1>1 DEF Of
<1>7. InOrder(<<>>)
  BY DEF InOrder
<1> QED BY <1>1, <1>2, <1>4, <1>5, <1>6, <1>7 DEF Held, Answered, Whole

\* What was given after a chunk more, with what is pending then.
LEMMA GivenAfter ==
  ASSUME DeliveryType
  PROVE  /\ SentIn(Append(out, CallChunk)) = SentIn(out)
         /\ SentIn(Append(out, Chunk("think"))) = SentIn(out)
         /\ \A p \in Text : SentIn(Append(out, TextChunk(p))) = SentIn(out) \o p
         /\ \A p \in Text : SentIn(Append(Append(out, TextChunk(p)), CallChunk)) = SentIn(out) \o p
<1>1. /\ CallChunk \in Chunks /\ CallChunk[2] = <<>>
      /\ Chunk("think") \in Chunks /\ Chunk("think")[2] = <<>>
      /\ \A p \in Text : TextChunk(p) \in Chunks /\ TextChunk(p)[2] = p
  BY ChunkText DEF ChunkKinds
<1>2. out \in Seq(Chunks)
  BY DEF DeliveryType
<1>3. \A w \in Seq(Chunks), c \in Chunks :
        SentIn(w) \in Text /\ SentIn(Append(w, c)) = SentIn(w) \o c[2] /\ Append(w, c) \in Seq(Chunks)
  BY SentMore, WrittenMore
<1>4. \A t \in Text : t \o <<>> = t
  BY OrderOfParts
<1> HIDE DEF Chunks, Text
<1>5. \A w \in Seq(Chunks) : SentIn(Append(w, CallChunk)) = SentIn(w)
  BY <1>1, <1>3, <1>4
<1>6. SentIn(Append(out, Chunk("think"))) = SentIn(out)
  BY <1>1, <1>2, <1>3, <1>4
<1>7. \A p \in Text : /\ SentIn(Append(out, TextChunk(p))) = SentIn(out) \o p
                      /\ Append(out, TextChunk(p)) \in Seq(Chunks)
  BY <1>1, <1>2, <1>3
<1> QED BY <1>2, <1>5, <1>6, <1>7

\* Pending text that may be a tool call still may after a line.
LEMMA MarksStay ==
  ASSUME DeliveryType, Whole, NEW kind \in Kinds, lines' = Append(lines, kind), MarksOnly(acc.pending)
  PROVE  /\ \A i \in Range(acc.pending) : lines'[i] = "mark"
         /\ kind = "mark" => \A i \in Range(Append(acc.pending, Len(lines) + 1)) : lines'[i] = "mark"
<1>1. Range(acc.pending) \subseteq Of(Texts)
  BY GivenParts DEF Whole
<1>2. lines'[Len(lines) + 1] = kind /\ \A i \in DOMAIN lines : lines'[i] = lines[i]
  BY LenProperties DEF DeliveryType
<1>3. Range(Append(acc.pending, Len(lines) + 1)) = Range(acc.pending) \cup {Len(lines) + 1}
  BY PieceType, OrderOfParts
<1> QED BY <1>1, <1>2, <1>3 DEF Of, MarksOnly

\* A line keeps what is held back, and all text.
LEMMA LineWhole ==
  ASSUME DeliveryType, UnderWay, Held, Answered, NEW kind \in Kinds, Line(kind)
  PROVE  Held' /\ Whole'
<1> DEFINE n == Len(lines) + 1
<1>1. /\ result = "none" /\ result' = "none" /\ mode' = mode /\ lines' = Append(lines, kind)
      /\ Deliver(kind) /\ out \in Seq(Chunks)
      /\ \A k \in Endings : Chunk(k) \notin Range(out)
  BY DEF Line, Reading, DeliveryType, UnderWay
<1>2. Whole
  BY <1>1 DEF Answered
<1>3. \A kinds : Of(kinds)' = Of(kinds) \cup (IF kind \in kinds THEN {n} ELSE {})
  BY <1>1, LineAdds
<1>4. Of(Plain) \subseteq Of(Texts) /\ SentIn(out) \in Text /\ acc.pending \in Text
  BY GivenParts
<1>5. /\ n \in Nat /\ <<n>> \in Text /\ Append(acc.pending, n) \in Text /\ <<>> \in Text
  BY PieceType DEF Text
<1>6. Given' = SentIn(out') \o acc'.pending
  BY DEF Given
<1>7. CASE kind \notin Texts /\ acc'.pending = acc.pending
           /\ (mode.stream => acc'.streaming = acc.streaming)
           /\ (out' = out \/ out' = Append(out, Chunk("think")))
  <2>1. CallChunk \in Range(out') <=> CallChunk \in Range(out)
    BY <1>1, <1>7, StillUnderWay
  <2>2. Given' = Given
    BY <1>6, <1>7, GivenAfter DEF Given
  <2>3. Of(Texts)' = Of(Texts) /\ Of(Plain)' = Of(Plain)
    BY <1>3, <1>7 DEF Plain, Texts
  <2>4. Whole'
    BY <1>2, <1>4, <2>1, <2>2, <2>3, SameGiven
  <2>5. Held'
    BY <1>1, <1>2, <1>7, MarksStay DEF Held, MarksOnly
  <2> QED BY <2>4, <2>5
<1>8. CASE ~mode.stream /\ kind \in Texts /\ acc'.pending = Append(acc.pending, n) /\ out' = out
  <2>1. Given' = Append(Given, n)
    BY <1>4, <1>5, <1>6, <1>8, OrderOfParts DEF Given
  <2>2. Whole'
    BY <1>1, <1>2, <1>8, <2>1, MoreGiven
  <2> QED BY <1>1, <1>8, <2>2 DEF Held
<1>9. CASE mode.stream /\ kind \in Calls /\ AcceptCall(kind)
  <2>1. acc'.pending = <<>> /\ MarksOnly(acc.pending)
    BY <1>1, <1>9, CallSent DEF Held
  <2>2. \/ out' = Append(out, CallChunk)
        \/ out' = Append(Append(out, TextChunk(acc.pending)), CallChunk)
    BY <1>9, CallSent
  <2>3. Of(Plain)' = Of(Plain) /\ Of(Texts) \subseteq Of(Texts)'
    BY <1>3, <1>9 DEF Plain, Calls
  <2>4. Held'
    <3>1. Range(<<>>) = {}
      BY DEF Range
    <3> QED BY <1>1, <2>1, <3>1 DEF Held, MarksOnly
  <2>5. CASE out' = Append(out, CallChunk)
    <3>1. CallChunk \in Range(out')
      BY <1>1, <2>5, StillUnderWay
    <3>2. Given' = SentIn(out)
      BY <1>4, <1>5, <1>6, <2>1, <2>5, GivenAfter, OrderOfParts
    <3> QED BY <1>2, <2>1, <2>3, <2>4, <3>1, <3>2, LessGiven
  <2>6. CASE out' = Append(Append(out, TextChunk(acc.pending)), CallChunk)
    <3>1. CallChunk \in Range(out')
      <4>1. CallChunk \in Chunks /\ TextChunk(acc.pending) \in Chunks
        BY <1>4, ChunkText, EndChunks
      <4> DEFINE first == Append(out, TextChunk(acc.pending))
      <4>2. first \in Seq(Chunks)
        BY <1>1, <4>1, WrittenMore
      <4>3. out' = Append(first, CallChunk)
        BY <2>6
      <4> HIDE DEF first, Chunks
      <4>4. Range(Append(first, CallChunk)) = Range(first) \cup {CallChunk}
        BY <4>1, <4>2, WrittenMore
      <4> QED BY <4>3, <4>4
    <3>2. Given' = Given
      <4>1. Given \in Text
        BY GivenParts
      <4>2. Given' = Given \o <<>>
        BY <1>4, <1>6, <2>1, <2>6, GivenAfter DEF Given
      <4> HIDE DEF Given
      <4> QED BY <4>1, <4>2, <1>5, OrderOfParts
    <3> QED BY <1>2, <1>4, <2>3, <2>4, <3>1, <3>2, SameGiven
  <2> QED BY <2>2, <2>5, <2>6
<1>10. CASE mode.stream /\ kind \in Texts /\ AcceptText(kind)
  <2>1. ASSUME ~mode.tools \/ acc.streaming, acc'.pending = acc.pending,
               out' = Append(out, TextChunk(<<n>>))
        PROVE  Held' /\ Whole'
    <3>1. acc.pending = <<>>
      BY <1>1, <1>10, <2>1 DEF Held
    <3>2. CallChunk \in Range(out') <=> CallChunk \in Range(out)
      BY <1>1, <1>5, <2>1, StillUnderWay
    <3>3. Given = SentIn(out)
      BY <1>4, <1>5, <3>1, OrderOfParts DEF Given
    <3>4. Given' = Append(Given, n)
      <4>1. SentIn(out') = SentIn(out) \o <<n>>
        BY <1>5, <2>1, GivenAfter
      <4>2. SentIn(out) \o <<n>> = Append(SentIn(out), n)
        BY <1>4, <1>5, OrderOfParts
      <4>3. Append(SentIn(out), n) \in Text
        BY <1>4, <1>5 DEF Text
      <4>4. Append(SentIn(out), n) \o <<>> = Append(SentIn(out), n)
        BY <1>5, <4>3, OrderOfParts
      <4> QED BY <1>6, <2>1, <3>1, <3>3, <4>1, <4>2, <4>4
    <3>5. Whole'
      BY <1>1, <1>2, <1>10, <3>2, <3>4, MoreGiven
    <3>6. Held'
      <4>1. Range(<<>>) = {}
        BY DEF Range
      <4> QED BY <2>1, <3>1, <4>1 DEF Held, MarksOnly
    <3> QED BY <3>5, <3>6
  <2>2. ASSUME mode.tools, kind = "mark", MarksOnly(acc.pending),
               acc'.pending = Append(acc.pending, n), ~acc'.streaming, out' = out
        PROVE  Held' /\ Whole'
    <3>1. Given' = Append(Given, n)
      BY <1>4, <1>5, <1>6, <2>2, OrderOfParts DEF Given
    <3>2. Whole'
      BY <1>1, <1>2, <1>10, <2>2, <3>1, MoreGiven
    <3>3. Held'
      BY <1>1, <1>2, <2>2, MarksStay DEF Held, MarksOnly
    <3> QED BY <3>2, <3>3
  <2>3. ASSUME acc'.pending = <<>>, out' = Append(out, TextChunk(Append(acc.pending, n)))
        PROVE  Held' /\ Whole'
    <3>1. CallChunk \in Range(out') <=> CallChunk \in Range(out)
      BY <1>1, <1>5, <2>3, StillUnderWay
    <3>2. Given' = Append(Given, n)
      <4>1. SentIn(out') = SentIn(out) \o Append(acc.pending, n)
        BY <1>5, <2>3, GivenAfter
      <4>2. SentIn(out) \o Append(acc.pending, n) = Append(Given, n)
        BY <1>4, <1>5, OrderOfParts DEF Given
      <4>3. Append(Given, n) \in Text
        BY <1>5, GivenParts DEF Text
      <4>4. Append(Given, n) \o <<>> = Append(Given, n)
        <5> HIDE DEF Given
        <5> QED BY <1>5, <4>3, OrderOfParts
      <4> QED BY <1>6, <2>3, <4>1, <4>2, <4>4
    <3>3. Whole'
      BY <1>1, <1>2, <1>10, <3>1, <3>2, MoreGiven
    <3>4. Held'
      <4>1. Range(<<>>) = {}
        BY DEF Range
      <4> QED BY <2>3, <4>1 DEF Held, MarksOnly
    <3> QED BY <3>3, <3>4
  <2> QED BY <1>10, <2>1, <2>2, <2>3, TextSent
<1>11. CASE ~mode.stream /\ Collect(kind)
  <2>1. /\ acc'.pending = IF kind \in Texts THEN Append(acc.pending, n) ELSE acc.pending
        /\ out' = out
    BY <1>11, Collected
  <2> QED BY <1>7, <1>8, <1>11, <2>1
<1>12. kind = "reject" \/ kind \in Reasons => kind \notin Texts
  BY DEF Reasons, Texts
<1>13. acc' = [acc EXCEPT !.reason = kind] => acc'.pending = acc.pending /\ acc'.streaming = acc.streaming
  BY DEF DeliveryType, Accumulators
<1> HIDE DEF n
<1> QED BY <1>1, <1>7, <1>9, <1>10, <1>11, <1>12, <1>13 DEF Deliver

\* The chunks that end an answer carry no text, and take no tool call away.
LEMMA EndingsGiveNothing ==
  ASSUME NEW written \in Seq(Chunks),
         NEW c \in {Chunk(k) : k \in Endings} \cup {CallChunk}
  PROVE  /\ Append(written, c) \in Seq(Chunks)
         /\ SentIn(Append(written, c)) = SentIn(written)
         /\ CallChunk \in Range(written) => CallChunk \in Range(Append(written, c))
         /\ c = CallChunk => CallChunk \in Range(Append(written, c))
<1>1. c \in Chunks /\ c[2] = <<>>
  <2>1. \E k \in ChunkKinds : c = Chunk(k)
    <3>1. Endings \subseteq ChunkKinds /\ "calls" \in ChunkKinds
      BY DEF Endings, Reasons, ChunkKinds
    <3>2. CallChunk = Chunk("calls")
      BY ChunkText
    <3> QED BY <3>1, <3>2
  <2> QED BY <2>1, ChunkText
<1>2. /\ SentIn(written) \in Text /\ SentIn(Append(written, c)) = SentIn(written) \o c[2]
      /\ Append(written, c) \in Seq(Chunks)
      /\ Range(Append(written, c)) = Range(written) \cup {c}
  BY <1>1, SentMore, WrittenMore
<1>3. SentIn(written) \o <<>> = SentIn(written)
  BY <1>2, OrderOfParts
<1> QED BY <1>1, <1>2, <1>3

\* What a stream's end flushes, and what comes after it, carry all text there is.
LEMMA StreamEndGives ==
  ASSUME DeliveryType, UnderWay, EndStream
  PROVE  \/ Given' = Given /\ (CallChunk \in Range(out) => CallChunk \in Range(out'))
         \/ Given' = SentIn(out) /\ MarksOnly(acc.pending) /\ CallChunk \in Range(out')
<1>1. PICK parsed \in BOOLEAN, flushed \in Seq(Chunks) :
        FlushedAs(parsed, flushed) /\ StreamEnd(parsed, flushed)
  BY StreamEnds
<1>2. /\ out \in Seq(Chunks) /\ SentIn(out) \in Text /\ acc.pending \in Text /\ Given \in Text
      /\ <<>> \in Text
  BY GivenParts DEF DeliveryType, Text
<1>3. result = "none" /\ \A k \in Endings : Chunk(k) \notin Range(out)
  BY DEF EndStream, Returned, UnderWay
<1>4. \/ SentIn(flushed) = Given /\ (CallChunk \in Range(out) => CallChunk \in Range(flushed))
      \/ SentIn(flushed) = SentIn(out) /\ MarksOnly(acc.pending) /\ CallChunk \in Range(flushed)
  <2>1. CASE acc.pending = <<>> /\ flushed = out
    BY <1>2, <2>1, OrderOfParts DEF Given
  <2>2. CASE MarksOnly(acc.pending) /\ flushed = Append(out, CallChunk)
    BY <1>2, <1>3, <2>2, GivenAfter, StillUnderWay
  <2>3. CASE flushed = Append(out, TextChunk(acc.pending))
    <3>1. SentIn(flushed) = Given
      BY <1>2, <2>3, GivenAfter DEF Given
    <3> QED BY <1>2, <1>3, <2>3, <3>1, StillUnderWay
  <2> QED BY <1>1, <2>1, <2>2, <2>3 DEF FlushedAs
<1>5. SentIn(out') = SentIn(flushed) /\ (CallChunk \in Range(flushed) => CallChunk \in Range(out'))
  <2> DEFINE reason == Append(flushed, Chunk(FinishReason(acc.calls # <<>> \/ parsed)))
  <2>1. /\ reason \in Seq(Chunks) /\ SentIn(reason) = SentIn(flushed)
        /\ CallChunk \in Range(flushed) => CallChunk \in Range(reason)
    <3>1. FinishReason(acc.calls # <<>> \/ parsed) \in Endings
      BY ReasonType DEF Endings
    <3> QED BY <3>1, EndingsGiveNothing
  <2> HIDE DEF reason
  <2>2. "usage" \in Endings /\ "[DONE]" \in Endings /\ "error" \in Endings
    BY DEF Endings
  <2> DEFINE more == Append(reason, Chunk("usage"))
  <2>3. /\ more \in Seq(Chunks) /\ SentIn(more) = SentIn(reason)
        /\ CallChunk \in Range(reason) => CallChunk \in Range(more)
    BY <2>1, <2>2, EndingsGiveNothing
  <2> HIDE DEF more
  <2>4. ASSUME NEW w \in {reason, more}, out' = Append(w, Chunk("[DONE]"))
        PROVE  SentIn(out') = SentIn(w) /\ (CallChunk \in Range(w) => CallChunk \in Range(out'))
    BY <2>1, <2>2, <2>3, <2>4, EndingsGiveNothing
  <2>5. CASE out' = Append(flushed, Chunk("error"))
    BY <1>1, <2>2, <2>5, EndingsGiveNothing
  <2>6. CASE \E w \in {reason, more} : out' = Append(w, Chunk("[DONE]"))
    BY <2>1, <2>3, <2>4, <2>6
  <2>7. CASE flushed = <<>> /\ out' = <<>>
    BY <2>7
  <2> QED BY <1>1, <2>5, <2>6, <2>7 DEF StreamEnd, reason, more
<1>6. Given' = SentIn(out')
  <2>1. acc'.pending = <<>> /\ SentIn(out') \in Text
    BY <1>2, <1>4, <1>5, EndTyped
  <2> QED BY <2>1, OrderOfParts DEF Given
<1> QED BY <1>4, <1>5, <1>6

\* So does an unstreamed answer.
LEMMA SyncEndGives ==
  ASSUME DeliveryType, UnderWay, EndSync, result' = "ok"
  PROVE  \/ Given' = Given /\ (CallChunk \in Range(out) => CallChunk \in Range(out'))
         \/ Given' = SentIn(out) /\ MarksOnly(acc.pending) /\ CallChunk \in Range(out')
<1>1. PICK parsed \in BOOLEAN, flushed \in Seq(Chunks) : SyncEnd(parsed, flushed)
  BY SyncEnds
<1> DEFINE calls == acc.calls # <<>> \/ parsed
           most == IF calls THEN Append(flushed, CallChunk) ELSE flushed
<1>2. /\ flushed = IF parsed \/ acc.pending = <<>> THEN <<>> ELSE <<TextChunk(acc.pending)>>
      /\ parsed => MarksOnly(acc.pending)
      /\ out' = Append(most, Chunk(SyncReason(calls)))
  BY <1>1 DEF SyncEnd
<1>3. /\ out = <<>> /\ SentIn(out) \in Text /\ acc.pending \in Text /\ <<>> \in Text /\ calls \in BOOLEAN
      /\ Range(<<>>) = {}
  BY <1>1, GivenParts DEF EndSync, Returned, UnderWay, Text, Range
<1>4. SentIn(<<>>) = <<>>
  <2>1. <<>> \in Seq(Chunks) /\ CallChunk \in Chunks
    BY EndChunks
  <2> QED BY <2>1, SentMore
<1>5. Given = acc.pending
  BY <1>3, <1>4, OrderOfParts DEF Given
<1>6. SentIn(flushed) = IF parsed THEN SentIn(out) ELSE Given
  <2>1. CASE parsed \/ acc.pending = <<>>
    BY <1>2, <1>3, <1>4, <1>5, <2>1
  <2>2. CASE ~parsed /\ acc.pending # <<>>
    <3>1. flushed = Append(out, TextChunk(acc.pending))
      BY <1>2, <1>3, <2>2
    <3>2. SentIn(flushed) = SentIn(out) \o acc.pending
      BY <1>3, <3>1, GivenAfter
    <3> QED BY <2>2, <3>2 DEF Given
  <2> QED BY <2>1, <2>2
<1> HIDE DEF calls
<1>7. /\ most \in Seq(Chunks) /\ SentIn(most) = SentIn(flushed)
      /\ calls => CallChunk \in Range(most)
  BY <1>1, EndingsGiveNothing
<1> HIDE DEF most
<1>8. SentIn(out') = SentIn(flushed) /\ (calls => CallChunk \in Range(out'))
  <2>1. SyncReason(calls) \in Endings
    BY ReasonType DEF Endings
  <2> QED BY <1>2, <1>7, <2>1, EndingsGiveNothing
<1>9. Given' = SentIn(out')
  <2>1. SentIn(out') \in Text
    BY <1>3, <1>5, <1>6, <1>8
  <2>2. acc'.pending = <<>>
    BY EndTyped
  <2> QED BY <2>1, <2>2, OrderOfParts DEF Given
<1>10. parsed => calls
  BY DEF calls
<1> QED BY <1>2, <1>3, <1>6, <1>8, <1>9, <1>10

\* A step keeps what is held back, and all text.
LEMMA WholeKept ==
  DeliveryType /\ UnderWay /\ Held /\ Answered /\ [DeliveryNext]_deliveryVars => Held' /\ Answered'
<1> SUFFICES ASSUME DeliveryType, UnderWay, Held, Answered, [DeliveryNext]_deliveryVars
             PROVE  Held' /\ Answered'
  OBVIOUS
<1>1. ASSUME NEW kind \in Kinds, Line(kind) PROVE Held' /\ Answered'
  BY <1>1, LineWhole DEF Answered
<1>2. CASE UNCHANGED <<mode, lines, acc, out, result>>
  BY <1>2 DEF Held, Answered, Whole, Given, InOrder, Of, MarksOnly
<1>3. CASE EndStream \/ EndSync
  <2>1. Held'
    BY <1>3, EndTyped DEF Held
  <2>2. SUFFICES ASSUME mode'.stream \/ result' # "err" PROVE Whole'
    BY <2>1 DEF Answered
  <2>3. Whole /\ mode' = mode
    BY <1>3, EndTyped DEF Answered, EndStream, EndSync, Returned
  <2>4. \/ Given' = Given /\ (CallChunk \in Range(out) => CallChunk \in Range(out'))
        \/ Given' = SentIn(out) /\ MarksOnly(acc.pending) /\ CallChunk \in Range(out')
    <3>1. CASE EndStream
      BY <3>1, StreamEndGives
    <3>2. CASE EndSync
      <4>1. ~mode.stream /\ result' \in {"ok", "err"}
        BY <3>2 DEF EndSync
      <4> QED BY <2>2, <2>3, <3>2, <4>1, SyncEndGives
    <3> QED BY <1>3, <3>1, <3>2
  <2>5. \A kinds : Of(kinds)' = Of(kinds)
    BY <1>3, EndTyped DEF Of
  <2> QED BY <2>3, <2>4, <2>5, GivenParts, SameGiven, LessGiven
<1>4. ASSUME NEW how \in {"cut", "failed"}, Cut(how) PROVE Held' /\ Answered'
  BY <1>2, <1>4 DEF Cut
<1>5. CASE ClientLeaves \/ Watchdog \/ UNCHANGED deliveryVars
  BY <1>2, <1>5 DEF ClientLeaves, Watchdog, deliveryVars
<1> QED BY <1>1, <1>3, <1>4, <1>5 DEF DeliveryNext

\* Text reaches the client whole, in order and once, what is held back included, unless the
\* answer is a failed unstreamed one; where tool calls are delivered only text that may be
\* the same call in words, or rode on a call, is left out (Accept, Flush and
\* discardBufferedToolCallText).
THEOREM TextInOrderHolds == DeliverySpec => []TextInOrder
<1> QED BY TypedAtFirst, UnderWayAtFirst, WholeAtFirst, AnsweredIs,
           DeliveryTypeKept, UnderWayKept, WholeKept, PTL DEF DeliverySpec

-------------------------------------------------------------------------------
(* What is checked together.                                               *)

\* The composition that the run checks keeps to the specification of each part, so that
\* what is proved of a part holds in it.
THEOREM PartsKept == Spec => DeliverySpec /\ RotationSpec /\ BillingSpec
<1>1. Init => DeliveryInit /\ RotationInit /\ BillingInit
  BY DEF Init
<1>2. [Next]_allVars => /\ [DeliveryNext]_deliveryVars
                        /\ [RotationNext]_rotationVars
                        /\ [BillingNext]_billingVars
  BY DEF Next, allVars
<1> QED BY <1>1, <1>2, PTL DEF Spec, DeliverySpec, RotationSpec, BillingSpec
===============================================================================
