----------------------------- MODULE BodyProofs -----------------------------
(***************************************************************************)
(* Proofs about Body, for sources and buffers of any size and slices of    *)
(* any sizes.                                                              *)
(***************************************************************************)
EXTENDS Body, SequenceTheorems, TLAPS

-----------------------------------------------------------------------------
(* Sequences of bytes. *)

LEMMA BytesProperties ==
  ASSUME NEW p \in Nat, NEW k \in Nat
  PROVE  /\ Bytes(p + 1, p + k) \in Seq((p + 1)..(p + k))
         /\ Len(Bytes(p + 1, p + k)) = k
         /\ \A i \in 1..k : Bytes(p + 1, p + k)[i] = p + i
<1>1. Bytes(p + 1, p + k) = [i \in 1..k |-> p + i]
  BY DEF Bytes
<1>2. \A i \in 1..k : p + i \in (p + 1)..(p + k)
  OBVIOUS
<1> QED
  BY <1>1, <1>2

LEMMA ZerosProperties ==
  ASSUME NEW n \in Nat
  PROVE  Zeros(n) \in Seq({0}) /\ Len(Zeros(n)) = n
BY DEF Zeros

\* A concatenation, element by element.
LEMMA Concatenation ==
  ASSUME NEW s \in Seq(Nat), NEW t \in Seq(Nat)
  PROVE  /\ s \o t \in Seq(Nat)
         /\ Len(s) \in Nat /\ DOMAIN s = 1..Len(s)
         /\ Len(t) \in Nat /\ DOMAIN t = 1..Len(t)
         /\ DOMAIN (s \o t) = 1..(Len(s) + Len(t))
         /\ \A i \in 1..Len(s) : (s \o t)[i] = s[i]
         /\ \A i \in 1..Len(t) : (s \o t)[Len(s) + i] = t[i]
<1>1. /\ Len(s) \in Nat /\ DOMAIN s = 1..Len(s)
      /\ Len(t) \in Nat /\ DOMAIN t = 1..Len(t)
  BY LenProperties
<1>2. /\ s \o t \in Seq(Nat) /\ Len(s \o t) = Len(s) + Len(t)
      /\ \A i \in 1..(Len(s) + Len(t)) :
           (s \o t)[i] = IF i <= Len(s) THEN s[i] ELSE t[i - Len(s)]
  BY ConcatProperties
<1>3. DOMAIN (s \o t) = 1..(Len(s) + Len(t))
  BY <1>2, LenProperties
<1>4. \A i \in 1..Len(s) : (s \o t)[i] = s[i]
  BY <1>1, <1>2
<1>5. \A i \in 1..Len(t) : (s \o t)[Len(s) + i] = t[i]
  <2> SUFFICES ASSUME NEW i \in 1..Len(t)
               PROVE  (s \o t)[Len(s) + i] = t[i]
    OBVIOUS
  <2>1. /\ Len(s) + i \in 1..(Len(s) + Len(t))
        /\ ~(Len(s) + i <= Len(s)) /\ Len(s) + i - Len(s) = i
    BY <1>1
  <2> QED
    BY <1>2, <2>1
<1> QED
  BY <1>1, <1>2, <1>3, <1>4, <1>5

\* What the source gives away next goes to the end of the bytes in order.
LEMMA InOrderAppend ==
  ASSUME NEW p \in Nat, NEW k \in Nat, NEW D \in SUBSET (1..p),
         NEW s \in Seq(Nat), InOrder(s, (1..p) \ D)
  PROVE  InOrder(s \o Bytes(p + 1, p + k), (1..(p + k)) \ D)
<1>1. PICK t : t = Bytes(p + 1, p + k)
  OBVIOUS
<1>2. t \in Seq(Nat) /\ Len(t) = k /\ \A i \in 1..k : t[i] = p + i
  BY <1>1, BytesProperties, SeqMonotonic, (p + 1)..(p + k) \subseteq Nat
<1>3. PICK u : u = s \o t
  OBVIOUS
<1>4. PICK n \in Nat : n = Len(s) /\ DOMAIN s = 1..n
  BY LenProperties
<1>5. /\ DOMAIN u = 1..(n + k)
      /\ \A i \in 1..n : u[i] = s[i]
      /\ \A i \in 1..k : u[n + i] = p + i
  BY <1>2, <1>3, <1>4, Concatenation
<1>6. \A i \in (n + 1)..(n + k) : u[i] = p + (i - n)
  <2> SUFFICES ASSUME NEW i \in (n + 1)..(n + k)
               PROVE  u[i] = p + (i - n)
    OBVIOUS
  <2>1. i - n \in 1..k /\ n + (i - n) = i
    OBVIOUS
  <2> QED
    BY <1>5, <2>1
<1>7. \A i \in 1..n : s[i] \in (1..p) \ D
  BY <1>4 DEF InOrder, Range
<1>8. \A i, j \in 1..(n + k) : i < j => u[i] < u[j]
  <2> SUFFICES ASSUME NEW i \in 1..(n + k), NEW j \in 1..(n + k), i < j
               PROVE  u[i] < u[j]
    OBVIOUS
  <2>1. CASE j <= n
    <3>1. i \in DOMAIN s /\ j \in DOMAIN s
      BY <1>4, <2>1
    <3>2. s[i] < s[j]
      BY <3>1 DEF InOrder
    <3> QED
      BY <1>4, <1>5, <3>1, <3>2
  <2>2. CASE i <= n /\ n < j
    BY <1>5, <1>6, <1>7, <2>2
  <2>3. CASE n < i
    BY <1>6, <2>3
  <2> QED
    BY <2>1, <2>2, <2>3
<1>9. \A i \in 1..(n + k) : u[i] \in (1..(p + k)) \ D
  <2> SUFFICES ASSUME NEW i \in 1..(n + k)
               PROVE  u[i] \in (1..(p + k)) \ D
    OBVIOUS
  <2>1. CASE i <= n
    BY <1>5, <1>7, <2>1
  <2>2. CASE n < i
    BY <1>6, <2>2
  <2> QED
    BY <2>1, <2>2
<1>10. ASSUME NEW b \in (1..(p + k)) \ D
       PROVE  \E i \in 1..(n + k) : u[i] = b
  <2>1. CASE b <= p
    BY <1>4, <1>5, <2>1 DEF InOrder, Range
  <2>2. CASE p < b
    <3>1. b - p \in 1..k /\ n + (b - p) \in 1..(n + k) /\ p + (b - p) = b
      BY <2>2
    <3> QED
      BY <1>5, <3>1
  <2> QED
    BY <2>1, <2>2
<1>11. InOrder(u, (1..(p + k)) \ D)
  <2>1. Range(u) = {u[i] : i \in 1..(n + k)}
    BY <1>5 DEF Range
  <2>2. Range(u) = (1..(p + k)) \ D
    BY <1>9, <1>10, <2>1
  <2>3. \A i, j \in DOMAIN u : i < j => u[i] < u[j]
    BY <1>5, <1>8
  <2> QED
    BY <2>2, <2>3 DEF InOrder
<1> QED
  BY <1>1, <1>3, <1>11

\* What comes before the bytes of t are all bytes but those.
LEMMA InOrderPrefix ==
  ASSUME NEW s \in Seq(Nat), NEW t \in Seq(Nat), NEW S, InOrder(s \o t, S)
  PROVE  InOrder(s, S \ Range(t))
<1>1. PICK u : u = s \o t
  OBVIOUS
<1>2. PICK n \in Nat, m \in Nat : n = Len(s) /\ DOMAIN s = 1..n /\ m = Len(t) /\ DOMAIN t = 1..m
  BY LenProperties
<1>3. /\ DOMAIN u = 1..(n + m)
      /\ \A i \in 1..n : u[i] = s[i]
      /\ \A i \in 1..m : u[n + i] = t[i]
  BY <1>1, <1>2, Concatenation
<1>4. /\ \A i, j \in 1..(n + m) : i < j => u[i] < u[j]
      /\ S = {u[i] : i \in 1..(n + m)}
  BY <1>1, <1>3 DEF InOrder, Range
<1>5. \A i, j \in 1..n : i < j => s[i] < s[j]
  BY <1>3, <1>4
<1>6. \A i \in 1..n : \A j \in 1..m : s[i] < t[j]
  <2> SUFFICES ASSUME NEW i \in 1..n, NEW j \in 1..m
               PROVE  s[i] < t[j]
    OBVIOUS
  <2>1. i \in 1..(n + m) /\ n + j \in 1..(n + m) /\ i < n + j
    OBVIOUS
  <2>2. u[i] < u[n + j]
    BY <1>4, <2>1
  <2> QED
    BY <1>3, <2>2
<1>7. \A i \in 1..n : s[i] \in S /\ s[i] \in Nat
  BY <1>2, <1>3, <1>4, ElementOfSeq
<1>8. \A i \in 1..n : s[i] \notin Range(t)
  BY <1>2, <1>6, <1>7, ElementOfSeq DEF Range
<1>9. ASSUME NEW b \in S \ Range(t)
      PROVE  \E i \in 1..n : s[i] = b
  <2>1. PICK i \in 1..(n + m) : u[i] = b
    BY <1>4
  <2>2. CASE i <= n
    BY <1>3, <2>1, <2>2
  <2>3. CASE n < i
    <3>1. i - n \in 1..m /\ n + (i - n) = i
      BY <2>3
    <3>2. t[i - n] = b
      BY <1>3, <2>1, <3>1
    <3> QED
      BY <1>2, <3>1, <3>2 DEF Range
  <2> QED
    BY <2>2, <2>3
<1>10. Range(s) = S \ Range(t)
  <2>1. Range(s) = {s[i] : i \in 1..n}
    BY <1>2 DEF Range
  <2> QED
    BY <1>7, <1>8, <1>9, <2>1
<1> QED
  BY <1>2, <1>5, <1>10 DEF InOrder

-----------------------------------------------------------------------------
(* The inductive invariant. *)

\* Where a call is says what it may hold: the bytes of the body are with the user, in
\* the reader or in the latest item, and never in the last two at once; and a read that
\* waits for a chunk has space for it and nothing to return yet.
CallState ==
  /\ ~reader => held = <<>> /\ pc # "loop"
  /\ pc \in {"poll", "yield"} => held = <<>>
  /\ reader /\ pc \in {"poll", "yield"} => space > 0 /\ written = 0
  /\ pc # "yield" => item = NONE
  /\ pc = "yield" => item.kind # "none"
  /\ item.kind # "chunk" => item.bytes = <<>>

\* What ends the body is the end of the source or its failure.
EndsAreTrue ==
  /\ source = "done" => pos = Size
  /\ item.kind = "end" => source # "open"
  /\ item.kind = "error" => source = "failed"

\* Only bytes that the source gave away can be dropped.
DroppedWereGiven == dropped \subseteq 1..pos

IInv == TypeOK /\ CallState /\ EndsAreTrue /\ DroppedWereGiven /\ BytesInOrder /\ NoTruncation

\* What holds of single calls and of the source, and what the rest is built on.
Typed == TypeOK /\ CallState /\ EndsAreTrue

\* The buffer for the next read always has space.
LEMMA RefilledProperties ==
  ASSUME Typed
  PROVE  Refilled \in Seq(0..Size) /\ Len(Refilled) \in 1..CAP
<1> USE BodyAssumption
<1>1. Size \in Nat /\ buf \in Seq(0..Size) /\ Len(buf) <= CAP
  BY DEF Typed, TypeOK
<1>2. CASE buf = <<>>
  <2>1. Refilled = Zeros(CAP)
    BY <1>2 DEF Refilled
  <2>2. Zeros(CAP) \in Seq(0..Size) /\ Len(Zeros(CAP)) = CAP
    BY ZerosProperties, SeqMonotonic, {0} \subseteq 0..Size
  <2> QED
    BY <2>1, <2>2
<1>3. CASE buf # <<>>
  BY <1>1, <1>3, EmptySeq DEF Refilled
<1> QED
  BY <1>2, <1>3

\* A reader is given a buffer of which it fills a front part; that part is the chunk,
\* and what remains still fits.
LEMMA ReadSomeEffect ==
  ASSUME Typed, ReadSome
  PROVE  /\ \E k \in 1..(Size - pos) :
              pos' = pos + k /\ item' = Chunk(Bytes(pos + 1, pos + k))
         /\ buf' \in Seq(0..Size) /\ Len(buf') <= CAP
<1> USE BodyAssumption
<1>1. pos \in 0..Size /\ buf \in Seq(0..Size) /\ Len(buf) <= CAP
  BY DEF Typed, TypeOK
<1>2. PICK r : r = Refilled
  OBVIOUS
<1>3. r \in Seq(0..Size) /\ Len(r) \in 1..CAP
  BY <1>2, RefilledProperties
<1>4. PICK k \in 1..Len(r) :
        /\ k <= Size - pos
        /\ item' = Chunk(Split(Bytes(pos + 1, pos + k) \o SubSeq(r, k + 1, Len(r)), k).chunk)
        /\ buf' = Split(Bytes(pos + 1, pos + k) \o SubSeq(r, k + 1, Len(r)), k).buf
        /\ pos' = pos + k
  BY <1>2 DEF ReadSome
<1>5. PICK front : front = Bytes(pos + 1, pos + k)
  OBVIOUS
<1>6. front \in Seq(0..Size) /\ Len(front) = k
  <2>1. (pos + 1)..(pos + k) \subseteq 0..Size /\ pos \in Nat /\ k \in Nat
    BY <1>1, <1>3, <1>4
  <2> QED
    BY <1>5, <2>1, BytesProperties, SeqMonotonic
<1>7. PICK back : back = SubSeq(r, k + 1, Len(r))
  OBVIOUS
<1>8. back \in Seq(0..Size) /\ Len(back) = Len(r) - k
  <2>1. \A i \in (k + 1)..Len(r) : r[i] \in 0..Size
    BY <1>3, <1>4, ElementOfSeq
  <2>2. k + 1 \in Int /\ Len(r) \in Int
    BY <1>3, <1>4
  <2>3. /\ back \in Seq(0..Size)
        /\ Len(back) = IF k + 1 <= Len(r) THEN Len(r) - (k + 1) + 1 ELSE 0
    BY <1>7, <2>1, <2>2, SubSeqProperties
  <2> QED
    BY <1>3, <1>4, <2>3
<1>9. PICK filled : filled = front \o back
  OBVIOUS
<1>10. /\ filled \in Seq(0..Size) /\ Len(filled) = Len(r)
       /\ \A i \in 1..k : filled[i] = front[i]
  <2>1. /\ filled \in Seq(0..Size) /\ Len(filled) = Len(front) + Len(back)
        /\ \A i \in 1..(Len(front) + Len(back)) :
             filled[i] = IF i <= Len(front) THEN front[i] ELSE back[i - Len(front)]
    BY <1>6, <1>8, <1>9, ConcatProperties
  <2>2. Len(filled) = Len(r)
    BY <1>3, <1>4, <1>6, <1>8, <2>1
  <2>3. \A i \in 1..k : i \in 1..(Len(front) + Len(back)) /\ i <= Len(front)
    BY <1>3, <1>4, <1>6, <1>8
  <2> QED
    BY <2>1, <2>2, <2>3
<1>11. item' = Chunk(SubSeq(filled, 1, k)) /\ buf' = SubSeq(filled, k + 1, Len(filled))
  BY <1>4, <1>5, <1>7, <1>9 DEF Split
<1>12. SubSeq(filled, 1, k) = front
  <2>1. \A i \in 1..k : filled[i] \in 0..Size
    <3>1. \A i \in 1..k : i \in 1..Len(filled)
      BY <1>3, <1>4, <1>10
    <3> QED
      BY <1>10, <3>1, ElementOfSeq
  <2>2. /\ SubSeq(filled, 1, k) \in Seq(0..Size)
        /\ Len(SubSeq(filled, 1, k)) = IF 1 <= k THEN k - 1 + 1 ELSE 0
        /\ \A i \in 1..(k - 1 + 1) : SubSeq(filled, 1, k)[i] = filled[1 + i - 1]
    BY <1>3, <1>4, <2>1, SubSeqProperties
  <2>3. /\ Len(SubSeq(filled, 1, k)) = k
        /\ \A i \in 1..k : SubSeq(filled, 1, k)[i] = front[i]
    BY <1>3, <1>4, <1>10, <2>2
  <2> QED
    BY <1>6, <2>2, <2>3, SeqEqual
<1>13. buf' \in Seq(0..Size) /\ Len(buf') <= CAP
  <2>1. \A i \in (k + 1)..Len(r) : filled[i] \in 0..Size
    <3>1. \A i \in (k + 1)..Len(r) : i \in 1..Len(filled)
      BY <1>3, <1>4, <1>10
    <3> QED
      BY <1>10, <3>1, ElementOfSeq
  <2>2. buf' = SubSeq(filled, k + 1, Len(r))
    BY <1>10, <1>11
  <2>3. k + 1 \in Int /\ Len(r) \in Int
    BY <1>3, <1>4
  <2>4. /\ buf' \in Seq(0..Size)
        /\ Len(buf') = IF k + 1 <= Len(r) THEN Len(r) - (k + 1) + 1 ELSE 0
    BY <2>1, <2>2, <2>3, SubSeqProperties
  <2> QED
    BY <1>3, <1>4, <2>4
<1>14. k \in 1..(Size - pos) /\ item' = Chunk(Bytes(pos + 1, pos + k))
  <2>1. k \in 1..(Size - pos)
    BY <1>1, <1>3, <1>4
  <2>2. item' = Chunk(Bytes(pos + 1, pos + k))
    BY <1>5, <1>11, <1>12
  <2> QED
    BY <2>1, <2>2
<1> QED
  BY <1>4, <1>13, <1>14

\* A poll yields the next bytes, the end, which is that of the source, or an error, which
\* is its failure.  A read into no space, whose 0 would pass for the end, does not happen.
LEMMA PollEffect ==
  ASSUME Typed, IF wrapped THEN PollNext ELSE Incoming
  PROVE  /\ \/ \E k \in 0..(Size - pos) : /\ pos' = pos + k
                                          /\ item' = Chunk(Bytes(pos + 1, pos + k))
                                          /\ source' = source
            \/ /\ pos' = pos /\ item' = END
               /\ source' \in {"done", "failed"}
               /\ source' = "done" => pos = Size
            \/ pos' = pos /\ item' = ERROR /\ source' = "failed"
         /\ buf' \in Seq(0..Size) /\ Len(buf') <= CAP
<1> USE BodyAssumption
<1>1. /\ pos \in 0..Size /\ buf \in Seq(0..Size) /\ Len(buf) <= CAP
      /\ source \in {"open", "done", "failed"} /\ (source = "done" => pos = Size)
  BY DEF Typed, TypeOK, EndsAreTrue
<1>2. Refilled \in Seq(0..Size) /\ Len(Refilled) <= CAP /\ Refilled # <<>>
  BY RefilledProperties, EmptySeq
<1>3. CASE wrapped /\ ReadSome
  <2>1. source' = source
    BY <1>3 DEF ReadSome
  <2>2. 1..(Size - pos) \subseteq 0..(Size - pos)
    BY <1>1
  <2> QED
    BY <1>3, <2>1, <2>2, ReadSomeEffect
<1>4. CASE wrapped /\ (ReadNothing \/ ReadFails \/ ReaderGone)
  BY <1>1, <1>2, <1>4 DEF ReadNothing, ReadFails, ReaderGone, streamVars
<1>5. CASE ~wrapped /\ Incoming
  BY <1>1, <1>5 DEF Incoming
<1> QED
  BY <1>3, <1>4, <1>5 DEF PollNext

LEMMA InitInvariant == Init => IInv
<1> SUFFICES ASSUME Init PROVE IInv
  OBVIOUS
<1> USE BodyAssumption DEF Init, NONE, END, Count
<1>1. TypeOK
  <2>1. Zeros(CAP) \in Seq(0..Size) /\ Len(Zeros(CAP)) = CAP
    BY ZerosProperties, SeqMonotonic, {0} \subseteq 0..Size
  <2>2. buf \in Seq(0..Size) /\ Len(buf) <= CAP
    BY <2>1
  <2>3. /\ item.kind = "none" /\ item.bytes \in Seq(1..Size)
        /\ held \in Seq(1..Size) /\ got \in Seq(1..Size)
    BY EmptySeq
  <2>4. pos \in 0..Size /\ dropped \subseteq 1..Size /\ space \in Nat /\ written \in Nat
    OBVIOUS
  <2> HIDE DEF Init
  <2>5. /\ wrapped \in BOOLEAN /\ reader \in BOOLEAN
        /\ source \in {"open", "done", "failed"} /\ pc \in {"idle", "loop", "poll", "yield"}
    BY DEF Init
  <2> QED
    BY <2>2, <2>3, <2>4, <2>5 DEF TypeOK
<1>2. CallState /\ EndsAreTrue /\ DroppedWereGiven /\ NoTruncation
  BY DEF CallState, EndsAreTrue, DroppedWereGiven, NoTruncation, SaysEnd
<1>3. BytesInOrder
  <2>1. got \o held \o item.bytes = <<>>
    BY EmptySeq, ConcatEmptySeq
  <2>2. (1..pos) \ dropped = {}
    OBVIOUS
  <2> QED
    BY <2>1, <2>2 DEF BytesInOrder, InOrder, Range
<1> QED
  BY <1>1, <1>2, <1>3 DEF IInv

LEMMA PollTyped ==
  ASSUME Typed, PollBody, UNCHANGED wrapped
  PROVE  Typed'
<1> USE BodyAssumption DEF Typed, TypeOK, CallState, EndsAreTrue
<1>1. /\ pc = "poll" /\ pc' = "yield"
      /\ UNCHANGED <<wrapped, reader, held, space, written, got, result, dropped>>
  BY DEF PollBody, readVars
<1>2. /\ \/ \E k \in 0..(Size - pos) : /\ pos' = pos + k
                                       /\ item' = Chunk(Bytes(pos + 1, pos + k))
                                       /\ source' = source
         \/ /\ pos' = pos /\ item' = END
            /\ source' \in {"done", "failed"}
            /\ source' = "done" => pos = Size
         \/ pos' = pos /\ item' = ERROR /\ source' = "failed"
      /\ buf' \in Seq(0..Size) /\ Len(buf') <= CAP
  BY PollEffect DEF PollBody
<1>3. CASE \E k \in 0..(Size - pos) : /\ pos' = pos + k
                                      /\ item' = Chunk(Bytes(pos + 1, pos + k))
                                      /\ source' = source
  <2>1. PICK k \in 0..(Size - pos) : /\ pos' = pos + k
                                     /\ item' = Chunk(Bytes(pos + 1, pos + k))
                                     /\ source' = source
    BY <1>3
  <2>2. Bytes(pos + 1, pos + k) \in Seq(1..Size)
    <3>1. pos \in Nat /\ k \in Nat /\ (pos + 1)..(pos + k) \subseteq 1..Size
      OBVIOUS
    <3> QED
      BY <3>1, BytesProperties, SeqMonotonic
  <2>3. item'.kind = "chunk" /\ item'.bytes \in Seq(1..Size)
    BY <2>1, <2>2 DEF Chunk
  <2>4. pos' \in 0..Size /\ (source' = "done" => pos' = Size)
    BY <2>1
  <2> QED
    BY <1>1, <1>2, <2>1, <2>3, <2>4
<1>4. CASE pos' = pos /\ item' = END /\ source' \in {"done", "failed"}
             /\ (source' = "done" => pos = Size)
  BY <1>1, <1>2, <1>4, EmptySeq DEF END
<1>5. CASE pos' = pos /\ item' = ERROR /\ source' = "failed"
  BY <1>1, <1>2, <1>5, EmptySeq DEF ERROR
<1> QED
  BY <1>2, <1>3, <1>4, <1>5

\* What is copied out of the reader, and what it goes on holding.
LEMMA CopyEffect ==
  ASSUME Typed, CopyHeld
  PROVE  \E front, back \in Seq(1..Size) :
           /\ held = front \o back
           /\ got' = got \o front /\ held' = back
           /\ Len(front) \in 1..space
           /\ space' = space - Len(front) /\ written' = written + Len(front)
<1>1. held \in Seq(1..Size) /\ Len(held) \in Nat \ {0} /\ space \in Nat \ {0}
  BY EmptySeq DEF Typed, TypeOK, CopyHeld
<1>2. PICK n \in Nat : n = IF space < Len(held) THEN space ELSE Len(held)
  BY <1>1
<1>3. n \in 1..Len(held) /\ n \in 1..space
  BY <1>1, <1>2
<1>4. PICK front, back : front = SubSeq(held, 1, n) /\ back = SubSeq(held, n + 1, Len(held))
  OBVIOUS
<1>5. /\ got' = got \o front /\ held' = back
      /\ space' = space - n /\ written' = written + n
  BY <1>2, <1>4 DEF CopyHeld
<1>6. \A i \in 1..Len(held) : held[i] \in 1..Size
  BY <1>1, ElementOfSeq
<1>7. front \in Seq(1..Size) /\ Len(front) = n
  <2>1. \A i \in 1..n : held[i] \in 1..Size
    BY <1>3, <1>6
  <2>2. front \in Seq(1..Size) /\ Len(front) = IF 1 <= n THEN n - 1 + 1 ELSE 0
    BY <1>4, <2>1, SubSeqProperties
  <2> QED
    BY <1>3, <2>2
<1>8. back \in Seq(1..Size)
  <2>1. \A i \in (n + 1)..Len(held) : held[i] \in 1..Size
    BY <1>3, <1>6
  <2>2. n + 1 \in Int /\ Len(held) \in Int
    BY <1>1
  <2> QED
    BY <1>4, <2>1, <2>2, SubSeqProperties
<1>9. held = front \o back
  <2>1. /\ 1 \in 1..(Len(held) + 1) /\ n \in (1 - 1)..Len(held)
        /\ Len(held) \in n..Len(held)
    BY <1>1, <1>3
  <2>2. SubSeq(held, 1, n) \o SubSeq(held, n + 1, Len(held)) = SubSeq(held, 1, Len(held))
    BY <1>1, <2>1, ConcatAdjacentSubSeq
  <2> QED
    BY <1>1, <1>4, <2>2, SubSeqFull
<1> QED
  BY <1>3, <1>5, <1>7, <1>8, <1>9

LEMMA CallTyped ==
  ASSUME Typed, Call, UNCHANGED wrapped
  PROVE  Typed'
<1> USE BodyAssumption DEF Typed, TypeOK, CallState, EndsAreTrue, streamVars, readVars
<1>1. CASE NextChunk
  BY <1>1 DEF NextChunk
<1>2. CASE NewReader
  BY <1>2, EmptySeq DEF NewReader
<1>3. CASE DropReader
  <2>1. {held[i] : i \in DOMAIN held} \subseteq 1..Size
    BY LenProperties, ElementOfSeq
  <2> QED
    BY <1>3, <2>1, EmptySeq DEF DropReader
<1>4. ASSUME NEW n \in ReadSizes, Read(n)
      PROVE  Typed'
  BY <1>4 DEF Read
<1> QED
  BY <1>1, <1>2, <1>3, <1>4 DEF Call

LEMMA StepTyped ==
  ASSUME Typed, Step, UNCHANGED wrapped
  PROVE  Typed'
<1> USE BodyAssumption DEF Typed, TypeOK, CallState, EndsAreTrue, streamVars, readVars
<1>1. CASE PollBody
  BY <1>1, PollTyped
<1>2. CASE NextReturns
  <2>1. got' \in Seq(1..Size)
    BY <1>2, ConcatProperties DEF NextReturns
  <2> QED
    BY <1>2, <2>1, EmptySeq DEF NextReturns, NONE
<1>3. CASE CopyHeld
  <2>1. PICK front \in Seq(1..Size), back \in Seq(1..Size) :
          /\ got' = got \o front /\ held' = back
          /\ Len(front) \in 1..space
          /\ space' = space - Len(front) /\ written' = written + Len(front)
    BY <1>3, CopyEffect
  <2>2. got' \in Seq(1..Size) /\ space' \in Nat /\ written' \in Nat
    BY <2>1, ConcatProperties
  <2> QED
    BY <1>3, <2>1, <2>2 DEF CopyHeld
<1>4. CASE ReturnWritten
  BY <1>4 DEF ReturnWritten, Return
<1>5. CASE FetchChunk
  BY <1>5 DEF FetchChunk, Fetch
<1>6. CASE HoldChunk
  BY <1>6, EmptySeq DEF HoldChunk, NONE
<1>7. CASE ReturnEnd
  BY <1>7, EmptySeq DEF ReturnEnd, Ended, Return, NONE
<1> QED
  BY <1>1, <1>2, <1>3, <1>4, <1>5, <1>6, <1>7 DEF Step

LEMMA NextTyped == Typed /\ [Next]_vars => Typed'
<1> SUFFICES ASSUME Typed, [Next]_vars PROVE Typed'
  OBVIOUS
<1>1. CASE UNCHANGED vars
  BY <1>1 DEF vars, streamVars, readVars, Typed, TypeOK, CallState, EndsAreTrue
<1>2. CASE Next
  BY <1>2, CallTyped, StepTyped DEF Next
<1> QED
  BY <1>1, <1>2

-----------------------------------------------------------------------------
(* The order of the bytes. *)

Ordered == DroppedWereGiven /\ BytesInOrder

\* Only a poll and the drop of a reader change which bytes there are.
LEMMA SameBytes ==
  ASSUME Ordered, UNCHANGED <<pos, dropped>>,
         got' \o held' \o item'.bytes = got \o held \o item.bytes
  PROVE  Ordered'
BY DEF Ordered, DroppedWereGiven, BytesInOrder

LEMMA PollOrdered ==
  ASSUME Typed, Ordered, PollBody, UNCHANGED wrapped
  PROVE  Ordered'
<1>1. /\ held = <<>> /\ item.bytes = <<>> /\ pos \in Nat /\ got \in Seq(Nat)
      /\ dropped \in SUBSET (1..pos)
  <2>1. got \in Seq(1..Size) /\ 1..Size \subseteq Nat /\ pos \in Nat
    BY BodyAssumption DEF Typed, TypeOK
  <2>2. got \in Seq(Nat)
    BY <2>1, SeqMonotonic
  <2>3. held = <<>> /\ item.bytes = <<>>
    BY DEF Typed, CallState, PollBody, NONE
  <2> QED
    BY <2>1, <2>2, <2>3 DEF Ordered, DroppedWereGiven
<1>2. UNCHANGED <<held, got, dropped>>
  BY DEF PollBody, readVars
<1>3. got \o held = got
  BY <1>1, ConcatEmptySeq
<1>4. got \o held \o item.bytes = got
  BY <1>1, <1>3, ConcatEmptySeq
<1>5. InOrder(got, (1..pos) \ dropped)
  BY <1>4 DEF Ordered, BytesInOrder
<1>6. CASE \E k \in 0..(Size - pos) : pos' = pos + k /\ item' = Chunk(Bytes(pos + 1, pos + k))
  <2>1. PICK k \in Nat : pos' = pos + k /\ item' = Chunk(Bytes(pos + 1, pos + k))
    BY <1>6
  <2>2. InOrder(got \o Bytes(pos + 1, pos + k), (1..(pos + k)) \ dropped)
    BY <1>1, <1>5, InOrderAppend
  <2>3. got' \o held' \o item'.bytes = got \o Bytes(pos + 1, pos + k)
    BY <1>2, <1>3, <2>1 DEF Chunk
  <2>4. BytesInOrder'
    BY <1>2, <2>1, <2>2, <2>3 DEF BytesInOrder
  <2>5. DroppedWereGiven'
    BY <1>1, <1>2, <2>1 DEF DroppedWereGiven
  <2> QED
    BY <2>4, <2>5 DEF Ordered
<1>7. CASE pos' = pos /\ item' \in {END, ERROR}
  <2>1. item'.bytes = <<>>
    BY <1>7 DEF END, ERROR
  <2>2. got' \o held' \o item'.bytes = got \o held \o item.bytes
    BY <1>1, <1>2, <2>1
  <2> QED
    BY <1>2, <1>7, <2>2, SameBytes
<1> QED
  BY <1>6, <1>7, PollEffect DEF PollBody

LEMMA DropOrdered ==
  ASSUME Typed, Ordered, DropReader
  PROVE  Ordered'
<1>1. /\ pos \in Nat /\ got \in Seq(Nat) /\ held \in Seq(Nat) /\ item.bytes = <<>>
      /\ dropped \subseteq 1..pos
  <2>1. got \in Seq(1..Size) /\ held \in Seq(1..Size) /\ 1..Size \subseteq Nat /\ pos \in Nat
    BY BodyAssumption DEF Typed, TypeOK
  <2>2. item.bytes = <<>>
    BY DEF Typed, CallState, DropReader, NONE
  <2> QED
    BY <2>1, <2>2, SeqMonotonic DEF Ordered, DroppedWereGiven
<1>2. /\ held' = <<>> /\ dropped' = dropped \cup Range(held)
      /\ UNCHANGED <<pos, item, got>>
  BY DEF DropReader, streamVars, Range
<1>3. InOrder(got \o held, (1..pos) \ dropped)
  <2>1. got \o held \o item.bytes = got \o held
    BY <1>1, ConcatProperties, ConcatEmptySeq
  <2> QED
    BY <2>1 DEF Ordered, BytesInOrder
<1>4. InOrder(got, (1..pos) \ dropped')
  <2>1. InOrder(got, ((1..pos) \ dropped) \ Range(held))
    BY <1>1, <1>3, InOrderPrefix
  <2>2. ((1..pos) \ dropped) \ Range(held) = (1..pos) \ dropped'
    BY <1>2
  <2> QED
    BY <2>1, <2>2
<1>5. got' \o held' \o item'.bytes = got
  BY <1>1, <1>2, ConcatEmptySeq
<1>6. BytesInOrder'
  BY <1>2, <1>4, <1>5 DEF BytesInOrder
<1>7. Range(held) \subseteq 1..pos
  <2>1. Range(got \o held) \subseteq 1..pos
    BY <1>3 DEF InOrder
  <2>2. PICK u : u = got \o held
    OBVIOUS
  <2>3. \A i \in 1..Len(held) : u[Len(got) + i] = held[i] /\ Len(got) + i \in DOMAIN u
    BY <1>1, <2>2, Concatenation
  <2>4. DOMAIN held = 1..Len(held)
    BY <1>1, Concatenation
  <2> QED
    BY <2>1, <2>2, <2>3, <2>4 DEF Range
<1>8. DroppedWereGiven'
  BY <1>1, <1>2, <1>7 DEF DroppedWereGiven
<1> QED
  BY <1>6, <1>8 DEF Ordered

\* The steps of a call hand on the bytes without a change.
LEMMA StepOrdered ==
  ASSUME Typed, Ordered, Step, UNCHANGED wrapped
  PROVE  Ordered'
<1>1. /\ got \in Seq(1..Size) /\ held \in Seq(1..Size) /\ item.bytes \in Seq(1..Size)
      /\ <<>> \in Seq(1..Size)
  BY EmptySeq DEF Typed, TypeOK
<1>2. CASE PollBody
  BY <1>2, PollOrdered
<1>3. CASE NextReturns
  <2>1. /\ held = <<>> /\ held' = <<>> /\ item'.bytes = <<>> /\ got' = got \o item.bytes
        /\ UNCHANGED <<pos, dropped>>
    BY <1>3 DEF NextReturns, streamVars, Typed, CallState, NONE
  <2>2. got' \in Seq(1..Size)
    BY <1>1, <2>1, ConcatProperties
  <2>3. got' \o held' \o item'.bytes = got \o item.bytes
    BY <2>1, <2>2, ConcatEmptySeq
  <2>4. got \o held = got
    BY <1>1, <2>1, ConcatEmptySeq
  <2> QED
    BY <2>1, <2>3, <2>4, SameBytes
<1>4. CASE CopyHeld
  <2>1. PICK front \in Seq(1..Size), back \in Seq(1..Size) :
          held = front \o back /\ got' = got \o front /\ held' = back
    BY <1>4, CopyEffect
  <2>2. got' \o held' = got \o held
    <3>1. got \in Seq(1..Size)
      BY <1>1
    <3>2. (got \o front) \o back = got \o (front \o back)
      BY ONLY <3>1, front \in Seq(1..Size), back \in Seq(1..Size), ConcatAssociative
    <3> QED
      BY <2>1, <3>2
  <2>3. UNCHANGED <<pos, item, dropped>>
    BY <1>4 DEF CopyHeld, streamVars
  <2> QED
    BY <2>2, <2>3, SameBytes
<1>5. CASE ReturnWritten \/ FetchChunk
  BY <1>5, SameBytes DEF ReturnWritten, FetchChunk, Fetch, streamVars, readVars
<1>6. CASE HoldChunk
  <2>1. /\ held = <<>> /\ held' = item.bytes /\ item'.bytes = <<>>
        /\ UNCHANGED <<pos, got, dropped>>
    BY <1>6 DEF HoldChunk, streamVars, Typed, CallState, NONE
  <2>2. got' \o held' \o item'.bytes = got \o item.bytes
    BY <1>1, <2>1, ConcatProperties, ConcatEmptySeq
  <2>3. got \o held = got
    BY <1>1, <2>1, ConcatEmptySeq
  <2> QED
    BY <2>1, <2>2, <2>3, SameBytes
<1>7. CASE ReturnEnd
  <2>1. item.bytes = <<>> /\ item'.bytes = <<>> /\ UNCHANGED <<pos, held, got, dropped>>
    BY <1>7 DEF ReturnEnd, Ended, streamVars, readVars, Typed, CallState, NONE
  <2> QED
    BY <2>1, SameBytes
<1> QED
  BY <1>2, <1>3, <1>4, <1>5, <1>6, <1>7 DEF Step

LEMMA NextOrdered == Typed /\ Ordered /\ [Next]_vars => Ordered'
<1> SUFFICES ASSUME Typed, Ordered, [Next]_vars PROVE Ordered'
  OBVIOUS
<1>1. CASE UNCHANGED vars
  BY <1>1, SameBytes DEF vars, streamVars, readVars
<1>2. CASE NextChunk \/ NewReader \/ \E n \in ReadSizes : Read(n)
  <2>1. held' = held /\ UNCHANGED <<pos, item, got, dropped>>
    BY <1>2 DEF NextChunk, NewReader, Read, streamVars, readVars, Typed, CallState
  <2> QED
    BY <2>1, SameBytes
<1>3. CASE DropReader
  BY <1>3, DropOrdered
<1>4. CASE Step /\ UNCHANGED wrapped
  BY <1>4, StepOrdered
<1> QED
  BY <1>1, <1>2, <1>3, <1>4 DEF Next, Call

-----------------------------------------------------------------------------
(* What ends a body, and what an error costs. *)

\* A call that returns says that there is nothing more only if the stream has yielded its
\* end or an error; and nothing but a call changes what the latest one said.
LEMMA NextNotTruncated == Typed /\ NoTruncation /\ [Next]_vars => NoTruncation'
<1> SUFFICES ASSUME Typed, NoTruncation, [Next]_vars, pc' = "idle", SaysEnd'
             PROVE  source' = "failed" \/ (pos' = Size /\ held' = <<>>)
  BY DEF NoTruncation
<1> USE DEF Typed, TypeOK, CallState, EndsAreTrue, NoTruncation, SaysEnd, streamVars, readVars
<1>1. CASE UNCHANGED vars
  BY <1>1 DEF vars
<1>2. CASE NextChunk \/ \E n \in ReadSizes : Read(n)
  BY <1>2 DEF NextChunk, Read
<1>3. CASE NewReader \/ DropReader
  <2>1. /\ pc = "idle" /\ held' = <<>>
        /\ UNCHANGED <<pos, source, space, result>>
    BY <1>3 DEF NewReader, DropReader
  <2> QED
    BY <2>1
<1>4. CASE PollBody \/ CopyHeld \/ FetchChunk \/ HoldChunk
  BY <1>4 DEF PollBody, CopyHeld, FetchChunk, Fetch, HoldChunk
<1>5. CASE NextReturns
  <2>1. pc = "yield" /\ ~reader /\ result' = item /\ UNCHANGED <<pos, source, held>>
    BY <1>5 DEF NextReturns
  <2>2. item.kind = "end"
    BY <2>1 DEF END, Count
  <2> QED
    BY <2>1, <2>2
<1>6. CASE ReturnWritten
  <2>1. /\ result' = Count(written) /\ UNCHANGED space
        /\ space = 0 \/ written # 0
    BY <1>6 DEF ReturnWritten, Return
  <2>2. result'.kind = "count" /\ result'.n = written
    BY <2>1 DEF Count
  <2>3. written = 0 /\ space > 0
    BY <2>1, <2>2 DEF END, Count
  <2> QED
    BY <2>1, <2>3
<1>7. CASE ReturnEnd
  <2>1. /\ pc = "yield" /\ item.kind \in {"end", "error"}
        /\ UNCHANGED <<pos, source, held>>
    BY <1>7 DEF ReturnEnd, Ended
  <2> QED
    BY <2>1
<1> QED
  BY <1>1, <1>2, <1>3, <1>4, <1>5, <1>6, <1>7 DEF Next, Call, Step

\* An error is handed to the caller when nothing has been written to its slice.
LEMMA ErrorHandedOn ==
  ASSUME Typed, [Next]_vars, item = ERROR, item' # ERROR
  PROVE  /\ result' = ERROR
         /\ reader => written = 0 /\ held = <<>>
<1> USE DEF Typed, CallState
<1>1. item.kind = "error" /\ item # NONE /\ pc = "yield"
  BY DEF ERROR, NONE
<1>2. reader => written = 0 /\ held = <<>>
  BY <1>1
<1>3. NextReturns \/ ReturnEnd
  BY <1>1 DEF Next, Call, Step, vars, PollBody, NextChunk, NewReader, DropReader, Read, CopyHeld,
              ReturnWritten, FetchChunk, Fetch, HoldChunk
<1>4. result' = ERROR
  BY <1>3 DEF NextReturns, ReturnEnd, Return
<1> QED
  BY <1>2, <1>4

LEMMA NextPreserves == IInv /\ [Next]_vars => IInv'
BY NextTyped, NextOrdered, NextNotTruncated DEF IInv, Typed, Ordered

\* The buffer of a ReaderStream never outgrows its capacity, and what is handed on are
\* bytes of the source, never the zeros the buffer is made of.
THEOREM TypeCorrect == Spec => []TypeOK
<1>1. IInv => TypeOK
  BY DEF IInv
<1> QED
  BY <1>1, InitInvariant, NextPreserves, PTL DEF Spec

\* However the chunks are cut and whatever sizes the caller reads with, no byte is lost,
\* repeated or out of order, but for what a dropped BodyReader held.
THEOREM BytesStayInOrder == Spec => []BytesInOrder
<1>1. IInv => BytesInOrder
  BY DEF IInv
<1> QED
  BY <1>1, InitInvariant, NextPreserves, PTL DEF Spec

\* A body that ends has been read to the end of its source, unless that failed.
THEOREM BodiesAreComplete == Spec => []NoTruncation
<1>1. IInv => NoTruncation
  BY DEF IInv
<1> QED
  BY <1>1, InitInvariant, NextPreserves, PTL DEF Spec

\* Every error of the source gets to the caller, and costs no byte that was read.
THEOREM ErrorsAreHandedOn == Spec => ErrorsCostNothing
<1>1. IInv /\ [Next]_vars =>
        [item = ERROR /\ item' # ERROR =>
           /\ result' = ERROR
           /\ reader => written = 0 /\ held = <<>>]_vars
  BY ErrorHandedOn DEF IInv, Typed
<1> QED
  BY <1>1, InitInvariant, NextPreserves, PTL DEF Spec, ErrorsCostNothing

-----------------------------------------------------------------------------
(* A body is a ByteStream. *)

\* What is held back, or is in hand, are the latest bytes of the source, which goes on
\* being asked only when there are none.
InHand ==
  /\ source # "open" => held = <<>> /\ item.bytes = <<>>
  /\ Len(held) <= pos
  /\ \A i \in 1..Len(held) : held[i] = pos - Len(held) + i
  /\ Len(item.bytes) <= pos
  /\ \A i \in 1..Len(item.bytes) : item.bytes[i] = pos - Len(item.bytes) + i

LEMMA LenEmpty == Len(<<>>) = 0
BY EmptySeq

\* A source ends or fails once, and yields nothing after that.
LEMMA PollEnds ==
  ASSUME Typed, IF wrapped THEN PollNext ELSE Incoming
  PROVE  /\ source # "open" => UNCHANGED <<pos, source>> /\ item'.bytes = <<>>
         /\ \/ source' = source
            \/ /\ source = "open" /\ source' = "done" /\ pos = Size
               /\ pos' = pos /\ item'.bytes = <<>>
            \/ /\ source = "open" /\ source' = "failed" /\ MayFail
               /\ pos' = pos /\ item'.bytes = <<>>
<1>1. Refilled # <<>>
  BY RefilledProperties, LenEmpty DEF Typed, TypeOK
<1> QED
  BY <1>1 DEF PollNext, ReadSome, ReadNothing, ReadFails, ReaderGone, Incoming, streamVars,
              END, ERROR

\* A poll puts the bytes that it takes from the source in hand.
LEMMA PollInHand ==
  ASSUME Typed, InHand, PollBody
  PROVE  InHand' /\ held' = held /\ got' = got /\ pos' - Len(item'.bytes) = pos /\ pos \in Nat
<1> USE LenEmpty DEF InHand
<1>1. /\ held = <<>> /\ held' = held /\ got' = got /\ item.bytes = <<>> /\ pos \in Nat
      /\ Size \in Nat
  BY BodyAssumption DEF PollBody, readVars, Typed, TypeOK, CallState, NONE
<1>2. CASE pos' = pos /\ item'.bytes = <<>>
  BY <1>1, <1>2
<1>3. CASE \E k \in 0..(Size - pos) : /\ pos' = pos + k
                                      /\ item' = Chunk(Bytes(pos + 1, pos + k))
                                      /\ source' = source
  <2>1. PICK k \in 0..(Size - pos) : /\ pos' = pos + k
                                     /\ item' = Chunk(Bytes(pos + 1, pos + k))
                                     /\ source' = source
    BY <1>3
  <2>2. /\ item'.bytes = Bytes(pos + 1, pos + k) /\ k \in Nat
    BY <1>1, <2>1 DEF Chunk
  <2>3. /\ Len(Bytes(pos + 1, pos + k)) = k
        /\ \A i \in 1..k : Bytes(pos + 1, pos + k)[i] = pos + i
    BY <1>1, <2>2, BytesProperties
  <2>4. source' # "open" => item'.bytes = <<>>
    BY <2>1, PollEnds DEF PollBody
  <2>5. PICK b : b = item'.bytes
    OBVIOUS
  <2>6. Len(b) = k /\ \A i \in 1..k : b[i] = pos' - k + i
    BY <1>1, <2>1, <2>2, <2>3, <2>5
  <2>7. /\ k <= pos' /\ pos' - k = pos /\ Len(held') <= pos' /\ held' = <<>>
    BY <1>1, <2>1
  <2>8. InHand'
    BY <2>4, <2>5, <2>6, <2>7
  <2> QED
    BY <1>1, <2>5, <2>6, <2>7, <2>8
<1> QED
  BY <1>2, <1>3, PollEffect DEF PollBody, END, ERROR

\* What a read copies are the bytes that come next.
LEMMA CopyInHand ==
  ASSUME Typed, InHand, CopyHeld
  PROVE  /\ InHand' /\ UNCHANGED <<pos, item, source>> /\ item.bytes = <<>>
         /\ source = "open"
         /\ \E n \in 1..Len(held) : /\ got' = got \o [i \in 1..n |-> pos - Len(held) + i]
                                    /\ Len(held') = Len(held) - n
<1> USE LenEmpty DEF InHand
<1>1. /\ UNCHANGED <<pos, item, source>> /\ held # <<>> /\ item.bytes = <<>>
      /\ source = "open" /\ pos \in Nat
  BY BodyAssumption DEF CopyHeld, streamVars, Typed, TypeOK, CallState, NONE
<1>2. PICK front \in Seq(1..Size), back \in Seq(1..Size) :
        /\ held = front \o back
        /\ got' = got \o front /\ held' = back
        /\ Len(front) \in 1..space
  BY CopyEffect
<1>3. /\ Len(front) \in Nat \ {0} /\ Len(back) \in Nat
      /\ Len(held) = Len(front) + Len(back)
      /\ \A i \in 1..Len(front) : held[i] = front[i]
      /\ \A i \in 1..Len(back) : held[Len(front) + i] = back[i]
  <2>1. space \in Nat
    BY DEF Typed, TypeOK
  <2>2. /\ Len(front) \in Nat /\ Len(back) \in Nat
        /\ Len(front \o back) = Len(front) + Len(back)
        /\ \A i \in 1..(Len(front) + Len(back)) :
             (front \o back)[i] = IF i <= Len(front) THEN front[i] ELSE back[i - Len(front)]
    BY LenProperties, ConcatProperties
  <2>3. Len(front) # 0
    BY <1>2, <2>1
  <2> QED
    BY <1>2, <2>2, <2>3
<1>4. front = [i \in 1..Len(front) |-> pos - Len(held) + i]
  <2>1. front = [i \in 1..Len(front) |-> front[i]]
    BY LenProperties
  <2>2. \A i \in 1..Len(front) : front[i] = pos - Len(held) + i
    BY <1>3
  <2> QED
    BY <2>1, <2>2
<1>5. \A i \in 1..Len(back) : back[i] = pos - Len(back) + i
  <2>1. ASSUME NEW i \in 1..Len(back) PROVE back[i] = pos - Len(back) + i
    <3>1. Len(front) + i \in 1..Len(held)
      BY <1>3
    <3>2. held[Len(front) + i] = pos - Len(held) + (Len(front) + i)
      BY <3>1
    <3> QED
      BY <1>1, <1>3, <3>2
  <2> QED
    BY <2>1
<1>6. Len(back) <= pos
  BY <1>1, <1>3
<1>7. InHand'
  BY <1>1, <1>2, <1>5, <1>6
<1>8. Len(front) \in 1..Len(held) /\ Len(held') = Len(held) - Len(front)
  BY <1>2, <1>3
<1> QED
  BY <1>1, <1>2, <1>4, <1>7, <1>8

\* Every step is one of ByteStream, or none.
LEMMA NextStreams ==
  ASSUME Typed, InHand, [Next]_vars
  PROVE  InHand' /\ [Stream!Next]_(Stream!vars)
<1> USE LenEmpty DEF InHand, Stream!vars
<1>1. /\ pos \in Nat /\ Size \in Nat /\ pos <= Size
      /\ Len(held) \in Nat /\ Len(item.bytes) \in Nat
      /\ got \in Seq(1..Size)
  BY BodyAssumption, LenProperties DEF Typed, TypeOK
<1>2. CASE PollBody
  <2>1. InHand' /\ UNCHANGED <<held, got>> /\ held = <<>> /\ item.bytes = <<>>
        /\ pos' - Len(item'.bytes) = pos
    BY <1>2, PollInHand DEF PollBody, Typed, CallState, NONE
  <2>2. pos' - Len(held') - Len(item'.bytes) = pos - Len(held) - Len(item.bytes)
        /\ pos - Len(held) - Len(item.bytes) = pos
    <3>1. Len(item'.bytes) \in Nat /\ pos' \in Nat
      BY <1>2, NextTyped, LenProperties, BodyAssumption DEF Typed, TypeOK
    <3> QED
      BY <1>1, <2>1, <3>1
  <2>3. CASE source' = source
    BY <2>1, <2>2, <2>3
  <2>4. CASE source = "open" /\ source' = "done" /\ pos = Size
    <3>1. Stream!End
      BY <2>1, <2>2, <2>4 DEF Stream!End
    <3> QED
      BY <2>1, <3>1 DEF Stream!Next
  <2>5. CASE source = "open" /\ source' = "failed" /\ MayFail
    <3>1. Stream!Fail
      BY <2>1, <2>2, <2>5 DEF Stream!Fail
    <3> QED
      BY <2>1, <3>1 DEF Stream!Next
  <2> QED
    BY <1>2, <2>3, <2>4, <2>5, PollEnds DEF PollBody
<1>3. CASE NextReturns
  <2>1. /\ held = <<>> /\ held' = <<>> /\ item'.bytes = <<>> /\ got' = got \o item.bytes
        /\ UNCHANGED <<pos, source>>
    BY <1>3 DEF NextReturns, streamVars, Typed, CallState, NONE
  <2>2. PICK b \in Seq(1..Size) : b = item.bytes
    BY DEF Typed, TypeOK
  <2>3. InHand'
    BY <1>1, <2>1
  <2>4. CASE b = <<>>
    BY <1>1, <2>1, <2>2, <2>3, <2>4, ConcatEmptySeq
  <2>5. CASE b # <<>>
    <3>1. Len(b) \in 1..pos /\ source = "open"
      BY <1>1, <2>2, <2>5, EmptySeq, LenProperties
    <3>2. b = [j \in 1..Len(b) |-> pos - Len(b) + j]
      <4>1. b = [j \in 1..Len(b) |-> b[j]]
        BY LenProperties
      <4> QED
        BY <2>2, <4>1
    <3>3. /\ pos - Len(held) - Len(item.bytes) = pos - Len(b)
          /\ pos' - Len(held') - Len(item'.bytes) = pos - Len(b) + Len(b)
      BY <1>1, <2>1, <2>2
    <3>4. Len(b) \in 1..(Size - (pos - Len(b)))
      BY <1>1, <3>1
    <3>5. Stream!Deliver(Len(b))
      BY <2>1, <2>2, <3>1, <3>2, <3>3 DEF Stream!Deliver
    <3> QED
      BY <2>3, <3>3, <3>4, <3>5 DEF Stream!Next
  <2> QED
    BY <2>4, <2>5
<1>4. CASE CopyHeld
  <2>1. /\ InHand' /\ UNCHANGED <<pos, item, source>> /\ item.bytes = <<>> /\ source = "open"
    BY <1>4, CopyInHand
  <2>2. PICK n \in 1..Len(held) : /\ got' = got \o [i \in 1..n |-> pos - Len(held) + i]
                                  /\ Len(held') = Len(held) - n
    BY <1>4, CopyInHand
  <2>3. /\ pos - Len(held) - Len(item.bytes) = pos - Len(held)
        /\ pos' - Len(held') - Len(item'.bytes) = pos - Len(held) + n
    BY <1>1, <2>1, <2>2
  <2>4. n \in 1..(Size - (pos - Len(held)))
    BY <1>1
  <2>5. Stream!Deliver(n)
    BY <2>1, <2>2, <2>3 DEF Stream!Deliver
  <2> QED
    BY <2>1, <2>3, <2>4, <2>5 DEF Stream!Next
<1>5. CASE DropReader
  <2>1. /\ held' = <<>> /\ UNCHANGED <<pos, item, source, got>> /\ item.bytes = <<>>
    BY <1>5 DEF DropReader, streamVars, Typed, CallState, NONE
  <2>2. InHand'
    BY <1>1, <2>1
  <2>3. /\ pos - Len(held) - Len(item.bytes) = pos - Len(held)
        /\ pos' - Len(held') - Len(item'.bytes) = pos - Len(held) + Len(held)
    BY <1>1, <2>1
  <2>4. CASE Len(held) = 0
    BY <1>1, <2>1, <2>2, <2>3, <2>4
  <2>5. CASE Len(held) # 0
    <3>1. Len(held) \in 1..(Size - (pos - Len(held))) /\ source = "open"
      BY <1>1, <2>5
    <3>2. Stream!Skip(Len(held))
      BY <2>1, <2>3, <3>1 DEF Stream!Skip
    <3> QED
      BY <2>2, <2>3, <3>1, <3>2 DEF Stream!Next
  <2> QED
    BY <2>4, <2>5
<1>6. CASE HoldChunk
  <2>1. /\ held = <<>> /\ held' = item.bytes /\ item'.bytes = <<>>
        /\ UNCHANGED <<pos, source, got>>
    BY <1>6 DEF HoldChunk, streamVars, Typed, CallState, NONE
  <2>2. InHand'
    BY <1>1, <2>1
  <2>3. pos' - Len(held') - Len(item'.bytes) = pos - Len(held) - Len(item.bytes)
    BY <1>1, <2>1
  <2> QED
    BY <2>1, <2>2, <2>3
<1>7. CASE \/ NextChunk \/ NewReader \/ \E n \in ReadSizes : Read(n)
           \/ ReturnWritten \/ FetchChunk \/ ReturnEnd \/ UNCHANGED vars
  <2>1. held' = held /\ item'.bytes = item.bytes /\ UNCHANGED <<pos, source, got>>
    BY <1>7 DEF NextChunk, NewReader, Read, ReturnWritten, FetchChunk, Fetch, ReturnEnd, Ended,
                vars, streamVars, readVars, Typed, CallState, NONE
  <2> QED
    BY <2>1
<1> QED
  BY <1>2, <1>3, <1>4, <1>5, <1>6, <1>7 DEF Next, Call, Step

\* StreamSpec: chunks, buffers and slices of any sizes, readers that come and go, and
\* the two sources are invisible to the user of a body.
THEOREM StreamImplemented == Spec => StreamSpec
<1>1. Init => Stream!Init /\ InHand
  <2> SUFFICES ASSUME Init PROVE Stream!Init /\ InHand
    OBVIOUS
  <2>1. pos = 0 /\ source = "open" /\ got = <<>> /\ held = <<>> /\ item.bytes = <<>>
    BY DEF Init, NONE
  <2>2. Len(held) = 0 /\ Len(item.bytes) = 0
    BY <2>1, LenEmpty
  <2>3. pos - Len(held) - Len(item.bytes) = 0
    <3>1. pos = 0
      BY <2>1
    <3>2. PICK h, b \in Nat : h = Len(held) /\ b = Len(item.bytes) /\ h = 0 /\ b = 0
      BY <2>2
    <3> QED
      BY <3>1, <3>2
  <2>4. InHand
    BY <2>1, <2>2 DEF InHand
  <2> QED
    BY <2>1, <2>3, <2>4 DEF Stream!Init
<1>2. IInv => Typed
  BY DEF IInv, Typed
<1> QED
  BY <1>1, <1>2, InitInvariant, NextPreserves, NextStreams, PTL
     DEF Spec, StreamSpec, Stream!Spec
=============================================================================
