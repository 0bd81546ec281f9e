-------------------------------- MODULE Body --------------------------------
(***************************************************************************)
(* The bodies of src/src/http.rs: ReaderStream, which turns an io::Read    *)
(* into a stream of chunks; Body::next, which waits for the next chunk;    *)
(* and BodyReader, which turns chunks into an io::Read again.  The body    *)
(* has one of two sources: a reader given to Body::wrap_reader, or the     *)
(* connection a request comes in on.                                       *)
(*                                                                         *)
(* A byte is its position in the source, so that what is lost, repeated or *)
(* out of order shows.  Whoever uses the body does so from one thread: an  *)
(* action is one call it makes, or one turn of the loop in                 *)
(* BodyReader::read.                                                       *)
(*                                                                         *)
(* Not in src/: the io::Read behind wrap_reader, which may return fewer    *)
(* bytes than asked for and may fail at any time; and hyper's body, which  *)
(* hands on the stream's items one by one, or the chunks of a request,     *)
(* empty ones included.                                                    *)
(***************************************************************************)
EXTENDS Integers, Sequences, Functions

CONSTANTS Size,       \* how many bytes the source has
          CAP,        \* the capacity of the buffer of a ReaderStream
          ReadSizes,  \* how much space callers of BodyReader::read offer
          MayFail     \* may the source fail?

ASSUME BodyAssumption ==
  /\ Size \in Nat
  /\ CAP \in Nat \ {0}
  /\ ReadSizes \subseteq Nat
  /\ MayFail \in BOOLEAN

VARIABLES
  wrapped,  \* was the body made by wrap_reader, or did it come with a request?
  pos,      \* how many bytes the source has given away
  source,   \* "open" as long as ReaderStream::reader is Some(_) or the request is coming
            \* in; then "done" or "failed"
  buf,      \* ReaderStream::buf
  item,     \* what the latest poll of the stream yielded
  reader,   \* is there a BodyReader for the body?
  held,     \* BodyReader::prev_bytes
  pc,       \* "idle", in read: "loop", in Body::next: "poll" and "yield"
  space,    \* in read: what is left of the caller's slice ...
  written,  \* ... and how many bytes were written to it
  got,      \* all bytes that the user of the body has got, in this order
  result,   \* what the latest call returned
  dropped   \* the bytes that were held by a BodyReader when it was dropped (history)

streamVars == <<pos, source, buf>>
readVars   == <<reader, held, space, written, got>>
vars       == <<wrapped, streamVars, item, readVars, pc, result, dropped>>

Bytes(first, last) == [i \in 1..(last - first + 1) |-> first + i - 1]
Zeros(n)           == [i \in 1..n |-> 0]
Chunk(bytes)       == [kind |-> "chunk", bytes |-> bytes]
END                == [kind |-> "end", bytes |-> <<>>]
ERROR              == [kind |-> "error", bytes |-> <<>>]
NONE               == [kind |-> "none", bytes |-> <<>>]
Count(n)           == [kind |-> "count", n |-> n]

Init ==
  /\ wrapped \in BOOLEAN
  /\ pos = 0 /\ source = "open" /\ buf = Zeros(CAP)
  /\ item = NONE
  /\ reader = FALSE /\ held = <<>> /\ pc = "idle" /\ space = 0 /\ written = 0
  /\ got = <<>> /\ result = NONE /\ dropped = {}

-----------------------------------------------------------------------------
(* ReaderStream::poll_next. *)

\* Refilled with a bug: the buffer is never made anew.
NeverRefilled == buf

\* Refilled with a bug: it grows every time.
AlwaysExtended == buf \o Zeros(CAP)

\* The buffer that is passed to reader.read: a new one when the old one is used
\* up, for a read into no space would pass for the end of the data.  (The code looks
\* at its capacity, which is its length: split_off leaves no spare room behind.)
Refilled == IF buf = <<>> THEN Zeros(CAP) ELSE buf

\* Split with a bug: what split_off returns is taken for the chunk.
SplitSwapped(filled, k) ==
  [chunk |-> SubSeq(filled, k + 1, Len(filled)), buf |-> SubSeq(filled, 1, k)]

\* split_off leaves the rest of the buffer for the next call, and the front is the
\* chunk.
Split(filled, k) ==
  [chunk |-> SubSeq(filled, 1, k), buf |-> SubSeq(filled, k + 1, Len(filled))]

\* reader.read(buf) fills the front of the buffer with k bytes.
ReadSome ==
  /\ source = "open"
  /\ \E k \in 1..Len(Refilled) :
       /\ k <= Size - pos
       /\ LET filled == Bytes(pos + 1, pos + k) \o SubSeq(Refilled, k + 1, Len(Refilled))
          IN  item' = Chunk(Split(filled, k).chunk) /\ buf' = Split(filled, k).buf
       /\ pos' = pos + k
  /\ UNCHANGED source

\* Ok(0): the reader is done with, and dropped.
ReadNothing ==
  /\ source = "open"
  /\ pos = Size \/ Refilled = <<>>
  /\ source' = "done"
  /\ item' = END
  /\ buf' = Refilled
  /\ UNCHANGED pos

\* Any error, Interrupted too: it is passed on and the reader is dropped.
ReadFails ==
  /\ source = "open"
  /\ MayFail
  /\ source' = "failed"
  /\ item' = ERROR
  /\ buf' = Refilled
  /\ UNCHANGED pos

ReaderGone ==
  /\ source # "open"
  /\ item' = END
  /\ UNCHANGED streamVars

PollNext == ReadSome \/ ReadNothing \/ ReadFails \/ ReaderGone

\* The next chunk of a request, of any length; the end; or an error, after which
\* nothing comes any more.
Incoming ==
  /\ UNCHANGED buf
  /\ \/ /\ source = "open"
        /\ \E k \in 0..(Size - pos) : pos' = pos + k /\ item' = Chunk(Bytes(pos + 1, pos + k))
        /\ UNCHANGED source
     \/ /\ source = "open"
        /\ \/ pos = Size /\ source' = "done" /\ item' = END
           \/ MayFail /\ source' = "failed" /\ item' = ERROR
        /\ UNCHANGED pos
     \/ /\ source # "open"
        /\ item' = END
        /\ UNCHANGED <<pos, source>>

\* self.0.data(), run by a Parker until there is an item.
PollBody ==
  /\ pc = "poll"
  /\ IF wrapped THEN PollNext ELSE Incoming
  /\ pc' = "yield"
  /\ UNCHANGED <<readVars, result, dropped>>

-----------------------------------------------------------------------------
(* Iterator for Body: possible while no BodyReader borrows the body. *)

NextChunk ==
  /\ pc = "idle"
  /\ ~reader
  /\ pc' = "poll"
  /\ UNCHANGED <<streamVars, item, readVars, result, dropped>>

NextReturns ==
  /\ pc = "yield"
  /\ ~reader
  /\ got' = got \o item.bytes
  /\ result' = item
  /\ item' = NONE
  /\ pc' = "idle"
  /\ UNCHANGED <<streamVars, reader, held, space, written, dropped>>

-----------------------------------------------------------------------------
(* Body::reader and Read for BodyReader. *)

NewReader ==
  /\ pc = "idle"
  /\ ~reader
  /\ reader' = TRUE
  /\ held' = <<>>
  /\ UNCHANGED <<streamVars, item, pc, space, written, got, result, dropped>>

\* What the reader holds is dropped along with it.
DropReader ==
  /\ pc = "idle"
  /\ reader
  /\ reader' = FALSE
  /\ held' = <<>>
  /\ dropped' = dropped \cup {held[i] : i \in DOMAIN held}
  /\ UNCHANGED <<streamVars, item, pc, space, written, got, result>>

Read(n) ==
  /\ pc = "idle"
  /\ reader
  /\ space' = n
  /\ written' = 0
  /\ pc' = "loop"
  /\ UNCHANGED <<streamVars, item, reader, held, got, result, dropped>>

Return(r) ==
  /\ result' = r
  /\ pc' = "idle"

\* Copy as much as fits, and go on: the slice or what is held is used up now.
CopyHeld ==
  /\ pc = "loop"
  /\ space > 0
  /\ held # <<>>
  /\ LET size == IF space < Len(held) THEN space ELSE Len(held) IN
       /\ got' = got \o SubSeq(held, 1, size)
       /\ held' = SubSeq(held, size + 1, Len(held))
       /\ space' = space - size
       /\ written' = written + size
  /\ UNCHANGED <<streamVars, item, reader, pc, result, dropped>>

\* No more space, or no more bytes but some were written: what there is will do.
ReturnWritten ==
  /\ pc = "loop"
  /\ space = 0 \/ (held = <<>> /\ written # 0)
  /\ Return(Count(written))
  /\ UNCHANGED <<streamVars, item, readVars, dropped>>

\* Nothing is held: wait for the next chunk.
Fetch ==
  /\ pc = "loop"
  /\ space > 0 /\ held = <<>>
  /\ pc' = "poll"
  /\ UNCHANGED <<streamVars, item, readVars, result, dropped>>

\* FetchChunk with a bug: read goes on until the slice is full.
FetchToFill == Fetch

\* Only a read that has nothing to return waits.
FetchChunk == Fetch /\ written = 0

HoldChunk ==
  /\ pc = "yield"
  /\ reader
  /\ item.kind = "chunk"
  /\ held' = item.bytes
  /\ item' = NONE
  /\ pc' = "loop"
  /\ UNCHANGED <<streamVars, reader, space, written, got, result, dropped>>

\* The end or an error.
Ended ==
  /\ pc = "yield"
  /\ reader
  /\ item.kind # "chunk"
  /\ item' = NONE
  /\ UNCHANGED <<streamVars, readVars, dropped>>

\* ReturnEnd with a bug: the end is taken for an empty chunk.
EndIgnored == Ended /\ pc' = "loop" /\ UNCHANGED result

ReturnEnd == Ended /\ Return(IF item = ERROR THEN ERROR ELSE Count(written))

\* The calls of the user of the body, and what a call does by itself.
Call == NextChunk \/ NewReader \/ DropReader \/ \E n \in ReadSizes : Read(n)
Step == \/ PollBody \/ NextReturns
        \/ CopyHeld \/ ReturnWritten \/ FetchChunk \/ HoldChunk \/ ReturnEnd

Next == (Call \/ Step) /\ UNCHANGED wrapped

Spec == Init /\ [][Next]_vars

\* A call that is made goes on, and the source goes on too: a peer does not send
\* empty chunks for ever.
FairSpec == /\ Spec
            /\ WF_vars(Step /\ UNCHANGED wrapped)
            /\ SF_vars(PollBody /\ item' # Chunk(<<>>) /\ UNCHANGED wrapped)

-----------------------------------------------------------------------------
(* Properties. *)

TypeOK ==
  /\ wrapped \in BOOLEAN
  /\ pos \in 0..Size
  /\ source \in {"open", "done", "failed"}
  /\ buf \in Seq(0..Size) /\ Len(buf) <= CAP
  /\ item.kind \in {"none", "chunk", "end", "error"} /\ item.bytes \in Seq(1..Size)
  /\ reader \in BOOLEAN
  /\ held \in Seq(1..Size)
  /\ pc \in {"idle", "loop", "poll", "yield"}
  /\ space \in Nat /\ written \in Nat
  /\ got \in Seq(1..Size)
  /\ dropped \subseteq 1..Size

\* The bytes in S, once each and in their order.
InOrder(bytes, S) ==
  /\ \A i, j \in DOMAIN bytes : i < j => bytes[i] < bytes[j]
  /\ Range(bytes) = S

\* However the chunks are cut, and whatever sizes the caller reads with: every byte
\* that the source gave away reaches the user, once and in order, or is still on
\* its way.  The one exception is what a BodyReader held when it was dropped
\* (http.rs:150-153, 215-222, 324-327).
BytesInOrder == InOrder(got \o held \o item.bytes, (1..pos) \ dropped)

\* The call that has returned told its caller that there is nothing more.
SaysEnd == result = END \/ (result = Count(0) /\ space > 0)

\* A body does not end before its source does, unless the source failed: no read
\* is ever made into a buffer of no space, whose 0 would be taken for the end, and
\* an empty chunk is not taken for it either (http.rs:311-313, 320-323, 231-235).
NoTruncation ==
  pc = "idle" /\ SaysEnd => source = "failed" \/ (pos = Size /\ held = <<>>)

\* "If an error is returned, no bytes were read" is what io::Read asks of read: an
\* error of the source gets to the caller, and never in place of bytes that were
\* copied into the slice by then (http.rs:224-233).
ErrorsCostNothing ==
  [][item = ERROR /\ item' # ERROR =>
       /\ result' = ERROR
       /\ reader => written = 0 /\ held = <<>>]_vars

\* Every call returns, however much space it was given and whatever the source yields:
\* a read goes on past empty chunks, and ends at the end and at an error
\* (http.rs:211-213, 224-235).
CallsReturn == (pc # "idle") ~> (pc = "idle")

\* Buffers, chunks and slices are invisible: a body is a ByteStream whose user is past
\* the bytes that are neither held back nor in hand.  In particular nothing comes after
\* the end or an error, and what a dropped reader held never comes again.
Stream == INSTANCE ByteStream WITH
            at    <- pos - Len(held) - Len(item.bytes),
            state <- source
StreamSpec == Stream!Spec
=============================================================================
