------------------------------ MODULE RdoFramer ------------------------------
(***************************************************************************)
(* The framer of one world socket (rdo.ts): chunks of any size go in,      *)
(* frames come out.  A semicolon inside quotes does not end a frame; an    *)
(* overloaded server answers "A error <n>" with no terminator; a buffer    *)
(* over its limit is cut back.  The stream is made of the pieces framing   *)
(* looks at: "A", "error " (with its optional space before), a digit, a    *)
(* quote and a semicolon.  Trimming, and an empty frame's spaces, are left *)
(* out.                                                                    *)
(***************************************************************************)
EXTENDS Naturals, SequencesExt

CONSTANTS
    MaxStream,      \* bound: pieces the world sends
    MaxChunk,       \* bound: pieces of one chunk
    MaxBuffer       \* MAX_BUFFER_SIZE

Piece == {"A", "error", "1", "quote", ";"}

VARIABLES
    buffer,
    delivered,      \* the frames handed to the session, in order
    received        \* every piece that has come in

framerVars == <<buffer, delivered, received>>

FramerInit == buffer = <<>> /\ delivered = <<>> /\ received = <<>>

-----------------------------------------------------------------------------
Quotes(b, n) == Cardinality({i \in 1 .. n : b[i] = "quote"})

\* findDelimiter: the first semicolon outside quotes, 0 when there is none.
Delimiter(b) ==
    LET ends == {i \in DOMAIN b : b[i] = ";" /\ Quotes(b, i) % 2 = 0}
    IN  IF ends = {} THEN 0 ELSE Min(ends)

\* mutant: no look at the piece that follows
BusyNow(b) ==
    LET ends == {i \in 3 .. Len(b) :
                    b[1] = "A" /\ b[2] = "error" /\ \A j \in 3 .. i : b[j] = "1"}
    IN  IF ends = {} THEN 0 ELSE Max(ends)

(* /^A ?error \d+(?=\D)/: how long the unterminated busy answer at the head is, 0 when there is none.  It counts *)
(* only once a piece that is not a digit follows, so that a code split over two chunks is not cut short.         *)
Busy(b) ==
    LET ends == {i \in 3 .. Len(b) - 1 :
                    /\ b[1] = "A" /\ b[2] = "error"
                    /\ \A j \in 3 .. i : b[j] = "1"
                    /\ b[i + 1] # "1"}
    IN  IF ends = {} THEN 0 ELSE Max(ends)

\* The while loop of ingest: what is cut from the buffer, and what is left of it.
Cut(b) ==
    LET cut[n \in 0 .. Len(b)] ==      \* from position n + 1 on
            LET rest == SubSeq(b, n + 1, Len(b))
                busy == Busy(rest)
                end == Delimiter(rest)
            IN  IF busy > 0
                  THEN [frames |-> << SubSeq(rest, 1, busy) >> \o cut[n + busy].frames, left |-> cut[n + busy].left]
                ELSE IF end > 1
                  THEN [frames |-> << SubSeq(rest, 1, end - 1) >> \o cut[n + end].frames, left |-> cut[n + end].left]
                ELSE IF end = 1 THEN cut[n + 1]
                ELSE [frames |-> <<>>, left |-> rest]
    IN  cut[0]

\* lastIndexOf(';'), quoted or not
LastBoundary(b) == Max({0} \cup {i \in DOMAIN b : b[i] = ";"})

\* mutant: the whole buffer is dropped
SalvagedNothing(b) == <<>>

\* Over the limit only the part up to the last boundary is kept.
Salvaged(b) == SubSeq(b, 1, LastBoundary(b))

Kept(b) == IF Len(b) > MaxBuffer THEN Salvaged(b) ELSE b

Ingest(chunk) ==
    /\ Len(received) + Len(chunk) <= MaxStream
    /\ LET cut == Cut(Kept(buffer \o chunk))
       IN  /\ buffer' = cut.left
           /\ delivered' = delivered \o cut.frames
    /\ received' = received \o chunk

FramerNext == \E n \in 1 .. MaxChunk : \E chunk \in [1 .. n -> Piece] : Ingest(chunk)

FramerSpec == FramerInit /\ [][FramerNext]_framerVars

-----------------------------------------------------------------------------
Fits == Len(received) <= MaxBuffer

(* However the stream is split into chunks, the session gets the frames it would get had everything come at *)
(* once, a busy answer without a terminator and a quoted semicolon included.                                *)
ChunkingIsInvisible == Fits => Cut(received) = [frames |-> delivered, left |-> buffer]

(* A chunk that overflows the buffer loses none of the frames that were complete in it (the comment at 60:  *)
(* "Keep the parsed prefix, drop only from the last frame boundary onward").  A busy answer is left aside: it *)
(* ends at no boundary, and one with no semicolon after it goes with the tail.                                *)
OverflowKeepsFrames ==
    [][LET all == buffer \o SubSeq(received', Len(received) + 1, Len(received'))
       IN  ~Contains(all, "error") => delivered' = delivered \o Cut(all).frames]_framerVars
=============================================================================
