---------------------------- MODULE LineDecoder ----------------------------
(***************************************************************************)
(* The decoder of the sidecar's pipes: packages/runtime/src/transport/     *)
(* codec.ts.  A peer writes one JSON message per line; the pipe delivers   *)
(* the bytes in chunks of its own.                                         *)
(*                                                                         *)
(* JSON.parse and isSidecarMessage only tell four kinds of lines apart, so *)
(* lines are short words over a few characters.  Of UTF-8 only what chunks *)
(* can break is kept: a character whose two bytes are Lead and Trail.      *)
(***************************************************************************)
EXTENDS Naturals, Sequences, SequencesExt

CONSTANTS
    Byte,                  \* the bytes peers write
    Newline, Space,        \* two of them, each a character by itself
    Lead, Trail, Wide,     \* two bytes and the character they encode
    Broken,                \* U+FFFD, what toString('utf8') makes of a lone half
    Message,               \* trimmed lines that are sidecar messages
    Invalid,               \* trimmed lines that are JSON but no such message
    MaxBuffer,             \* maxBuffer
    MaxChunk, MaxText      \* bounds: bytes of a chunk, bytes between resets

ASSUME ByteAssumption ==
    /\ {Newline, Space} \subseteq Byte /\ {Newline, Space} \cap {Lead, Trail} = {}
    /\ Lead # Trail /\ Wide \notin Byte /\ Broken \notin Byte
    /\ Message \cap Invalid = {}
    /\ MaxBuffer \in Nat /\ MaxChunk \in Nat /\ MaxText \in Nat

VARIABLES
    buffer,      \* decoded text not yet cut into lines
    index,       \* newlineIndex + 1; 0 when push has returned
    delivered,   \* lines passed to onMessage since the last reset
    errors,      \* calls of onError since the last reset
    text,        \* history: the bytes received since the last reset
    cuts         \* history: after which of them a chunk ended inside a character

vars == <<buffer, index, delivered, errors, text, cuts>>

Init == /\ buffer = <<>> /\ index = 0 /\ delivered = <<>> /\ errors = 0
        /\ text = <<>> /\ cuts = {}
-----------------------------------------------------------------------------
\* Two bytes make a character unless it was cut between them; a half by itself
\* makes Broken.
Splits(bytes, i) == i \in 1..(Len(bytes) - 1) /\ bytes[i] = Lead /\ bytes[i + 1] = Trail
Pair(bytes, cut, i) == Splits(bytes, i) /\ i \notin cut
CharAt(bytes, cut, i) ==
    CASE Pair(bytes, cut, i) -> <<Wide>>
      [] Pair(bytes, cut, i - 1) -> <<>>
      [] OTHER -> <<IF bytes[i] \in {Lead, Trail} THEN Broken ELSE bytes[i]>>
Decoding(bytes, cut) ==
    LET upTo[n \in 0..Len(bytes)] ==
            IF n = 0 THEN <<>> ELSE upTo[n - 1] \o CharAt(bytes, cut, n)
    IN  upTo
Decode(bytes, cut) == Decoding(bytes, cut)[Len(bytes)]

\* Buffer.toString('utf8'), a fresh decoder for every chunk.
DecodeChunk(chunk) == Decode(chunk, {})

\* The history of a chunk, and of a buffer that is emptied.
Receive(chunk) ==
    /\ text' = text \o chunk
    /\ cuts' = cuts \cup {i \in {Len(text)} : Splits(text \o chunk, i)}
Reset == buffer' = <<>> /\ delivered' = <<>> /\ errors' = 0 /\ text' = <<>> /\ cuts' = {}

\* indexOf and slice, from 1 and clamped to the text as slice is.
NewlineIndex(chars) == SelectInSeq(chars, LAMBDA ch : ch = Newline)
Slice(chars, first, last) == SubSeq(chars, first, IF last <= Len(chars) THEN last ELSE Len(chars))

Trim(line) ==
    LET Ink == {i \in DOMAIN line : line[i] # Space}
    IN  IF Ink = {} THEN <<>> ELSE SubSeq(line, Min(Ink), Max(Ink))

\* Fault: the rest of the chunk before is forgotten.
PushForgetting(chunk) ==
    LET grown == DecodeChunk(chunk)
    IN  /\ index = 0
        /\ Len(grown) <= MaxBuffer
        /\ buffer' = grown /\ index' = NewlineIndex(grown)
        /\ Receive(chunk)
        /\ UNCHANGED <<delivered, errors>>

Push(chunk) ==
    LET grown == buffer \o DecodeChunk(chunk)
    IN  /\ index = 0
        /\ Len(grown) <= MaxBuffer
        /\ buffer' = grown /\ index' = NewlineIndex(grown)
        /\ Receive(chunk)
        /\ UNCHANGED <<delivered, errors>>

\* The whole buffer is dropped, complete lines included.
Overflow(chunk) ==
    /\ index = 0
    /\ Len(buffer \o DecodeChunk(chunk)) > MaxBuffer
    /\ Reset /\ UNCHANGED index

End == index = 0 /\ Reset /\ UNCHANGED index

\* One round of the loop.  After an invalid message it continues without
\* looking for the next newline: the old index cuts the rest of the buffer.
DecodeLine ==
    LET line == Trim(Slice(buffer, 1, index - 1))
        rest == Slice(buffer, index + 1, Len(buffer))
    IN  /\ index > 0
        /\ buffer' = rest
        /\ delivered' = IF line \in Message THEN Append(delivered, line) ELSE delivered
        /\ errors' = IF line = <<>> \/ line \in Message THEN errors ELSE errors + 1
        /\ index' = IF line \in Invalid THEN index ELSE NewlineIndex(rest)
        /\ UNCHANGED <<text, cuts>>

Next ==
    \/ \E n \in 1..MaxChunk : \E chunk \in [1..n -> Byte] :
         Len(text) + n <= MaxText /\ (Push(chunk) \/ Overflow(chunk))
    \/ End
    \/ DecodeLine

Spec == Init /\ [][Next]_vars
-----------------------------------------------------------------------------
(* Properties. *)

\* What there is to see in a text when nothing cuts it into chunks: the line
\* not ended yet, the messages, the number of bad lines, whether one of them
\* was JSON of another kind.
ReadOn(seen, ch) ==
    LET line == Trim(seen.open)
    IN  IF ch # Newline THEN [seen EXCEPT !.open = Append(@, ch)]
        ELSE [open |-> <<>>,
              messages |-> IF line \in Message THEN Append(seen.messages, line) ELSE seen.messages,
              bad |-> IF line \in Message \cup {<<>>} THEN seen.bad ELSE seen.bad + 1,
              invalid |-> seen.invalid \/ line \in Invalid]
Unread == [open |-> <<>>, messages |-> <<>>, bad |-> 0, invalid |-> FALSE]
Reading(chars) ==
    LET upTo[n \in 0..Len(chars)] == IF n = 0 THEN Unread ELSE ReadOn(upTo[n - 1], chars[n])
    IN  upTo

\* The text as its bytes mean it, but for the characters that were cut in two.
Heard == Decode(text, cuts)
Read == Reading(Heard)[Len(Heard)]

\* Once push has returned, every complete line received since the last reset
\* that is a message has been delivered, unchanged, once and in order.
DecodesEveryLine == index = 0 => delivered = Read.messages

\* It has, as long as no line was JSON of another kind, and every bad line has
\* been reported once: where the pipe cut the stream shows only in the
\* characters cut in two, which are two of Broken.  Even after such a line push
\* returns with at most one line begun, the end of what was received.
DecodesUntilInvalid ==
    index = 0 =>
        /\ ~Read.invalid => delivered = Read.messages /\ errors = Read.bad
        /\ NewlineIndex(buffer) = 0 /\ IsSuffix(buffer, Heard)
=============================================================================
