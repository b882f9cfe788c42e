----------------------------- MODULE SseDecoder -----------------------------
(***************************************************************************)
(* The Server-Sent Events decoder of agate-proxy, fed with chunks of any   *)
(* size.  Bytes are kept as far as the decoder tells them apart: line feed *)
(* LF, carriage return CR, colon, space, the field names in one piece, a   *)
(* byte that is not UTF-8 (Bad), and anything else.                        *)
(***************************************************************************)
EXTENDS Naturals, Sequences, SequencesExt, FiniteSets

CONSTANTS Bytes,     \* the bytes of the instance
          MaxBytes,  \* bound: length of the response
          MaxChunk   \* bound: length of a chunk

LF == "LF"
CR == "CR"
Colon == "Colon"
Space == "Space"
Bad == "Bad"
FieldNames == {"data", "event", "id"}

VARIABLES decoder,   \* SseDecoder
          events,    \* the events it has returned
          received   \* the bytes it was fed (history)

sseVars == <<decoder, events, received>>

Unset == <<"unset">>
NewDecoder == [buffer |-> <<>>, raw |-> <<>>, data |-> <<>>, event |-> Unset, id |-> Unset,
               hasData |-> FALSE]

\* from_utf8_lossy
Lossy(bytes) == [i \in DOMAIN bytes |-> IF bytes[i] = Bad THEN "U+FFFD" ELSE bytes[i]]

\* The index of the first occurrence of b; 0 if there is none.
Position(b, bytes) ==
    LET at == {i \in DOMAIN bytes : bytes[i] = b}
    IN  IF at = {} THEN 0 ELSE CHOOSE i \in at : \A j \in at : i <= j

\* Less the line feed and one carriage return before it.
Content(line) ==
    LET c == Front(line)
    IN  IF c # <<>> /\ Last(c) = CR THEN Front(c) ELSE c

\* The two halves of a field line; one space after the colon is dropped.
Field(line) ==
    LET colon == Position(Colon, line)
        value == SubSeq(line, colon + 1, Len(line))
    IN  IF colon = 0 THEN <<line, <<>>>>
        ELSE <<SubSeq(line, 1, colon - 1),
               IF value # <<>> /\ value[1] = Space THEN Tail(value) ELSE value>>

ParseField(d, content) ==
    LET f == Field(Lossy(content))
    IN  CASE f[1] = <<"data">> -> [d EXCEPT !.data = @ \o f[2] \o <<LF>>, !.hasData = TRUE]
          [] f[1] = <<"event">> -> [d EXCEPT !.event = f[2]]
          [] f[1] = <<"id">> -> [d EXCEPT !.id = f[2]]
          [] OTHER -> d

\* A slip: an event without data leaves its fields behind.
DispatchKeeps(d) ==
    IF d.hasData
    THEN [decoder |-> [NewDecoder EXCEPT !.buffer = d.buffer],
          events |-> <<[data |-> Front(d.data), event |-> d.event, id |-> d.id,
                        raw |-> Lossy(d.raw)]>>]
    ELSE [decoder |-> [d EXCEPT !.raw = <<>>], events |-> <<>>]

\* Everything is taken, whether or not there is an event to return.
Dispatch(d) ==
    [decoder |-> [NewDecoder EXCEPT !.buffer = d.buffer],
     events |-> IF d.hasData
                THEN <<[data |-> Front(d.data), event |-> d.event, id |-> d.id,
                        raw |-> Lossy(d.raw)]>>
                ELSE <<>>]

\* The loop of push: one line after the other, as long as there is a whole one.
RECURSIVE Lines(_, _)
Lines(d, out) ==
    LET newline == Position(LF, d.buffer)
        line == SubSeq(d.buffer, 1, newline)
        content == Content(line)
        read == [d EXCEPT !.buffer = SubSeq(@, newline + 1, Len(@)), !.raw = @ \o line]
    IN  IF newline = 0 THEN [decoder |-> d, events |-> out]
        ELSE IF content = <<>>
             THEN Lines(Dispatch(read).decoder, out \o Dispatch(read).events)
        ELSE IF content[1] = Colon THEN Lines(read, out)
        ELSE Lines(ParseField(read, content), out)

PendingLen(d) == Len(d.buffer) + Len(d.raw)

SseInit == decoder = NewDecoder /\ events = <<>> /\ received = <<>>

Push(chunk) ==
    LET r == Lines([decoder EXCEPT !.buffer = @ \o chunk], <<>>)
    IN  /\ Len(received) + Len(chunk) <= MaxBytes
        /\ decoder' = r.decoder
        /\ events' = events \o r.events
        /\ received' = received \o chunk

Chunks == UNION {[1..n -> Bytes] : n \in 1..MaxChunk}

SseNext == \E chunk \in Chunks : Push(chunk)

-----------------------------------------------------------------------------
(* A reference that looks at the response as a whole: a block ends with a  *)
(* blank line, and only blocks with a data field are events.               *)

LineEnds == {i \in DOMAIN received : received[i] = LF}
LineOf(i) ==
    LET before == {j \in LineEnds : j < i}
        start == IF before = {} THEN 0 ELSE CHOOSE j \in before : \A k \in before : k <= j
    IN  SubSeq(received, start + 1, i)
BlockEnds == {i \in LineEnds : Content(LineOf(i)) = <<>>}

\* The lines of the block that ends at i, in order.
BlockLines(i) ==
    LET before == {j \in BlockEnds : j < i}
    IN  SelectSeq([n \in 1..i |-> n],
                  LAMBDA n : n \in LineEnds /\ \A j \in before : n > j)

Values(i, name) ==
    SelectSeq([k \in DOMAIN BlockLines(i) |-> Field(Lossy(Content(LineOf(BlockLines(i)[k]))))],
              LAMBDA f : f[1] = <<name>>)

EventOf(i) ==
    LET data == Values(i, "data")
        Final(vs) == IF vs = <<>> THEN Unset ELSE Last(vs)[2]
    IN  [data |-> FlattenSeq([k \in DOMAIN data |->
                      IF k = 1 THEN data[k][2] ELSE <<LF>> \o data[k][2]]),
         event |-> Final(Values(i, "event")), id |-> Final(Values(i, "id")),
         raw |-> Lossy(FlattenSeq([k \in DOMAIN BlockLines(i) |-> LineOf(BlockLines(i)[k])]))]

\* However the response is cut into chunks, between CR and LF included, the
\* decoder returns one event for each complete block with data and nothing of
\* any other block leaks into it; what it holds back is exactly the block that
\* is not complete, so the cap on pending bytes is a cap on one block.
ChunkingIrrelevant ==
    LET ends == SelectSeq([n \in 1..Len(received) |-> n],
                          LAMBDA n : n \in BlockEnds /\ Values(n, "data") # <<>>)
        last == IF BlockEnds = {} THEN 0 ELSE CHOOSE j \in BlockEnds : \A k \in BlockEnds : k <= j
    IN  /\ events = [k \in DOMAIN ends |-> EventOf(ends[k])]
        /\ PendingLen(decoder) = Len(received) - last
=============================================================================
