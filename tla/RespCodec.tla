------------------------------ MODULE RespCodec ------------------------------
(***************************************************************************)
(* The RESP codec: RespEncoder writes values one after the other, and      *)
(* RespDecoder takes the bytes in pieces (feed) and gives the values back  *)
(* (decode).  A call of decode is several steps here, one for each call it *)
(* makes of try_decode, so that arrays in arrays need no recursion; no     *)
(* feed comes between them (&mut self).                                    *)
(*                                                                         *)
(* A byte is a token: a marker, CR, LF, a byte of data, and the text of a  *)
(* number as one token.  The buffer is wire[head + 1 .. fed].              *)
(***************************************************************************)
EXTENDS Integers, Sequences, SequencesExt

CONSTANTS
  Tokens,       \* what wires are made of
  Values,       \* the values that are sent, and their elements
  Batches,      \* sequences of values that encode_batch is given
  Others,       \* wires the encoder does not write
  Depth,        \* how deep the arrays of a value nest
  Numeral,      \* the text of the numbers that occur in wires
  ItemStarts,   \* where the items of a wire begin: see StartsAssumption
  MaxBuffer     \* max_buffer_size

CR == "cr"
LF == "lf"

-----------------------------------------------------------------------------
(* RespEncoder.                                                            *)

Line(marker, text) == <<marker>> \o text \o <<CR, LF>>

BulkBytes(s) == Line("$", <<Numeral[Len(s)]>>) \o s \o <<CR, LF>>

EncodePlain(v) ==
  CASE v.type = "simple"  -> Line("+", v.s)
    [] v.type = "error"   -> Line("-", v.s)
    [] v.type = "integer" -> Line(":", <<Numeral[v.n]>>)
    [] v.type = "bulk"    -> BulkBytes(v.s)
    [] v.type = "null"    -> Line("$", <<Numeral[-1]>>)

Encode[v \in Values] ==
  IF v.type = "array"
  THEN Line("*", <<Numeral[Len(v.elems)]>>)
       \o FlattenSeq([i \in DOMAIN v.elems |-> Encode[v.elems[i]]])
  ELSE EncodePlain(v)

EncodeBatch(values) == FlattenSeq([i \in DOMAIN values |-> Encode[values[i]]])

Bulk(s) == [type |-> "bulk", s |-> s]
ArrayOf(elems) == [type |-> "array", elems |-> elems]
Null == [type |-> "null"]

\* encode_command, before it is written.  It takes the name as text, which as_command's
\* from_utf8_lossy leaves as it is.
Command(cmd, args) == ArrayOf(<<Bulk(cmd)>> \o [i \in DOMAIN args |-> Bulk(args[i])])

\* The bulk strings among the elements from the one at first on.
BulksFrom(elems, first) ==
  LET bulks[i \in first - 1 .. Len(elems)] ==
        IF i < first THEN <<>>
        ELSE IF elems[i].type = "bulk" THEN Append(bulks[i - 1], elems[i].s) ELSE bulks[i - 1]
  IN  bulks[Len(elems)]

\* Mutant of AsCommand: the name is among the arguments.
AsCommandAll(v) == [cmd |-> v.elems[1].s, args |-> BulksFrom(v.elems, 1), ok |-> TRUE]

\* RespValue::as_command: arguments that are no bulk strings are dropped.
NoCommand == [cmd |-> <<>>, args |-> <<>>, ok |-> FALSE]
AsCommand(v) ==
  IF v.type = "array" /\ v.elems # <<>> /\ v.elems[1].type = "bulk"
  THEN [cmd |-> v.elems[1].s, args |-> BulksFrom(v.elems, 2), ok |-> TRUE]
  ELSE NoCommand

-----------------------------------------------------------------------------
(* The grammar, on a whole wire.                                           *)

\* find_line_end(1) in a buffer that begins at i and ends at last.
IsLineEnd(w, i, last, e) ==
  /\ e \in i + 1 .. last - 1 /\ w[e] = CR /\ w[e + 1] = LF
  /\ \A j \in i + 1 .. e - 1 : ~ (w[j] = CR /\ w[j + 1] = LF)
HasLine(w, i, last) == \E e \in i + 1 .. last - 1 : IsLineEnd(w, i, last, e)

Text(w, i, e) == SubSeq(w, i + 1, e - 1)
IsNumber(text, n) == n \in DOMAIN Numeral /\ text = <<Numeral[n]>>

LineMarkers == {"+", "-", ":"}
Markers == LineMarkers \union {"$", "*"}

\* The item of w at i, its line ending at e, ends before next.
IsItem(w, i, e, next) ==
  /\ IsLineEnd(w, i, Len(w), e)
  /\ \/ w[i] \in {"+", "-"} /\ next = e + 2
     \/ w[i] = ":" /\ next = e + 2 /\ \E n \in DOMAIN Numeral : IsNumber(Text(w, i, e), n)
     \/ w[i] \in {"$", "*"} /\ next = e + 2 /\ IsNumber(Text(w, i, e), -1)
     \/ w[i] = "*" /\ next = e + 2 /\ \E n \in DOMAIN Numeral : n >= 0 /\ IsNumber(Text(w, i, e), n)
     \/ w[i] = "$" /\ \E n \in DOMAIN Numeral :
          n >= 0 /\ IsNumber(Text(w, i, e), n) /\ next = e + n + 4 /\ next <= Len(w) + 1

Ends(w) == 1 .. Len(w) + 1
WellFormedAt(w, i) == \E e \in 1 .. Len(w), next \in Ends(w) : IsItem(w, i, e, next)
WellFormed(w) == \A i \in ItemStarts[w] : i <= Len(w) => WellFormedAt(w, i)

Wires == {EncodeBatch(b) : b \in Batches} \union Others

ASSUME TokensAssumption == Markers \union {CR, LF} \subseteq Tokens

\* The variants of RespValue.  A value owns its elements: it is none of them.  The text of a
\* line is one line.
ASSUME ValuesAssumption ==
  /\ Values \subseteq [type : {"simple", "error", "bulk"}, s : Seq(Tokens)]
                     \union [type : {"integer"}, n : DOMAIN Numeral] \union {Null}
                     \union [type : {"array"}, elems : Seq(Values)]
  /\ Depth \in [Values -> Nat]
  /\ \A v \in Values :
       /\ v.type \in {"simple", "error"} =>
            \A j \in 1 .. Len(v.s) - 1 : ~ (v.s[j] = CR /\ v.s[j + 1] = LF)
       /\ v.type = "bulk" => Len(v.s) \in DOMAIN Numeral
       /\ v.type = "array" => /\ Len(v.elems) \in DOMAIN Numeral
                              /\ \A i \in DOMAIN v.elems : Depth[v.elems[i]] < Depth[v]
  /\ Batches \subseteq Seq(Values)
  /\ MaxBuffer \in Nat

ASSUME NumeralAssumption ==
  /\ DOMAIN Numeral \subseteq Int /\ -1 \in DOMAIN Numeral
  /\ \A m, n \in DOMAIN Numeral : Numeral[m] \in Tokens /\ (Numeral[m] = Numeral[n] => m = n)

\* An item begins where the wire does, and where another item ends, and nowhere else.
ASSUME StartsAssumption ==
  /\ DOMAIN ItemStarts = Wires
  /\ \A w \in Wires :
       /\ w \in Seq(Tokens)
       /\ 1 \in ItemStarts[w] /\ ItemStarts[w] \subseteq Ends(w)
       /\ \A i \in ItemStarts[w], e \in 1 .. Len(w), next \in Ends(w) :
            IsItem(w, i, e, next) => next \in ItemStarts[w]
       /\ \A next \in ItemStarts[w] : next = 1 \/
            \E i \in ItemStarts[w], e \in 1 .. Len(w) : i < next /\ IsItem(w, i, e, next)

VARIABLES
  sent,     \* the values whose encoding is the wire; none when it is one of Others
  wire,
  fed,      \* bytes of the wire that feed was given
  head,     \* bytes of the wire that are out of the buffer
  offset,
  pc,       \* "idle", or "decode" in a call of decode
  stack,    \* the arrays the call is in: count and the elements so far
  decoded,  \* what decode has returned
  answer,   \* of the last call: "some", "none" or "err"; "fed" after feed
  lost      \* decode has returned Ok(None) from the middle of an array

vars == <<sent, wire, fed, head, offset, pc, stack, decoded, answer, lost>>

-----------------------------------------------------------------------------
Init ==
  /\ \/ sent \in Batches /\ wire = EncodeBatch(sent)
     \/ sent = <<>> /\ wire \in Others
  /\ fed = 0 /\ head = 0 /\ offset = 0 /\ pc = "idle" /\ stack = <<>>
  /\ decoded = <<>> /\ answer = "fed" /\ lost = FALSE

\* A piece that does not fit is refused, and the buffer left as it is.
Feed(n) ==
  /\ pc = "idle" /\ fed + n <= Len(wire)
  /\ fed + n - head <= MaxBuffer
  /\ fed' = fed + n
  /\ answer' = "fed"
  /\ UNCHANGED <<sent, wire, head, offset, pc, stack, decoded, lost>>

\* decode: with an empty buffer it returns Ok(None) at once.
Decode ==
  /\ pc = "idle"
  /\ IF head = fed THEN answer' = "none" /\ UNCHANGED pc ELSE pc' = "decode" /\ UNCHANGED answer
  /\ UNCHANGED <<sent, wire, fed, head, offset, stack, decoded, lost>>

Top == stack[Len(stack)]
Full == stack # <<>> /\ Len(Top.elems) = Top.count

\* try_decode is called: for the value decode wants or for the next element of an array.
AtItem == pc = "decode" /\ ~ Full
Marker == wire[head + 1]
At(marker, e) == AtItem /\ head < fed /\ Marker = marker /\ IsLineEnd(wire, head + 1, fed, e)

\* try_decode returns Ok(Some(v)) to what is below it in the stack.
Return(below, v) ==
  IF below = <<>>
  THEN /\ decoded' = Append(decoded, v) /\ answer' = "some"
       /\ stack' = <<>> /\ pc' = "idle"
  ELSE /\ stack' = [below EXCEPT ![Len(below)].elems = Append(@, v)]
       /\ UNCHANGED <<decoded, answer, pc>>

\* A line is out of the buffer; the marker is counted twice.
TakeLine(e) == head' = e + 1 /\ offset' = offset + (e + 1 - head) + 1

SimpleString(e) ==
  /\ At("+", e)
  /\ TakeLine(e)
  /\ Return(stack, [type |-> "simple", s |-> Text(wire, head + 1, e)])
  /\ UNCHANGED <<sent, wire, fed, lost>>

Error(e) ==
  /\ At("-", e)
  /\ TakeLine(e)
  /\ Return(stack, [type |-> "error", s |-> Text(wire, head + 1, e)])
  /\ UNCHANGED <<sent, wire, fed, lost>>

Integer(e, n) ==
  /\ At(":", e) /\ IsNumber(Text(wire, head + 1, e), n)
  /\ TakeLine(e)
  /\ Return(stack, [type |-> "integer", n |-> n])
  /\ UNCHANGED <<sent, wire, fed, lost>>

\* $-1 and *-1.
NullValue(e) ==
  /\ At("$", e) \/ At("*", e)
  /\ IsNumber(Text(wire, head + 1, e), -1)
  /\ TakeLine(e)
  /\ Return(stack, Null)
  /\ UNCHANGED <<sent, wire, fed, lost>>

\* Mutants of BulkWhole: without the line end after the data; a byte too many.
BulkWholeShort(e, n) == e + 1 + n <= fed
BulkWholeLate(e, n) == e + 1 + n + 2 < fed

\* The length line, the data and the line end after it are in the buffer.
BulkWhole(e, n) == e + 1 + n + 2 <= fed

\* Mutant of BulkString: the line end after the data stays in the buffer.
BulkStringLeavesLineEnd(e, n) ==
  /\ At("$", e) /\ IsNumber(Text(wire, head + 1, e), n) /\ n >= 0
  /\ BulkWhole(e, n)
  /\ head' = e + 1 + n /\ offset' = offset + (head' - head)
  /\ Return(stack, Bulk(SubSeq(wire, e + 2, e + 1 + n)))
  /\ UNCHANGED <<sent, wire, fed, lost>>

BulkString(e, n) ==
  /\ At("$", e) /\ IsNumber(Text(wire, head + 1, e), n) /\ n >= 0
  /\ BulkWhole(e, n)
  /\ head' = e + 1 + n + 2 /\ offset' = offset + (head' - head)
  /\ Return(stack, Bulk(SubSeq(wire, e + 2, e + 1 + n)))
  /\ UNCHANGED <<sent, wire, fed, lost>>

\* The count line leaves the buffer before the elements are there.  Left out: room for n
\* elements is taken at once, which no count of a well-formed stream is too large for.
ArrayHeader(e, n) ==
  /\ At("*", e) /\ IsNumber(Text(wire, head + 1, e), n) /\ n >= 0
  /\ TakeLine(e)
  /\ stack' = Append(stack, [count |-> n, elems |-> <<>>])
  /\ UNCHANGED <<sent, wire, fed, pc, decoded, answer, lost>>

\* Mutant of ArrayDone: the array goes to decode's caller, and those around it are forgotten.
ArrayDoneAtOnce ==
  /\ pc = "decode" /\ Full
  /\ Return(<<>>, ArrayOf(Top.elems))
  /\ UNCHANGED <<sent, wire, fed, head, offset, lost>>

ArrayDone ==
  /\ pc = "decode" /\ Full
  /\ Return(Front(stack), ArrayOf(Top.elems))
  /\ UNCHANGED <<sent, wire, fed, head, offset, lost>>

\* Something is missing: no byte, no line end, or not all of a bulk string.
Missing ==
  \/ head = fed
  \/ head < fed /\ Marker \in Markers /\ ~ HasLine(wire, head + 1, fed)
  \/ \E e \in 1 .. fed, n \in DOMAIN Numeral :
       /\ At("$", e) /\ IsNumber(Text(wire, head + 1, e), n) /\ n >= 0
       /\ ~ BulkWhole(e, n)

\* Mutant of Incomplete: the bytes are dropped with the call.
IncompleteDrops ==
  /\ AtItem /\ Missing
  /\ answer' = "none" /\ pc' = "idle"
  /\ lost' = (lost \/ stack # <<>>)
  /\ stack' = <<>> /\ head' = fed
  /\ UNCHANGED <<sent, wire, fed, offset, decoded>>

\* Mutant of Incomplete: the line that is there leaves the buffer, as that of an array does.
IncompleteTakesLine ==
  /\ AtItem /\ Missing
  /\ answer' = "none" /\ pc' = "idle"
  /\ lost' = (lost \/ stack # <<>>)
  /\ stack' = <<>>
  /\ head' = IF HasLine(wire, head + 1, fed)
             THEN 1 + CHOOSE e \in 1 .. fed : IsLineEnd(wire, head + 1, fed, e) ELSE head
  /\ UNCHANGED <<sent, wire, fed, offset, decoded>>

\* Ok(None); the headers and elements of the arrays around it are dropped.
Incomplete ==
  /\ AtItem /\ Missing
  /\ answer' = "none" /\ pc' = "idle"
  /\ lost' = (lost \/ stack # <<>>)
  /\ stack' = <<>>
  /\ UNCHANGED <<sent, wire, fed, head, offset, decoded>>

\* Mutant of Malformed: no length is below 0.
MalformedNull ==
  /\ head < fed
  /\ \/ Marker \notin Markers
     \/ \E e \in 1 .. fed, m \in {":", "$", "*"} :
          /\ At(m, e)
          /\ \A n \in DOMAIN Numeral :
               IsNumber(Text(wire, head + 1, e), n) => m # ":" /\ n < 0

\* No marker, no number, or a number below -1.
Malformed ==
  /\ head < fed
  /\ \/ Marker \notin Markers
     \/ \E e \in 1 .. fed, m \in {":", "$", "*"} :
          /\ At(m, e)
          /\ \A n \in DOMAIN Numeral :
               IsNumber(Text(wire, head + 1, e), n) => m # ":" /\ n < -1

\* decode returns Err, after it has cleared the buffer.
Fails ==
  /\ AtItem /\ Malformed
  /\ head' = fed
  /\ answer' = "err" /\ pc' = "idle" /\ stack' = <<>>
  /\ UNCHANGED <<sent, wire, fed, offset, decoded, lost>>

\* reset(): the buffer and the offset are cleared, and another stream begins.
Reset ==
  /\ pc = "idle"
  /\ \/ sent' \in Batches /\ wire' = EncodeBatch(sent')
     \/ sent' = <<>> /\ wire' \in Others
  /\ fed' = 0 /\ head' = 0 /\ offset' = 0 /\ stack' = <<>>
  /\ decoded' = <<>> /\ answer' = "fed" /\ lost' = FALSE
  /\ UNCHANGED pc

Lengths == 1 .. Len(wire)
DecodeItem ==
  \/ \E e \in Lengths : SimpleString(e) \/ Error(e) \/ NullValue(e)
  \/ \E e \in Lengths, n \in DOMAIN Numeral : Integer(e, n) \/ BulkString(e, n) \/ ArrayHeader(e, n)
  \/ ArrayDone \/ Incomplete \/ Fails

Next == (\E n \in Lengths : Feed(n)) \/ Decode \/ DecodeItem \/ Reset

Spec == Init /\ [][Next]_vars

-----------------------------------------------------------------------------
TypeOK ==
  /\ wire \in Wires /\ head \in 0 .. fed /\ fed \in 0 .. Len(wire)
  /\ fed - head <= MaxBuffer
  /\ offset \in Nat /\ pc \in {"idle", "decode"}
  /\ (pc = "idle" => stack = <<>>)
  /\ answer \in {"some", "none", "err", "fed"} /\ lost \in BOOLEAN

\* However a well-formed stream is cut into pieces, and whatever a call leaves behind, the
\* decoder does not lose its place: the buffer begins with an item (advance, in decode_*).
InPlace == WellFormed(wire) => head + 1 \in ItemStarts[wire]

\* decode returns Err only for a stream that is malformed, never for one that is cut in an
\* unlucky place; and never for what the encoder wrote (decode, try_decode, encode_value).
ErrorMeansMalformed == answer = "err" => sent = <<>> /\ ~ WellFormed(wire)

\* When all has been fed and decode has nothing more to give, nothing is left in the buffer.
Drained == answer = "none" /\ fed = Len(wire) /\ WellFormed(wire) => head = fed

IsCommand(v) == v.type = "array" /\ v.elems # <<>> /\ \A i \in DOMAIN v.elems : v.elems[i].type = "bulk"

\* As long as decode was not called on a part of an array, it has returned the first of
\* the values sent, in order, all of them once the buffer was drained, and as_command finds
\* in them the commands encode_command made, with all their arguments (streaming,
\* decoder.rs:14; encode_value and try_decode are inverse to each other).
RoundTrip ==
  sent # <<>> /\ ~ lost =>
    /\ IsPrefix(decoded, sent)
    /\ answer = "none" /\ fed = Len(wire) => decoded = sent
    /\ \A i \in DOMAIN decoded : IsCommand(sent[i]) =>
         LET c == AsCommand(decoded[i]) IN c.ok /\ sent[i] = Command(c.cmd, c.args)

\* The elements of v, theirs, and so on.
Parts[v \in Values] ==
  {v} \union (IF v.type = "array" THEN UNION {Parts[v.elems[i]] : i \in DOMAIN v.elems} ELSE {})

\* Whatever was lost, decode returns only values that were sent, or their elements.
NothingInvented ==
  sent # <<>> =>
    \A i \in DOMAIN decoded : \E j \in DOMAIN sent : decoded[i] \in Parts[sent[j]]

\* What follows is written somewhere and does not hold.

\* decoder.rs:14 and 66: decoding is incremental and can handle incomplete data, which
\* leaves the buffer as it was.
Incremental == sent # <<>> => IsPrefix(decoded, sent)

\* decoder.rs:18: the offset is where the decoder is in the stream.
OffsetIsPlace == answer # "err" => offset = head
=============================================================================
