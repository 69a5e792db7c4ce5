--------------------------- MODULE BinaryProtocol ---------------------------
(***************************************************************************)
(* The two binary formats of trades and quotes.  A message is encoded,     *)
(* damaged on its way or not, and decoded by a reader of either format.    *)
(* Bytes are numbers; a double is eight bytes that begin with its value;   *)
(* integers have Bits bits instead of 64, and bytes of text above 127 are  *)
(* not text.                                                               *)
(***************************************************************************)
EXTENDS Integers, Sequences, SequencesExt, FiniteSetsExt

CONSTANTS
  Texts,         \* symbols and trade ids, sequences of bytes
  Doubles,       \* prices and sizes
  Timestamps,    \* timestamp_ns
  Bits,          \* width of a signed integer, a multiple of 8
  BadBytes,      \* what a damaged byte may become
  None

VARIABLES
  format,    \* what the message was written in
  message, payload,
  damage,    \* what happened to the payload, or "none"
  answer     \* what the reader made of it

vars == <<format, message, payload, damage, answer>>

Formats == {"PROTOBUF", "FLATBUFFERS"}
Refused == [kind |-> "refused"]

Width == Bits \div 8

-----------------------------------------------------------------------------
\* Integers and doubles.
Little(n, width) == [k \in 1..width |-> (n \div 256 ^ (k - 1)) % 256]
Double(v) == <<v>> \o [k \in 1..7 |-> 0]

RECURSIVE _encode_varint(_)
_encode_varint(n) ==
  IF n < 0 THEN _encode_varint(n + 2 ^ Bits)
  ELSE IF n < 128 THEN <<n>> ELSE <<128 + (n % 128)>> \o _encode_varint(n \div 128)

\* Groups of seven bits from at on: the value and the place after it, or None.
RECURSIVE Groups(_, _, _, _)
Groups(data, at, groups, sum) ==
  IF at > Len(data) THEN None
  ELSE LET total == sum + (data[at] % 128) * 128 ^ groups
       IN IF data[at] < 128 THEN <<total, at + 1>>
          ELSE IF groups * 7 > Bits THEN None ELSE Groups(data, at + 1, groups + 1, total)

_decode_varint(data, at) == Groups(data, at, 0, 0)

Field(number, wire) == <<number * 8 + wire>>
Bytes(number, text) == Field(number, 2) \o _encode_varint(Len(text)) \o text
Fixed(number, v) == Field(number, 1) \o Double(v)
Varint(number, n) == Field(number, 0) \o _encode_varint(n)

SideOf(side) == IF side = "BUY" THEN 1 ELSE 2

protobuf_trade(m) ==
  Bytes(1, m.symbol) \o Fixed(2, m.price) \o Fixed(3, m.size)
    \o Varint(4, m.timestamp) \o Bytes(5, m.trade_id) \o Varint(6, SideOf(m.side))

protobuf_quote(m) ==
  Bytes(1, m.symbol) \o Fixed(2, m.bid) \o Fixed(3, m.bid_size) \o Fixed(4, m.ask)
    \o Fixed(5, m.ask_size) \o Varint(6, m.timestamp)

\* Which field of a message a field number and wire type fill; all that is text
\* is the symbol of a quote.
TradeField(number, wire) ==
  CASE wire = 0 /\ number = 4 -> "timestamp"
    [] wire = 0 /\ number = 6 -> "side"
    [] wire = 1 /\ number = 2 -> "price"
    [] wire = 1 /\ number = 3 -> "size"
    [] wire = 2 /\ number = 1 -> "symbol"
    [] wire = 2 /\ number = 5 -> "trade_id"
    [] OTHER -> None

QuoteField(number, wire) ==
  CASE wire = 0 /\ number = 6 -> "timestamp"
    [] wire = 1 /\ number \in 2..5 -> <<"bid", "bid_size", "ask", "ask_size">>[number - 1]
    [] wire = 2 -> "symbol"
    [] OTHER -> None

IsText(bytes) == \A k \in DOMAIN bytes : bytes[k] < 128

FieldsOf(kind) ==
  IF kind = "trade" THEN {"symbol", "price", "size", "timestamp", "trade_id", "side"}
  ELSE {"symbol", "bid", "bid_size", "ask", "ask_size", "timestamp"}

Sides(n) == IF n = 1 THEN "BUY" ELSE "SELL"

\* The value of a field that starts at at: <<value, place after it>>, or None.
Value(kind, body, number, wire, at) ==
  LET length == _decode_varint(body, at)
  IN CASE wire = 0 -> length
       [] wire = 1 -> IF at + 7 > Len(body) THEN None ELSE <<body[at], at + 8>>
       [] wire = 2 ->
            IF length = None \/ length[2] + length[1] - 1 > Len(body) THEN None
            ELSE <<SubSeq(body, length[2], length[2] + length[1] - 1), length[2] + length[1]>>
       [] wire = 5 -> IF at + 3 > Len(body) THEN None ELSE <<0, at + 4>>
       [] OTHER -> None

\* A side is 1 or 2, or one of two texts.
BadValue(kind, number, wire, v) ==
  \/ wire = 2 /\ ~IsText(v)
  \/ kind = "trade" /\ number = 6 /\ (wire = 2 \/ (wire = 0 /\ v \notin {1, 2}))

RECURSIVE Parsed(_, _, _, _)
Parsed(kind, body, at, fields) ==
  LET tag == _decode_varint(body, at)
      number == tag[1] \div 8
      wire == tag[1] % 8
      value == Value(kind, body, number, wire, tag[2])
      name == IF kind = "trade" THEN TradeField(number, wire) ELSE QuoteField(number, wire)
      v == IF name = "side" THEN Sides(value[1]) ELSE value[1]
  IN IF at > Len(body)
     THEN IF DOMAIN fields = FieldsOf(kind) \cup {"kind"} THEN fields ELSE Refused
     ELSE IF tag = None THEN Refused
     ELSE IF value = None THEN Refused
     ELSE IF BadValue(kind, number, wire, value[1]) THEN Refused
     ELSE Parsed(kind, body, value[2],
                 IF name = None THEN fields
                 ELSE [f \in DOMAIN fields \cup {name} |-> IF f = name THEN v ELSE fields[f]])

-----------------------------------------------------------------------------
\* FlatBuffers: a table of six fields behind its vtable; texts follow the table.
Slots(kind) == IF kind = "trade" THEN <<4, 8, 16, 24, 32, 36>> ELSE <<4, 8, 16, 24, 32, 40>>
TableSize(kind) == IF kind = "trade" THEN 37 ELSE 48
Stored(text) == Little(Len(text), 4) \o text \o <<0>>
Timestamp(n) == Little(n, Width) \o [k \in 1..(8 - Width) |-> 0]

\* The offset of the table, its vtable, and the way from the table back to it.
Preamble(kind) ==
  Little(20, 4) \o Little(16, 2) \o Little(TableSize(kind), 2)
    \o FlattenSeq([k \in 1..6 |-> Little(Slots(kind)[k], 2)]) \o Little(16, 4)

flatbuffers_trade(m) ==
  LET size == TableSize("trade")
  IN Preamble("trade") \o Little(size - 4, 4) \o Double(m.price) \o Double(m.size)
       \o Timestamp(m.timestamp) \o Little(size + Len(Stored(m.symbol)) - 32, 4)
       \o <<SideOf(m.side)>> \o Stored(m.symbol) \o Stored(m.trade_id)

flatbuffers_quote(m) ==
  Preamble("quote") \o Little(TableSize("quote") - 4, 4) \o Double(m.bid) \o Double(m.bid_size)
    \o Double(m.ask) \o Double(m.ask_size) \o Timestamp(m.timestamp) \o Stored(m.symbol)

\* Offsets count from 0 as in the code.  An unsigned number read at an offset;
\* offsets beyond the payload are all alike.
At(body, at, width) ==
  MapThenSumSet(LAMBDA k : body[at + k] * 256 ^ (k - 1), 1..width)
Offset(body, at) ==
  IF body[at + 4] # 0 \/ body[at + 3] # 0 THEN 256 ^ 2 ELSE At(body, at, 2)
\* A difference is signed: its top byte tells.
Delta(body, at) ==
  IF body[at + 4] >= 128 THEN -(256 ^ 2) ELSE Offset(body, at)

Number(body, at) ==
  LET n == At(body, at, Width) IN IF n >= 2 ^ (Bits - 1) THEN n - 2 ^ Bits ELSE n

TableAt(body) ==
  LET root == Offset(body, 0)
      vtable == root - Delta(body, root)
      whole == /\ Len(body) >= 8 /\ root + 4 <= Len(body)
               /\ vtable >= 0 /\ vtable + 4 <= Len(body)
               /\ vtable + At(body, vtable, 2) <= Len(body)
               /\ root + At(body, vtable + 2, 2) <= Len(body)
  IN IF whole THEN [root |-> root, vtable |-> vtable, length |-> At(body, vtable, 2),
                    size |-> At(body, vtable + 2, 2)]
     ELSE None

\* _get_field: where a field is, or None.
_get_field(body, t, index, size) ==
  LET entry == t.vtable + 4 + 2 * index
      offset == At(body, entry, 2)
      place == t.root + offset
  IN IF entry + 2 > t.vtable + t.length THEN None
     ELSE IF offset = 0 \/ place + size > t.root + t.size \/ place + size > Len(body) THEN None
     ELSE place

_read_str(body, t, index) ==
  LET place == _get_field(body, t, index, 4)
      start == place + Offset(body, place)
      length == Offset(body, start)
  IN IF place = None THEN None
     ELSE IF start + 4 > Len(body) THEN None
     ELSE IF start + 4 + length > Len(body) THEN None
     ELSE LET text == SubSeq(body, start + 5, start + 4 + length)
          IN IF IsText(text) THEN text ELSE None

\* The eight bytes of a double, or of an integer.
Double8(body, t, index) ==
  LET place == _get_field(body, t, index, 8) IN IF place = None THEN None ELSE body[place + 1]
Number8(body, t, index) ==
  LET place == _get_field(body, t, index, 8) IN IF place = None THEN None ELSE Number(body, place)
Side1(body, t, index) ==
  LET place == _get_field(body, t, index, 1)
  IN IF place = None THEN None ELSE IF body[place + 1] \in {1, 2} THEN Sides(body[place + 1]) ELSE None

TradeTable(body, t) ==
  [kind |-> "trade", symbol |-> _read_str(body, t, 0), price |-> Double8(body, t, 1),
   size |-> Double8(body, t, 2), timestamp |-> Number8(body, t, 3),
   trade_id |-> _read_str(body, t, 4), side |-> Side1(body, t, 5)]

QuoteTable(body, t) ==
  [kind |-> "quote", symbol |-> _read_str(body, t, 0), bid |-> Double8(body, t, 1),
   bid_size |-> Double8(body, t, 2), ask |-> Double8(body, t, 3),
   ask_size |-> Double8(body, t, 4), timestamp |-> Number8(body, t, 5)]

Unpacked(kind, body) ==
  LET t == TableAt(body)
      fields == IF kind = "trade" THEN TradeTable(body, t) ELSE QuoteTable(body, t)
  IN IF t = None THEN Refused
     ELSE IF \E f \in DOMAIN fields : fields[f] = None THEN Refused ELSE fields

-----------------------------------------------------------------------------
Magic(f) == IF f = "PROTOBUF" THEN 1 ELSE 2
Kinds == <<"trade", "quote">>
Header(f, kind, length) == <<Magic(f), IF kind = "trade" THEN 1 ELSE 2, 0, 0>> \o Reverse(Little(length, 2))

MutFramed(f, kind, bytes) == Len(bytes) >= 6 /\ bytes[1] = Magic(f)

\* The header names the format and a kind of message, and the length is right.
Framed(f, kind, bytes) ==
  /\ Len(bytes) >= 6 /\ bytes[1] = Magic(f)
  /\ \E k \in 1..2 : bytes[2] = k /\ kind = Kinds[k]
  /\ SubSeq(bytes, 3, 6) = Reverse(Little(Len(bytes) - 6, 4))

deserialize(f, bytes) ==
  LET body == SubSeq(bytes, 7, Len(bytes))
      kind == IF bytes[2] = 1 THEN "trade" ELSE "quote"
  IN IF ~Framed(f, kind, bytes) THEN Refused
     ELSE IF f = "PROTOBUF" THEN Parsed(kind, body, 1, [kind |-> kind])
     ELSE Unpacked(kind, body)

Trades == [kind : {"trade"}, symbol : Texts, price : Doubles, size : Doubles,
           timestamp : Timestamps, trade_id : Texts, side : {"BUY", "SELL"}]
Quotes == [kind : {"quote"}, symbol : Texts, bid : Doubles, bid_size : Doubles,
           ask : Doubles, ask_size : Doubles, timestamp : Timestamps]

Init == format = None /\ message = None /\ payload = <<>> /\ damage = "none" /\ answer = None

serialize(f, m) ==
  /\ message = None /\ format' = f /\ message' = m
  /\ LET trade == m.kind = "trade"
         body == CASE f = "PROTOBUF" /\ trade -> protobuf_trade(m)
                   [] f = "PROTOBUF" /\ ~trade -> protobuf_quote(m)
                   [] f = "FLATBUFFERS" /\ trade -> flatbuffers_trade(m)
                   [] f = "FLATBUFFERS" /\ ~trade -> flatbuffers_quote(m)
     IN payload' = Header(f, m.kind, Len(body)) \o body
  /\ UNCHANGED <<damage, answer>>

\* Bytes are lost at the end, or one is added, or one is another.
Damage ==
  /\ message # None /\ damage = "none" /\ answer = None
  /\ \/ damage' = "length" /\ payload' \in {SubSeq(payload, 1, n) : n \in 0..(Len(payload) - 1)}
     \/ damage' = "length" /\ payload' = Append(payload, 0)
     \/ /\ damage' = "byte"
        /\ \E k \in DOMAIN payload, b \in BadBytes :
             b # payload[k] /\ payload' = [payload EXCEPT ![k] = b]
  /\ UNCHANGED <<format, message, answer>>

Read(f) ==
  /\ message # None /\ answer = None
  /\ answer' = [by |-> f, is |-> deserialize(f, payload)]
  /\ UNCHANGED <<format, message, payload, damage>>

Next ==
  \/ \E f \in Formats : Read(f) \/ \E m \in Trades \cup Quotes : serialize(f, m)
  \/ Damage

Spec == Init /\ [][Next]_vars

TypeOK ==
  /\ format \in Formats \cup {None} /\ damage \in {"none", "length", "byte"}
  /\ \A k \in DOMAIN payload : payload[k] \in 0..255

-----------------------------------------------------------------------------
\* An undamaged message comes back as it was sent, but for a time before 1970,
\* which the Protobuf reader takes for a time in the far future.  A message of
\* the wrong length or format is refused; one with a damaged byte is refused or
\* read as a complete message, and no reader looks beyond the payload.
MessagesSurvive ==
  answer # None =>
    LET was == message
        read == answer.is
    IN /\ damage = "none" /\ answer.by = format =>
            read = IF format = "PROTOBUF" /\ was.timestamp < 0
                   THEN [was EXCEPT !.timestamp = @ + 2 ^ Bits] ELSE was
       /\ damage = "length" \/ (damage = "none" /\ answer.by # format) => read = Refused
       /\ read # Refused =>
            /\ DOMAIN read = FieldsOf(read.kind) \cup {"kind"} /\ IsText(read.symbol)
            /\ read.kind = "trade" => read.side \in {"BUY", "SELL"} /\ IsText(read.trade_id)
=============================================================================
