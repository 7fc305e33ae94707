------------------------------- MODULE Framing -------------------------------
(***************************************************************************)
(* How messages become bytes and bytes messages again: serialize() of a    *)
(* message, the encoder, a stream that delivers the bytes in pieces of any *)
(* size, and perform_decode() of the decoder, for the two formats of the   *)
(* facade.  A plan names the format and the messages; bytes are numbers.   *)
(* When a pass decodes is the subject of Requests.                         *)
(***************************************************************************)
EXTENDS Naturals, SequencesExt

CONSTANTS
    Plans,              \* records [format, messages, atOnce]
    Names,              \* the names the receiver's message factory knows
    IdSize              \* sizeof(messageid_type)

VARIABLES
    plan,               \* the plan followed, which does not change
    tried,              \* how many messages were given to send()
    sent,               \* history: those that send() took
    wire,               \* bytes that are on their way
    buffer,             \* _in_buffer
    taken,              \* history: how many frames were decoded
    got                 \* history: the messages that were decoded

vars == <<plan, tried, sent, wire, buffer, taken, got>>

Byte == 0..255
END == 255              \* bin_message_end()
ESC == 254              \* bin_escape_sym()
VERSION == 0            \* bin_version()
MinLength == 3          \* bin_header_min_len()
CR == 13
LF == 10

(* An identifier of 0 is an identifier that does not exist.                *)
Message == [name : Seq(Byte), id : Nat, rid : Nat, tail : Seq(Byte)]

Messages == UNION {Range(p.messages) : p \in Plans}

Exists(id) == IF id = 0 THEN 0 ELSE 1

HeaderLength(m) == MinLength + Len(m.name) + IdSize * (Exists(m.id) + Exists(m.rid))

----------------------------------------------------------------------------
(* Messages as text.                                                       *)

(* A value without its lowest bytes: value >> 8 * i.                       *)
Shifted(value) ==
    LET rest[i \in 0..IdSize] == IF i = 0 THEN value ELSE rest[i - 1] \div 256
    IN  rest

(* int_to_vec(): the least significant byte goes first.                    *)
IntToBytes(value) == [i \in 1..IdSize |-> Shifted(value)[i - 1] % 256]

(* int_from_vec(), from the most significant byte on.                      *)
IntFromBytes(bytes) ==
    LET value[i \in 0..Len(bytes)] ==
            IF i = 0 THEN 0 ELSE 256 * value[i - 1] + bytes[Len(bytes) + 1 - i]
    IN  value[Len(bytes)]

(* bin_message::serialize() and what a message of an application appends.  *)
BinText(m) ==
    <<VERSION, HeaderLength(m), Exists(m.id) + 2 * Exists(m.rid)>>
        \o m.name
        \o (IF m.id # 0 THEN IntToBytes(m.id) ELSE <<>>)
        \o (IF m.rid # 0 THEN IntToBytes(m.rid) ELSE <<>>)
        \o m.tail

(* The flags of a text and how long the parts of its header are.           *)
HasId(text) == text[3] % 2 = 1
HasRid(text) == (text[3] \div 2) % 2 = 1
IdLength(text) == IF HasId(text) THEN IdSize ELSE 0
RidLength(text) == IF HasRid(text) THEN IdSize ELSE 0
NameLength(text) == text[2] - MinLength - IdLength(text) - RidLength(text)

(* get_message_name() and unserialize() do not throw.  The length is read  *)
(* as a char, which is signed: from 128 on it becomes a huge size_t.       *)
BinReadable(text) ==
    /\ Len(text) >= MinLength
    /\ text[1] = VERSION
    /\ text[2] < 128 /\ text[2] <= Len(text)

(* Mutant: the identifiers are taken in the wrong order.                   *)
RidFirst(text) ==
    LET ridAt == MinLength + NameLength(text) + 1
        idAt == ridAt + RidLength(text)
    IN  [name |-> SubSeq(text, MinLength + 1, ridAt - 1),
         id |-> IntFromBytes(SubSeq(text, idAt, idAt + IdLength(text) - 1)),
         rid |-> IntFromBytes(SubSeq(text, ridAt, idAt - 1)),
         tail |-> SubSeq(text, text[2] + 1, Len(text))]

BinMessage(text) ==
    LET idAt == MinLength + NameLength(text) + 1
        ridAt == idAt + IdLength(text)
    IN  [name |-> SubSeq(text, MinLength + 1, idAt - 1),
         id |-> IntFromBytes(SubSeq(text, idAt, ridAt - 1)),
         rid |-> IntFromBytes(SubSeq(text, ridAt, ridAt + RidLength(text) - 1)),
         tail |-> SubSeq(text, text[2] + 1, Len(text))]

(* xml_message leaves its text to libsmart: of interest is that the name   *)
(* is in a tag in front, and that the content's bytes are not escaped.     *)
TagEnd == 62
XmlText(m) == m.name \o <<TagEnd, m.id, m.rid>> \o m.tail \o <<TagEnd>>
XmlMessage(text) ==
    LET at == SelectInSeq(text, LAMBDA byte : byte = TagEnd)
    IN  [name |-> SubSeq(text, 1, at - 1), id |-> text[at + 1], rid |-> text[at + 2],
         tail |-> SubSeq(text, at + 3, Len(text) - 1)]

----------------------------------------------------------------------------
(* Texts as frames.                                                        *)

Marker(format) == IF format = "bin" THEN <<END>> ELSE <<CR, LF, CR, LF>>

(* bin_process_one(): exclusive or with 0x40.                              *)
ProcessOne(byte) == IF (byte \div 64) % 2 = 1 THEN byte - 64 ELSE byte + 64

(* How many of a set of numbers are not above one.                         *)
UpTo(S, n) == Cardinality({j \in S : j <= n})

(* binary_encode() inserts an escape symbol in front of each byte that     *)
(* needs one, which moves what follows.                                    *)
Escape(text) ==
    LET special == {i \in DOMAIN text : text[i] \in {ESC, END}}
        inserted == {i + UpTo(special, i) - 1 : i \in special}
    IN  [k \in 1..(Len(text) + Cardinality(special)) |->
            LET byte == text[k - UpTo(inserted, k)] IN
            IF k \in inserted THEN ESC
            ELSE IF byte \in {ESC, END} THEN ProcessOne(byte) ELSE byte]

(* binary_decode(): an escape symbol goes, and the byte after it, be it    *)
(* what it may, is processed.                                              *)
IsEscape(frame) ==
    LET escape[i \in 0..Len(frame)] == i > 0 /\ frame[i] = ESC /\ ~escape[i - 1]
    IN  escape

Unescape(frame) ==
    LET escapes == {i \in DOMAIN frame : IsEscape(frame)[i]}
    IN  [k \in 1..(Len(frame) - Cardinality(escapes)) |->
            LET i == CHOOSE i \in k..(k + Cardinality(escapes)) :
                        i \notin escapes /\ i - UpTo(escapes, i) = k
            IN  IF i - 1 \in escapes THEN ProcessOne(frame[i]) ELSE frame[i]]

(* It throws when nothing follows an escape symbol.                        *)
Unescapable(frame) == ~IsEscape(frame)[Len(frame)]

(* perform_encode(): serialize() and encode_raw_message()                  *)
Encoded(format, m) ==
    (IF format = "bin" THEN Escape(BinText(m)) ELSE XmlText(m)) \o Marker(format)

(* Where the first marker in a buffer begins, 0 when there is none.        *)
MarkerAt(format, bytes) ==
    SelectInSeq([i \in 1..(Len(bytes) + 1 - Len(Marker(format))) |->
                    SubSeq(bytes, i, i + Len(Marker(format)) - 1)],
                LAMBDA piece : piece = Marker(format))

(* Mutant: one byte of the marker stays.                                   *)
ShortFrame(format, bytes) ==
    {SubSeq(bytes, 1, at + Len(Marker(format)) - 2) : at \in {MarkerAt(format, bytes)} \ {0}}

(* find_raw_message(): the frame in front, as a set that is empty when     *)
(* there is none.                                                          *)
Frame(format, bytes) ==
    {SubSeq(bytes, 1, at + Len(Marker(format)) - 1) : at \in {MarkerAt(format, bytes)} \ {0}}

(* decode_raw_message(): the text of a frame, unless it throws.            *)
Text(format, frame) ==
    LET body == SubSeq(frame, 1, Len(frame) - Len(Marker(format)))
    IN  IF format = "xml" THEN {body}
        ELSE IF Unescapable(body) THEN {Unescape(body)} ELSE {}

(* The message of a frame, unless perform_decode() throws: the decoder,    *)
(* the factory, for a name that it does not know, or unserialize().        *)
Decoded(format, frame) ==
    {m \in IF format = "xml" THEN {XmlMessage(text) : text \in Text(format, frame)}
           ELSE {BinMessage(text) : text \in {t \in Text(format, frame) : BinReadable(t)}} :
        m.name \in Names}

(* An identifier fits in its bytes.  Nothing keeps an xml text from        *)
(* containing the marker, so the messages must not; and libsmart writes no *)
(* name that holds the end of a tag.                                       *)
ASSUME FramingAssumption ==
    /\ IdSize \in Nat \ {0}
    /\ \A p \in Plans :
          /\ p.format \in {"bin", "xml"} /\ p.atOnce \in BOOLEAN
          /\ p.messages \in Seq(Message)
          /\ \A m \in Range(p.messages) :
                Shifted(m.id)[IdSize] = 0 /\ Shifted(m.rid)[IdSize] = 0
          /\ p.format = "xml" =>
                \A m \in Range(p.messages) :
                    /\ TagEnd \notin Range(m.name)
                    /\ MarkerAt("xml", Encoded("xml", m)) = Len(XmlText(m)) + 1

----------------------------------------------------------------------------
(* In an xml text, an identifier is one symbol.                            *)
Symbol == IF plan.format = "bin" THEN Byte ELSE Nat

TypeOK ==
    /\ plan \in Plans
    /\ tried \in 0..Len(plan.messages)
    /\ sent \in Seq(Message) /\ Len(sent) <= tried
    /\ wire \in Seq(Symbol) /\ buffer \in Seq(Symbol)
    /\ taken \in 0..Len(sent)
    /\ got \in Seq(Message) /\ Len(got) <= taken

Init ==
    /\ plan \in Plans
    /\ tried = 0 /\ taken = 0
    /\ sent = <<>> /\ got = <<>>
    /\ wire = <<>> /\ buffer = <<>>

(* Mutant: the length of the header is not checked.                        *)
SendUnchecked ==
    /\ tried < Len(plan.messages)
    /\ tried' = tried + 1
    /\ sent' = Append(sent, plan.messages[tried'])
    /\ wire' = wire \o Encoded(plan.format, plan.messages[tried'])
    /\ UNCHANGED <<plan, buffer, taken, got>>

(* send(): a binary message whose header is too long is an exception.      *)
SendMessage ==
    /\ tried < Len(plan.messages)
    /\ tried' = tried + 1
    /\ LET m == plan.messages[tried'] IN
          IF plan.format = "bin" /\ HeaderLength(m) > 255
          THEN UNCHANGED <<sent, wire>>
          ELSE /\ sent' = Append(sent, m)
               /\ wire' = wire \o Encoded(plan.format, m)
    /\ UNCHANGED <<plan, buffer, taken, got>>

(* mt_asio_read_handler() appends what has come.                           *)
Read ==
    /\ wire # <<>>
    /\ \E n \in 1..Len(wire) :
          /\ plan.atOnce => n = Len(wire)
          /\ buffer' = buffer \o SubSeq(wire, 1, n)
          /\ wire' = SubSeq(wire, n + 1, Len(wire))
    /\ UNCHANGED <<plan, tried, sent, taken, got>>

(* perform_decode(), which erases the frame before it looks into it.       *)
PerformDecode ==
    /\ \E frame \in Frame(plan.format, buffer) :
          /\ buffer' = SubSeq(buffer, Len(frame) + 1, Len(buffer))
          /\ got' = got \o SetToSeq(Decoded(plan.format, frame))
    /\ taken' = taken + 1
    /\ UNCHANGED <<plan, tried, sent, wire>>

Next == SendMessage \/ Read \/ PerformDecode

(* Fairness: a read is always outstanding, and passes go on.               *)
Spec == Init /\ [][Next]_vars /\ WF_vars(Read) /\ WF_vars(PerformDecode)

----------------------------------------------------------------------------
(* What was not decoded yet is the frames of messages, whole: wherever the *)
(* stream was cut and whatever could not be read, the next frame begins    *)
(* where the last one ended.                                               *)
Synchronised ==
    LET unread[i \in taken..Len(sent)] ==
            IF i = Len(sent) THEN <<>>
            ELSE Encoded(plan.format, sent[i + 1]) \o unread[i + 1]
    IN  buffer \o wire = unread[taken]

(* The messages that the decoder reads: their name is known, and their     *)
(* header is at most 127 bytes long, though serialize() allows 255.        *)
Readable == {m \in Messages : m.name \in Names /\ HeaderLength(m) < 128}

(* The formats keep the promise of MessageChannel.                         *)
Channel == INSTANCE MessageChannel WITH Message <- Messages
ImplementsChannel == Channel!Spec
=============================================================================
