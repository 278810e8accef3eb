---------------------------- MODULE CaptureReader ----------------------------
(***************************************************************************)
(* parse_pcap (ingestion/pcap.rs): the records of a capture file.          *)
(*                                                                         *)
(* One step is one turn of the loop of the code.  A capture is the bytes   *)
(* of the file together with what they were written from, which only the   *)
(* properties look at.                                                     *)
(***************************************************************************)
EXTENDS Bytes

CONSTANT Captures  \* records: bytes, the file; truth, what it was made from

ASSUME CaptureAssumption == \A c \in Captures : c.bytes \in Buffer

VARIABLES
    capture,     \* the capture that is read
    reading,     \* "open", "records", "read" or "refused"
    big_endian,  \* the byte order of the file
    nano,        \* fractions of a second are nanoseconds
    link_type,   \* LINKTYPE_*
    offset,      \* the place in the file
    raw          \* the packets so far

readerVars == <<capture, reading, big_endian, nano, link_type, offset, raw>>

file == capture.bytes

\* A u32 constant is written as its four bytes, the highest first.
MAGIC_MICRO_LE == <<161, 178, 195, 212>>
MAGIC_NANO_LE == <<161, 178, 60, 77>>
MAGIC_MICRO_BE == <<212, 195, 178, 161>>
MAGIC_NANO_BE == <<77, 60, 178, 161>>

BigEndian(buf, i) == <<buf[i + 1], buf[i + 2], buf[i + 3], buf[i + 4]>>
LittleEndian(buf, i) == <<buf[i + 4], buf[i + 3], buf[i + 2], buf[i + 1]>>

U32(word) == 256 * (256 * (256 * word[1] + word[2]) + word[3]) + word[4]

\* ru32
Ru32(i) == U32(IF big_endian THEN BigEndian(file, i) ELSE LittleEndian(file, i))

\* Whether the reader takes the file to be in this byte order.
TakenAsLittle == LittleEndian(file, 0) \in {MAGIC_MICRO_LE, MAGIC_NANO_LE}
TakenAsBig == BigEndian(file, 0) \in {MAGIC_MICRO_BE, MAGIC_NANO_BE}

ReaderInit ==
    /\ capture \in Captures
    /\ reading = "open"
    /\ big_endian = FALSE
    /\ nano = FALSE
    /\ link_type = 0
    /\ offset = 0
    /\ raw = <<>>

Refuse ==
    /\ reading = "open"
    /\ \/ Len(file) < 24
       \/ Len(file) >= 24 /\ ~TakenAsLittle /\ ~TakenAsBig
    /\ reading' = "refused"
    /\ UNCHANGED <<capture, big_endian, nano, link_type, offset, raw>>

\* The link type is read in the byte order that the magic number shows.
Open ==
    /\ reading = "open"
    /\ Len(file) >= 24
    /\ TakenAsLittle \/ TakenAsBig
    /\ big_endian' = ~TakenAsLittle
    /\ nano' = IF TakenAsLittle THEN LittleEndian(file, 0) = MAGIC_NANO_LE
                                ELSE BigEndian(file, 0) = MAGIC_NANO_BE
    /\ link_type' = U32(IF TakenAsLittle THEN LittleEndian(file, 20)
                                         ELSE BigEndian(file, 20))
    /\ offset' = 24
    /\ reading' = "records"
    /\ UNCHANGED <<capture, raw>>

InclLen == Ru32(offset + 8)

\* Half the distance between the f64 values of times from 2004 to 2038, in
\* nanoseconds: a fraction that is as close to the next second becomes it.
HALF_SPACING == 119

\* The time of a packet, summed up as an f64 and rounded down to seconds, as
\* ingest_pcap_bytes does it.
Seconds ==
    LET sec  == Ru32(offset)
        frac == Ru32(offset + 4)
    IN  IF nano THEN sec + (frac + HALF_SPACING) \div (1000 * 1000 * 1000)
                ELSE sec + frac \div (1000 * 1000)

\* Mutant: a record that ends where the file ends is taken for a cut one.
RecordIsWholeStrictly ==
    offset + 16 <= Len(file) /\ offset + 16 + InclLen < Len(file)

\* The file holds the whole next record.
RecordIsWhole ==
    offset + 16 <= Len(file) /\ offset + 16 + InclLen <= Len(file)

ReadRecord ==
    /\ reading = "records"
    /\ RecordIsWhole
    /\ raw' = Append(raw, [ts   |-> Seconds,
                           data |-> Slice(file, offset + 16,
                                                offset + 16 + InclLen)])
    /\ offset' = offset + 16 + InclLen
    /\ UNCHANGED <<capture, reading, big_endian, nano, link_type>>

\* The file ends, at the end of a record or in the middle of one.
Stop ==
    /\ reading = "records"
    /\ ~RecordIsWhole
    /\ reading' = "read"
    /\ UNCHANGED <<capture, big_endian, nano, link_type, offset, raw>>

ReaderNext == Refuse \/ Open \/ ReadRecord \/ Stop

=============================================================================
