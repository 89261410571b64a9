------------------------------- MODULE Framing ------------------------------
(***************************************************************************)
(* The frames of an established connection, as bytes: what one side writes *)
(* (encode_message, build_header, write_frame_counted) and the other reads *)
(* back (read_frame, parse_header), each with the configuration that it    *)
(* took from the handshake.  The transport hands bytes over in pieces of   *)
(* any size, ends after what was written, or is cut.  One direction is     *)
(* looked at, from either side.                                            *)
(***************************************************************************)
EXTENDS Connect

CONSTANTS
  Base,       \* values of a byte: 256 in the code
  Messages,   \* what the application sends: stream_id, flags, size of the payload
  MaxWritten  \* bound: frames written

\* The values of a u16, a u32 and a u64.
U16 == Base * Base
U32 == U16 * U16
U64 == U32 * U32

SUPPORTED_FRAME_FLAGS == {0, 1}

\* Integers have the widths of the code: max_frame and stream_id are u32.
ASSUME FramingAssumption ==
  /\ Base \in Nat /\ Base > 3
  /\ MaxFrames \subseteq 0 .. U32 - 1
  /\ Messages \subseteq [stream_id : 0 .. U32 - 1, flags : SUPPORTED_FRAME_FLAGS, size : Nat]
  /\ MaxWritten \in 0 .. U64 - 1

VARIABLES
  from,      \* the side that writes, "none" before the first frame
  written,   \* history: the frames written
  failed,    \* has the writer failed on a frame?
  bytes,     \* what the other side has yet to read
  buf,       \* what it has read of the frame it is reading
  got,       \* history: the frames it has read
  reading,   \* read_frame: at the "header" or "payload", or how the reader ended
  transport  \* "up", "shut" by the writer, or "cut"

reader == << buf, got, reading >>
link == << from, written, failed, bytes, reader, transport >>

FramingInit ==
  /\ ConnectInit
  /\ from = "none"
  /\ written = << >>
  /\ failed = FALSE
  /\ bytes = << >>
  /\ buf = << >>
  /\ got = << >>
  /\ reading = "header"
  /\ transport = "up"

-----------------------------------------------------------------------------
(* The frame header.                                                       *)

FrameHeaderLen(v) == IF v = 3 THEN 18 ELSE 10

\* to_be_bytes of a u16, u32 and u64, from halves.
U16Bytes(n) == << n \div Base, n % Base >>
U32Bytes(n) == U16Bytes(n \div U16) \o U16Bytes(n % U16)
U64Bytes(n) == U32Bytes(n \div U32) \o U32Bytes(n % U32)

\* from_be_bytes.
FromU16(be) == be[1] * Base + be[2]
FromU32(be) == FromU16(SubSeq(be, 1, 2)) * U16 + FromU16(SubSeq(be, 3, 4))
FromU64(be) == FromU32(SubSeq(be, 1, 4)) * U32 + FromU32(SubSeq(be, 5, 8))

CONTROL_STREAM_ID == U32 - 1

Frame(stream_id, seq, flags, size) ==
  [stream_id |-> stream_id, seq |-> seq, flags |-> flags, size |-> size]

\* build_header cut to header_len, unless it fails on the size; v2 has no number.
BuildHeader(c, f) ==
  SubSeq(<< c.version, f.flags >> \o U32Bytes(f.stream_id) \o U32Bytes(f.size)
           \o U64Bytes(IF c.version = 3 THEN f.seq ELSE 0),
         1, FrameHeaderLen(c.version))

\* parse_header fails on the version, the flags or the length.
HeaderOK(c, header) ==
  /\ header[1] = c.version
  /\ header[2] \in SUPPORTED_FRAME_FLAGS
  /\ Len(header) >= FrameHeaderLen(c.version)

ParseHeader(c, header) ==
  Frame(FromU32(SubSeq(header, 3, 6)),
        IF c.version = 3 THEN FromU64(SubSeq(header, 11, 18)) ELSE 0,
        header[2], FromU32(SubSeq(header, 7, 10)))

-----------------------------------------------------------------------------
(* Writing.                                                                *)

ConfigOf(side) == IF side = "client" THEN config ELSE served
Writer == ConfigOf(from)
Reader == ConfigOf(IF from = "client" THEN "server" ELSE "client")

\* encode_message.
Encodes(c, size) == size <= c.max_frame

\* A message, numbered in v3.
NextData(c) ==
  {Frame(m.stream_id, IF c.version = 3 THEN Len(written) + 1 ELSE 0, m.flags, m.size) :
     m \in {n \in Messages : Encodes(c, n.size)}}

\* ACK, and PING or CLOSE, which nobody encodes.
NextControl(c) ==
  IF c.version = 3 THEN {Frame(CONTROL_STREAM_ID, 0, 0, size) : size \in {9, 1}} ELSE {}

\* write_frame_counted.
WriteFrame(side, f) ==
  /\ pc = "connected" /\ transport = "up" /\ ~failed /\ from \in {"none", side}
  /\ Len(written) < MaxWritten
  /\ from' = side
  /\ IF f.size > ConfigOf(side).max_frame
     THEN failed' = TRUE /\ UNCHANGED << written, bytes >>
     ELSE /\ written' = Append(written, f)
          /\ bytes' = bytes \o BuildHeader(ConfigOf(side), f) \o [i \in 1 .. f.size |-> 1]
          /\ UNCHANGED failed
  /\ UNCHANGED << connectVars, reader, transport >>

\* The writer is done: shutdown, or its end of the transport is dropped after a flush.
Shut ==
  /\ from # "none" /\ transport = "up"
  /\ transport' = "shut"
  /\ UNCHANGED << connectVars, from, written, failed, bytes, reader >>

\* The transport fails with bytes on their way.
Cut ==
  /\ from # "none" /\ transport = "up"
  /\ transport' = "cut"
  /\ bytes' = << >>
  /\ UNCHANGED << connectVars, from, written, failed, reader >>

-----------------------------------------------------------------------------
(* read_frame.                                                             *)

\* Bytes the present read waits for.
Wanted ==
  LET header_len == FrameHeaderLen(Reader.version) IN
  IF reading = "header" THEN header_len - Len(buf)
  ELSE header_len + ParseHeader(Reader, buf).size - Len(buf)

\* The next frame: the buffers of this one are dropped.
GotFrame(f) ==
  /\ got' = Append(got, f)
  /\ buf' = << >>
  /\ reading' = "header"

\* The header is complete: it is parsed, and its length compared with max_frame.
ParsesHeader(header) ==
  LET f == ParseHeader(Reader, header) IN
  IF ~HeaderOK(Reader, header) \/ f.size > Reader.max_frame
  THEN reading' = "error" /\ buf' = << >> /\ UNCHANGED got
  ELSE IF f.size = 0 THEN GotFrame(f)
  ELSE reading' = "payload" /\ buf' = header /\ UNCHANGED got

\* A read returns n bytes.
ReadBytes(n) ==
  LET now == buf \o SubSeq(bytes, 1, n) IN
  /\ reading \in {"header", "payload"} /\ n <= Len(bytes) /\ n <= Wanted
  /\ bytes' = SubSeq(bytes, n + 1, Len(bytes))
  /\ IF n < Wanted THEN buf' = now /\ UNCHANGED << got, reading >>
     ELSE IF reading = "header" THEN ParsesHeader(now)
     ELSE GotFrame(ParseHeader(Reader, now))
  /\ UNCHANGED << connectVars, from, written, failed, transport >>

\* Mutant: the end inside a header counts as an end at a frame boundary.
AtBoundaryInHeader == reading = "header"

AtBoundary == reading = "header" /\ buf = << >>

\* A read returns 0: None at a frame boundary, UnexpectedEof elsewhere.
ReadEnd ==
  /\ reading \in {"header", "payload"} /\ bytes = << >> /\ transport # "up"
  /\ reading' = IF AtBoundary THEN "none" ELSE "error"
  /\ UNCHANGED << connectVars, from, written, failed, bytes, buf, got, transport >>

FramingNext ==
  \/ ConnectNext /\ UNCHANGED link
  \/ \E side \in {"client", "server"} :
       \E f \in NextData(ConfigOf(side)) \cup NextControl(ConfigOf(side)) : WriteFrame(side, f)
  \/ Shut \/ Cut \/ ReadEnd
  \/ \E n \in 1 .. 18 : ReadBytes(n)

FramingSpec == FramingInit /\ [][FramingNext]_<< connectVars, link >>

-----------------------------------------------------------------------------
(* Properties.                                                             *)

\* The two sides' negotiated configurations fit: whatever the sizes of the pieces
\* that arrive, the frames read are the frames written, field by field; the
\* reader fails only where a transport was cut, and takes for a clean close
\* nothing but the end of a transport at a frame boundary ("None if the peer
\* closed the transport at a frame boundary", read_frame).
FramesArrive ==
  /\ Len(got) <= Len(written) /\ got = SubSeq(written, 1, Len(got))
  /\ reading = "error" => transport = "cut"
  /\ reading = "none" => buf = << >>
  /\ reading = "none" /\ transport = "shut" => got = written

\* "rejecting a payload above the negotiated max frame so that the writer never
\* fails on it" (encode_message), of every frame the writer is given.
WriterNeverFails == ~failed
=============================================================================
