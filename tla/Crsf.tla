---------------------------------- MODULE Crsf ----------------------------------
(***************************************************************************)
(* The frames of CRSF on the UART of the flight controller: address,       *)
(* length, type, payload, checksum.  How CRSF.parse_frames finds them in   *)
(* what was read so far, and which of them decode_telemetry understands.   *)
(* Bytes are numbers; the checksum is any function of the bytes it covers. *)
(***************************************************************************)
EXTENDS Naturals, Sequences

CONSTANTS
    Addresses, \* VALID_ADDRESSES
    AddrFc,    \* ADDR_FC
    MaxLen,    \* MAX_FRAME_LEN: the largest value of the length byte
    Crc(_)     \* CRSF.crc8

MIN_FRAME_LEN     == 2
FRAME_GPS         == 2
FRAME_BATTERY     == 8
FRAME_LINK_STATS  == 20
FRAME_ATTITUDE    == 30
FRAME_DEVICE_INFO == 41

\* A frame as parse_frames yields it: its type and its payload.
Frames == [type : Nat, payload : Seq(Nat)]

\* CRSF._frame: the bytes of a frame for the flight controller's address.
Bytes(f) ==
    LET body == <<f.type>> \o f.payload
    IN  <<AddrFc, Len(body) + 1>> \o body \o <<Crc(body)>>

\* Mutant: no upper bound on the length byte.
MutantAnyLength(buf) ==
    /\ buf[1] \in Addresses
    /\ buf[2] >= MIN_FRAME_LEN

\* Could the buffer begin with a frame?
Candidate(buf) ==
    /\ buf[1] \in Addresses
    /\ buf[2] \in MIN_FRAME_LEN..MaxLen

Total(buf) == buf[2] + 2

\* The checksum of the frame at the start of the buffer is right.
Intact(buf) == Crc(SubSeq(buf, 3, Total(buf) - 1)) = buf[Total(buf)]

FirstFrame(buf) == [type |-> buf[3], payload |-> SubSeq(buf, 4, Total(buf) - 1)]

Rest(buf) == SubSeq(buf, Total(buf) + 1, Len(buf))

Complete(buf) == Len(buf) >= Total(buf)

\* Mutant: the beginning of a frame is thrown away.
MutantNoPartial(buf) == [frames |-> <<>>, buf |-> <<>>]

\* The buffer holds no frame yet: it is kept for the next chunk.
Wait(buf) == [frames |-> <<>>, buf |-> buf]

\* CRSF.parse_frames: the frames of the buffer and what it keeps.  A byte that
\* starts no frame is skipped; a frame with a wrong checksum is skipped whole.
parse_frames[buf \in Seq(Nat)] ==
    IF Len(buf) < 4 THEN Wait(buf)
    ELSE IF ~Candidate(buf) THEN parse_frames[Tail(buf)]
    ELSE IF ~Complete(buf) THEN Wait(buf)
    ELSE LET later == parse_frames[Rest(buf)]
         IN  IF Intact(buf)
             THEN [later EXCEPT !.frames = <<FirstFrame(buf)>> \o @]
             ELSE later

\* The name of a device, from the third byte to the first zero, is ASCII.
Ascii(p) ==
    \A i \in 3..Len(p) : p[i] < 128 \/ \E j \in 3..(i - 1) : p[j] = 0

\* decode_telemetry: the kind of message a frame carries, "none" when it is of
\* another type, too short for its fields (which are one byte here) or not ASCII.
Decoded(f) ==
    CASE f.type = FRAME_DEVICE_INFO /\ Ascii(f.payload) -> "device_info"
      [] f.type = FRAME_BATTERY  /\ Len(f.payload) >= 1  -> "battery"
      [] f.type = FRAME_GPS      /\ Len(f.payload) >= 1  -> "gps"
      [] f.type = FRAME_ATTITUDE /\ Len(f.payload) >= 1  -> "attitude"
      [] OTHER                                           -> "none"
==============================================================================
