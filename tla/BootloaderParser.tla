-------------------------- MODULE BootloaderParser --------------------------
(***************************************************************************)
(* The byte parser of the Ping360 bootloader protocol                      *)
(* (src/src/flash/ping360bootloaderpacket.{h,cpp}).  A frame is            *)
(*                                                                         *)
(*     start  id  length-low  length-high  payload  checksum  ~id+1  end   *)
(*                                                                         *)
(* and packet_parse_byte() consumes one byte per call.  The three users of *)
(* the parser (the flash worker, the protocol detector and Ping360's boot- *)
(* loader check) call reset() before they expect an answer and then feed   *)
(* it every byte the port delivers, noise included.                        *)
(*                                                                         *)
(* rx is the written part of rxBuffer, so Len(rx) is rxTail.  Bytes are    *)
(* 0 .. Radix-1 (Radix is 256 in the code); the checksum is a parameter,   *)
(* because no property depends on which function of the bytes it is.       *)
(***************************************************************************)
EXTENDS Integers, Sequences

CONSTANTS Radix,          \* number of values of a byte
          MaxLength,      \* PACKET_MAX_LENGTH
          FramingStart,   \* PACKET_FRAMING_START
          FramingEnd,     \* PACKET_FRAMING_END
          IdLow, IdHigh,  \* ID_LOW .. ID_HIGH - 1 are the packet ids
          Checksum(_)     \* of the bytes between start and checksum

ASSUME ParserAssumption ==
  /\ Radix \in Nat \ {0}
  /\ MaxLength \in Nat \ 0..6          \* room for a frame without payload
  /\ FramingStart \in 0..(Radix - 1) /\ FramingEnd \in 0..(Radix - 1)
  /\ IdLow \in 0..(Radix - 1) /\ IdHigh \in 0..Radix

VARIABLES parseState,     \* parser.parseState
          packetLength,   \* parser.packetLength: payload bytes still missing
          rx,             \* parser.rxBuffer[0 .. rxTail - 1]
          ret             \* the value the last call returned

parserVars == <<parseState, packetLength, rx, ret>>

Byte == 0..(Radix - 1)
Id   == IdLow..(IdHigh - 1)

ParseState == {"ERROR", "WAIT_START", "WAIT_ID", "WAIT_LENGTH_L",
               "WAIT_LENGTH_H", "WAIT_DATA", "WAIT_CHECKSUM",
               "WAIT_COMPLEMENT", "WAIT_END", "NEW_MESSAGE"}

\* The length field of a buffer that holds the whole header.
PayloadLength(packet) == packet[3] + Radix * packet[4]

\* The complement of the id: ~id + 1, on the width of a byte.
Complement(packet) == (Radix - packet[2]) % Radix

\* The bytes the checksum covers: id, length and payload.
Covered(packet) == SubSeq(packet, 2, 4 + PayloadLength(packet))

ParserInit ==
    /\ parseState = "WAIT_START"
    /\ packetLength = 0
    /\ rx = <<>>
    /\ ret = "WAIT_START"

-----------------------------------------------------------------------------
\* reset(): only the state is touched, rxTail keeps its value.
Reset == /\ parseState' = "WAIT_START"
         /\ UNCHANGED <<packetLength, rx, ret>>

\* "don't overflow the parse buffer": the early return of a full buffer.
Overflow == /\ Len(rx) >= MaxLength
            /\ ret' = "ERROR"
            /\ UNCHANGED <<parseState, packetLength, rx>>

\* What every call with room in the buffer ends with: the switch has set
\* the state to s, which is also what the call returns.
Enter(s) == /\ Len(rx) < MaxLength
            /\ parseState' = s
            /\ ret' = s

Store(b) == rx' = Append(rx, b)

\* Mutant: a new frame does not take rxTail back to zero.
BeginFrameKeepsTail(b) ==
  /\ parseState \in {"ERROR", "NEW_MESSAGE", "WAIT_START"}
  /\ packetLength' = 0
  /\ \/ b # FramingStart /\ Enter("ERROR")   /\ UNCHANGED rx
     \/ b = FramingStart /\ Enter("WAIT_ID") /\ Store(b)

BeginFrame(b) ==
  /\ parseState \in {"ERROR", "NEW_MESSAGE", "WAIT_START"}
  /\ packetLength' = 0
  /\ \/ b # FramingStart /\ Enter("ERROR")   /\ rx' = <<>>
     \/ b = FramingStart /\ Enter("WAIT_ID") /\ rx' = <<b>>

ReadId(b) ==
  /\ parseState = "WAIT_ID"
  /\ \/ b \notin Id /\ Enter("ERROR")         /\ UNCHANGED rx
     \/ b \in Id    /\ Enter("WAIT_LENGTH_L") /\ Store(b)
  /\ UNCHANGED packetLength

ReadLengthLow(b) ==
  /\ parseState = "WAIT_LENGTH_L"
  /\ Enter("WAIT_LENGTH_H") /\ Store(b)
  /\ UNCHANGED packetLength

\* Mutant: the largest length the code admits is refused.
ReadLengthHighStrict(b) ==
  /\ parseState = "WAIT_LENGTH_H"
  /\ Store(b)
  /\ packetLength' = PayloadLength(rx')
  /\ \/ packetLength' >= MaxLength /\ Enter("ERROR")
     \/ packetLength' = 0          /\ Enter("WAIT_CHECKSUM")
     \/ packetLength' \in 1..(MaxLength - 1) /\ Enter("WAIT_DATA")

ReadLengthHigh(b) ==
  /\ parseState = "WAIT_LENGTH_H"
  /\ Store(b)
  /\ packetLength' = PayloadLength(rx')
  /\ \/ packetLength' > MaxLength      /\ Enter("ERROR")
     \/ packetLength' = 0              /\ Enter("WAIT_CHECKSUM")
     \/ packetLength' \in 1..MaxLength /\ Enter("WAIT_DATA")

ReadData(b) ==
  /\ parseState = "WAIT_DATA"
  /\ Store(b)
  /\ packetLength' = packetLength - 1
  /\ Enter(IF packetLength' = 0 THEN "WAIT_CHECKSUM" ELSE "WAIT_DATA")

\* One footer byte: kept when it has the expected value.
ReadFooter(b, here, expected, next) ==
  /\ parseState = here
  /\ \/ b # expected /\ Enter("ERROR") /\ UNCHANGED rx
     \/ b = expected /\ Enter(next)    /\ Store(b)
  /\ UNCHANGED packetLength

ReadChecksum(b)   == ReadFooter(b, "WAIT_CHECKSUM", Checksum(Covered(rx)), "WAIT_COMPLEMENT")
ReadComplement(b) == ReadFooter(b, "WAIT_COMPLEMENT", Complement(rx), "WAIT_END")
ReadEnd(b)        == ReadFooter(b, "WAIT_END", FramingEnd, "NEW_MESSAGE")

PacketParseByte(b) ==
  \/ Overflow
  \/ BeginFrame(b)
  \/ ReadId(b)
  \/ ReadLengthLow(b)
  \/ ReadLengthHigh(b)
  \/ ReadData(b)
  \/ ReadChecksum(b)
  \/ ReadComplement(b)
  \/ ReadEnd(b)

ParserNext == Reset \/ \E b \in Byte : PacketParseByte(b)

ParserSpec == ParserInit /\ [][ParserNext]_parserVars

-----------------------------------------------------------------------------
\* Type invariant; Len(rx) <= MaxLength is the promise not to overflow the
\* buffer.
ParserTypes ==
    /\ parseState \in ParseState
    /\ ret \in ParseState
    /\ packetLength \in Nat
    /\ rx \in Seq(Byte)
    /\ Len(rx) <= MaxLength

InFrame == {"WAIT_ID", "WAIT_LENGTH_L", "WAIT_LENGTH_H", "WAIT_DATA",
            "WAIT_CHECKSUM", "WAIT_COMPLEMENT", "WAIT_END", "NEW_MESSAGE"}

\* What a byte sequence must satisfy to be the beginning of a frame, said by
\* position and independently of the parser: the reference the parser is
\* held against.
FramePrefix(s) ==
  /\ Len(s) >= 1 => s[1] = FramingStart
  /\ Len(s) >= 2 => s[2] \in Id
  /\ Len(s) >= 4 => /\ PayloadLength(s) <= MaxLength
                    /\ Len(s) <= PayloadLength(s) + 7
  /\ Len(s) >= 5 => LET n == PayloadLength(s) IN
                    /\ Len(s) >= n + 5 => s[n + 5] = Checksum(Covered(s))
                    /\ Len(s) >= n + 6 => s[n + 6] = Complement(s)
                    /\ Len(s) >= n + 7 => s[n + 7] = FramingEnd

IsFrame(s) == /\ Len(s) >= 7
              /\ FramePrefix(s)
              /\ Len(s) = PayloadLength(s) + 7

\* Where in the frame each state stands.
Position ==
  /\ parseState = "WAIT_ID"         => Len(rx) = 1
  /\ parseState = "WAIT_LENGTH_L"   => Len(rx) = 2
  /\ parseState = "WAIT_LENGTH_H"   => Len(rx) = 3
  /\ parseState \in {"WAIT_DATA", "WAIT_CHECKSUM"} =>
       /\ Len(rx) >= 4
       /\ Len(rx) + packetLength = 4 + PayloadLength(rx)
       /\ (packetLength = 0) = (parseState = "WAIT_CHECKSUM")
  /\ parseState = "WAIT_COMPLEMENT" => Len(rx) >= 4 /\ Len(rx) = 5 + PayloadLength(rx)
  /\ parseState = "WAIT_END"        => Len(rx) >= 4 /\ Len(rx) = 6 + PayloadLength(rx)
  /\ parseState = "NEW_MESSAGE"     => Len(rx) >= 4 /\ Len(rx) = 7 + PayloadLength(rx)

\* Soundness, packet_parse_byte(): whatever noise came before, NEW_MESSAGE
\* is reported only when the buffer holds one whole frame, with the length,
\* checksum, complement and terminator the header documents.
OnlyWholeFrames == parseState = "NEW_MESSAGE" => IsFrame(rx)

\* Completeness, packet_parse_byte(): inside a frame the parser gives up on a
\* byte only if no frame continues that way (or the buffer is full).
NoFrameRejected ==
  [][ \A b \in Byte :
        /\ PacketParseByte(b)
        /\ parseState \in InFrame \ {"NEW_MESSAGE"}
        /\ Len(rx) < MaxLength
        => (parseState' # "ERROR") = FramePrefix(Append(rx, b)) ]_parserVars

\* The buffer fills up only behind a header whose length field leaves no room
\* for the footer: lengths above MaxLength - 7 pass the check of
\* WAIT_LENGTH_H although such a frame cannot be parsed.
FullOnlyIfOverlong == Len(rx) = MaxLength => PayloadLength(rx) >= MaxLength - 7

\* The inductive invariant.  After an error or a reset() the buffer still
\* holds the abandoned frame, so the last conjunct is said of every state.
ParserInv ==
  /\ ParserTypes
  /\ Position
  /\ parseState \in InFrame => FramePrefix(rx)
  /\ Len(rx) >= 4 => Len(rx) <= PayloadLength(rx) + 7

=============================================================================
