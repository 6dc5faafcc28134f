------------------------- MODULE MCBootloaderParser -------------------------
(***************************************************************************)
(* BootloaderParser for TLC: bytes of two bits and a nine-byte buffer, so    *)
(* that frames without payload, frames that exactly fill the buffer, frames *)
(* whose footer no longer fits and refused length fields all occur.         *)
(***************************************************************************)
EXTENDS BootloaderParser, Bitwise, SequencesExt

\* The xor of the covered bytes (packet_calculate_checksum).
MCChecksum(s) == FoldLeft(LAMBDA sum, b : sum ^^ b, 0, s)
=============================================================================
