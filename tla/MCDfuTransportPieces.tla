------------------------ MODULE MCDfuTransportPieces ------------------------
(***************************************************************************)
(* Payloads with the real checksum.  The first four bytes of the second    *)
(* have the checksum 0; all but two of the first must be escaped.          *)
(***************************************************************************)
EXTENDS DfuTransportPieces
C == INSTANCE Crc32

MCPayloads == {<<192, 219, 192, 219, 1, 192, 219, 192, 219, 2>>, <<157, 10, 217, 109, 7, 8, 9, 10, 11>>}
MCChecksum(bytes, previous) == C!Crc32(bytes, previous)
MCZero == <<0, 0, 0, 0>>
MCNone == <<>>

\* The checksum of what the target received is the CRC-32 (crc32.js:100-109).
ChecksumIsCrc32 == Checksum(received, None) = C!Remainder(received)
=============================================================================
