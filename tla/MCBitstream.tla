---------------------------- MODULE MCBitstream -----------------------------
(* Bitstream on bytes of ByteBits bits, for TLC. *)
EXTENDS Bitstream

MCCodes == {<<1>>, <<0, 1>>, <<1, 1, 0>>, <<1, 1, 1>>}
MCHeaderByte == {Ones(ByteBits), [Zeros(ByteBits) EXCEPT ![ByteBits] = 1]}
MCRSTs == {[Ones(ByteBits) EXCEPT ![1] = 0]}
MCEOI == [Ones(ByteBits) EXCEPT ![ByteBits] = 0]
=============================================================================
