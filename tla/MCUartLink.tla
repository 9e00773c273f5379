----------------------------- MODULE MCUartLink -----------------------------
(* UartLink for TLC.                                                       *)
EXTENDS UartLink

(* The remainder of the same change to two bytes, `gap` bytes apart: zero  *)
(* if the CRC does not notice it, whatever the frame (the CRC is linear).  *)
PairCrc(bits, gap) == crc8(<<bits>> \o [i \in 1..(gap - 1) |-> 0] \o <<bits>>)

(* The reason UartProtocol.hpp:113 gives for the CRC: equal changes of two *)
(* bytes, and bytes swapped, do not cancel out.  So it is for bytes less   *)
(* than 127 apart, and for commands and states; in a camera chunk of up to *)
(* 250 bytes the change of two bytes 127 apart goes unnoticed.             *)
ASSUME PairsAreNoticed ==
    \A bits \in {1, 24, 255}, gap \in 1..126 : PairCrc(bits, gap) # 0
ASSUME UpTo127 == \A bits \in {1, 24, 255} : PairCrc(bits, 127) = 0
=============================================================================
