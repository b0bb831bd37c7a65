------------------------------- MODULE Checksum -------------------------------
(***************************************************************************)
(* protocol.cpp: the two checksums of a frame and the cipher of the        *)
(* discovery message, over bytes.                                          *)
(***************************************************************************)
EXTENDS Integers, Sequences, Bitwise, SequencesExt

(* A byte shifted out of a reflected CRC register, bit by bit.             *)
ShiftedOut(x, poly) ==
  FoldLeft(LAMBDA r, i : IF r % 2 = 1 THEN (r \div 2) ^^ poly ELSE r \div 2,
           x, [i \in 1 .. 8 |-> i])

crc8_table == [x \in 0 .. 255 |-> ShiftedOut(x, 140)]

crc16_table == [x \in 0 .. 255 |-> ShiftedOut(x, 33800)]

crc8_calc(data) ==
  FoldLeft(LAMBDA crc, byte : crc8_table[crc ^^ byte], 119, data)

crc16_calc(data) ==
  FoldLeft(LAMBDA crc, byte : (crc \div 256) ^^ crc16_table[(crc ^^ byte) % 256],
           13970, data)

(* The key of each byte of a message. *)
KeyOf[i \in Nat] == IF i <= 1 THEN 7 ELSE (KeyOf[i - 1] + 7) ^^ 178

encrypt(data) == [i \in DOMAIN data |-> data[i] ^^ (KeyOf[i] % 256)]

=============================================================================
