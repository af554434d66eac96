--------------------------------- MODULE Crc16 ---------------------------------
(* crc16/crc16.go and core/crc.go: the table driven CRC-16 that a crc field   *)
(* of a packet names.  A uint16 is the function of its bits.                  *)
EXTENDS Integers, Sequences

Words == [0..15 -> {0, 1}]
Word(n) == [i \in 0..15 |-> (n \div 2^i) % 2]
Octet(n) == [i \in 0..7 |-> (n \div 2^i) % 2]

\* The unsigned number of a word, to the base of 16.
Number(w) ==
  LET digit(i) == w[i] + 2 * w[i + 1] + 4 * w[i + 2] + 8 * w[i + 3]
  IN digit(0) + 16 * (digit(4) + 16 * (digit(8) + 16 * digit(12)))

Params(poly, init, ref, xorOut, check) ==
  [poly |-> Word(poly), init |-> Word(init), refIn |-> ref, refOut |-> ref,
   xorOut |-> Word(xorOut), check |-> check]

\* Crc16Map, params and the predefined algorithms: by name, as a field gives it.
Algorithms ==
  [arc         |-> Params(32773,     0, TRUE,      0, 47933),
   aug_ccitt   |-> Params( 4129,  7439, FALSE,     0, 58828),
   buypass     |-> Params(32773,     0, FALSE,     0, 65256),
   ccitt_false |-> Params( 4129, 65535, FALSE,     0, 10673),
   cdma2000    |-> Params(51303, 65535, FALSE,     0, 19462),
   dds_110     |-> Params(32773, 32781, FALSE,     0, 40655),
   dect_r      |-> Params( 1417,     0, FALSE,     1,   126),
   dect_x      |-> Params( 1417,     0, FALSE,     0,   127),
   dnp         |-> Params(15717,     0, TRUE,  65535, 60034),
   en_13757    |-> Params(15717,     0, FALSE, 65535, 49847),
   genibus     |-> Params( 4129, 65535, FALSE, 65535, 54862),
   maxim       |-> Params(32773,     0, TRUE,  65535, 17602),
   mcrf4xx     |-> Params( 4129, 65535, TRUE,      0, 28561),
   riello      |-> Params( 4129, 45738, TRUE,      0, 25552),
   t10_dif     |-> Params(35767,     0, FALSE,     0, 53467),
   teledisk    |-> Params(41111,     0, FALSE,     0,  4019),
   tms37157    |-> Params( 4129, 35308, TRUE,      0,  9905),
   usb         |-> Params(32773, 65535, TRUE,  65535, 46280),
   crc_a       |-> Params( 4129, 50886, TRUE,      0, 48901),
   kermit      |-> Params( 4129,     0, TRUE,      0,  8585),
   modbus      |-> Params(32773, 65535, TRUE,      0, 19255),
   x_25        |-> Params( 4129, 65535, TRUE,  65535, 36974),
   xmodem      |-> Params( 4129,     0, FALSE,     0, 12739)]

\* bits.Reverse8 and bits.Reverse16.
ReverseBits(width, x) == [i \in 0..(width - 1) |-> x[width - 1 - i]]

Xor(u, v) == [i \in DOMAIN u |-> IF u[i] = v[i] THEN 0 ELSE 1]
ShiftLeft(w, k) == [i \in 0..15 |-> IF i < k THEN 0 ELSE w[i - k]]
HighByte(w) == [i \in 0..7 |-> w[i + 8]]

\* A loop over s that begins with x: step takes what there is after the elements
\* before and the next element.
After(step, x, s) ==
  LET after[i \in Nat] == IF i = 0 THEN x ELSE step[after[i - 1]][s[i]] IN after
Fold(step, x, s) == After(step, x, s)[Len(s)]

\* One round of the loop that MakeTable runs eight times for an entry.
Shift(poly, crc) ==
  IF crc[15] = 1 THEN Xor(ShiftLeft(crc, 1), poly) ELSE ShiftLeft(crc, 1)
TableEntry(poly, n) ==
  Fold([crc \in Words |-> [i \in 1..8 |-> Shift(poly, crc)]],
       [i \in 0..15 |-> IF i < 8 THEN 0 ELSE n[i - 8]], [i \in 1..8 |-> i])

Update(p, crc, d) ==
  LET byte == IF p.refIn THEN ReverseBits(8, Octet(d)) ELSE Octet(d)
  IN  Xor(ShiftLeft(crc, 8), TableEntry(p.poly, Xor(HighByte(crc), byte)))
UpdateAll(p, crc, data) ==
  Fold([acc \in Words |-> [d \in 0..255 |-> Update(p, acc, d)]], crc, data)

Complete(p, crc) == Xor(IF p.refOut THEN ReverseBits(16, crc) ELSE crc, p.xorOut)

\* Checksum behind Crc16, which answers 0 for no data.
Crc(name, data) ==
  LET p == Algorithms[name]
  IN  IF data = <<>> THEN 0 ELSE Number(Complete(p, UpdateAll(p, p.init, data)))

\* The same checksum without a table: the register of a shift circuit that takes
\* the message bit by bit.
MessageBits(p, data) ==
  [i \in 1..(8 * Len(data)) |->
     LET octet == Octet(data[1 + ((i - 1) \div 8)])
         place == (i - 1) % 8
     IN octet[IF p.refIn THEN place ELSE 7 - place]]
Circuit(p, crc, b) ==
  IF crc[15] # b THEN Xor(ShiftLeft(crc, 1), p.poly) ELSE ShiftLeft(crc, 1)
Division(name, data) ==
  LET p == Algorithms[name]
  IN Complete(p, Fold([crc \in Words |-> [b \in {0, 1} |-> Circuit(p, crc, b)]], p.init,
                      MessageBits(p, data)))

\* Each of the 23 algorithms gives the check value its parameters declare
\* (crc16.go:28-52): its checksum of the digits 1 to 9 in ASCII.
CheckValues ==
  \A name \in DOMAIN Algorithms :
    Crc(name, <<49, 50, 51, 52, 53, 54, 55, 56, 57>>) = Algorithms[name].check
================================================================================
