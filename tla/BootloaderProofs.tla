-------------------------- MODULE BootloaderProofs --------------------------
(***************************************************************************)
(* What the bootloader keeps, for every size of memory, flash and words:   *)
(* its types, that a stored executable is loaded back, and that what it    *)
(* calls executable is intact after one fault and any number of power      *)
(* failures.                                                               *)
(*                                                                         *)
(* The sum over an executable is the last of its partial sums, and the     *)
(* proof carries them along as a function, one word longer with each word  *)
(* stored.  They are still there when the same words are loaded.           *)
(***************************************************************************)
EXTENDS Bootloader, SequenceTheorems, WellFoundedInduction, TLAPS

-----------------------------------------------------------------------------
(* The invariant                                                           *)

Padded(size) == WordsOf(size) * WordBytes
ErasedBytes(size) == (size \div SectorBytes + 1) * SectorBytes
Fits(base, size) == base % WordBytes = 0 /\ base + Padded(size) <= MemBytes
Exe == InMemory(g_exe_base, g_exe_size)

(* sums[k] is the sum of the first k words. *)
PartialSums(sums, words, n) ==
  /\ sums \in [0 .. n -> Word] /\ sums[0] = 0
  /\ \A k \in 1 .. n : sums[k] = (sums[k - 1] + words[k]) % WordMod

Clean(first, last) == \A k \in first .. last : flash[k] = ErasedByte
HeaderInFlash(h, bytes) ==
  \A k \in 0 .. bytes - 1 : flash[k] = ByteOf(h[k \div WordBytes + 1], k % WordBytes)
DataInFlash(words, bytes) ==
  \A k \in 0 .. bytes - 1 :
    flash[HeaderBytes + k] = ByteOf(words[k \div WordBytes + 1], k % WordBytes)

(* Whatever a loader reads, it has not left the memory. *)
LoadShape ==
  pc = "load" =>
    /\ g_exe_size = 0 /\ i % WordBytes = 0
    /\ Len(header) < 4 => i = 0
    /\ Len(header) = 4 => header[1] = Signature /\ header[2] = g_exe_base
    /\ i # 0 => /\ Len(header) = 4 /\ i < header[3] + WordBytes
                /\ g_exe_base % WordBytes = 0 /\ g_exe_base + i <= MemBytes
    /\ stream = "flash" => g_flash_addr = Len(header) * WordBytes + i

(* The executable is in memory, and its store is where the counters say.   *)
StoreShape ==
  /\ g_exe_size # 0 => Fits(g_exe_base, g_exe_size)
  /\ pc \in {"confirm", "erase", "store", "seal"} =>
       /\ g_exe_size # 0 /\ Len(header) = 4
       /\ header[1] = Signature /\ header[2] = g_exe_base /\ header[3] = g_exe_size
  /\ pc \in {"confirm", "erase"} => header[4] = 0 /\ i = 0
  /\ pc = "erase" =>
       g_flash_addr + sectors * SectorBytes = ErasedBytes(g_exe_size)
  /\ pc = "store" => g_flash_addr = HeaderBytes + i /\ i <= Padded(g_exe_size)
  /\ pc = "seal" => g_flash_addr = i /\ i <= HeaderBytes

(* What the flash holds while an executable that has room is stored.       *)
Summed(n) == \E sums : PartialSums(sums, Exe, n) /\ header[4] = sums[n]
Sealing == [header EXCEPT ![4] = Complement(@)]
StoreFollows ==
  /\ pc = "erase" =>
       Clean(0, g_flash_addr - 1) /\ (g_flash_addr = 0 \/ stored = NoImage)
  /\ pc \in {"store", "seal"} => stored = NoImage
  /\ pc = "store" /\ Room(g_exe_size) =>
       /\ Clean(0, HeaderBytes - 1)
       /\ Clean(g_flash_addr, ErasedBytes(g_exe_size) - 1)
       /\ DataInFlash(Exe, i) /\ Summed(WordsOf(i))
  /\ pc = "seal" /\ Room(g_exe_size) =>
       /\ Clean(i, HeaderBytes - 1) /\ HeaderInFlash(Sealing, i)
       /\ DataInFlash(Exe, Padded(g_exe_size)) /\ Summed(WordsOf(g_exe_size))

(* What it holds afterwards, and how far a load of it has come.            *)
StoredHeader(sum) == <<Signature, stored.base, stored.size, Complement(sum)>>
LoadFollows(sums, h) ==
  /\ \A m \in 1 .. Len(header) : m < 4 => header[m] = h[m]
  /\ Len(header) = 4 => header[4] = (h[4] + sums[i \div WordBytes]) % WordMod
  /\ \A m \in 1 .. i \div WordBytes :
       mem[stored.base \div WordBytes + m - 1] = stored.data[m]
SumOfStored(sums) == sums[WordsOf(stored.size)]
ImageInFlash(sums) ==
  /\ PartialSums(sums, stored.data, WordsOf(stored.size))
  /\ HeaderInFlash(StoredHeader(SumOfStored(sums)), HeaderBytes)
  /\ DataInFlash(stored.data, Padded(stored.size))
StoredFits ==
  /\ stored.base \in Word /\ stored.size \in Word \ {0}
  /\ Fits(stored.base, stored.size) /\ stored.data \in [1 .. WordsOf(stored.size) -> Word]
FlashLoad == pc = "load" /\ stream = "flash"
StoredFollows ==
  stored # NoImage =>
    /\ StoredFits
    /\ HasRoom =>
         \E sums : /\ ImageInFlash(sums)
                   /\ FlashLoad => LoadFollows(sums, StoredHeader(SumOfStored(sums)))

Shape == TypeOK /\ LoadShape /\ StoreShape
BootInv == Shape /\ StoreFollows /\ StoredFollows

(* The flash outside of a store: no signature, or a header written up to   *)
(* byte j in front of an image of the host, of which the rest of the first *)
(* sector, from b on, may be erased.                                       *)
HeaderLeft(h, j) ==
  \A k \in 0 .. HeaderBytes - 1 :
    flash[k] = IF k < j THEN ByteOf(h[k \div WordBytes + 1], k % WordBytes) ELSE ErasedByte
DataLeft(words, b) ==
  \A k \in 0 .. Len(words) * WordBytes - 1 :
    flash[HeaderBytes + k] = IF HeaderBytes + k \in b .. SectorBytes - 1
                             THEN ErasedByte
                             ELSE ByteOf(words[k \div WordBytes + 1], k % WordBytes)
ImageHeader(image, base, size) == <<Signature, base, size, Complement(Sum(image.data))>>
ImageLeft(image, base, size, j, b) ==
  /\ Carries(image, size) /\ HeaderLeft(ImageHeader(image, base, size), j)
  /\ DataLeft(image.data, b)
FlashIntact ==
  flash[0] = ErasedByte \/
    \E image \in Images, base \in Word, size \in Word,
       j \in 1 .. HeaderBytes, b \in HeaderBytes .. SectorBytes :
      ImageLeft(image, base, size, j, b)
FlashKept == pc \notin {"store", "seal"} => FlashIntact

(* A load: how far the words read so far are those of the host's file, and *)
(* which words of the flash they are.                                      *)
Loaded == i \div WordBytes
LoadedWord(m) == mem[g_exe_base \div WordBytes + m - 1]
UartSum(error) ==
  /\ header[4] = (Complement(Sum(file.data)) + Sums(file.data)[Loaded] + error) % WordMod
  /\ error = 0 => \A m \in 1 .. Loaded : LoadedWord(m) = file.data[m]
  /\ error # 0 => faults # 0 /\ header[3] = file.size
UartFollows ==
  /\ file \in Images
  /\ Len(header) \in {3, 4} =>
       header[3] = file.size \/ (header[3] \in FaultWords /\ faults # 0)
  /\ Len(header) = 4 =>
       Loaded <= Len(file.data) /\ \E error \in Word : UartSum(error)
FlashFollows ==
  /\ \A m \in 1 .. Len(header) : m < 4 => InFlash(header[m], (m - 1) * WordBytes)
  /\ Len(header) = 4 =>
       /\ \A m \in 1 .. Loaded :
            /\ LoadedWord(m) \in Word
            /\ InFlash(LoadedWord(m), HeaderBytes + (m - 1) * WordBytes)
       /\ \E checksum \in Word : \E sums :
            /\ InFlash(checksum, 3 * WordBytes)
            /\ PartialSums(sums, [m \in 1 .. Loaded |-> LoadedWord(m)], Loaded)
            /\ header[4] = (checksum + sums[Loaded]) % WordMod
ReadFollows == pc = "load" => IF stream = "uart" THEN UartFollows ELSE FlashFollows

ExeIntact ==
  g_exe_size # 0 =>
    \E image \in Images : Carries(image, g_exe_size) /\ Exe = image.data
FaultsBounded == faults \in 0 .. MaxFaults
IntactInv == FaultsBounded /\ ExeIntact /\ FlashKept /\ ReadFollows

-----------------------------------------------------------------------------
(* Sizes, addresses and words                                              *)

LEMMA Params ==
  /\ WordBytes \in Nat \ {0} /\ MemBytes \in Nat \ {0} /\ SectorBytes \in Nat \ {0}
  /\ Sectors \in Nat \ {0} /\ AddressMod \in Nat \ {0} /\ ByteBits \in Nat \ {0}
BY BootAssumption

LEMMA Product == ASSUME NEW a \in Int, NEW b \in Int PROVE a * b \in Int
OBVIOUS

LEMMA NatProduct == ASSUME NEW a \in Nat, NEW b \in Nat PROVE a * b \in Nat
OBVIOUS

LEMMA Sizes ==
  /\ WordMod \in Nat /\ Word = 0 .. WordMod - 1
  /\ MemBytes < WordMod /\ HeaderBytes < WordMod
  /\ HeaderBytes = 4 * WordBytes /\ FlashBytes \in Nat
  /\ HeaderBytes + MemBytes + WordBytes <= FlashBytes /\ FlashBytes < AddressMod
  /\ MemBytes % WordBytes = 0 /\ SectorBytes % WordBytes = 0
<1>1. FlashBytes \in Nat
  BY Params, NatProduct DEF FlashBytes
<1>2. Word = 0 .. WordMod - 1 /\ HeaderBytes = 4 * WordBytes
  BY DEF Word, WordMod, HeaderBytes
<1> QED
  BY <1>1, <1>2, SizeAssumption

LEMMA Bytes ==
  /\ ErasedByte \in Byte /\ \A word, k : ByteOf(word, k) \in Byte
  /\ \A byte \in Byte : Programmed(ErasedByte, byte) = byte
  /\ \A old \in Byte, new \in Byte : Programmed(old, new) \in Byte
BY DEF Byte, ErasedByte, ByteOf, Programmed

LEMMA Division ==
  ASSUME NEW a \in Int, NEW d \in Nat \ {0}
  PROVE  /\ a \div d \in Int /\ a % d \in 0 .. d - 1
         /\ a = (a \div d) * d + (a % d)
OBVIOUS

LEMMA Quotient ==
  ASSUME NEW d \in Nat \ {0}, NEW q \in Int, NEW r \in 0 .. d - 1
  PROVE  (q * d + r) \div d = q /\ (q * d + r) % d = r
OBVIOUS

LEMMA SmallRemainder ==
  ASSUME NEW d \in Nat \ {0}, NEW r \in 0 .. d - 1
  PROVE  r % d = r
OBVIOUS

(* Multiples are as far apart as the divisor. *)
LEMMA Multiples ==
  ASSUME NEW d \in Nat \ {0}, NEW p \in Int, NEW q \in Int
  PROVE  /\ p < q => p * d + d <= q * d
         /\ p <= q => p * d <= q * d
OBVIOUS

LEMMA NatQuotient ==
  ASSUME NEW a \in Nat, NEW d \in Nat \ {0}
  PROVE  a \div d \in Nat
OBVIOUS

LEMMA WordStart ==
  ASSUME NEW d \in Nat \ {0}, NEW a \in Int, a % d = 0
  PROVE  \E q \in Int : a = q * d /\ a \div d = q
<1>1. a \div d \in Int /\ a = (a \div d) * d + (a % d)
  BY Division
<1> QED
  BY <1>1, Product

(* The byte at offset k of the word at a.                                  *)
LEMMA ByteOfWord ==
  ASSUME NEW d \in Nat \ {0}, NEW a \in Int, a % d = 0, NEW k \in 0 .. d - 1
  PROVE  (a + k) \div d = a \div d /\ (a + k) % d = k
<1>1. PICK q \in Int : a = q * d /\ a \div d = q
  BY WordStart
<1> QED
  BY <1>1, Quotient

LEMMA NextWord ==
  ASSUME NEW d \in Nat \ {0}, NEW a \in Int, a % d = 0
  PROVE  (a + d) \div d = a \div d + 1 /\ (a + d) % d = 0
<1>1. PICK q \in Int : a = q * d /\ a \div d = q
  BY WordStart
<1>2. a + d = (q + 1) * d + 0
  BY <1>1
<1> QED
  BY <1>1, <1>2, Quotient

(* Offsets from a word are words apart as the words are.                   *)
LEMMA WordOffset ==
  ASSUME NEW d \in Nat \ {0}, NEW a \in Int, a % d = 0, NEW b \in Int
  PROVE  (a + b) \div d = a \div d + b \div d /\ (a + b) % d = b % d
<1>1. PICK q \in Int : a = q * d /\ a \div d = q
  BY WordStart
<1>2. PICK p \in Int, r \in 0 .. d - 1 : b = p * d + r /\ b \div d = p /\ b % d = r
  BY Division
<1>3. a + b = (q + p) * d + r
  BY <1>1, <1>2
<1>4. (a + b) \div d = q + p /\ (a + b) % d = r
  BY <1>3, Quotient
<1> QED
  BY <1>1, <1>2, <1>4

(* Offsets below a whole number of words are in one of the words.          *)
LEMMA WordBelow ==
  ASSUME NEW d \in Nat \ {0}, NEW n \in Int, NEW k \in Nat, k < n * d
  PROVE  k \div d \in 0 .. n - 1 /\ k % d \in 0 .. d - 1
<1>1. PICK p \in Int, r \in 0 .. d - 1 : k = p * d + r /\ k \div d = p /\ k % d = r
  BY Division
<1>2. ~(n <= p)
  <2> SUFFICES ASSUME n <= p PROVE FALSE
    OBVIOUS
  <2>1. n * d <= p * d
    BY Multiples
  <2> QED
    BY <2>1, <1>1, Product
<1>3. p \in Nat
  BY <1>1, NatQuotient
<1> QED
  BY <1>1, <1>2, <1>3

(* The words of an executable begin before its end.                        *)
LEMMA PaddedSize ==
  ASSUME NEW size \in Nat
  PROVE  /\ WordsOf(size) \in Nat /\ Padded(size) \in Nat
         /\ Padded(size) % WordBytes = 0 /\ Padded(size) \div WordBytes = WordsOf(size)
         /\ size <= Padded(size) /\ Padded(size) < size + WordBytes
<1> DEFINE d == WordBytes
<1>0. d \in Nat \ {0} /\ size + d - 1 \in Nat /\ size + d - 1 \in Int
  BY Params
<1>1. WordsOf(size) \in Nat
  BY <1>0, NatQuotient DEF WordsOf
<1>2. PICK r \in 0 .. d - 1 : size + d - 1 = WordsOf(size) * d + r
  <2> DEFINE a == size + d - 1
  <2>1. a \in Int /\ WordsOf(size) = a \div d
    BY <1>0 DEF WordsOf
  <2> HIDE DEF a, d
  <2>2. a % d \in 0 .. d - 1 /\ a = (a \div d) * d + (a % d)
    BY <1>0, <2>1, Division
  <2>3. a = WordsOf(size) * d + (a % d)
    BY <2>1, <2>2
  <2> QED
    BY <2>2, <2>3 DEF a
<1>3. Padded(size) \in Nat
  BY <1>0, <1>1, NatProduct DEF Padded
<1>4. (WordsOf(size) * d + 0) % d = 0 /\ (WordsOf(size) * d + 0) \div d = WordsOf(size)
  BY <1>0, <1>1, Quotient
<1>5. WordsOf(size) * d \in Int /\ Padded(size) = WordsOf(size) * d
  BY <1>0, <1>1, Product DEF Padded
<1> HIDE DEF d
<1>6. size <= Padded(size) /\ Padded(size) < size + d
  BY <1>0, <1>2, <1>5
<1>7. Padded(size) % d = 0 /\ Padded(size) \div d = WordsOf(size)
  BY <1>4, <1>5
<1> QED
  BY <1>1, <1>3, <1>6, <1>7 DEF d

LEMMA AlignedSize ==
  ASSUME NEW k \in Nat, k % WordBytes = 0
  PROVE  /\ WordsOf(k) = k \div WordBytes
         /\ \A r \in 1 .. WordBytes : WordsOf(k + r) = k \div WordBytes + 1
<1> DEFINE d == WordBytes
<1>0. d \in Nat \ {0} /\ k \in Int /\ d - 1 \in 0 .. d - 1
  BY Params
<1>1. (k + (d - 1)) \div d = k \div d
  BY <1>0, ByteOfWord
<1>2. ASSUME NEW r \in 1 .. d PROVE WordsOf(k + r) = k \div d + 1
  <2>1. (k + d) \div d = k \div d + 1 /\ (k + d) % d = 0
    BY ONLY <1>0, k % d = 0, NextWord, ZenonT(30)
  <2>3. k + d \in Int
    BY <1>0
  <2>2. ((k + d) + (r - 1)) \div d = (k + d) \div d
    <3>1. r - 1 \in 0 .. d - 1
      BY <1>0
    <3> QED
      BY <1>0, <2>1, <2>3, <3>1, ByteOfWord
  <2>4. (k + d) + (r - 1) = k + r + d - 1
    BY <1>0
  <2> QED
    BY <2>1, <2>2, <2>4 DEF WordsOf
<1>3. k + (d - 1) = k + d - 1
  BY <1>0
<1> QED
  BY <1>1, <1>2, <1>3 DEF WordsOf

(* Multiples of the word within a size's words.                            *)
LEMMA WithinSize ==
  ASSUME NEW size \in Nat, NEW k \in Nat, k % WordBytes = 0
  PROVE  /\ k < size => k + WordBytes <= Padded(size) /\ k \div WordBytes < WordsOf(size)
         /\ k >= size /\ k <= Padded(size) => k = Padded(size)
         /\ k >= size /\ k < size + WordBytes => k = Padded(size)
         /\ k <= Padded(size) => k \div WordBytes <= WordsOf(size)
<1> DEFINE d == WordBytes
<1> DEFINE n == WordsOf(size)
<1>0. d \in Nat \ {0} /\ n \in Nat /\ Padded(size) = n * d /\ n * d \in Nat
  BY Params, PaddedSize DEF Padded
<1>1. PICK q \in Int : k = q * d /\ k \div d = q
  <2>1. k \in Int
    OBVIOUS
  <2> QED
    BY <1>0, <2>1, WordStart
<1>2. size <= n * d /\ n * d < size + d
  BY <1>0, PaddedSize
<1> HIDE DEF n, d
<1>3. q < n => q * d + d <= n * d
  BY <1>0, Multiples
<1>4. n < q => n * d + d <= q * d
  BY <1>0, Multiples
<1>5. q * d \in Int
  BY <1>1
<1>6. q >= n => q * d >= n * d
  BY <1>0, Multiples
<1> QED
  BY <1>0, <1>1, <1>2, <1>3, <1>4, <1>5, <1>6 DEF n, d

(* Sectors are whole words, so if the bytes of an executable have room in  *)
(* the erased sectors its words have.                                      *)
LEMMA RoomForWords ==
  ASSUME NEW size \in Nat, Room(size)
  PROVE  HeaderBytes + Padded(size) <= ErasedBytes(size)
<1> DEFINE d == WordBytes
<1> DEFINE e == ErasedBytes(size)
<1> DEFINE room == ErasedBytes(size) - 4 * WordBytes
<1>0. d \in Nat \ {0} /\ HeaderBytes = 4 * d /\ SectorBytes \in Nat \ {0}
  BY Params, Sizes
<1>1. PICK s \in Int : SectorBytes = s * d
  <2>1. SectorBytes \in Int /\ SectorBytes % d = 0
    BY <1>0, Sizes
  <2> QED
    BY <1>0, <2>1, WordStart
<1> DEFINE q == size \div SectorBytes + 1
<1>2. q \in Nat
  BY <1>0, NatQuotient
<1>3. e = (q * s) * d
  BY <1>0, <1>1, <1>2 DEF ErasedBytes
<1>4. q * s \in Int
  BY <1>2, <1>1, Product
<1> HIDE DEF q
<1>5. room = (q * s - 4) * d + 0
  BY <1>0, <1>3, <1>4
<1>6. room % d = 0 /\ room \in Int
  <2>1. q * s - 4 \in Int /\ 0 \in 0 .. d - 1
    BY <1>0, <1>4
  <2>2. ((q * s - 4) * d + 0) % d = 0 /\ (q * s - 4) * d + 0 \in Int
    BY <1>0, <2>1, Quotient
  <2> HIDE DEF room
  <2> QED
    BY <1>5, <2>2
<1>7. size <= room
  BY <1>0, <1>3, <1>4, Product DEF Room, ErasedBytes
<1>8. Padded(size) <= room
  <2>1. room \in Nat
    BY <1>6, <1>7
  <2>2. Padded(size) \in Nat /\ Padded(size) < size + d /\ Padded(size) % d = 0
    BY PaddedSize
  <2>3. PICK p \in Int : Padded(size) = p * d
    <3>1. Padded(size) \in Int
      BY <2>2
    <3> QED
      BY <1>0, <2>2, <3>1, WordStart
  <2>4. PICK r \in Int : room = r * d
    BY <1>0, <1>6, WordStart
  <2> HIDE DEF room, d
  <2>5. r < p => r * d + d <= p * d
    BY <1>0, Multiples
  <2>6. p <= r => p * d <= r * d
    BY <1>0, Multiples
  <2> QED
    BY <1>0, <1>7, <2>1, <2>2, <2>3, <2>4, <2>5, <2>6
<1>9. e \in Int /\ Padded(size) \in Int
  BY <1>0, <1>3, <1>4, PaddedSize
<1> QED
  BY <1>0, <1>8, <1>9

(* An executable in memory needs no more sectors than there are.           *)
LEMMA SectorsSuffice ==
  ASSUME NEW size \in Nat, size <= MemBytes
  PROVE  /\ size \div SectorBytes + 1 \in 0 .. Sectors
         /\ ErasedBytes(size) \in Nat \ {0} /\ ErasedBytes(size) <= FlashBytes
<1> DEFINE q == size \div SectorBytes
<1>0. SectorBytes \in Nat \ {0} /\ Sectors \in Nat /\ q \in Nat
  BY Params, NatQuotient
<1>1. q * SectorBytes <= size
  BY <1>0, Division, Product
<1>2. size < Sectors * SectorBytes
  BY Params, Sizes DEF FlashBytes
<1> HIDE DEF q
<1>3. ~(Sectors <= q)
  <2> SUFFICES ASSUME Sectors <= q PROVE FALSE
    OBVIOUS
  <2>1. Sectors * SectorBytes <= q * SectorBytes
    BY <1>0, Multiples
  <2> QED
    BY <1>0, <1>1, <1>2, <2>1, Product
<1>4. (q + 1) * SectorBytes <= Sectors * SectorBytes
  BY <1>0, <1>3, Multiples
<1>5. (q + 1) * SectorBytes \in Nat
  BY <1>0, NatProduct
<1>6. 0 * SectorBytes + SectorBytes <= (q + 1) * SectorBytes
  BY <1>0, Multiples
<1> QED
  BY <1>0, <1>3, <1>4, <1>5, <1>6 DEF q, ErasedBytes, FlashBytes

LEMMA AlignedBelow ==
  ASSUME NEW d \in Nat \ {0}, NEW a \in Int, NEW b \in Int,
         a % d = 0, b % d = 0, a < b
  PROVE  a + d <= b
<1>1. PICK p \in Int : a = p * d
  BY WordStart
<1>2. PICK q \in Int : b = q * d
  BY WordStart
<1>3. p < q => p * d + d <= q * d
  BY Multiples
<1>4. q <= p => q * d <= p * d
  BY Multiples
<1> QED
  BY <1>1, <1>2, <1>3, <1>4

-----------------------------------------------------------------------------
(* Types and shapes                                                        *)

LEMMA NoHeader == <<>> \in Seq(Word) /\ Len(<<>>) = 0
OBVIOUS

LEMMA ShapeInit == Init => Shape
<1> SUFFICES ASSUME Init PROVE Shape
  OBVIOUS
<1>1. MemBytes \div WordBytes - 1 \in Int /\ 0 \in Word /\ FlashBytes \in Nat
  BY Params, Sizes, NatQuotient
<1>2. TypeOK
  <2>1. mem \in [0 .. MemBytes \div WordBytes - 1 -> Word]
    BY <1>1 DEF Init
  <2>2. flash \in [0 .. FlashBytes - 1 -> Byte]
    BY Bytes DEF Init
  <2>3. 0 \in 0 .. FlashBytes /\ 0 \in 0 .. Sectors
    BY <1>1, Params
  <2>4. auto \in BOOLEAN /\ spi \in BOOLEAN
    BY DEF Init
  <2>5. g_exe_base \in Word /\ g_exe_size \in Word /\ i \in Word
    BY <1>1 DEF Init, DEFAULT_EXE_ADDR
  <2>6. header \in Seq(Word) /\ Len(header) <= 4
    BY NoHeader DEF Init
  <2> QED
    BY <2>1, <2>2, <2>3, <2>4, <2>5, <2>6 DEF Init, TypeOK
<1> QED
  BY <1>2 DEF Init, Shape, LoadShape, StoreShape

(* A reset leaves nothing to load or to store. *)
LEMMA ShapeRestart == Shape /\ Restart => Shape'
<1> SUFFICES ASSUME Shape, Restart PROVE Shape'
  OBVIOUS
<1>0. TypeOK
  BY DEF Shape
<1>1. 0 \in Word /\ FlashBytes \in Nat
  BY Params, Sizes
<1>2. mem' \in [0 .. MemBytes \div WordBytes - 1 -> Word]
  BY <1>0, <1>1 DEF Restart, TypeOK
<1>3. flash' \in [0 .. FlashBytes - 1 -> Byte]
  BY <1>0, Bytes DEF Restart, TypeOK, PartlyErased, ErasedIn
<1>4. TypeOK'
  <2>1. 0 \in 0 .. FlashBytes /\ 0 \in 0 .. Sectors
    BY <1>1, Params
  <2>2. auto' \in BOOLEAN /\ spi' \in BOOLEAN
    BY <1>0 DEF Restart, Boots, TypeOK
  <2>3. g_exe_base' \in Word /\ g_exe_size' \in Word /\ i' \in Word
    BY <1>1 DEF Restart, Boots, DEFAULT_EXE_ADDR
  <2>4. header' \in Seq(Word) /\ Len(header') <= 4
    BY NoHeader DEF Restart, Boots
  <2> QED
    BY <1>2, <1>3, <2>1, <2>2, <2>3, <2>4 DEF Restart, Boots, TypeOK
<1> QED
  BY <1>4 DEF Restart, Boots, Shape, LoadShape, StoreShape

LEMMA ShapeStartLoad ==
  ASSUME Shape, NEW from \in {"uart", "flash"}, NEW byAuto \in BOOLEAN,
         StartLoad(from, byAuto), file' \in Images \cup {NoImage}
  PROVE  Shape'
<1>0. TypeOK
  BY DEF Shape
<1>1. 0 \in Word /\ FlashBytes \in Nat /\ 0 % WordBytes = 0 /\ 0 * WordBytes = 0
  BY Params, Sizes, SmallRemainder
<1>2. TypeOK'
  BY <1>0, <1>1, NoHeader DEF StartLoad, TypeOK
<1>3. Len(<<>>) = 0
  OBVIOUS
<1>4. stream' = "flash" /\ pc' = "load" => g_flash_addr' = 0
  BY DEF StartLoad
<1>5. LoadShape'
  BY <1>1, <1>3, <1>4 DEF StartLoad, LoadShape
<1>6. StoreShape'
  BY DEF StartLoad, StoreShape
<1> QED
  BY <1>2, <1>5, <1>6 DEF Shape

(* Steps of the console that move no data. *)
LEMMA ShapeConsole ==
  ASSUME Shape, KeyPressed \/ CmdExecute \/ CmdExit \/ BootAnyway \/ Refuse
  PROVE  Shape'
<1>0. TypeOK
  BY DEF Shape
<1>1. 0 \in Word
  BY Params, Sizes
<1>2. TypeOK'
  <2>1. CASE KeyPressed
    BY <1>0, <2>1 DEF KeyPressed, TypeOK, globals, locals, world
  <2>2. CASE CmdExecute
    BY <1>0, <2>2 DEF CmdExecute, TypeOK, globals, locals, world
  <2>3. CASE CmdExit
    BY <1>0, <2>3 DEF CmdExit, TypeOK, globals, locals, world
  <2>4. CASE BootAnyway
    BY <1>0, <2>4 DEF BootAnyway, TypeOK, globals, locals, world
  <2>5. CASE Refuse
    BY <1>0, <1>1, <2>5, NoHeader DEF Refuse, LeaveLocals, TypeOK, storeUnchanged
  <2> QED
    BY <2>1, <2>2, <2>3, <2>4, <2>5
<1>3. pc' \notin {"load", "confirm", "erase", "store", "seal"}
  BY DEF KeyPressed, CmdExecute, CmdExit, BootAnyway, Refuse
<1>4. UNCHANGED <<g_exe_size, g_exe_base>>
  BY DEF KeyPressed, CmdExecute, CmdExit, BootAnyway, Refuse, globals, storeUnchanged
<1> QED
  BY <1>2, <1>3, <1>4 DEF Shape, LoadShape, StoreShape

LEMMA SeqOfFunction ==
  ASSUME NEW S, NEW n \in Nat, NEW t \in [1 .. n -> S]
  PROVE  t \in Seq(S) /\ Len(t) = n
<1>1. t \in Seq(S)
  BY SeqDef
<1>2. Len(t) = n
  BY <1>1
<1> QED
  BY <1>1, <1>2

LEMMA LastReplaced ==
  ASSUME NEW S, NEW s \in Seq(S), Len(s) = 4, NEW e \in S, NEW t, t = [s EXCEPT ![4] = e]
  PROVE  /\ t \in Seq(S) /\ Len(t) = 4
         /\ t[4] = e /\ t[1] = s[1] /\ t[2] = s[2] /\ t[3] = s[3]
<1>1. t \in [1 .. 4 -> S]
  <2>1. s \in [1 .. 4 -> S]
    BY LenProperties
  <2> QED
    BY <2>1
<1>2. t \in Seq(S) /\ Len(t) = 4
  <2>1. 4 \in Nat
    OBVIOUS
  <2> QED
    BY ONLY <1>1, <2>1, SeqOfFunction, ZenonT(30)
<1> QED
  BY <1>2

LEMMA HeaderGrows ==
  ASSUME TypeOK, NEW w \in Word, Len(header) < 4, NEW h, h = Append(header, w)
  PROVE  /\ h \in Seq(Word) /\ Len(header) \in 0 .. 3 /\ Len(h) = Len(header) + 1
         /\ h[Len(header) + 1] = w /\ \A m \in 1 .. Len(header) : h[m] = header[m]
<1>1. header \in Seq(Word) /\ Len(header) \in Nat
  BY LenProperties DEF TypeOK
<1>2. h \in Seq(Word) /\ Len(h) = Len(header) + 1 /\ h[Len(header) + 1] = w
  BY <1>1
<1>3. \A m \in 1 .. Len(header) : h[m] = header[m]
  BY <1>1
<1>4. Len(header) \in 0 .. 3
  <2>1. ASSUME NEW n \in Nat, n < 4 PROVE n \in 0 .. 3
    BY <2>1
  <2> QED
    BY <1>1, <2>1
<1> QED
  BY <1>2, <1>3, <1>4

(* Reading flash moves the address on by a word; the whole flash has an    *)
(* address.                                                                *)
LEMMA AddressMoves ==
  ASSUME TypeOK, NEW w \in Word, StreamGet(w)
  PROVE  /\ stream = "flash" /\ g_flash_addr + WordBytes <= FlashBytes =>
              g_flash_addr' = g_flash_addr + WordBytes
         /\ stream = "uart" => g_flash_addr' = g_flash_addr
<1>1. ASSUME stream = "flash", g_flash_addr + WordBytes <= FlashBytes
      PROVE  g_flash_addr' = g_flash_addr + WordBytes
  <2>1. g_flash_addr + WordBytes \in 0 .. AddressMod - 1
    BY <1>1, Params, Sizes DEF TypeOK
  <2> QED
    BY <1>1, <2>1, Params, SmallRemainder DEF StreamGet
<1> QED
  BY <1>1 DEF StreamGet

LEMMA ShapeGetHeader == Shape /\ GetHeader => Shape'
<1> SUFFICES ASSUME Shape, GetHeader PROVE Shape'
  OBVIOUS
<1>0. TypeOK /\ pc = "load" /\ g_exe_size = 0 /\ i = 0 /\ Len(header) < 4
  BY DEF Shape, LoadShape, GetHeader
<1>1. PICK w \in Word : StreamGet(w) /\ header' = Append(header, w)
                        /\ IF Len(header) = 3
                           THEN /\ g_exe_base' = header[2]
                                /\ pc' = IF header[1] # Signature THEN Failed ELSE "load"
                           ELSE UNCHANGED <<g_exe_base, pc>>
  BY DEF GetHeader
<1> DEFINE len == Len(header)
<1>2. /\ header' \in Seq(Word) /\ len \in 0 .. 3 /\ Len(header') = len + 1
      /\ \A m \in 1 .. len : header'[m] = header[m]
  <2>1. header' = Append(header, w)
    BY <1>1
  <2> QED
    BY ONLY <1>0, <2>1, w \in Word, HeaderGrows, ZenonT(30)
<1>3. g_exe_base' \in Word
  <2>1. len = 3 => header[2] \in Word
    BY <1>0, <1>2, ElementOfSeq DEF TypeOK
  <2> QED
    BY <1>0, <1>1, <2>1 DEF TypeOK
<1>4. pc' \in {"load", "halted", "console"}
  BY <1>0, <1>1 DEF Failed
<1>5. /\ stream = "flash" => g_flash_addr' = (len + 1) * WordBytes
      /\ g_flash_addr' \in 0 .. FlashBytes
  <2>1. CASE stream = "flash"
    <3>1. g_flash_addr = len * WordBytes
      BY <1>0, <1>2, <2>1, Params, Product DEF Shape, LoadShape
    <3>2. len + 1 <= 4 /\ len \in Int
      BY <1>2
    <3> HIDE DEF len
    <3>3. (len + 1) * WordBytes = g_flash_addr + WordBytes
      BY <3>1, <3>2, Params
    <3>4. (len + 1) * WordBytes <= 4 * WordBytes
      BY <3>2, Params, Multiples
    <3>5. 0 <= g_flash_addr /\ g_flash_addr \in Int
      BY <1>0, Sizes DEF TypeOK
    <3>6. g_flash_addr + WordBytes <= FlashBytes
      BY <3>3, <3>4, <3>5, Sizes, Params
    <3> QED
      BY <1>0, <1>1, <2>1, <3>3, <3>5, <3>6, AddressMoves, Params, Sizes
  <2>2. CASE stream = "uart"
    BY <1>0, <1>1, <2>2, AddressMoves DEF TypeOK
  <2> QED
    BY <1>0, <2>1, <2>2 DEF TypeOK
<1>6. TypeOK'
  <2>1. Len(header') <= 4
    BY <1>2
  <2> QED
    BY <1>0, <1>2, <1>3, <1>4, <1>5, <2>1 DEF GetHeader, TypeOK
<1>7. LoadShape'
  <2> SUFFICES ASSUME pc' = "load" PROVE LoadShape'
    BY DEF LoadShape
  <2>1. g_exe_size' = 0 /\ i' = 0 /\ stream' = stream /\ 0 % WordBytes = 0
    BY <1>0, Params, SmallRemainder DEF GetHeader
  <2>2. Len(header') = 4 => header'[1] = Signature /\ header'[2] = g_exe_base'
    <3> SUFFICES ASSUME Len(header') = 4 PROVE header'[1] = Signature /\ header'[2] = g_exe_base'
      OBVIOUS
    <3>1. len = 3
      <4>1. \A a \in 0 .. 3 : a + 1 = 4 => a = 3
        OBVIOUS
      <4> QED
        BY <1>2, <4>1
    <3>2. header[1] = Signature /\ g_exe_base' = header[2]
      <4>1. Failed # "load"
        BY DEF Failed
      <4> QED
        BY <1>1, <3>1, <4>1
    <3> QED
      BY <1>2, <3>1, <3>2
  <2>3. stream' = "flash" => g_flash_addr' = Len(header') * WordBytes + i'
    BY <1>2, <1>5, <2>1, Params, Product
  <2> QED
    BY <2>1, <2>2, <2>3 DEF LoadShape
<1>8. StoreShape'
  BY <1>0, <1>4 DEF GetHeader, StoreShape
<1> QED
  BY <1>6, <1>7, <1>8 DEF Shape

(* While data are loaded the address in memory neither leaves it nor wraps. *)
LEMMA TargetIs ==
  ASSUME Shape, pc = "load", Len(header) = 4
  PROVE  /\ header[2] = g_exe_base /\ \A m \in 1 .. 4 : header[m] \in Word
         /\ g_exe_base \in Nat /\ i \in Nat /\ i % WordBytes = 0
         /\ Target = g_exe_base + i
         /\ Mapped(Target) => /\ g_exe_base % WordBytes = 0
                              /\ g_exe_base + i + WordBytes <= MemBytes
<1>0. TypeOK /\ header[2] = g_exe_base /\ i % WordBytes = 0
      /\ (i # 0 => g_exe_base % WordBytes = 0 /\ g_exe_base + i <= MemBytes)
  BY DEF Shape, LoadShape
<1>1. \A m \in 1 .. 4 : header[m] \in Word
  BY <1>0, ElementOfSeq DEF TypeOK
<1>2. g_exe_base \in 0 .. WordMod - 1 /\ i \in 0 .. WordMod - 1 /\ WordMod \in Nat \ {0}
  BY <1>0, Sizes, Params DEF TypeOK
<1>3. g_exe_base + i \in 0 .. WordMod - 1
  BY <1>0, <1>2, Sizes, Params
<1>4. Target = g_exe_base + i
  BY <1>0, <1>2, <1>3, SmallRemainder DEF Target
<1>5. ASSUME Mapped(Target)
      PROVE  g_exe_base % WordBytes = 0 /\ g_exe_base + i + WordBytes <= MemBytes
  <2>1. (g_exe_base + i) % WordBytes = 0 /\ g_exe_base + i < MemBytes
    BY <1>4, <1>5 DEF Mapped
  <2>2. g_exe_base + i \in Int /\ MemBytes \in Int /\ MemBytes % WordBytes = 0
    BY <1>2, Params, Sizes
  <2> DEFINE end == g_exe_base + i
  <2>3. end + WordBytes <= MemBytes
    <3> HIDE DEF end
    <3>1. end \in Int /\ end % WordBytes = 0 /\ end < MemBytes
      BY <2>1, <2>2 DEF end
    <3> QED
      BY <3>1, <2>2, Params, AlignedBelow
  <2>4. g_exe_base % WordBytes = 0
    <3>1. (i + g_exe_base) % WordBytes = g_exe_base % WordBytes
      <4>1. i \in Int /\ g_exe_base \in Int
        BY <1>2
      <4> QED
        BY <1>0, <4>1, Params, WordOffset
    <3>2. i + g_exe_base = g_exe_base + i
      BY <1>2
    <3> QED
      BY <3>1, <3>2, <2>1
  <2> QED
    BY <2>3, <2>4
<1> QED
  BY <1>0, <1>1, <1>2, <1>4, <1>5

LEMMA ShapeGetData == Shape /\ GetData => Shape'
<1> SUFFICES ASSUME Shape, GetData PROVE Shape'
  OBVIOUS
<1>0. TypeOK /\ pc = "load" /\ g_exe_size = 0 /\ Len(header) = 4 /\ i < header[3]
      /\ header[1] = Signature
  BY DEF Shape, LoadShape, GetData, MoreData
<1>1. PICK w \in Word :
        /\ StreamGet(w)
        /\ IF Mapped(Target)
           THEN /\ mem' = [mem EXCEPT ![Target \div WordBytes] = w]
                /\ header' = [header EXCEPT ![4] = (@ + w) % WordMod]
                /\ i' = (i + WordBytes) % WordMod /\ UNCHANGED pc
           ELSE pc' = "halted" /\ UNCHANGED <<mem, header, i>>
  BY DEF GetData
<1>2. /\ header[2] = g_exe_base /\ \A m \in 1 .. 4 : header[m] \in Word
      /\ g_exe_base \in Nat /\ i \in Nat /\ i % WordBytes = 0
      /\ Target = g_exe_base + i
      /\ Mapped(Target) => /\ g_exe_base % WordBytes = 0
                           /\ g_exe_base + i + WordBytes <= MemBytes
  BY <1>0, TargetIs
<1>3. g_flash_addr' \in 0 .. FlashBytes
      /\ (stream = "flash" => g_flash_addr' = g_flash_addr + WordBytes)
  <2>1. CASE stream = "flash"
    <3>1. g_flash_addr = HeaderBytes + i
      BY <1>0, <2>1, Sizes DEF Shape, LoadShape
    <3>2. i <= MemBytes
      BY <1>2, Params DEF Shape, LoadShape, GetData
    <3>3. g_flash_addr + WordBytes \in 0 .. FlashBytes
      BY <1>2, <3>1, <3>2, Sizes, Params
    <3> QED
      BY <1>0, <1>1, <2>1, <3>3, AddressMoves
  <2>2. CASE stream = "uart"
    BY <1>0, <1>1, <2>2, AddressMoves DEF TypeOK
  <2> QED
    BY <1>0, <2>1, <2>2 DEF TypeOK
<1>4. CASE Mapped(Target)
  <2>1. i' = i + WordBytes /\ i' \in Word
    <3>1. i + WordBytes \in 0 .. WordMod - 1
      BY <1>2, <1>4, Sizes, Params
    <3> QED
      BY <1>1, <1>4, <3>1, SmallRemainder, Sizes
  <2>2. mem' \in [0 .. MemBytes \div WordBytes - 1 -> Word]
    BY <1>0, <1>1, <1>4 DEF TypeOK
  <2>3. /\ header' \in Seq(Word) /\ Len(header') = 4
        /\ header'[1] = header[1] /\ header'[2] = header[2] /\ header'[3] = header[3]
    <3>1. (header[4] + w) % WordMod \in Word
      <4>1. header[4] + w \in Int /\ WordMod \in Nat \ {0}
        BY <1>2, Sizes, Params
      <4> QED
        BY <4>1, Division, Sizes
    <3>2. header' = [header EXCEPT ![4] = (header[4] + w) % WordMod]
      BY <1>1, <1>4
    <3>3. header \in Seq(Word) /\ Len(header) = 4
      BY <1>0 DEF TypeOK
    <3> DEFINE sum == (header[4] + w) % WordMod
    <3> HIDE DEF sum
    <3>4. sum \in Word /\ header' = [header EXCEPT ![4] = sum]
      BY <3>1, <3>2 DEF sum
    <3> QED
      BY ONLY <3>3, <3>4, LastReplaced
  <2>4. pc' = pc /\ i' % WordBytes = 0
    <3>1. i \in Int
      BY <1>2
    <3> QED
      BY <1>1, <1>2, <1>4, <2>1, <3>1, Params, NextWord
  <2>5. TypeOK'
    <3>1. Len(header') <= 4
      BY <2>3
    <3> QED
      BY <1>0, <1>3, <2>1, <2>2, <2>3, <2>4, <3>1 DEF GetData, TypeOK
  <2>6. LoadShape'
    <3>1. i' < header'[3] + WordBytes /\ g_exe_base + i' <= MemBytes
      BY <1>0, <1>2, <1>4, <2>1, <2>3, Params, Sizes
    <3>2. stream = "flash" => g_flash_addr' = Len(header') * WordBytes + i'
      BY <1>0, <1>2, <1>3, <2>1, <2>3, Params, Sizes DEF Shape, LoadShape
    <3>3. g_exe_size' = 0 /\ g_exe_base' = g_exe_base /\ stream' = stream
      BY <1>0 DEF GetData
    <3>4. Len(header') = 4
      BY <2>3
    <3> QED
      BY <1>0, <1>2, <1>4, <2>3, <2>4, <3>1, <3>2, <3>3, <3>4 DEF LoadShape
  <2>7. StoreShape'
    BY <1>0, <2>4 DEF GetData, StoreShape
  <2> QED
    BY <2>5, <2>6, <2>7 DEF Shape
<1>5. CASE ~Mapped(Target)
  <2>1. TypeOK'
    BY <1>0, <1>1, <1>3, <1>5 DEF GetData, TypeOK
  <2>2. LoadShape' /\ StoreShape'
    BY <1>0, <1>1, <1>5 DEF GetData, LoadShape, StoreShape
  <2> QED
    BY <2>1, <2>2 DEF Shape
<1> QED
  BY <1>4, <1>5

LEMMA ShapeFinishLoad == Shape /\ FinishLoad => Shape'
<1> SUFFICES ASSUME Shape, FinishLoad PROVE Shape'
  OBVIOUS
<1>0. TypeOK /\ pc = "load" /\ g_exe_size = 0 /\ Len(header) = 4 /\ ~(i < header[3])
  BY DEF Shape, LoadShape, FinishLoad, MoreData
<1>1. /\ header[2] = g_exe_base /\ \A m \in 1 .. 4 : header[m] \in Word
      /\ g_exe_base \in Nat /\ i \in Nat /\ i % WordBytes = 0
  BY <1>0, TargetIs
<1>2. header[3] \in Nat
  BY <1>1, Sizes
<1>3. header[3] # 0 => Fits(g_exe_base, header[3])
  <2> SUFFICES ASSUME header[3] # 0 PROVE Fits(g_exe_base, header[3])
    OBVIOUS
  <2>1. i # 0 /\ i >= header[3]
    BY <1>0, <1>1, <1>2
  <2>2. i < header[3] + WordBytes /\ g_exe_base % WordBytes = 0 /\ g_exe_base + i <= MemBytes
    BY <1>0, <2>1 DEF Shape, LoadShape
  <2>3. i = Padded(header[3])
    BY <1>1, <1>2, <2>1, <2>2, WithinSize
  <2> QED
    BY <2>2, <2>3 DEF Fits
<1>4. pc' \in {"console", "app", "anyway", "halted"}
  BY <1>0, ZenonT(30) DEF FinishLoad, Failed
<1>5. g_exe_size' \in {g_exe_size, header[3]}
  BY ZenonT(30) DEF FinishLoad
<1>6. TypeOK'
  <2>1. 0 \in Word
    BY Params, Sizes
  <2>2. g_exe_size' \in Word
    BY <1>0, <1>1, <1>5 DEF TypeOK
  <2> QED
    BY <1>0, <1>4, <2>1, <2>2, NoHeader DEF FinishLoad, LeaveLocals, TypeOK
<1>7. StoreShape'
  <2>1. g_exe_base' = g_exe_base
    BY DEF FinishLoad
  <2> QED
    BY <1>0, <1>3, <1>4, <1>5, <2>1 DEF StoreShape
<1>8. LoadShape'
  BY <1>4 DEF LoadShape
<1> QED
  BY <1>6, <1>7, <1>8 DEF Shape

(* What is in memory fits into the memory, and into the flash.             *)
LEMMA ExeFits ==
  ASSUME Shape, g_exe_size # 0
  PROVE  /\ g_exe_base \in Nat /\ g_exe_size \in Nat \ {0}
         /\ g_exe_base % WordBytes = 0 /\ Padded(g_exe_size) \in Nat
         /\ g_exe_base + Padded(g_exe_size) <= MemBytes
         /\ g_exe_size <= MemBytes /\ Padded(g_exe_size) <= MemBytes
         /\ HeaderBytes + Padded(g_exe_size) < FlashBytes
         /\ Padded(g_exe_size) < WordMod
<1>1. TypeOK /\ Fits(g_exe_base, g_exe_size)
  BY DEF Shape, StoreShape
<1>2. g_exe_base \in Nat /\ g_exe_size \in Nat
  BY <1>1, Sizes DEF TypeOK
<1>3. Padded(g_exe_size) \in Nat /\ g_exe_size <= Padded(g_exe_size)
  BY <1>2, PaddedSize
<1> QED
  BY <1>1, <1>2, <1>3, Params, Sizes DEF Fits

LEMMA ShapeCmdStore == Shape /\ CmdStore => Shape'
<1> SUFFICES ASSUME Shape, CmdStore PROVE Shape'
  OBVIOUS
<1>0. TypeOK /\ g_exe_size # 0 /\ 0 \in Word /\ FlashBytes \in Nat /\ pc' = "confirm"
  BY Params, Sizes DEF Shape, CmdStore
<1> DEFINE h == <<Signature, g_exe_base, g_exe_size, 0>>
<1>1. /\ h \in Seq(Word) /\ Len(h) = 4 /\ h[1] = Signature /\ h[2] = g_exe_base
      /\ h[3] = g_exe_size /\ h[4] = 0
  BY <1>0, BootAssumption DEF TypeOK
<1>2. header' = h /\ i' = 0 /\ g_flash_addr' = 0
  BY DEF CmdStore
<1> HIDE DEF h
<1>3. Len(header') = 4 /\ Len(header') <= 4
  <2>1. Len(header') = 4
    BY <1>1, <1>2
  <2>2. 4 <= 4
    OBVIOUS
  <2> QED
    BY <2>1, <2>2
<1>4. UNCHANGED <<storeUnchanged, flash, sectors>>
  BY DEF CmdStore
<1>5. TypeOK'
  BY <1>0, <1>1, <1>2, <1>3, <1>4 DEF TypeOK, storeUnchanged
<1>6. LoadShape' /\ StoreShape'
  BY <1>0, <1>1, <1>2, <1>3, <1>4 DEF LoadShape, StoreShape, Shape, storeUnchanged
<1> QED
  BY <1>5, <1>6 DEF Shape

LEMMA ShapeConfirm == Shape /\ Confirm => Shape'
<1> SUFFICES ASSUME Shape, Confirm PROVE Shape'
  OBVIOUS
<1>0. TypeOK /\ pc = "confirm" /\ g_exe_size # 0
  BY DEF Shape, StoreShape, Confirm
<1>1. g_exe_size \in Nat /\ g_exe_size <= MemBytes
  BY <1>0, ExeFits
<1>2. SectorsToErase \in 0 .. Sectors /\ ErasedBytes(g_exe_size) \in Nat
      /\ ErasedBytes(g_exe_size) = SectorsToErase * SectorBytes
  BY <1>1, SectorsSuffice DEF SectorsToErase, ErasedBytes
<1>3. /\ pc' = "erase" /\ g_flash_addr' = 0 /\ sectors' = SectorsToErase
      /\ UNCHANGED <<storeUnchanged, flash, header, i, stored>>
  BY DEF Confirm
<1>4. TypeOK'
  BY <1>0, <1>2, <1>3, Sizes DEF TypeOK, storeUnchanged
<1>5. g_flash_addr' + sectors' * SectorBytes = ErasedBytes(g_exe_size')
  BY <1>2, <1>3 DEF storeUnchanged
<1>6. LoadShape' /\ StoreShape'
  BY <1>0, <1>3, <1>5 DEF LoadShape, StoreShape, Shape, storeUnchanged
<1> QED
  BY <1>4, <1>6 DEF Shape

LEMMA ShapeEraseSector == Shape /\ EraseSector => Shape'
<1> SUFFICES ASSUME Shape, EraseSector PROVE Shape'
  OBVIOUS
<1>0. /\ TypeOK /\ pc = "erase" /\ g_exe_size # 0 /\ sectors > 0
      /\ g_flash_addr + sectors * SectorBytes = ErasedBytes(g_exe_size)
  BY DEF Shape, StoreShape, EraseSector
<1>1. ErasedBytes(g_exe_size) \in Nat /\ ErasedBytes(g_exe_size) <= FlashBytes
  BY <1>0, ExeFits, SectorsSuffice
<1>2. /\ flash' = ErasedIn(Sector(g_flash_addr)) /\ stored' = NoImage
      /\ sectors' = sectors - 1 /\ g_flash_addr' = g_flash_addr + SectorBytes
      /\ UNCHANGED <<storeUnchanged, pc, header, i>>
  BY DEF EraseSector
<1>3. sectors \in Nat /\ sectors - 1 \in Nat /\ sectors' \in 0 .. Sectors
      /\ g_flash_addr \in Nat /\ SectorBytes \in Nat
  BY <1>0, <1>2, Params, Sizes DEF TypeOK
<1>4. (sectors - 1) * SectorBytes \in Nat
      /\ (sectors - 1) * SectorBytes + SectorBytes = sectors * SectorBytes
  BY <1>3, NatProduct
<1>5. g_flash_addr' + sectors' * SectorBytes = ErasedBytes(g_exe_size)
      /\ g_flash_addr' \in 0 .. FlashBytes
  BY <1>0, <1>1, <1>2, <1>3, <1>4, Sizes
<1>6. flash' \in [0 .. FlashBytes - 1 -> Byte]
  BY <1>0, <1>2, Bytes DEF TypeOK, ErasedIn
<1>7. TypeOK'
  BY <1>0, <1>2, <1>3, <1>5, <1>6 DEF TypeOK, storeUnchanged
<1>8. LoadShape' /\ StoreShape'
  BY <1>0, <1>2, <1>5 DEF LoadShape, StoreShape, Shape, storeUnchanged
<1> QED
  BY <1>7, <1>8 DEF Shape

LEMMA ShapeErased == Shape /\ Erased => Shape'
<1> SUFFICES ASSUME Shape, Erased PROVE Shape'
  OBVIOUS
<1>0. TypeOK /\ pc = "erase" /\ g_exe_size # 0 /\ i = 0
  BY DEF Shape, StoreShape, Erased
<1>1. pc' = "store" /\ g_flash_addr' = HeaderBytes
      /\ UNCHANGED <<storeUnchanged, flash, header, i, sectors, stored>>
  BY DEF Erased
<1>2. HeaderBytes \in 0 .. FlashBytes /\ HeaderBytes + 0 = HeaderBytes
      /\ 0 <= Padded(g_exe_size)
  BY <1>0, ExeFits, Params, Sizes
<1>3. TypeOK'
  BY <1>0, <1>1, <1>2 DEF TypeOK, storeUnchanged
<1>4. LoadShape' /\ StoreShape'
  BY <1>0, <1>1, <1>2 DEF LoadShape, StoreShape, Shape, storeUnchanged
<1> QED
  BY <1>3, <1>4 DEF Shape

(* One byte programmed, at an address the flash has.                       *)
LEMMA PutByte ==
  ASSUME TypeOK, NEW word, Put(word), g_flash_addr < FlashBytes
  PROVE  /\ flash' = [flash EXCEPT ![g_flash_addr] =
                        Programmed(@, ByteOf(word, i % WordBytes))]
         /\ g_flash_addr \in 0 .. FlashBytes - 1 /\ g_flash_addr' = g_flash_addr + 1
         /\ i' = i + 1 /\ flash' \in [0 .. FlashBytes - 1 -> Byte]
<1>1. g_flash_addr \in 0 .. FlashBytes - 1 /\ FlashBytes \in Nat \ {0}
      /\ g_flash_addr + 1 \in 0 .. AddressMod - 1
  BY Params, Sizes DEF TypeOK
<1>2. g_flash_addr % FlashBytes = g_flash_addr
      /\ (g_flash_addr + 1) % AddressMod = g_flash_addr + 1
  BY <1>1, Params, SmallRemainder
<1>3. flash[g_flash_addr] \in Byte
  BY <1>1 DEF TypeOK
<1>4. Programmed(flash[g_flash_addr], ByteOf(word, i % WordBytes)) \in Byte
  BY <1>3, Bytes
<1>5. flash' = [flash EXCEPT ![g_flash_addr] =
                  Programmed(flash[g_flash_addr], ByteOf(word, i % WordBytes))]
  BY <1>2 DEF Put
<1>6. flash' \in [0 .. FlashBytes - 1 -> Byte]
  BY <1>4, <1>5 DEF TypeOK
<1> QED
  BY <1>1, <1>2, <1>5, <1>6 DEF Put

LEMMA ShapePutData == Shape /\ PutData => Shape'
<1> SUFFICES ASSUME Shape, PutData PROVE Shape'
  OBVIOUS
<1> DEFINE word == mem[(g_exe_base + i) \div WordBytes]
<1>0. /\ TypeOK /\ pc = "store" /\ g_exe_size # 0 /\ Len(header) = 4
      /\ g_flash_addr = HeaderBytes + i /\ i <= Padded(g_exe_size)
      /\ i < g_exe_size \/ i % WordBytes # 0
  BY DEF Shape, StoreShape, PutData
<1>1. i \in Nat /\ Padded(g_exe_size) \in Nat /\ g_exe_base \in Nat
  BY <1>0, ExeFits, Sizes DEF TypeOK
<1>2. i < Padded(g_exe_size)
  <2>1. Padded(g_exe_size) % WordBytes = 0 /\ g_exe_size <= Padded(g_exe_size)
        /\ g_exe_size \in Nat
    BY <1>0, ExeFits, PaddedSize
  <2> QED
    BY <1>0, <1>1, <2>1
<1>3. Put(word) /\ UNCHANGED <<storeUnchanged, pc, sectors, stored>>
      /\ header' = IF i % WordBytes = 0
                   THEN [header EXCEPT ![4] = (@ + word) % WordMod] ELSE header
  BY DEF PutData
<1>4. g_flash_addr < FlashBytes /\ i + 1 \in Word
  BY <1>0, <1>1, <1>2, ExeFits, Sizes, Params
<1>5. /\ g_flash_addr \in 0 .. FlashBytes - 1 /\ g_flash_addr' = g_flash_addr + 1
      /\ i' = i + 1 /\ flash' \in [0 .. FlashBytes - 1 -> Byte]
  BY ONLY <1>0, <1>3, <1>4, PutByte
<1>6. word \in Word
  <2>1. (g_exe_base + i) \div WordBytes \in 0 .. MemBytes \div WordBytes - 1
    <3>1. PICK n \in Int : MemBytes = n * WordBytes /\ MemBytes \div WordBytes = n
      BY Params, Sizes, WordStart
    <3>2. g_exe_base + i < n * WordBytes /\ g_exe_base + i \in Nat
      BY <1>0, <1>1, <1>2, <3>1, ExeFits, Params
    <3> DEFINE a == g_exe_base + i
    <3> HIDE DEF a
    <3>3. a \in Nat /\ a < n * WordBytes
      BY <3>2 DEF a
    <3>4. a \div WordBytes \in 0 .. n - 1
      BY <3>3, Params, WordBelow
    <3> QED
      BY <3>1, <3>4 DEF a
  <2> QED
    BY <1>0, <2>1 DEF TypeOK
<1>7. /\ header' \in Seq(Word) /\ Len(header') = 4
      /\ header'[1] = header[1] /\ header'[2] = header[2] /\ header'[3] = header[3]
  <2>1. header \in Seq(Word) /\ header[4] \in Word
    <3>1. \A m \in 1 .. 4 : header[m] \in Word
      BY <1>0, ElementOfSeq DEF TypeOK
    <3> QED
      BY <1>0, <3>1 DEF TypeOK
  <2> DEFINE sum == (header[4] + word) % WordMod
  <2>2. sum \in Word
    <3>1. header[4] + word \in Int /\ WordMod \in Nat \ {0}
      BY <1>6, <2>1, Sizes, Params
    <3> QED
      BY <3>1, Division, Sizes
  <2> HIDE DEF sum, word
  <2>3. header' = [header EXCEPT ![4] = sum] \/ header' = header
    BY <1>3 DEF sum
  <2>4. ASSUME header' = [header EXCEPT ![4] = sum]
        PROVE  /\ header' \in Seq(Word) /\ Len(header') = 4
               /\ header'[1] = header[1] /\ header'[2] = header[2] /\ header'[3] = header[3]
    BY ONLY <1>0, <2>1, <2>2, <2>4, LastReplaced
  <2> QED
    BY <1>0, <2>1, <2>3, <2>4
<1>8. TypeOK'
  <2>1. Len(header') <= 4 /\ g_flash_addr' \in 0 .. FlashBytes
    <3>1. 4 <= 4
      OBVIOUS
    <3>2. g_flash_addr' \in 0 .. FlashBytes
      BY <1>5, Sizes
    <3> QED
      BY <1>7, <3>1, <3>2
  <2> QED
    BY <1>0, <1>3, <1>4, <1>5, <1>7, <2>1 DEF TypeOK, storeUnchanged
<1>9. g_flash_addr' = HeaderBytes + i' /\ i' <= Padded(g_exe_size)
  BY <1>0, <1>1, <1>2, <1>5, Params, Sizes
<1>10. LoadShape' /\ StoreShape'
  BY <1>0, <1>3, <1>5, <1>7, <1>9 DEF LoadShape, StoreShape, Shape, storeUnchanged
<1> QED
  BY <1>8, <1>10 DEF Shape

LEMMA ShapeAllData == Shape /\ AllData => Shape'
<1> SUFFICES ASSUME Shape, AllData PROVE Shape'
  OBVIOUS
<1>0. TypeOK /\ pc = "store" /\ g_exe_size # 0
  BY DEF Shape, StoreShape, AllData
<1>1. pc' = "seal" /\ g_flash_addr' = 0 /\ i' = 0
      /\ UNCHANGED <<storeUnchanged, flash, header, sectors, stored>>
  BY DEF AllData
<1>2. 0 \in Word /\ 0 \in 0 .. FlashBytes /\ 0 <= HeaderBytes
  BY Params, Sizes
<1>3. TypeOK'
  BY <1>0, <1>1, <1>2 DEF TypeOK, storeUnchanged
<1>4. LoadShape' /\ StoreShape'
  BY <1>0, <1>1, <1>2 DEF LoadShape, StoreShape, Shape, storeUnchanged
<1> QED
  BY <1>3, <1>4 DEF Shape

LEMMA ShapePutHeader == Shape /\ PutHeader => Shape'
<1> SUFFICES ASSUME Shape, PutHeader PROVE Shape'
  OBVIOUS
<1> DEFINE n == i \div WordBytes + 1
<1> DEFINE word == IF n = 4 THEN Complement(header[4]) ELSE header[n]
<1>0. TypeOK /\ pc = "seal" /\ g_exe_size # 0 /\ g_flash_addr = i /\ i < HeaderBytes
  BY DEF Shape, StoreShape, PutHeader
<1>1. Put(word) /\ UNCHANGED <<storeUnchanged, pc, header, sectors, stored>>
  BY DEF PutHeader
<1>2. i \in Nat /\ g_flash_addr < FlashBytes /\ i + 1 \in Word /\ i + 1 <= HeaderBytes
  BY <1>0, Params, Sizes DEF TypeOK
<1>3. /\ g_flash_addr \in 0 .. FlashBytes - 1 /\ g_flash_addr' = g_flash_addr + 1
      /\ i' = i + 1 /\ flash' \in [0 .. FlashBytes - 1 -> Byte]
  BY ONLY <1>0, <1>1, <1>2, PutByte
<1>4. g_flash_addr' \in 0 .. FlashBytes
  BY <1>3, Sizes
<1>5. TypeOK'
  BY <1>0, <1>1, <1>2, <1>3, <1>4 DEF TypeOK, storeUnchanged
<1>6. LoadShape' /\ StoreShape'
  BY <1>0, <1>1, <1>2, <1>3 DEF LoadShape, StoreShape, Shape, storeUnchanged
<1> QED
  BY <1>5, <1>6 DEF Shape

LEMMA ShapeStored == Shape /\ Stored => Shape'
<1> SUFFICES ASSUME Shape, Stored PROVE Shape'
  OBVIOUS
<1>0. TypeOK /\ 0 \in Word
  BY Params, Sizes DEF Shape
<1>1. pc' = "console" /\ header' = <<>> /\ i' = 0
      /\ UNCHANGED <<storeUnchanged, g_flash_addr, flash, sectors>>
  BY DEF Stored, LeaveLocals
<1>2. TypeOK'
  BY <1>0, <1>1, NoHeader DEF TypeOK, storeUnchanged
<1>3. LoadShape' /\ StoreShape'
  BY <1>1 DEF LoadShape, StoreShape, Shape, storeUnchanged
<1> QED
  BY <1>2, <1>3 DEF Shape

LEMMA ShapeStutters == Shape /\ UNCHANGED vars => Shape'
BY DEF Shape, TypeOK, LoadShape, StoreShape, vars, globals, locals, world

LEMMA ShapeKept == Shape /\ [Next]_vars => Shape'
<1> SUFFICES ASSUME Shape, [Next]_vars PROVE Shape'
  OBVIOUS
<1>0. file \in Images \cup {NoImage}
  BY DEF Shape, TypeOK
<1>1. CASE AutoBoot \/ CmdLoad
  <2>1. PICK byAuto \in BOOLEAN : StartLoad("flash", byAuto) /\ file' = file
    BY <1>1 DEF AutoBoot, CmdLoad
  <2> QED
    BY <1>0, <2>1, ShapeStartLoad
<1>2. CASE CmdUpload
  <2>1. StartLoad("uart", FALSE) /\ file' \in Images
    BY <1>2 DEF CmdUpload
  <2> QED
    BY <2>1, ShapeStartLoad
<1> QED
  BY <1>1, <1>2, ShapeRestart, ShapeConsole, ShapeGetHeader, ShapeGetData, ShapeFinishLoad,
     ShapeCmdStore, ShapeConfirm, ShapeEraseSector, ShapeErased, ShapePutData,
     ShapeAllData, ShapePutHeader, ShapeStored, ShapeStutters
     DEF Next, Console, Answer, Load, Store

LEMMA ShapeLayer == Spec => []Shape
BY ShapeInit, ShapeKept, PTL DEF Spec

(* No counter leaves its type, no address the flash and no store of the    *)
(* loader the memory, whatever header it reads: each word is put at the    *)
(* base plus an offset that has not wrapped, or traps.                     *)
THEOREM BootTypes == Spec => []TypeOK
<1>1. Shape => TypeOK
  BY DEF Shape
<1> QED
  BY <1>1, ShapeLayer, PTL

-----------------------------------------------------------------------------
(* Storing                                                                 *)

LEMMA ExeWords ==
  ASSUME Shape, g_exe_size # 0
  PROVE  /\ Exe \in [1 .. WordsOf(g_exe_size) -> Word]
         /\ \A k \in 0 .. Padded(g_exe_size) - 1 :
              /\ k \div WordBytes + 1 \in 1 .. WordsOf(g_exe_size)
              /\ Exe[k \div WordBytes + 1] = mem[(g_exe_base + k) \div WordBytes]
<1> DEFINE n == WordsOf(g_exe_size)
<1> DEFINE first == g_exe_base \div WordBytes
<1>0. /\ TypeOK /\ g_exe_base \in Nat /\ g_exe_size \in Nat /\ g_exe_base % WordBytes = 0
      /\ Padded(g_exe_size) \in Nat /\ g_exe_base + Padded(g_exe_size) <= MemBytes
  BY ExeFits DEF Shape
<1>1. n \in Nat /\ Padded(g_exe_size) = n * WordBytes
  BY <1>0, PaddedSize DEF Padded
<1>2. PICK last \in Int : MemBytes = last * WordBytes /\ MemBytes \div WordBytes = last
  BY Params, Sizes, WordStart
<1>3. PICK f \in Int : g_exe_base = f * WordBytes /\ first = f
  <2>1. g_exe_base \in Int
    BY <1>0
  <2> QED
    BY <1>0, <2>1, Params, WordStart
<1>4. f \in Nat
  BY <1>0, <1>3, Params, NatQuotient
<1> HIDE DEF n, first
<1>5. f + n <= last
  <2> SUFFICES ASSUME last < f + n PROVE FALSE
    BY <1>1, <1>2, <1>4
  <2>1. last * WordBytes + WordBytes <= (f + n) * WordBytes
    BY <1>1, <1>2, <1>4, Params, Multiples
  <2>2. (f + n) * WordBytes = f * WordBytes + n * WordBytes
    BY <1>1, <1>4, Params
  <2> QED
    BY <1>0, <1>1, <1>2, <1>3, <2>1, <2>2, Params, Product
<1>6. ASSUME NEW m \in 1 .. n PROVE mem[first + m - 1] \in Word
  <2>1. first + m - 1 \in 0 .. MemBytes \div WordBytes - 1
    BY <1>1, <1>2, <1>3, <1>4, <1>5
  <2> QED
    BY <1>0, <2>1 DEF TypeOK
<1>7. Exe = [m \in 1 .. n |-> mem[first + m - 1]]
  BY DEF Exe, InMemory, n, first
<1>8. ASSUME NEW k \in 0 .. Padded(g_exe_size) - 1
      PROVE  /\ k \div WordBytes + 1 \in 1 .. n
             /\ Exe[k \div WordBytes + 1] = mem[(g_exe_base + k) \div WordBytes]
  <2>1. k \in Nat /\ k < n * WordBytes /\ n \in Int
    BY <1>0, <1>1
  <2>2. k \div WordBytes \in 0 .. n - 1
    BY <1>1, <2>1, Params, WordBelow
  <2>3. (g_exe_base + k) \div WordBytes = first + k \div WordBytes
    <3>1. g_exe_base \in Int /\ k \in Int
      BY <1>0, <2>1
    <3> QED
      BY <1>0, <3>1, Params, WordOffset DEF first
  <2>4. k \div WordBytes + 1 \in 1 .. n
    BY <1>1, <2>2
  <2>5. first + (k \div WordBytes + 1) - 1 = first + k \div WordBytes
    BY <1>3, <2>2
  <2> QED
    BY <1>7, <2>3, <2>4, <2>5
<1> QED
  BY <1>6, <1>7, <1>8 DEF n

(* One more word, one more sum. *)
LEMMA SumsGrow ==
  ASSUME NEW sums, NEW words, NEW n \in Nat, PartialSums(sums, words, n),
         words[n + 1] \in Word
  PROVE  \E more : /\ PartialSums(more, words, n + 1)
                   /\ more[n + 1] = (sums[n] + words[n + 1]) % WordMod
<1> DEFINE sum == (sums[n] + words[n + 1]) % WordMod
<1>1. sums \in [0 .. n -> Word] /\ sums[0] = 0
      /\ \A k \in 1 .. n : sums[k] = (sums[k - 1] + words[k]) % WordMod
  BY DEF PartialSums
<1>2. sum \in Word
  <2>1. sums[n] \in Word
    BY <1>1
  <2>2. sums[n] + words[n + 1] \in Int /\ WordMod \in Nat \ {0}
    BY <2>1, Sizes, Params
  <2> QED
    BY <2>2, Division, Sizes
<1> DEFINE more == [k \in 0 .. n + 1 |-> IF k = n + 1 THEN sum ELSE sums[k]]
<1>3. more \in [0 .. n + 1 -> Word] /\ more[0] = 0 /\ more[n + 1] = sum
  <2> HIDE DEF sum
  <2> QED
    BY <1>1, <1>2
<1>4. ASSUME NEW k \in 1 .. n + 1
      PROVE  more[k] = (more[k - 1] + words[k]) % WordMod
  <2>1. CASE k = n + 1
    <3>1. more[k] = sum /\ more[k - 1] = sums[n]
      BY <2>1
    <3> QED
      BY <2>1, <3>1
  <2>2. CASE k \in 1 .. n
    <3>1. more[k] = sums[k] /\ more[k - 1] = sums[k - 1]
      BY <2>2
    <3> QED
      BY <1>1, <2>2, <3>1
  <2> QED
    BY <2>1, <2>2
<1> HIDE DEF more
<1> QED
  BY <1>3, <1>4 DEF PartialSums

LEMMA NoWordsYet ==
  ASSUME Len(header) = 4, header[4] = 0
  PROVE  Summed(WordsOf(0))
<1>1. WordsOf(0) = 0
  <2>1. 0 % WordBytes = 0 /\ 0 \div WordBytes = 0 /\ 0 \in Nat
    BY Params, SmallRemainder
  <2> QED
    BY <2>1, AlignedSize
<1> DEFINE sums == [k \in 0 .. 0 |-> 0]
<1>2. 0 \in Word
  BY Params, Sizes
<1>3. sums \in [0 .. 0 -> Word] /\ sums[0] = 0 /\ 1 .. 0 = {}
  BY <1>2
<1> HIDE DEF sums
<1>4. PartialSums(sums, Exe, 0)
  BY <1>3 DEF PartialSums
<1> QED
  BY <1>1, <1>3, <1>4 DEF Summed

(* Outside of a store nothing is asked. *)
LEMMA StoreOutside ==
  ASSUME pc' \notin {"erase", "store", "seal"}
  PROVE  StoreFollows'
BY DEF StoreFollows

LEMMA StoreConfirm == Shape /\ Confirm => StoreFollows'
<1> SUFFICES ASSUME Shape, Confirm PROVE StoreFollows'
  OBVIOUS
<1>1. pc' = "erase" /\ g_flash_addr' = 0
  BY DEF Confirm
<1>2. 0 .. 0 - 1 = {}
  OBVIOUS
<1> QED
  BY <1>1, <1>2 DEF StoreFollows, Clean

LEMMA StoreEraseSector == Shape /\ StoreFollows /\ EraseSector => StoreFollows'
<1> SUFFICES ASSUME Shape, StoreFollows, EraseSector PROVE StoreFollows'
  OBVIOUS
<1>0. /\ TypeOK /\ pc = "erase" /\ Clean(0, g_flash_addr - 1) /\ pc' = "erase"
      /\ flash' = ErasedIn(Sector(g_flash_addr)) /\ stored' = NoImage
      /\ g_flash_addr' = g_flash_addr + SectorBytes
  BY DEF Shape, StoreFollows, EraseSector
<1>1. TypeOK'
  BY ShapeEraseSector DEF Shape
<1>2. ASSUME NEW k \in 0 .. g_flash_addr' - 1 PROVE flash'[k] = ErasedByte
  <2>1. /\ g_flash_addr \in Nat /\ g_flash_addr + SectorBytes <= FlashBytes
        /\ SectorBytes \in Nat /\ FlashBytes \in Nat
    BY <1>0, <1>1, Params, Sizes DEF TypeOK
  <2>2. k \in 0 .. FlashBytes - 1
    BY <1>0, <2>1
  <2>3. DOMAIN flash = 0 .. FlashBytes - 1
    BY <1>0 DEF TypeOK
  <2>4. flash'[k] = IF k \in Sector(g_flash_addr) THEN ErasedByte ELSE flash[k]
    BY <1>0, <2>2, <2>3 DEF ErasedIn
  <2>5. k \in Sector(g_flash_addr) \/ k \in 0 .. g_flash_addr - 1
    BY <1>0, <2>1, <2>2 DEF Sector
  <2> QED
    BY <1>0, <2>4, <2>5 DEF Clean
<1> QED
  BY <1>0, <1>2 DEF StoreFollows, Clean

LEMMA StoreErased == Shape /\ StoreFollows /\ Erased => StoreFollows'
<1> SUFFICES ASSUME Shape, StoreFollows, Erased PROVE StoreFollows'
  OBVIOUS
<1> DEFINE e == ErasedBytes(g_exe_size)
<1>0. /\ TypeOK /\ pc = "erase" /\ sectors = 0 /\ g_exe_size # 0
      /\ g_flash_addr + sectors * SectorBytes = e /\ Len(header) = 4 /\ header[4] = 0 /\ i = 0
      /\ Clean(0, g_flash_addr - 1) /\ (g_flash_addr = 0 \/ stored = NoImage)
  BY DEF Shape, StoreShape, StoreFollows, Erased
<1>1. pc' = "store" /\ g_flash_addr' = HeaderBytes
      /\ UNCHANGED <<storeUnchanged, flash, header, i, sectors, stored>>
  BY DEF Erased
<1>2. e \in Nat \ {0} /\ g_exe_size \in Nat
  BY <1>0, ExeFits, SectorsSuffice
<1>3. g_flash_addr = e /\ stored = NoImage
  <2>1. 0 * SectorBytes = 0 /\ g_flash_addr \in Nat
    BY <1>0, Params, Sizes DEF TypeOK
  <2> HIDE DEF e
  <2> QED
    BY <1>0, <1>2, <2>1
<1>4. ASSUME Room(g_exe_size)
      PROVE  /\ Clean(0, HeaderBytes - 1) /\ Clean(HeaderBytes, e - 1)
             /\ DataInFlash(Exe, 0) /\ Summed(WordsOf(0))
  <2>1. HeaderBytes <= e /\ HeaderBytes \in Nat
    BY <1>2, <1>4, Params, Sizes DEF Room, ErasedBytes
  <2>2. Clean(0, e - 1)
    BY <1>0, <1>3
  <2>3. \A k \in 0 .. HeaderBytes - 1 : k \in 0 .. e - 1
    BY <1>2, <2>1
  <2>4. \A k \in HeaderBytes .. e - 1 : k \in 0 .. e - 1
    BY <1>2, <2>1
  <2>5. Clean(0, HeaderBytes - 1) /\ Clean(HeaderBytes, e - 1)
    BY <2>2, <2>3, <2>4 DEF Clean
  <2>6. 0 .. 0 - 1 = {}
    OBVIOUS
  <2> QED
    BY <1>0, <2>5, <2>6, NoWordsYet DEF DataInFlash
<1> QED
  BY <1>0, <1>1, <1>3, <1>4
     DEF StoreFollows, storeUnchanged, Clean, DataInFlash, Summed, Exe, InMemory

LEMMA StoreAllData == Shape /\ StoreFollows /\ AllData => StoreFollows'
<1> SUFFICES ASSUME Shape, StoreFollows, AllData PROVE StoreFollows'
  OBVIOUS
<1>0. /\ TypeOK /\ pc = "store" /\ g_exe_size # 0 /\ i <= Padded(g_exe_size)
      /\ i >= g_exe_size /\ i % WordBytes = 0 /\ stored = NoImage
  BY DEF Shape, StoreShape, StoreFollows, AllData
<1>1. pc' = "seal" /\ g_flash_addr' = 0 /\ i' = 0
      /\ UNCHANGED <<storeUnchanged, flash, header, sectors, stored>>
  BY DEF AllData
<1>2. i \in Nat /\ g_exe_size \in Nat
  BY <1>0, ExeFits, Sizes DEF TypeOK
<1>3. i = Padded(g_exe_size)
  BY <1>0, <1>2, WithinSize
<1>4. WordsOf(i) = WordsOf(g_exe_size)
  BY <1>0, <1>2, <1>3, AlignedSize, PaddedSize
<1>5. 0 .. 0 - 1 = {}
  OBVIOUS
<1> QED
  BY <1>0, <1>1, <1>3, <1>4, <1>5
     DEF StoreFollows, storeUnchanged, Clean, HeaderInFlash, DataInFlash, Summed, Exe, InMemory

(* The checksum takes a word in with its first byte. *)
LEMMA SumFollows ==
  ASSUME Shape, PutData, Summed(WordsOf(i))
  PROVE  i' = i + 1 => Summed(WordsOf(i))'
<1> DEFINE word == mem[(g_exe_base + i) \div WordBytes]
<1> DEFINE q == i \div WordBytes
<1>0. /\ TypeOK /\ pc = "store" /\ g_exe_size # 0 /\ Len(header) = 4
      /\ i < g_exe_size \/ i % WordBytes # 0
      /\ i <= Padded(g_exe_size)
  BY DEF Shape, StoreShape, PutData
<1>1. /\ UNCHANGED <<g_exe_base, g_exe_size, mem>>
      /\ header' = IF i % WordBytes = 0
                   THEN [header EXCEPT ![4] = (@ + word) % WordMod] ELSE header
  BY DEF PutData, storeUnchanged
<1>2. i \in Nat /\ i \in Int /\ q \in Nat
  <2>1. i \in Nat /\ i \in Int
    BY <1>0, Sizes DEF TypeOK
  <2> QED
    BY <2>1, Params, NatQuotient
<1>3. Exe' = Exe
  BY <1>1 DEF Exe, InMemory
<1>4. PICK sums : PartialSums(sums, Exe, WordsOf(i)) /\ header[4] = sums[WordsOf(i)]
  BY DEF Summed
<1> SUFFICES ASSUME i' = i + 1 PROVE Summed(WordsOf(i))'
  OBVIOUS
<1>5. WordsOf(i') = WordsOf(i + 1)
  OBVIOUS
<1>6. CASE i % WordBytes = 0
  <2>1. WordsOf(i) = q /\ WordsOf(i + 1) = q + 1
    <3>1. 1 \in 1 .. WordBytes
      BY Params
    <3> QED
      BY <1>2, <1>6, <3>1, AlignedSize
  <2>2. i \in 0 .. Padded(g_exe_size) - 1
    <3>1. g_exe_size <= Padded(g_exe_size) /\ g_exe_size \in Nat /\ Padded(g_exe_size) \in Nat
      BY <1>0, ExeFits, PaddedSize
    <3> QED
      BY <1>0, <1>2, <1>6, <3>1
  <2>3. Exe[q + 1] = word /\ Exe[q + 1] \in Word
    BY <1>0, <2>2, ExeWords
  <2> HIDE DEF q, word
  <2>4. PICK more : /\ PartialSums(more, Exe, q + 1)
                    /\ more[q + 1] = (sums[q] + Exe[q + 1]) % WordMod
    BY <1>2, <1>4, <2>1, <2>3, SumsGrow
  <2>5. header'[4] = (header[4] + word) % WordMod
    <3>1. header \in Seq(Word) /\ 4 \in DOMAIN header
      BY <1>0 DEF TypeOK
    <3> QED
      BY <1>1, <1>6, <3>1
  <2>6. header'[4] = more[q + 1]
    BY <1>4, <2>1, <2>3, <2>4, <2>5
  <2> QED
    BY <1>3, <1>5, <2>1, <2>4, <2>6 DEF Summed
<1>7. CASE i % WordBytes # 0
  <2> DEFINE r == i % WordBytes
  <2> DEFINE start == q * WordBytes
  <2>1. i = start + r /\ r \in 1 .. WordBytes - 1 /\ start \in Nat
    BY <1>2, <1>7, Params, Division, NatProduct
  <2>2. start % WordBytes = 0 /\ start \div WordBytes = q
    <3>1. 0 \in 0 .. WordBytes - 1 /\ q \in Int
      BY <1>2, Params
    <3>2. (q * WordBytes + 0) % WordBytes = 0 /\ (q * WordBytes + 0) \div WordBytes = q
      BY <3>1, Params, Quotient
    <3>3. q * WordBytes + 0 = q * WordBytes
      BY <2>1
    <3> QED
      BY <3>2, <3>3
  <2> HIDE DEF start, r, q
  <2>3. r \in 1 .. WordBytes /\ r + 1 \in 1 .. WordBytes /\ start + (r + 1) = i + 1
    BY <2>1, Params
  <2>4. WordsOf(start + r) = q + 1 /\ WordsOf(start + (r + 1)) = q + 1
    BY <2>1, <2>2, <2>3, AlignedSize
  <2>5. WordsOf(i + 1) = WordsOf(i)
    BY <2>1, <2>3, <2>4
  <2> QED
    BY <1>1, <1>3, <1>4, <1>5, <1>7, <2>5 DEF Summed
<1> QED
  BY <1>6, <1>7

LEMMA StorePutData == Shape /\ StoreFollows /\ PutData => StoreFollows'
<1> SUFFICES ASSUME Shape, StoreFollows, PutData PROVE StoreFollows'
  OBVIOUS
<1> DEFINE word == mem[(g_exe_base + i) \div WordBytes]
<1> DEFINE e == ErasedBytes(g_exe_size)
<1> DEFINE a == g_flash_addr
<1>0. /\ TypeOK /\ pc = "store" /\ g_exe_size # 0
      /\ g_flash_addr = HeaderBytes + i /\ i <= Padded(g_exe_size)
      /\ i < g_exe_size \/ i % WordBytes # 0
      /\ stored = NoImage
  BY DEF Shape, StoreShape, StoreFollows, PutData
<1>1. stored = NoImage /\ stored' = NoImage /\ pc' = "store"
      /\ UNCHANGED <<g_exe_base, g_exe_size, mem>>
  BY <1>0 DEF StoreFollows, PutData, storeUnchanged
<1>2. i \in Nat /\ Padded(g_exe_size) \in Nat /\ g_exe_size \in Nat /\ HeaderBytes \in Nat
      /\ e \in Nat
  BY <1>0, ExeFits, SectorsSuffice, Sizes, Params DEF TypeOK
<1>3. i < Padded(g_exe_size)
  <2>1. Padded(g_exe_size) % WordBytes = 0 /\ g_exe_size <= Padded(g_exe_size)
    BY <1>2, PaddedSize
  <2> QED
    BY <1>0, <1>2, <2>1 DEF PutData
<1>4. g_flash_addr < FlashBytes
  BY <1>0, <1>2, <1>3, ExeFits, Sizes
<1>5. /\ flash' = [flash EXCEPT ![a] = Programmed(@, ByteOf(word, i % WordBytes))]
      /\ a \in 0 .. FlashBytes - 1 /\ a' = a + 1 /\ i' = i + 1
  <2>1. Put(word)
    BY DEF PutData
  <2> QED
    BY ONLY <1>0, <1>4, <2>1, PutByte
<1>6. ASSUME Room(g_exe_size)
      PROVE  /\ Clean(0, HeaderBytes - 1)'
             /\ \A k \in a' .. e - 1 : flash'[k] = ErasedByte
             /\ DataInFlash(Exe, i)' /\ Summed(WordsOf(i))'
  <2>1. Clean(0, HeaderBytes - 1) /\ Clean(a, e - 1) /\ DataInFlash(Exe, i)
        /\ Summed(WordsOf(i))
    BY <1>0, <1>6 DEF StoreFollows
  <2>2. HeaderBytes + Padded(g_exe_size) <= e
    BY <1>2, <1>6, RoomForWords
  <2>3. a \in a .. e - 1 /\ e <= FlashBytes /\ FlashBytes \in Nat
    <3>1. e <= FlashBytes /\ FlashBytes \in Nat
      BY <1>0, ExeFits, SectorsSuffice, Sizes
    <3> HIDE DEF e
    <3>2. HeaderBytes + i < e /\ a = HeaderBytes + i
      BY <1>0, <1>2, <1>3, <2>2
    <3> HIDE DEF a
    <3>3. a \in a .. e - 1
      BY <1>2, <3>2
    <3> QED
      BY <3>1, <3>3
  <2>4. DOMAIN flash = 0 .. FlashBytes - 1
    BY <1>0 DEF TypeOK
  <2>5. flash'[a] = ByteOf(word, i % WordBytes)
    <3>1. flash[a] = ErasedByte
      BY <2>1, <2>3 DEF Clean
    <3>2. flash'[a] = Programmed(flash[a], ByteOf(word, i % WordBytes))
      BY <1>5, <2>4
    <3> QED
      BY <3>1, <3>2, Bytes
  <2>6. \A k \in 0 .. FlashBytes - 1 : k # a => flash'[k] = flash[k]
    BY <1>5, <2>4
  <2>7. Clean(0, HeaderBytes - 1)'
    <3>1. \A k \in 0 .. HeaderBytes - 1 : k \in 0 .. FlashBytes - 1 /\ k # a
      BY <1>0, <1>2, <1>4, <2>3
    <3> QED
      BY <2>1, <2>6, <3>1, Sizes DEF Clean
  <2>8. \A k \in a' .. e - 1 : flash'[k] = ErasedByte
    <3>1. \A k \in a' .. e - 1 : k \in 0 .. FlashBytes - 1 /\ k # a /\ k \in a .. e - 1
      BY <1>0, <1>2, <1>5, <2>3
    <3> QED
      BY <2>1, <2>6, <3>1 DEF Clean
  <2>9. Exe' = Exe
    BY <1>1 DEF Exe, InMemory
  <2>10. ASSUME NEW k \in 0 .. i' - 1
         PROVE  flash'[HeaderBytes + k] =
                  ByteOf(Exe[k \div WordBytes + 1], k % WordBytes)
    <3>1. CASE k = i
      <4>1. i \in 0 .. Padded(g_exe_size) - 1
        BY <1>2, <1>3
      <4>2. Exe[i \div WordBytes + 1] = word
        BY <1>0, <4>1, ExeWords
      <4> QED
        BY <1>0, <2>5, <3>1, <4>2
    <3>2. CASE k \in 0 .. i - 1
      <4>1. HeaderBytes + k \in 0 .. FlashBytes - 1 /\ HeaderBytes + k # a
        BY <1>0, <1>2, <1>4, <2>3, <3>2
      <4> QED
        BY <2>1, <2>6, <3>2, <4>1 DEF DataInFlash
    <3> QED
      BY <1>2, <1>5, <3>1, <3>2
  <2>11. DataInFlash(Exe, i)'
    BY <2>9, <2>10 DEF DataInFlash
  <2>12. Summed(WordsOf(i))'
    BY <1>5, <2>1, SumFollows
  <2> QED
    BY <2>7, <2>8, <2>11, <2>12
<1> QED
  BY <1>1, <1>6 DEF StoreFollows, Clean

LEMMA StorePutHeader == Shape /\ StoreFollows /\ PutHeader => StoreFollows'
<1> SUFFICES ASSUME Shape, StoreFollows, PutHeader PROVE StoreFollows'
  OBVIOUS
<1> DEFINE n == i \div WordBytes + 1
<1> DEFINE word == IF n = 4 THEN Complement(header[4]) ELSE header[n]
<1>0. /\ TypeOK /\ pc = "seal" /\ g_exe_size # 0 /\ g_flash_addr = i /\ i < HeaderBytes
      /\ stored = NoImage /\ Len(header) = 4
  BY DEF Shape, StoreShape, StoreFollows, PutHeader
<1>1. stored' = NoImage /\ pc' = "seal" /\ Put(word)
      /\ UNCHANGED <<g_exe_base, g_exe_size, mem, header>>
  BY <1>0 DEF PutHeader, storeUnchanged
<1>2. i \in Nat /\ HeaderBytes \in Nat /\ FlashBytes \in Nat /\ g_flash_addr < FlashBytes
      /\ Padded(g_exe_size) \in Nat /\ HeaderBytes + Padded(g_exe_size) < FlashBytes
  BY <1>0, ExeFits, Params, Sizes DEF TypeOK
<1>3. /\ flash' = [flash EXCEPT ![i] = Programmed(@, ByteOf(word, i % WordBytes))]
      /\ i \in 0 .. FlashBytes - 1 /\ i' = i + 1
  <2>1. /\ flash' = [flash EXCEPT ![g_flash_addr] =
                        Programmed(@, ByteOf(word, i % WordBytes))]
        /\ g_flash_addr \in 0 .. FlashBytes - 1 /\ i' = i + 1
    BY ONLY <1>0, <1>1, <1>2, PutByte
  <2> QED
    BY <1>0, <2>1
<1>4. ASSUME Room(g_exe_size)
      PROVE  /\ Clean(i, HeaderBytes - 1)' /\ HeaderInFlash(Sealing, i)'
             /\ DataInFlash(Exe, Padded(g_exe_size))' /\ Summed(WordsOf(g_exe_size))'
  <2>1. /\ Clean(i, HeaderBytes - 1) /\ HeaderInFlash(Sealing, i)
        /\ DataInFlash(Exe, Padded(g_exe_size)) /\ Summed(WordsOf(g_exe_size))
    BY <1>0, <1>4 DEF StoreFollows
  <2>2. DOMAIN flash = 0 .. FlashBytes - 1
    BY <1>0 DEF TypeOK
  <2>3. flash'[i] = ByteOf(word, i % WordBytes)
    <3>1. i \in i .. HeaderBytes - 1
      BY <1>0, <1>2
    <3>2. flash[i] = ErasedByte
      BY <2>1, <3>1 DEF Clean
    <3>3. flash'[i] = Programmed(flash[i], ByteOf(word, i % WordBytes))
      BY <1>3, <2>2
    <3> QED
      BY <3>2, <3>3, Bytes
  <2>4. \A k \in 0 .. FlashBytes - 1 : k # i => flash'[k] = flash[k]
    BY <1>3, <2>2
  <2>5. word = Sealing[n]
    <3>1. n \in 1 .. 4
      <4>1. i < 4 * WordBytes
        BY <1>0, Sizes
      <4>2. i \div WordBytes \in 0 .. 4 - 1
        BY <1>2, <4>1, Params, WordBelow
      <4> QED
        BY <4>2
    <3>2. DOMAIN header = 1 .. 4
      BY <1>0 DEF TypeOK
    <3> HIDE DEF n
    <3> QED
      BY <3>1, <3>2 DEF Sealing
  <2> HIDE DEF word
  <2>6. Sealing' = Sealing /\ Exe' = Exe
    BY <1>1 DEF Sealing, Exe, InMemory
  <2>7. Clean(i, HeaderBytes - 1)'
    <3>1. \A k \in i' .. HeaderBytes - 1 :
            k \in i .. HeaderBytes - 1 /\ k \in 0 .. FlashBytes - 1 /\ k # i
      BY <1>2, <1>3
    <3> QED
      BY <2>1, <2>4, <3>1 DEF Clean
  <2>8. HeaderInFlash(Sealing, i)'
    <3>1. ASSUME NEW k \in 0 .. i' - 1
          PROVE  flash'[k] = ByteOf(Sealing[k \div WordBytes + 1], k % WordBytes)
      <4>1. CASE k = i
        BY <2>3, <2>5, <4>1
      <4>2. CASE k \in 0 .. i - 1
        <5>1. k \in 0 .. FlashBytes - 1 /\ k # i
          BY <1>2, <1>3, <4>2
        <5> QED
          BY <2>1, <2>4, <4>2, <5>1 DEF HeaderInFlash
      <4> QED
        BY <1>2, <1>3, <4>1, <4>2
    <3> QED
      BY <2>6, <3>1 DEF HeaderInFlash
  <2>9. DataInFlash(Exe, Padded(g_exe_size))'
    <3>1. \A k \in 0 .. Padded(g_exe_size) - 1 :
            HeaderBytes + k \in 0 .. FlashBytes - 1 /\ HeaderBytes + k # i
      BY <1>0, <1>2
    <3>2. \A k \in 0 .. Padded(g_exe_size) - 1 :
            flash'[HeaderBytes + k] = flash[HeaderBytes + k]
      BY <2>4, <3>1
    <3> QED
      BY <1>1, <2>1, <2>6, <3>2 DEF DataInFlash
  <2>10. Summed(WordsOf(g_exe_size))'
    BY <1>1, <2>1, <2>6 DEF Summed
  <2> QED
    BY <2>7, <2>8, <2>9, <2>10
<1> QED
  BY <1>1, <1>4 DEF StoreFollows

LEMMA StoreKept == Shape /\ StoreFollows /\ [Next]_vars => StoreFollows'
<1> SUFFICES ASSUME Shape, StoreFollows, [Next]_vars PROVE StoreFollows'
  OBVIOUS
<1>1. CASE UNCHANGED vars
  BY <1>1 DEF StoreFollows, vars, globals, locals, world, Clean, HeaderInFlash, DataInFlash,
     Summed, Exe, InMemory, Sealing
<1>2. CASE KeyPressed \/ AutoBoot \/ Console \/ Restart
  <2>1. pc' \notin {"erase", "store", "seal"}
    BY <1>2 DEF KeyPressed, AutoBoot, Console, CmdUpload, CmdLoad, CmdStore, CmdExecute,
       CmdExit, StartLoad, Restart, Boots
  <2> QED
    BY <2>1, StoreOutside
<1>3. CASE Load
  <2>1. pc' \notin {"erase", "store", "seal"}
    BY <1>3, ZenonT(60) DEF Load, GetHeader, GetData, FinishLoad, Failed
  <2> QED
    BY <2>1, StoreOutside
<1>4. CASE Refuse \/ BootAnyway \/ Stored
  <2>1. pc' \notin {"erase", "store", "seal"}
    BY <1>4 DEF Refuse, BootAnyway, Stored
  <2> QED
    BY <2>1, StoreOutside
<1> QED
  BY <1>1, <1>2, <1>3, <1>4, StoreConfirm, StoreEraseSector, StoreErased, StorePutData,
     StoreAllData, StorePutHeader DEF Next, Answer, Store

-----------------------------------------------------------------------------
(* What is stored                                                          *)

(* "OK": header and data are in flash, and the sums go with the image.     *)
LEMMA StoredStored == Shape /\ StoreFollows /\ Stored => StoredFollows'
<1> SUFFICES ASSUME Shape, StoreFollows, Stored PROVE StoredFollows'
  OBVIOUS
<1> DEFINE n == WordsOf(g_exe_size)
<1>0. /\ TypeOK /\ pc = "seal" /\ i = HeaderBytes /\ g_exe_size # 0 /\ Len(header) = 4
      /\ header[1] = Signature /\ header[2] = g_exe_base /\ header[3] = g_exe_size
  BY DEF Shape, StoreShape, Stored
<1>1. /\ pc' = "console" /\ flash' = flash
      /\ stored' = [base |-> g_exe_base, size |-> g_exe_size, data |-> Exe]
  BY DEF Stored, Exe
<1>2. stored'.base = g_exe_base /\ stored'.size = g_exe_size /\ stored'.data = Exe
  BY <1>1
<1>3. StoredFits'
  BY <1>0, <1>2, ExeWords DEF StoredFits, Shape, StoreShape, TypeOK
<1>4. ASSUME Room(g_exe_size)
      PROVE  \E sums : ImageInFlash(sums)'
  <2>1. /\ HeaderInFlash(Sealing, HeaderBytes) /\ DataInFlash(Exe, Padded(g_exe_size))
        /\ Summed(n)
    BY <1>0, <1>4 DEF StoreFollows
  <2>2. PICK sums : PartialSums(sums, Exe, n) /\ header[4] = sums[n]
    BY <2>1 DEF Summed
  <2> DEFINE h == <<Signature, g_exe_base, g_exe_size, Complement(sums[n])>>
  <2>3. \A m \in 1 .. 4 : Sealing[m] = h[m]
    <3>1. header \in Seq(Word) /\ DOMAIN header = 1 .. 4
      BY <1>0 DEF TypeOK
    <3>2. /\ Sealing[1] = header[1] /\ Sealing[2] = header[2] /\ Sealing[3] = header[3]
          /\ Sealing[4] = Complement(header[4])
      BY <3>1 DEF Sealing
    <3>3. h[1] = Signature /\ h[2] = g_exe_base /\ h[3] = g_exe_size
          /\ h[4] = Complement(sums[n])
      OBVIOUS
    <3> HIDE DEF h
    <3>4. \A m \in 1 .. 4 : m = 1 \/ m = 2 \/ m = 3 \/ m = 4
      OBVIOUS
    <3> QED
      BY <1>0, <2>2, <3>2, <3>3, <3>4
  <2>4. HeaderInFlash(h, HeaderBytes)
    <3>1. ASSUME NEW k \in 0 .. HeaderBytes - 1 PROVE k \div WordBytes + 1 \in 1 .. 4
      <4>1. k \in Nat /\ k < 4 * WordBytes
        BY Sizes, Params
      <4>2. k \div WordBytes \in 0 .. 4 - 1
        BY <4>1, Params, WordBelow
      <4> QED
        BY <4>2
    <3> HIDE DEF h
    <3> QED
      BY <2>1, <2>3, <3>1 DEF HeaderInFlash
  <2>5. StoredHeader(SumOfStored(sums))' = h
    BY <1>2 DEF StoredHeader, SumOfStored
  <2>6. WordsOf(stored.size)' = n /\ Padded(stored.size)' = Padded(g_exe_size)
    BY <1>2 DEF Padded
  <2> HIDE DEF h, n
  <2>7. HeaderInFlash(StoredHeader(SumOfStored(sums)), HeaderBytes)'
    BY <1>1, <2>4, <2>5 DEF HeaderInFlash
  <2>8. DataInFlash(stored.data, Padded(stored.size))'
    BY <1>1, <1>2, <2>1, <2>6 DEF DataInFlash
  <2>9. PartialSums(sums, stored.data, WordsOf(stored.size))'
    BY <1>2, <2>2, <2>6 DEF PartialSums
  <2>10. ImageInFlash(sums)'
    BY <2>7, <2>8, <2>9 DEF ImageInFlash
  <2> QED
    BY <2>10
<1>5. HasRoom' => Room(g_exe_size)
  BY <1>2 DEF HasRoom, Room
<1> QED
  BY <1>1, <1>3, <1>4, <1>5 DEF StoredFollows, FlashLoad

(* Nothing else makes an image stored, and without a flash load there is   *)
(* nothing more to know.                                                   *)
LEMMA StoredFrame ==
  ASSUME StoredFollows, UNCHANGED <<stored, flash>>, ~FlashLoad'
  PROVE  StoredFollows'
<1>1. \A sums : ImageInFlash(sums) => ImageInFlash(sums)'
  BY DEF ImageInFlash, HeaderInFlash, DataInFlash, PartialSums, StoredHeader, SumOfStored
<1>2. StoredFits => StoredFits'
  BY DEF StoredFits
<1>3. HasRoom' => HasRoom
  BY DEF HasRoom
<1> QED
  BY <1>1, <1>2, <1>3 DEF StoredFollows

LEMMA StoredContinues ==
  ASSUME StoredFollows, UNCHANGED <<stored, flash>>,
         ASSUME stored # NoImage, StoredFits, HasRoom, NEW sums, ImageInFlash(sums),
                FlashLoad => LoadFollows(sums, StoredHeader(SumOfStored(sums)))
         PROVE  LoadFollows(sums, StoredHeader(SumOfStored(sums)))'
  PROVE  StoredFollows'
<1>1. \A sums : ImageInFlash(sums) => ImageInFlash(sums)'
  BY DEF ImageInFlash, HeaderInFlash, DataInFlash, PartialSums, StoredHeader, SumOfStored
<1>2. StoredFits => StoredFits'
  BY DEF StoredFits
<1>3. HasRoom' => HasRoom
  BY DEF HasRoom
<1> QED
  BY <1>1, <1>2, <1>3 DEF StoredFollows

-----------------------------------------------------------------------------
(* Loading it                                                              *)

(* A word read is the word written, where all its bytes are in flash.      *)
LEMMA HeaderWordRead ==
  ASSUME NEW h, HeaderInFlash(h, HeaderBytes), NEW m \in 0 .. 3,
         NEW w \in Word, h[m + 1] \in Word, InFlash(w, m * WordBytes)
  PROVE  w = h[m + 1]
<1> DEFINE a == m * WordBytes
<1>0. a \in Nat /\ a + WordBytes <= HeaderBytes /\ HeaderBytes \in Nat
      /\ a % WordBytes = 0 /\ a \div WordBytes = m
  <2>1. m \in Int /\ m \in Nat /\ m < 4 /\ 0 \in 0 .. WordBytes - 1
    BY Params
  <2>2. a + WordBytes <= 4 * WordBytes /\ a \in Nat
    BY <2>1, Params, Multiples, NatProduct
  <2>3. (m * WordBytes + 0) % WordBytes = 0 /\ (m * WordBytes + 0) \div WordBytes = m
    BY <2>1, Params, Quotient
  <2>4. m * WordBytes + 0 = a
    BY <2>2
  <2> QED
    BY <2>2, <2>3, <2>4, Params, Sizes
<1>1. ASSUME NEW k \in 0 .. WordBytes - 1 PROVE ByteOf(w, k) = ByteOf(h[m + 1], k)
  <2>1. a + k \in 0 .. FlashBytes - 1 /\ a + k \in 0 .. HeaderBytes - 1
        /\ FlashBytes \in Nat \ {0} /\ a \in Int
    BY <1>0, Params, Sizes
  <2>2. (a + k) % FlashBytes = a + k
    BY <2>1, SmallRemainder
  <2>3. (a + k) \div WordBytes = m /\ (a + k) % WordBytes = k
    <3> HIDE DEF a
    <3>1. (a + k) \div WordBytes = a \div WordBytes /\ (a + k) % WordBytes = k
      BY ONLY <1>0, <2>1, k \in 0 .. WordBytes - 1, Params, ByteOfWord, ZenonT(30)
    <3> QED
      BY <1>0, <3>1
  <2>4. ByteOf(w, k) = flash[a + k]
    BY <2>2 DEF InFlash
  <2> HIDE DEF a
  <2> QED
    BY <2>1, <2>3, <2>4 DEF HeaderInFlash
<1> QED
  BY <1>1, WordAssumption

LEMMA DataWordRead ==
  ASSUME NEW words, NEW bytes \in Nat, DataInFlash(words, bytes),
         HeaderBytes + bytes <= FlashBytes,
         NEW j \in Nat, j % WordBytes = 0, j + WordBytes <= bytes,
         NEW w \in Word, words[j \div WordBytes + 1] \in Word,
         InFlash(w, HeaderBytes + j)
  PROVE  w = words[j \div WordBytes + 1]
<1> DEFINE a == HeaderBytes + j
<1>1. ASSUME NEW k \in 0 .. WordBytes - 1
      PROVE  ByteOf(w, k) = ByteOf(words[j \div WordBytes + 1], k)
  <2>1. a + k \in 0 .. FlashBytes - 1 /\ j + k \in 0 .. bytes - 1
        /\ FlashBytes \in Nat \ {0} /\ j \in Int /\ a + k = HeaderBytes + (j + k)
    BY Params, Sizes
  <2>2. (a + k) % FlashBytes = a + k
    BY <2>1, SmallRemainder
  <2>3. (j + k) \div WordBytes = j \div WordBytes /\ (j + k) % WordBytes = k
    BY ONLY <2>1, j % WordBytes = 0, k \in 0 .. WordBytes - 1, Params, ByteOfWord, ZenonT(30)
  <2>4. ByteOf(w, k) = flash[HeaderBytes + (j + k)]
    BY <2>1, <2>2 DEF InFlash
  <2> QED
    BY <2>1, <2>3, <2>4 DEF DataInFlash
<1> QED
  BY <1>1, WordAssumption

(* What the image stored says of its header.                               *)
LEMMA HeaderWords ==
  ASSUME StoredFits, NEW sums, ImageInFlash(sums)
  PROVE  LET n == WordsOf(stored.size) h == StoredHeader(SumOfStored(sums))
         IN /\ n \in Nat /\ sums \in [0 .. n -> Word] /\ sums[0] = 0
            /\ h[1] = Signature /\ h[2] = stored.base /\ h[3] = stored.size
            /\ h[4] = WordMod - 1 - sums[n]
            /\ \A m \in 1 .. 4 : h[m] \in Word
<1> DEFINE n == WordsOf(stored.size)
<1> DEFINE h == StoredHeader(SumOfStored(sums))
<1>1. stored.size \in Nat
  BY Sizes DEF StoredFits
<1>2. n \in Nat
  BY <1>1, PaddedSize
<1>3. sums \in [0 .. n -> Word] /\ sums[0] = 0
  BY DEF ImageInFlash, PartialSums
<1>4. h[1] = Signature /\ h[2] = stored.base /\ h[3] = stored.size
      /\ h[4] = WordMod - 1 - sums[n]
  BY DEF StoredHeader, SumOfStored, Complement
<1>5. WordMod - 1 - sums[n] \in Word
  <2>1. sums[n] \in Word
    BY <1>2, <1>3
  <2> QED
    BY <2>1, Sizes
<1>6. \A m \in 1 .. 4 : m = 1 \/ m = 2 \/ m = 3 \/ m = 4
  OBVIOUS
<1> HIDE DEF h, n
<1>7. \A m \in 1 .. 4 : h[m] \in Word
  BY <1>4, <1>5, <1>6, BootAssumption DEF StoredFits
<1> QED
  BY <1>2, <1>3, <1>4, <1>7 DEF h, n

LEMMA LoadStarts ==
  ASSUME StoredFollows, NEW from, NEW byAuto, StartLoad(from, byAuto)
  PROVE  StoredFollows'
<1>0. header' = <<>> /\ i' = 0 /\ UNCHANGED <<stored, flash>>
  BY DEF StartLoad
<1>1. ASSUME NEW sums, NEW h PROVE LoadFollows(sums, h)'
  <2>1. Len(header') = 0 /\ 0 # 4
    BY <1>0
  <2>2. 0 \div WordBytes = 0 /\ 1 .. 0 = {}
    BY Params
  <2> QED
    BY <1>0, <2>1, <2>2 DEF LoadFollows
<1>2. \A sums : LoadFollows(sums, StoredHeader(SumOfStored(sums)))'
  BY <1>0, <1>1 DEF LoadFollows, StoredHeader, SumOfStored
<1> QED
  BY <1>0, <1>2, StoredContinues

LEMMA StoredGetHeader == Shape /\ StoredFollows /\ GetHeader => StoredFollows'
<1> SUFFICES ASSUME Shape, StoredFollows, GetHeader PROVE StoredFollows'
  OBVIOUS
<1>0. TypeOK /\ pc = "load" /\ i = 0 /\ Len(header) < 4 /\ i' = 0
      /\ UNCHANGED <<stored, flash, stream, mem>>
  BY DEF Shape, LoadShape, GetHeader
<1> DEFINE len == Len(header)
<1>1. ASSUME FlashLoad', stored # NoImage, StoredFits, NEW sums, ImageInFlash(sums),
             FlashLoad => LoadFollows(sums, StoredHeader(SumOfStored(sums)))
      PROVE  LoadFollows(sums, StoredHeader(SumOfStored(sums)))'
  <2> DEFINE n == WordsOf(stored.size)
  <2> DEFINE h == StoredHeader(SumOfStored(sums))
  <2>1. /\ n \in Nat /\ sums \in [0 .. n -> Word] /\ sums[0] = 0
        /\ \A m \in 1 .. 4 : h[m] \in Word
    BY <1>1, HeaderWords
  <2>2. stream = "flash" /\ LoadFollows(sums, h)
    BY <1>0, <1>1 DEF FlashLoad
  <2>3. PICK w \in Word : StreamGet(w) /\ header' = Append(header, w)
    BY DEF GetHeader
  <2>4. /\ len \in 0 .. 3 /\ Len(header') = len + 1 /\ header'[len + 1] = w
        /\ \A m \in 1 .. len : header'[m] = header[m]
    BY ONLY <1>0, <2>3, w \in Word, HeaderGrows, ZenonT(30)
  <2>5. InFlash(w, len * WordBytes)
    <3>1. g_flash_addr = len * WordBytes
      <4>1. g_flash_addr = len * WordBytes + 0
        BY <1>0, <2>2 DEF Shape, LoadShape
      <4>2. len * WordBytes \in Int
        <5>1. len \in Int
          BY <2>4
        <5> QED
          BY <5>1, Params, Product
      <4> QED
        BY <4>1, <4>2
    <3> QED
      BY <2>2, <2>3, <3>1 DEF StreamGet
  <2> HIDE DEF h, len
  <2>6. w = h[len + 1]
    <3>1. h[len + 1] \in Word
      BY <2>1, <2>4
    <3>2. HeaderInFlash(h, HeaderBytes)
      BY <1>1 DEF ImageInFlash, h
    <3> QED
      BY <2>4, <2>5, <3>1, <3>2, HeaderWordRead
  <2>7. \A m \in 1 .. Len(header') : m < 4 => header'[m] = h[m]
    <3>1. ASSUME NEW m \in 1 .. len + 1, m < 4 PROVE header'[m] = h[m]
      <4>1. CASE m = len + 1
        BY <2>4, <2>6, <4>1
      <4>2. CASE m \in 1 .. len
        BY <2>2, <2>4, <3>1, <4>2 DEF LoadFollows, len
      <4> QED
        BY <2>4, <4>1, <4>2
    <3> QED
      BY <2>4, <3>1
  <2>8. 0 \div WordBytes = 0 /\ 1 .. 0 = {}
    BY Params
  <2>9. Len(header') = 4 => header'[4] = (h[4] + sums[0]) % WordMod
    <3> SUFFICES ASSUME Len(header') = 4 PROVE header'[4] = (h[4] + sums[0]) % WordMod
      OBVIOUS
    <3>1. len + 1 = 4
      BY <2>4
    <3>2. header'[4] = h[4]
      BY <2>4, <2>6, <3>1
    <3>3. h[4] \in 0 .. WordMod - 1 /\ WordMod \in Nat \ {0} /\ h[4] + 0 = h[4]
      BY <2>1, Sizes, Params
    <3>4. h[4] % WordMod = h[4]
      BY <3>3, SmallRemainder
    <3> QED
      BY <2>1, <3>2, <3>3, <3>4
  <2>10. h = StoredHeader(SumOfStored(sums))'
    BY <1>0 DEF StoredHeader, SumOfStored, h
  <2> QED
    BY <1>0, <2>7, <2>8, <2>9, <2>10 DEF LoadFollows
<1>2. CASE FlashLoad'
  BY <1>0, <1>1, <1>2, StoredContinues
<1>3. CASE ~FlashLoad'
  BY <1>0, <1>3, StoredFrame
<1> QED
  BY <1>2, <1>3

(* Sums in words, whatever is left out in between. *)
LEMMA SumInWords ==
  ASSUME NEW m \in Nat \ {0}, NEW a \in Int, NEW b \in Int, NEW c \in Int
  PROVE  (((a + b) % m) + c) % m = (a + ((b + c) % m)) % m
<1>1. PICK q \in Int, r \in 0 .. m - 1 : a + b = q * m + r /\ (a + b) % m = r
  <2>1. a + b \in Int
    OBVIOUS
  <2> QED
    BY <2>1, Division
<1>2. PICK p \in Int, s \in 0 .. m - 1 : b + c = p * m + s /\ (b + c) % m = s
  <2>1. b + c \in Int
    OBVIOUS
  <2> QED
    BY <2>1, Division
<1>3. PICK u \in Int, v \in 0 .. m - 1 : r + c = u * m + v /\ (r + c) % m = v
  <2>1. r + c \in Int
    OBVIOUS
  <2> QED
    BY <2>1, Division
<1>4. a + s = (u + q - p) * m + v
  BY <1>1, <1>2, <1>3
<1>5. (a + s) % m = v
  <2>1. u + q - p \in Int
    OBVIOUS
  <2>2. ((u + q - p) * m + v) % m = v
    BY <2>1, Quotient
  <2> QED
    BY <1>4, <2>2
<1> QED
  BY <1>1, <1>2, <1>3, <1>5

(* A flash load of a stored image knows its header, and where it is in the *)
(* data.                                                                   *)
LEMMA DataOfStored ==
  ASSUME Shape, FlashLoad, Len(header) = 4, StoredFits, NEW sums, ImageInFlash(sums),
         LoadFollows(sums, StoredHeader(SumOfStored(sums)))
  PROVE  LET n == WordsOf(stored.size)
             q == i \div WordBytes
         IN /\ header[1] = Signature
            /\ header[2] = stored.base /\ g_exe_base = stored.base /\ header[3] = stored.size
            /\ header[4] = ((WordMod - 1 - sums[n]) + sums[q]) % WordMod
            /\ n \in Nat /\ q \in 0 .. n
            /\ i < stored.size =>
                 q < n /\ i + WordBytes <= Padded(stored.size) /\ Mapped(Target)
            /\ i >= stored.size => i = Padded(stored.size) /\ q = n
<1> DEFINE n == WordsOf(stored.size)
<1> DEFINE q == i \div WordBytes
<1> DEFINE h == StoredHeader(SumOfStored(sums))
<1>0. TypeOK /\ pc = "load" /\ stream = "flash"
  BY DEF Shape, FlashLoad
<1>1. /\ n \in Nat /\ h[1] = Signature /\ h[2] = stored.base /\ h[3] = stored.size
      /\ h[4] = WordMod - 1 - sums[n]
  BY HeaderWords
<1>2. header[1] = Signature /\ header[2] = stored.base /\ header[3] = stored.size
  <2>1. \A m \in 1 .. 4 : m < 4 => header[m] = h[m]
    BY DEF LoadFollows
  <2> HIDE DEF h
  <2> QED
    BY <1>1, <2>1
<1>3. header[4] = (h[4] + sums[q]) % WordMod
  BY DEF LoadFollows
<1>4. /\ header[2] = g_exe_base /\ g_exe_base \in Nat /\ i \in Nat /\ i % WordBytes = 0
      /\ Target = g_exe_base + i
  BY <1>0, TargetIs
<1>5. /\ stored.size \in Nat /\ stored.base % WordBytes = 0
      /\ stored.base + Padded(stored.size) <= MemBytes /\ Padded(stored.size) \in Nat
      /\ Padded(stored.size) \div WordBytes = n
  <2>1. stored.size \in Nat
    BY Sizes DEF StoredFits
  <2>2. Padded(stored.size) \in Nat /\ Padded(stored.size) \div WordBytes = n
    BY <2>1, PaddedSize
  <2> QED
    BY <2>1, <2>2 DEF StoredFits, Fits
<1>6. i # 0 => i < stored.size + WordBytes
  BY <1>0, <1>2 DEF Shape, LoadShape
<1> HIDE DEF n, q, h
<1>7. ASSUME i < stored.size
      PROVE  q < n /\ i + WordBytes <= Padded(stored.size) /\ Mapped(Target)
  <2>1. q < n /\ i + WordBytes <= Padded(stored.size)
    BY <1>4, <1>5, <1>7, WithinSize DEF q, n
  <2>2. (g_exe_base + i) % WordBytes = 0
    <3>1. g_exe_base \in Int /\ i \in Int /\ g_exe_base % WordBytes = 0
      BY <1>2, <1>4, <1>5
    <3>2. (g_exe_base + i) % WordBytes = i % WordBytes
      BY ONLY <3>1, Params, WordOffset, ZenonT(30)
    <3> QED
      BY <1>4, <3>2
  <2>3. g_exe_base + i < MemBytes
    BY <1>2, <1>4, <1>5, <2>1, Params
  <2> QED
    BY <1>4, <2>1, <2>2, <2>3 DEF Mapped
<1>8. ASSUME i >= stored.size PROVE i = Padded(stored.size) /\ q = n
  <2>1. i = Padded(stored.size)
    <3>1. CASE i # 0
      BY <1>4, <1>5, <1>6, <1>8, <3>1, WithinSize
    <3>2. CASE i = 0
      <4>1. stored.size # 0
        BY DEF StoredFits
      <4> QED
        BY <1>4, <1>5, <1>8, <3>2, <4>1
    <3> QED
      BY <3>1, <3>2
  <2> QED
    BY <1>5, <2>1 DEF q
<1>9. q \in 0 .. n
  <2>1. q \in Nat
    BY <1>4, Params, NatQuotient DEF q
  <2>2. i < stored.size \/ i >= stored.size
    BY <1>4, <1>5
  <2> QED
    BY <1>1, <1>7, <1>8, <2>1, <2>2
<1> QED
  BY <1>1, <1>2, <1>3, <1>4, <1>7, <1>8, <1>9 DEF n, q

(* A word of data that is loaded lands behind the ones before it.          *)
LEMMA DataLoaded ==
  ASSUME Shape, GetData, Mapped(Target)
  PROVE  \E w \in Word :
           /\ StreamGet(w) /\ pc' = pc
           /\ Loaded \in Nat /\ i = Loaded * WordBytes /\ Loaded' = Loaded + 1
           /\ Len(header') = 4 /\ header'[1] = header[1] /\ header'[2] = header[2]
           /\ header'[3] = header[3] /\ header'[4] = (header[4] + w) % WordMod
           /\ mem'[g_exe_base \div WordBytes + Loaded] = w
           /\ \A m \in 1 .. Loaded :
                mem'[g_exe_base \div WordBytes + m - 1] = LoadedWord(m)
<1> DEFINE q == i \div WordBytes
<1> DEFINE b == g_exe_base \div WordBytes
<1>0. TypeOK /\ pc = "load" /\ Len(header) = 4
  BY DEF Shape, GetData
<1>1. PICK w \in Word :
        /\ StreamGet(w) /\ mem' = [mem EXCEPT ![Target \div WordBytes] = w]
        /\ header' = [header EXCEPT ![4] = (@ + w) % WordMod]
        /\ i' = (i + WordBytes) % WordMod /\ pc' = pc
  BY DEF GetData
<1>2. /\ \A m \in 1 .. 4 : header[m] \in Word
      /\ g_exe_base \in Nat /\ i \in Nat /\ i % WordBytes = 0
      /\ Target = g_exe_base + i /\ g_exe_base % WordBytes = 0
      /\ g_exe_base + i + WordBytes <= MemBytes
  BY <1>0, TargetIs
<1>3. i' = i + WordBytes
  <2>1. i + WordBytes \in 0 .. WordMod - 1 /\ WordMod \in Nat \ {0}
    BY <1>2, Sizes, Params
  <2> QED
    BY <1>1, <2>1, SmallRemainder
<1>4. i' \div WordBytes = q + 1
  <2>1. i \in Int
    BY <1>2
  <2>2. (i + WordBytes) \div WordBytes = i \div WordBytes + 1
    BY ONLY <2>1, <1>2, Params, NextWord, ZenonT(30)
  <2> QED
    BY <1>3, <2>2
<1>5. /\ Len(header') = 4 /\ header'[1] = header[1] /\ header'[2] = header[2]
      /\ header'[3] = header[3] /\ header'[4] = (header[4] + w) % WordMod
  <2> DEFINE sum == (header[4] + w) % WordMod
  <2>1. sum \in Word
    <3>1. header[4] + w \in Int /\ WordMod \in Nat \ {0}
      BY <1>2, Sizes, Params
    <3> QED
      BY <3>1, Division, Sizes
  <2>2. header' = [header EXCEPT ![4] = sum]
    BY <1>1
  <2>3. header \in Seq(Word) /\ Len(header) = 4
    BY <1>0 DEF TypeOK
  <2> HIDE DEF sum
  <2>4. header'[4] = sum /\ Len(header') = 4 /\ header'[1] = header[1]
        /\ header'[2] = header[2] /\ header'[3] = header[3]
    BY ONLY <2>1, <2>2, <2>3, LastReplaced
  <2> QED
    BY <2>4 DEF sum
<1>6. b \in Nat /\ q \in Nat /\ i = q * WordBytes
  <2>1. b \in Nat /\ q \in Nat
    BY <1>2, Params, NatQuotient
  <2>2. i \in Int
    BY <1>2
  <2>3. i = (i \div WordBytes) * WordBytes
    BY ONLY <2>2, <1>2, Params, WordStart, ZenonT(30)
  <2> QED
    BY <2>1, <2>3
<1> HIDE DEF q, b
<1>7. Target \div WordBytes = b + q
  <2>1. g_exe_base \in Int /\ i \in Int /\ g_exe_base % WordBytes = 0
    BY <1>2
  <2>2. (g_exe_base + i) \div WordBytes = g_exe_base \div WordBytes + i \div WordBytes
    BY ONLY <2>1, Params, WordOffset, ZenonT(30)
  <2> QED
    BY <1>2, <2>2 DEF b, q
<1>8. PICK top \in Int : DOMAIN mem = 0 .. top /\ b + q \in 0 .. top
  <2>1. g_exe_base + i \in Nat /\ g_exe_base + i < MemBytes
    BY <1>2, Params
  <2>2. MemBytes \in Int /\ MemBytes % WordBytes = 0 /\ WordBytes \in Nat \ {0}
    BY Params, Sizes
  <2>3. PICK e \in Int : MemBytes = e * WordBytes /\ MemBytes \div WordBytes = e
    BY ONLY <2>2, WordStart
  <2>4. (g_exe_base + i) \div WordBytes \in 0 .. e - 1
    <3> DEFINE k == g_exe_base + i
    <3>1. k \in Nat /\ k < e * WordBytes
      BY <2>1, <2>3
    <3> HIDE DEF k
    <3>2. k \div WordBytes \in 0 .. e - 1
      BY ONLY <2>2, <2>3, <3>1, WordBelow
    <3> QED
      BY <3>2 DEF k
  <2>5. e - 1 \in Int
    BY <2>3
  <2> QED
    BY <1>0, <1>2, <1>7, <2>3, <2>4, <2>5 DEF TypeOK
<1>9. mem' = [mem EXCEPT ![b + q] = w]
  BY <1>1, <1>7
<1>10. mem'[b + q] = w
  BY <1>8, <1>9
<1>11. ASSUME NEW m \in 1 .. q PROVE mem'[b + m - 1] = mem[b + m - 1]
  <2>1. b + m - 1 # b + q /\ b + m - 1 \in 0 .. top
    BY <1>6, <1>8
  <2> QED
    BY <1>8, <1>9, <2>1
<1>12. Loaded = q /\ Loaded' = q + 1 /\ \A m : LoadedWord(m) = mem[b + m - 1]
  BY <1>4 DEF Loaded, LoadedWord, q, b
<1> QED
  BY <1>1, <1>5, <1>6, <1>10, <1>11, <1>12 DEF b

LEMMA StoredGetData == Shape /\ StoredFollows /\ GetData => StoredFollows'
<1> SUFFICES ASSUME Shape, StoredFollows, GetData PROVE StoredFollows'
  OBVIOUS
<1>0. TypeOK /\ pc = "load" /\ Len(header) = 4 /\ i < header[3]
      /\ UNCHANGED <<stored, flash, stream>>
  BY DEF Shape, GetData, MoreData
<1>1. ASSUME FlashLoad', stored # NoImage, StoredFits, NEW sums, ImageInFlash(sums),
             FlashLoad => LoadFollows(sums, StoredHeader(SumOfStored(sums)))
      PROVE  LoadFollows(sums, StoredHeader(SumOfStored(sums)))'
  <2> DEFINE n == WordsOf(stored.size)
  <2> DEFINE q == i \div WordBytes
  <2> DEFINE h == StoredHeader(SumOfStored(sums))
  <2> DEFINE b == stored.base \div WordBytes
  <2>1. FlashLoad /\ stream = "flash" /\ LoadFollows(sums, h)
    BY <1>0, <1>1 DEF FlashLoad
  <2>2. /\ header[2] = stored.base /\ g_exe_base = stored.base /\ header[3] = stored.size
        /\ header[4] = ((WordMod - 1 - sums[n]) + sums[q]) % WordMod
        /\ n \in Nat /\ q \in 0 .. n
    BY <1>0, <1>1, <2>1, DataOfStored
  <2>3. q < n /\ i + WordBytes <= Padded(stored.size) /\ Mapped(Target)
    BY <1>0, <1>1, <2>1, <2>2, DataOfStored
  <2>4. /\ sums \in [0 .. n -> Word] /\ h[4] = WordMod - 1 - sums[n]
        /\ h[1] = Signature /\ h[2] = stored.base /\ h[3] = stored.size
    BY <1>1, HeaderWords
  <2>5. PICK w \in Word :
          /\ StreamGet(w) /\ i' \div WordBytes = q + 1
          /\ Len(header') = 4 /\ header'[1] = header[1] /\ header'[2] = header[2]
          /\ header'[3] = header[3] /\ header'[4] = (header[4] + w) % WordMod
          /\ mem'[b + q] = w /\ \A m \in 1 .. q : mem'[b + m - 1] = mem[b + m - 1]
    BY <2>2, <2>3, DataLoaded DEF Loaded, LoadedWord
  <2>6. i \in Nat /\ i % WordBytes = 0
    BY <1>0, TargetIs
  <2>7. w = stored.data[q + 1]
    <3>1. g_flash_addr = HeaderBytes + i
      BY <1>0, <2>1, Sizes DEF Shape, LoadShape
    <3>2. InFlash(w, HeaderBytes + i)
      BY <2>1, <2>5, <3>1 DEF StreamGet
    <3>3. /\ Padded(stored.size) \in Nat /\ DataInFlash(stored.data, Padded(stored.size))
          /\ HeaderBytes + Padded(stored.size) <= FlashBytes
      <4>1. stored.size \in Nat /\ stored.base \in Nat
        BY <1>1, Sizes DEF StoredFits
      <4>2. Padded(stored.size) \in Nat
        BY <4>1, PaddedSize
      <4>3. stored.base + Padded(stored.size) <= MemBytes
        BY <1>1 DEF StoredFits, Fits
      <4>4. HeaderBytes + Padded(stored.size) <= FlashBytes
        BY <4>1, <4>2, <4>3, Sizes, Params
      <4> QED
        BY <1>1, <4>2, <4>4 DEF ImageInFlash
    <3>4. stored.data[q + 1] \in Word
      <4>1. q + 1 \in 1 .. n
        BY <2>2, <2>3
      <4> QED
        BY <1>1, <4>1 DEF StoredFits
    <3> QED
      BY <2>3, <2>6, <3>2, <3>3, <3>4, DataWordRead
  <2> HIDE DEF n, q, h, b
  <2>8. header'[4] = (h[4] + sums[q + 1]) % WordMod
    <3>1. sums[q + 1] = (sums[q] + stored.data[q + 1]) % WordMod
      <4>1. q + 1 \in 1 .. n /\ (q + 1) - 1 = q
        BY <2>2, <2>3
      <4> QED
        BY <1>1, <4>1 DEF ImageInFlash, PartialSums, n
    <3>2. sums[q] \in Int /\ sums[n] \in Int /\ w \in Int /\ WordMod \in Nat \ {0}
      BY <2>2, <2>4, Sizes, Params
    <3>3. WordMod - 1 - sums[n] \in Int
      BY <3>2
    <3> DEFINE a == WordMod - 1 - sums[n]
    <3> HIDE DEF a
    <3>4. a \in Int /\ h[4] = a /\ header[4] = (a + sums[q]) % WordMod
      BY <2>2, <2>4, <3>3 DEF a
    <3>5. (((a + sums[q]) % WordMod) + w) % WordMod = (a + ((sums[q] + w) % WordMod)) % WordMod
      BY ONLY <3>2, <3>4, SumInWords
    <3> QED
      BY <2>5, <2>7, <3>1, <3>4, <3>5
  <2>9. \A m \in 1 .. Len(header') : m < 4 => header'[m] = h[m]
    <3>1. \A m \in 1 .. 4 : m < 4 => m = 1 \/ m = 2 \/ m = 3
      OBVIOUS
    <3>2. header'[1] = h[1] /\ header'[2] = h[2] /\ header'[3] = h[3]
      <4>1. header[1] = h[1]
        BY <1>0, <2>1 DEF LoadFollows
      <4> QED
        BY <2>2, <2>4, <2>5, <4>1
    <3> QED
      BY <2>5, <3>1, <3>2
  <2>10. ASSUME NEW m \in 1 .. q + 1 PROVE mem'[b + m - 1] = stored.data[m]
    <3>1. q \in Nat /\ b \in Int
      <4>1. stored.base \in Int
        BY <1>1, Sizes DEF StoredFits
      <4>2. stored.base \div WordBytes \in Int
        BY ONLY <4>1, Params, Division, ZenonT(30)
      <4> QED
        BY <2>2, <4>2 DEF b
    <3>2. CASE m = q + 1
      <4>1. b + m - 1 = b + q
        BY <3>1, <3>2
      <4> QED
        BY <2>5, <2>7, <3>2, <4>1
    <3>3. CASE m \in 1 .. q
      BY <2>1, <2>5, <3>3 DEF LoadFollows, b, q
    <3> QED
      BY <3>1, <3>2, <3>3
  <2>11. h = StoredHeader(SumOfStored(sums))' /\ stored' = stored
    BY <1>0 DEF StoredHeader, SumOfStored, h
  <2> QED
    BY <1>0, <2>5, <2>8, <2>9, <2>10, <2>11 DEF LoadFollows, b
<1>2. CASE FlashLoad'
  BY <1>0, <1>1, <1>2, StoredContinues
<1>3. CASE ~FlashLoad'
  BY <1>0, <1>3, StoredFrame
<1> QED
  BY <1>2, <1>3

(* Erasing takes back what was stored. *)
LEMMA StoredErased ==
  ASSUME stored' = NoImage
  PROVE  StoredFollows'
BY DEF StoredFollows

LEMMA StoredRestart == StoredFollows /\ Restart => StoredFollows'
<1> SUFFICES ASSUME StoredFollows, Restart PROVE StoredFollows'
  OBVIOUS
<1>1. CASE stored' = NoImage
  BY <1>1, StoredErased
<1>2. CASE UNCHANGED <<flash, stored>>
  <2>1. ~FlashLoad'
    BY DEF Restart, Boots, FlashLoad
  <2> QED
    BY <1>2, <2>1, StoredFrame
<1> QED
  BY <1>1, <1>2 DEF Restart

LEMMA StoredKept == Shape /\ StoreFollows /\ StoredFollows /\ [Next]_vars => StoredFollows'
<1> SUFFICES ASSUME Shape, StoreFollows, StoredFollows, [Next]_vars PROVE StoredFollows'
  OBVIOUS
<1>1. CASE UNCHANGED vars
  <2>1. UNCHANGED <<pc, stream, header, i, mem, stored, flash>>
    BY <1>1 DEF vars, globals, locals, world
  <2>2. FlashLoad' = FlashLoad
    BY <2>1 DEF FlashLoad
  <2>3. CASE FlashLoad
    <3>1. ASSUME NEW sums, LoadFollows(sums, StoredHeader(SumOfStored(sums)))
          PROVE  LoadFollows(sums, StoredHeader(SumOfStored(sums)))'
      BY <2>1, <3>1 DEF LoadFollows, StoredHeader, SumOfStored
    <3> QED
      BY <2>1, <2>3, <3>1, StoredContinues
  <2>4. CASE ~FlashLoad
    BY <2>1, <2>2, <2>4, StoredFrame
  <2> QED
    BY <2>3, <2>4
<1>2. CASE AutoBoot \/ CmdUpload \/ CmdLoad
  BY <1>2, LoadStarts DEF AutoBoot, CmdUpload, CmdLoad
<1>3. CASE KeyPressed \/ CmdStore \/ CmdExecute \/ CmdExit \/ Answer \/ FinishLoad
  <2>1. UNCHANGED <<stored, flash>>
    BY <1>3 DEF KeyPressed, CmdStore, CmdExecute, CmdExit, Answer, Refuse, Confirm,
       BootAnyway, FinishLoad, world, storeUnchanged
  <2>2. pc' # "load"
    BY <1>3, ZenonT(60) DEF KeyPressed, CmdStore, CmdExecute, CmdExit, Answer, Refuse,
       Confirm, BootAnyway, FinishLoad, Failed
  <2> QED
    BY <2>1, <2>2, StoredFrame DEF FlashLoad
<1>4. CASE Erased \/ AllData
  <2>1. UNCHANGED <<stored, flash>> /\ pc' # "load"
    BY <1>4 DEF Erased, AllData, storeUnchanged
  <2> QED
    BY <2>1, StoredFrame DEF FlashLoad
<1>5. CASE PutData \/ PutHeader
  <2>1. stored = NoImage /\ stored' = stored
    BY <1>5 DEF StoreFollows, PutData, PutHeader
  <2> QED
    BY <2>1, StoredErased
<1>6. CASE EraseSector
  BY <1>6, StoredErased DEF EraseSector
<1> QED
  BY <1>1, <1>2, <1>3, <1>4, <1>5, <1>6, StoredStored, StoredGetHeader, StoredGetData,
     StoredRestart DEF Next, Console, Load, Store

(* The store, what it has left in flash and a load of it, together.        *)
LEMMA BootLayer == Spec => []BootInv
<1>1. Init => BootInv
  <2> SUFFICES ASSUME Init PROVE BootInv
    OBVIOUS
  <2>1. StoreFollows /\ StoredFollows
    BY DEF Init, StoreFollows, StoredFollows
  <2> QED
    BY <2>1, ShapeInit DEF BootInv
<1>2. BootInv /\ [Next]_vars => BootInv'
  BY ShapeKept, StoreKept, StoredKept DEF BootInv
<1> QED
  BY <1>1, <1>2, PTL DEF Spec

-----------------------------------------------------------------------------
(* A stored image loads                                                    *)

(* When a load of it ends it has read all of it, and the words of the data *)
(* with their checksum add up to zero.                                     *)
LEMMA LoadedBack ==
  ASSUME Shape, FlashLoad, FinishLoad, StoredFits, NEW sums, ImageInFlash(sums),
         LoadFollows(sums, StoredHeader(SumOfStored(sums)))
  PROVE  /\ g_exe_base' = stored.base /\ g_exe_size' = stored.size
         /\ Holds(stored)'
<1> DEFINE n == WordsOf(stored.size)
<1> DEFINE q == i \div WordBytes
<1>0. TypeOK /\ Len(header) = 4 /\ ~(i < header[3])
      /\ UNCHANGED <<stored, mem, g_exe_base>>
  BY DEF Shape, FinishLoad, MoreData
<1>1. /\ g_exe_base = stored.base /\ header[3] = stored.size
      /\ header[4] = ((WordMod - 1 - sums[n]) + sums[q]) % WordMod
      /\ n \in Nat /\ q \in 0 .. n
      /\ (i >= stored.size => i = Padded(stored.size) /\ q = n)
  BY <1>0, DataOfStored
<1>2. q = n
  <2>1. stored.size \in Nat /\ i \in Nat
    BY <1>0, Sizes DEF StoredFits, TypeOK
  <2> QED
    BY <1>0, <1>1, <2>1
<1>3. sums \in [0 .. n -> Word]
  BY HeaderWords
<1> HIDE DEF n, q
<1>4. (header[4] + 1) % WordMod = 0
  <2>1. sums[n] \in 0 .. WordMod - 1 /\ WordMod \in Nat \ {0}
    BY <1>1, <1>3, Sizes, Params
  <2>2. (WordMod - 1 - sums[n]) + sums[q] = WordMod - 1 /\ WordMod - 1 \in 0 .. WordMod - 1
    BY <1>2, <2>1
  <2>3. header[4] = WordMod - 1
    BY <1>1, <2>1, <2>2, SmallRemainder
  <2>4. header[4] + 1 = 1 * WordMod + 0
    BY <2>1, <2>3
  <2>5. (1 * WordMod + 0) % WordMod = 0
    BY <2>1, Quotient
  <2> QED
    BY <2>4, <2>5
<1>5. g_exe_size' = stored.size
  BY <1>1, <1>4 DEF FinishLoad
<1>6. g_exe_base' = stored.base
  BY <1>0, <1>1
<1>7. stored.data \in [1 .. n -> Word] /\ Len(stored.data) = n
  <2>1. stored.data \in [1 .. n -> Word]
    BY DEF StoredFits, n
  <2> QED
    BY ONLY <1>1, <2>1, SeqOfFunction, ZenonT(30)
<1>8. \A m \in 1 .. n : mem[stored.base \div WordBytes + m - 1] = stored.data[m]
  BY <1>2 DEF LoadFollows, q
<1>9. [k \in 1 .. n |-> mem[stored.base \div WordBytes + k - 1]] = stored.data
  BY <1>7, <1>8
<1>10. InMemory(g_exe_base, g_exe_size)' = stored'.data
  BY <1>0, <1>5, <1>6, <1>9 DEF InMemory, n
<1>11. WordsOf(g_exe_size)' = Len(stored'.data)
  <2>1. WordsOf(g_exe_size') = n
    BY <1>5 DEF n
  <2> QED
    BY <1>0, <1>7, <2>1 DEF WordsOf
<1> QED
  BY <1>0, <1>5, <1>6, <1>10, <1>11 DEF Holds

(* What the store has called "OK" is loaded back: a load from flash of a   *)
(* stored image that ends, ends with the base, the size and the words of   *)
(* the image, for every image with room in the erased sectors.  Neither    *)
(* signature nor checksum nor an address ends it before.                   *)
THEOREM StoredExecutableLoads == Spec => StoredImageLoads
<1>1. BootInv /\ [Next]_vars => (stored # NoImage /\ HasRoom => LoadsBack)
  <2> SUFFICES ASSUME BootInv, [Next]_vars, stored # NoImage, HasRoom,
                      pc = "load", stream = "flash", pc' \notin {"load", "wait"}
               PROVE  /\ g_exe_base' = stored.base /\ g_exe_size' = stored.size
                      /\ Holds(stored)'
    BY DEF LoadsBack
  <2>0. Shape /\ FlashLoad /\ StoredFits
    BY DEF BootInv, FlashLoad, StoredFollows
  <2>1. PICK sums : /\ ImageInFlash(sums)
                    /\ LoadFollows(sums, StoredHeader(SumOfStored(sums)))
    BY <2>0 DEF BootInv, StoredFollows
  <2>2. ~GetHeader
    <3> SUFFICES ASSUME GetHeader PROVE FALSE
      OBVIOUS
    <3>1. Len(header) = 3 /\ header[1] # Signature
      BY DEF GetHeader
    <3>2. header[1] = StoredHeader(SumOfStored(sums))[1]
      BY <2>1, <3>1 DEF LoadFollows
    <3> QED
      BY <2>0, <2>1, <3>1, <3>2, HeaderWords
  <2>3. ~GetData
    <3> SUFFICES ASSUME GetData PROVE FALSE
      OBVIOUS
    <3>1. Len(header) = 4 /\ i < header[3]
      BY DEF GetData, MoreData
    <3>2. Mapped(Target)
      BY <2>0, <2>1, <3>1, DataOfStored
    <3> QED
      BY <3>2 DEF GetData
  <2>4. FinishLoad
    <3>1. pc # pc'
      OBVIOUS
    <3>2. ~UNCHANGED vars
      BY <3>1 DEF vars
    <3> QED
      BY <2>2, <2>3, <3>2 DEF Next, KeyPressed, AutoBoot, Console, CmdUpload, CmdLoad,
         CmdStore, CmdExecute, CmdExit, Answer, Refuse, Confirm, BootAnyway, Load, Store,
         EraseSector, Erased, PutData, AllData, PutHeader, Stored, Restart, Boots
  <2> QED
    BY <2>0, <2>1, <2>4, LoadedBack
<1> QED
  BY <1>1, BootLayer, PTL DEF StoredImageLoads, Spec

-----------------------------------------------------------------------------
(* Sums                                                                    *)

(* Induction without a predicate: a set of numbers that holds 0 and the    *)
(* successor of each of its members holds all of them.                     *)
Below == {pair \in Nat \X Nat : pair[1] < pair[2]}

LEMMA BelowWellFounded == IsWellFoundedOn(Below, Nat)
BY NatLessThanWellFounded DEF OpToRel, Below

LEMMA Induction ==
  ASSUME NEW T, 0 \in T, \A n \in Nat : n \in T => n + 1 \in T
  PROVE  \A n \in Nat : n \in T
<1> DEFINE U == Nat \ T
<1> SUFFICES ASSUME U # {} PROVE FALSE
  OBVIOUS
<1>1. \E x \in U : \A y \in U : ~(<<y, x>> \in Below)
  <2>1. U \subseteq Nat
    OBVIOUS
  <2> HIDE DEF U
  <2> QED
    BY <2>1, BelowWellFounded, WFMin
<1>2. PICK x \in U : \A y \in U : ~(<<y, x>> \in Below)
  BY <1>1
<1>3. x \in Nat /\ x - 1 \in Nat /\ (x - 1) + 1 = x /\ x - 1 < x
  OBVIOUS
<1>4. <<x - 1, x>> \in Below
  BY <1>3 DEF Below
<1>5. x - 1 \in T
  BY <1>2, <1>3, <1>4
<1> QED
  BY <1>3, <1>5

(* The sums of words of which each is a word are partial sums.             *)
LEMMA NoSums == \A words : PartialSums([k \in 0 .. 0 |-> 0], words, 0)
<1> DEFINE none == [k \in 0 .. 0 |-> 0]
<1>1. 0 \in Word
  BY Params, Sizes
<1>2. none \in [0 .. 0 -> Word] /\ none[0] = 0 /\ 1 .. 0 = {}
  BY <1>1
<1> HIDE DEF none
<1>3. \A words : PartialSums(none, words, 0)
  BY <1>2 DEF PartialSums
<1> QED
  BY <1>3 DEF none

LEMMA SumsExist ==
  ASSUME NEW n \in Nat, NEW words \in [1 .. n -> Word]
  PROVE  \E sums : PartialSums(sums, words, n)
<1> DEFINE T == {k \in Nat : k <= n => \E sums : PartialSums(sums, words, k)}
<1>1. 0 \in T
  BY NoSums
<1>2. ASSUME NEW k \in Nat, k \in T PROVE k + 1 \in T
  <2> SUFFICES ASSUME k + 1 <= n PROVE \E sums : PartialSums(sums, words, k + 1)
    OBVIOUS
  <2>1. PICK sums : PartialSums(sums, words, k)
    BY <1>2
  <2>2. words[k + 1] \in Word
    OBVIOUS
  <2> HIDE DEF T
  <2> QED
    BY <2>1, <2>2, SumsGrow
<1> HIDE DEF T
<1>3. n \in T
  BY <1>1, <1>2, Induction
<1> QED
  BY <1>3 DEF T

LEMMA SumsUnique ==
  ASSUME NEW n \in Nat, NEW words, NEW sums, PartialSums(sums, words, n),
         NEW more, more[0] = 0,
         \A k \in 1 .. n : more[k] = (more[k - 1] + words[k]) % WordMod
  PROVE  \A k \in 0 .. n : more[k] = sums[k]
<1> DEFINE T == {k \in Nat : k <= n => more[k] = sums[k]}
<1>1. 0 \in T
  BY DEF PartialSums
<1>2. ASSUME NEW k \in Nat, k \in T PROVE k + 1 \in T
  <2> SUFFICES ASSUME k + 1 <= n PROVE more[k + 1] = sums[k + 1]
    OBVIOUS
  <2>1. more[k] = sums[k] /\ k + 1 \in 1 .. n /\ (k + 1) - 1 = k
    BY <1>2
  <2>2. more[k + 1] = (more[k] + words[k + 1]) % WordMod
    BY <2>1
  <2>3. sums[k + 1] = (sums[k] + words[k + 1]) % WordMod
    BY <2>1 DEF PartialSums
  <2> QED
    BY <2>1, <2>2, <2>3
<1> HIDE DEF T
<1>3. \A k \in Nat : k \in T
  BY <1>1, <1>2, Induction
<1> QED
  BY <1>3 DEF T

LEMMA SumsAre ==
  ASSUME NEW words \in Seq(Word)
  PROVE  PartialSums(Sums(words), words, Len(words))
<1> DEFINE n == Len(words)
<1> DEFINE Rule(s) ==
      s = [k \in 0 .. n |-> IF k = 0 THEN 0 ELSE (s[k - 1] + words[k]) % WordMod]
<1>1. n \in Nat /\ words \in [1 .. n -> Word]
  BY LenProperties
<1> HIDE DEF n
<1>2. PICK sums : PartialSums(sums, words, n)
  BY <1>1, SumsExist
<1>3. Rule(sums)
  <2>1. sums \in [0 .. n -> Word] /\ sums[0] = 0
        /\ \A k \in 1 .. n : sums[k] = (sums[k - 1] + words[k]) % WordMod
    BY <1>2 DEF PartialSums
  <2> QED
    BY <1>1, <2>1
<1>4. Sums(words) = CHOOSE s : Rule(s)
  BY DEF Sums, n
<1>5. Rule(Sums(words))
  <2> HIDE DEF Rule
  <2> QED
    BY <1>3, <1>4
<1>6. Sums(words)[0] = 0
      /\ \A k \in 1 .. n : Sums(words)[k] = (Sums(words)[k - 1] + words[k]) % WordMod
  BY <1>1, <1>5
<1>7. \A k \in 0 .. n : Sums(words)[k] = sums[k]
  BY <1>1, <1>2, <1>6, SumsUnique
<1>8. Sums(words) = [k \in 0 .. n |-> sums[k]]
  <2>1. \A k \in 0 .. n : sums[k] = IF k = 0 THEN 0 ELSE (Sums(words)[k - 1] + words[k]) % WordMod
    BY <1>1, <1>6, <1>7
  <2> QED
    BY <1>5, <2>1
<1>9. Sums(words) = sums
  BY <1>2, <1>8 DEF PartialSums
<1> QED
  BY <1>2, <1>9 DEF n

LEMMA SumOf ==
  ASSUME NEW n \in Nat, NEW words \in [1 .. n -> Word],
         NEW sums, PartialSums(sums, words, n)
  PROVE  Sum(words) = sums[n]
<1>1. words \in Seq(Word) /\ Len(words) = n
  BY SeqOfFunction
<1>2. PartialSums(Sums(words), words, n)
  BY <1>1, SumsAre
<1>3. \A k \in 0 .. n : Sums(words)[k] = sums[k]
  <2> DEFINE more == Sums(words)
  <2>1. more[0] = 0 /\ \A k \in 1 .. n : more[k] = (more[k - 1] + words[k]) % WordMod
    BY <1>1, <1>2 DEF PartialSums
  <2> HIDE DEF more
  <2>2. \A k \in 0 .. n : more[k] = sums[k]
    BY <2>1, SumsUnique
  <2> QED
    BY <2>2 DEF more
<1> QED
  BY <1>1, <1>3 DEF Sum

-----------------------------------------------------------------------------
(* What is executable                                                      *)

LEMMA ErasedFromIs ==
  ASSUME NEW word, NEW t, NEW w \in Word,
         \A k \in 0 .. WordBytes - 1 :
           ByteOf(w, k) = IF k < t THEN ByteOf(word, k) ELSE ErasedByte
  PROVE  ErasedFrom(word, t) = w
<1> DEFINE Left(v) ==
      \A k \in 0 .. WordBytes - 1 :
        ByteOf(v, k) = IF k < t THEN ByteOf(word, k) ELSE ErasedByte
<1>1. Left(w) /\ \A v \in Word : Left(v) => v = w
  BY WordAssumption
<1>2. ErasedFrom(word, t) = CHOOSE v \in Word : Left(v)
  BY DEF ErasedFrom
<1> HIDE DEF Left
<1> QED
  BY <1>1, <1>2

LEMMA ImageSizes ==
  ASSUME NEW image \in Images
  PROVE  /\ image.data \in Seq(Word) /\ Len(image.data) \in Nat
         /\ image.data \in [1 .. Len(image.data) -> Word]
         /\ Len(image.data) * WordBytes \in Nat /\ Len(image.data) * WordBytes <= MemBytes
         /\ Sum(image.data) \in Word /\ Complement(Sum(image.data)) \in Word
<1>1. /\ image.data \in Seq(Word) /\ Len(image.data) = WordsOf(image.size)
      /\ image.size \in Nat /\ image.base \in Nat /\ image.base + image.size <= MemBytes
  <2>1. /\ image.base \in Word /\ image.size \in Word
        /\ image.base + image.size <= MemBytes
        /\ image.data \in Seq(Word) /\ Len(image.data) = WordsOf(image.size)
    BY BootAssumption
  <2>2. \A w \in Word : w \in Nat
    BY Sizes
  <2> QED
    BY <2>1, <2>2
<1>2. MemBytes \in Nat /\ MemBytes % WordBytes = 0 /\ Padded(image.size) \in Nat
      /\ Padded(image.size) = Len(image.data) * WordBytes
  BY <1>1, Params, Sizes, PaddedSize DEF Padded
<1>3. Padded(image.size) <= MemBytes
  <2>1. MemBytes >= image.size
    BY <1>1, <1>2
  <2>2. MemBytes <= Padded(image.size) => MemBytes = Padded(image.size)
    BY <1>1, <1>2, <2>1, WithinSize
  <2> QED
    BY <1>2, <2>2
<1>4. image.data \in [1 .. Len(image.data) -> Word] /\ Len(image.data) \in Nat
  BY <1>1, LenProperties
<1>5. Sum(image.data) \in Word
  <2>1. PartialSums(Sums(image.data), image.data, Len(image.data))
    BY <1>1, SumsAre
  <2> QED
    BY <1>4, <2>1 DEF PartialSums, Sum
<1>6. Complement(Sum(image.data)) \in Word
  BY <1>5, Sizes DEF Complement
<1> QED
  BY <1>1, <1>2, <1>3, <1>4, <1>5, <1>6

LEMMA SealingIs ==
  ASSUME TypeOK, Len(header) = 4
  PROVE  \A m \in 1 .. 4 :
           Sealing[m] = <<header[1], header[2], header[3], Complement(header[4])>>[m]
<1> DEFINE h == <<header[1], header[2], header[3], Complement(header[4])>>
<1>1. header \in Seq(Word) /\ DOMAIN header = 1 .. 4
  BY DEF TypeOK
<1>2. /\ Sealing[1] = header[1] /\ Sealing[2] = header[2] /\ Sealing[3] = header[3]
      /\ Sealing[4] = Complement(header[4])
  BY <1>1 DEF Sealing
<1>3. h[1] = header[1] /\ h[2] = header[2] /\ h[3] = header[3]
      /\ h[4] = Complement(header[4])
  OBVIOUS
<1> HIDE DEF h
<1>4. \A m \in 1 .. 4 : m = 1 \/ m = 2 \/ m = 3 \/ m = 4
  OBVIOUS
<1> QED
  BY <1>2, <1>3, <1>4 DEF h

(* A store writes the header last, from its first byte on, in front of an  *)
(* executable of the host.                                                 *)
LEMMA FlashStands ==
  ASSUME Shape, StoreFollows, ExeIntact, FlashKept, RoomForImages
  PROVE  FlashIntact
<1> SUFFICES ASSUME pc \in {"store", "seal"} PROVE FlashIntact
  BY DEF FlashKept
<1> DEFINE n == WordsOf(g_exe_size)
<1>0. /\ TypeOK /\ g_exe_size # 0 /\ Len(header) = 4
      /\ header[1] = Signature /\ header[2] = g_exe_base /\ header[3] = g_exe_size
  BY DEF Shape, StoreShape
<1>1. PICK image \in Images : Carries(image, g_exe_size) /\ Exe = image.data
  BY <1>0 DEF ExeIntact
<1>2. Room(g_exe_size) /\ g_exe_size \in Word /\ g_exe_base \in Word
  BY <1>0, <1>1 DEF RoomForImages, TypeOK
<1>3. HeaderBytes \in Nat \ {0}
  BY Params, Sizes
<1>4. CASE pc = "store" \/ i = 0
  <2>1. Clean(0, HeaderBytes - 1)
    BY <1>2, <1>4 DEF StoreFollows
  <2> QED
    BY <1>3, <2>1 DEF Clean, FlashIntact
<1>5. CASE pc = "seal" /\ i # 0
  <2>1. /\ Clean(i, HeaderBytes - 1) /\ HeaderInFlash(Sealing, i)
        /\ DataInFlash(Exe, Padded(g_exe_size)) /\ Summed(n)
    BY <1>2, <1>5 DEF StoreFollows
  <2>2. i \in 1 .. HeaderBytes
    BY <1>0, <1>3, <1>5, Sizes DEF Shape, StoreShape, TypeOK
  <2> DEFINE h == ImageHeader(image, g_exe_base, g_exe_size)
  <2>3. \A m \in 1 .. 4 : Sealing[m] = h[m]
    <3>1. header[4] = Sum(image.data)
      <4>1. PICK sums : PartialSums(sums, Exe, n) /\ header[4] = sums[n]
        BY <2>1 DEF Summed
      <4>2. n \in Nat /\ Exe \in [1 .. n -> Word]
        <5>1. g_exe_size \in Nat
          BY <1>2, Sizes
        <5> QED
          BY <1>0, <5>1, ExeWords, PaddedSize
      <4> HIDE DEF n
      <4>3. Sum(Exe) = sums[n]
        BY <4>1, <4>2, SumOf
      <4> QED
        BY <1>1, <4>1, <4>3
    <3>2. h = <<header[1], header[2], header[3], Complement(header[4])>>
      BY <1>0, <3>1 DEF ImageHeader
    <3> HIDE DEF h
    <3> QED
      BY <1>0, <3>2, SealingIs
  <2> HIDE DEF h
  <2>4. HeaderLeft(h, i)
    <3>1. ASSUME NEW k \in 0 .. HeaderBytes - 1 PROVE k \div WordBytes + 1 \in 1 .. 4
      <4>1. k \in Nat /\ k < 4 * WordBytes
        BY Sizes, Params
      <4>2. k \div WordBytes \in 0 .. 4 - 1
        BY <4>1, Params, WordBelow
      <4> QED
        BY <4>2
    <3>2. ASSUME NEW k \in 0 .. HeaderBytes - 1
          PROVE  flash[k] = IF k < i THEN ByteOf(h[k \div WordBytes + 1], k % WordBytes)
                            ELSE ErasedByte
      <4>1. CASE k < i
        <5>1. flash[k] = ByteOf(Sealing[k \div WordBytes + 1], k % WordBytes)
          BY <2>1, <2>2, <4>1 DEF HeaderInFlash
        <5> QED
          BY <2>3, <3>1, <4>1, <5>1
      <4>2. CASE ~(k < i)
        <5>1. k \in i .. HeaderBytes - 1
          BY <2>2, <4>2
        <5> QED
          BY <2>1, <4>2, <5>1 DEF Clean
      <4> QED
        BY <4>1, <4>2
    <3> QED
      BY <3>2 DEF HeaderLeft
  <2>5. DataLeft(image.data, SectorBytes)
    <3>1. Padded(g_exe_size) = Len(image.data) * WordBytes
      BY <1>1 DEF Padded, Carries
    <3>2. \A k : HeaderBytes + k \notin SectorBytes .. SectorBytes - 1
      BY Params
    <3> QED
      BY <1>1, <2>1, <3>1, <3>2 DEF DataLeft, DataInFlash
  <2>6. SectorBytes \in HeaderBytes .. SectorBytes
    BY <1>3, Params, SizeAssumption
  <2> QED
    BY <1>1, <1>2, <2>2, <2>4, <2>5, <2>6 DEF FlashIntact, ImageLeft, h
<1> QED
  BY <1>0, <1>4, <1>5

(* An erasure that is interrupted in the first sector leaves a part of     *)
(* what was there, and leaves the signature only if it began at the end.   *)
LEMMA ErasureInterrupted ==
  ASSUME TypeOK, FlashIntact, g_flash_addr = 0, flash' \in PartlyErased
  PROVE  FlashIntact'
<1>0. /\ SectorBytes \in Nat \ {0} /\ HeaderBytes \in Nat \ {0} /\ FlashBytes \in Nat \ {0}
      /\ HeaderBytes <= SectorBytes /\ HeaderBytes + MemBytes <= FlashBytes
      /\ MemBytes \in Nat /\ DOMAIN flash = 0 .. FlashBytes - 1
  BY Params, Sizes, SizeAssumption DEF TypeOK
<1>1. Sector(g_flash_addr) = 0 .. SectorBytes - 1
  BY <1>0 DEF Sector
<1>2. PICK p \in 0 .. SectorBytes - 1 :
        \/ flash' = ErasedIn({k \in 0 .. SectorBytes - 1 : k < p})
        \/ flash' = ErasedIn({k \in 0 .. SectorBytes - 1 : k >= p})
  BY <1>1 DEF PartlyErased
<1>3. CASE flash[0] = ErasedByte
  <2>1. flash'[0] = ErasedByte
    BY <1>0, <1>2, <1>3 DEF ErasedIn
  <2> QED
    BY <2>1 DEF FlashIntact
<1>4. CASE flash[0] # ErasedByte /\ flash' = ErasedIn({k \in 0 .. SectorBytes - 1 : k < p})
  <2>1. CASE p = 0
    <3>1. {k \in 0 .. SectorBytes - 1 : k < p} = {}
      BY <1>0, <2>1
    <3>2. flash' = [k \in DOMAIN flash |-> flash[k]]
      BY <1>4, <3>1 DEF ErasedIn
    <3>3. flash' = flash
      BY <3>2 DEF TypeOK
    <3> QED
      BY <3>3 DEF FlashIntact, ImageLeft, HeaderLeft, DataLeft
  <2>2. CASE p # 0
    <3>1. 0 \in {k \in 0 .. SectorBytes - 1 : k < p}
      BY <1>0, <2>2
    <3>2. flash'[0] = ErasedByte
      BY <1>0, <1>4, <3>1 DEF ErasedIn
    <3> QED
      BY <3>2 DEF FlashIntact
  <2> QED
    BY <2>1, <2>2
<1>5. CASE flash[0] # ErasedByte /\ flash' = ErasedIn({k \in 0 .. SectorBytes - 1 : k >= p})
  <2>1. ASSUME NEW k \in DOMAIN flash
        PROVE  flash'[k] = IF k \in p .. SectorBytes - 1 THEN ErasedByte ELSE flash[k]
    BY <1>0, <1>5 DEF ErasedIn
  <2>2. CASE p = 0
    <3>1. flash'[0] = ErasedByte
      BY <1>0, <2>1, <2>2
    <3> QED
      BY <3>1 DEF FlashIntact
  <2>3. CASE p # 0
    <3>1. PICK image \in Images, base \in Word, size \in Word,
               j \in 1 .. HeaderBytes, b \in HeaderBytes .. SectorBytes :
                 ImageLeft(image, base, size, j, b)
      BY <1>5 DEF FlashIntact
    <3> DEFINE jj == IF j < p THEN j ELSE p
    <3> DEFINE bb == IF p <= HeaderBytes THEN HeaderBytes ELSE IF b < p THEN b ELSE p
    <3> DEFINE h == ImageHeader(image, base, size)
    <3>2. jj \in 1 .. HeaderBytes /\ bb \in HeaderBytes .. SectorBytes
      BY <1>0, <2>3
    <3> HIDE DEF h
    <3>3. HeaderLeft(h, jj)'
      <4>1. ASSUME NEW k \in 0 .. HeaderBytes - 1
            PROVE  flash'[k] = IF k < jj THEN ByteOf(h[k \div WordBytes + 1], k % WordBytes)
                               ELSE ErasedByte
        <5>1. flash[k] = IF k < j THEN ByteOf(h[k \div WordBytes + 1], k % WordBytes)
                         ELSE ErasedByte
          BY <3>1 DEF ImageLeft, HeaderLeft, h
        <5>2. k \in DOMAIN flash /\ (k \in p .. SectorBytes - 1 <=> k >= p)
          BY <1>0
        <5>3. k < jj <=> k < j /\ k < p
          OBVIOUS
        <5> QED
          BY <2>1, <5>1, <5>2, <5>3
      <4> QED
        BY <4>1 DEF HeaderLeft
    <3>4. DataLeft(image.data, bb)'
      <4>1. ASSUME NEW k \in 0 .. Len(image.data) * WordBytes - 1
            PROVE  flash'[HeaderBytes + k] =
                     IF HeaderBytes + k \in bb .. SectorBytes - 1 THEN ErasedByte
                     ELSE ByteOf(image.data[k \div WordBytes + 1], k % WordBytes)
        <5>1. flash[HeaderBytes + k] =
                IF HeaderBytes + k \in b .. SectorBytes - 1 THEN ErasedByte
                ELSE ByteOf(image.data[k \div WordBytes + 1], k % WordBytes)
          BY <3>1 DEF ImageLeft, DataLeft
        <5>2. HeaderBytes + k \in DOMAIN flash /\ k \in Nat
          BY <1>0, ImageSizes
        <5>3. HeaderBytes + k \in bb .. SectorBytes - 1
                <=> \/ HeaderBytes + k \in b .. SectorBytes - 1
                    \/ HeaderBytes + k \in p .. SectorBytes - 1
          BY <1>0, <5>2
        <5> HIDE DEF bb
        <5> QED
          BY <2>1, <5>1, <5>2, <5>3
      <4> QED
        BY <4>1 DEF DataLeft
    <3>5. ImageLeft(image, base, size, jj, bb)'
      BY <3>1, <3>3, <3>4 DEF ImageLeft, h
    <3> HIDE DEF jj, bb
    <3> QED
      BY <3>2, <3>5 DEF FlashIntact
  <2> QED
    BY <2>2, <2>3
<1> QED
  BY <1>2, <1>3, <1>4, <1>5

LEMMA FlashStays ==
  ASSUME BootInv, ExeIntact, FlashKept, RoomForImages, [Next]_vars
  PROVE  FlashKept'
<1> SUFFICES ASSUME pc' \notin {"store", "seal"} PROVE FlashIntact'
  BY DEF FlashKept
<1>0. TypeOK /\ FlashIntact
  BY FlashStands DEF BootInv, Shape
<1>1. CASE flash' = flash
  BY <1>0, <1>1 DEF FlashIntact, ImageLeft, HeaderLeft, DataLeft
<1>2. HeaderBytes \in Nat \ {0} /\ FlashBytes \in Nat \ {0} /\ SectorBytes \in Nat \ {0}
      /\ DOMAIN flash = 0 .. FlashBytes - 1 /\ g_flash_addr \in Nat
  BY <1>0, Params, Sizes DEF TypeOK
<1>3. ASSUME pc = "erase", g_flash_addr # 0 PROVE flash[0] = ErasedByte
  BY <1>2, <1>3 DEF BootInv, StoreFollows, Clean
<1>4. CASE EraseSector
  <2>1. flash' = ErasedIn(Sector(g_flash_addr)) /\ pc = "erase"
    BY <1>4 DEF EraseSector
  <2>2. flash'[0] = ErasedByte
    BY <1>2, <1>3, <2>1 DEF ErasedIn, Sector
  <2> QED
    BY <2>2 DEF FlashIntact
<1>5. CASE Restart /\ flash' # flash
  <2>1. flash' \in PartlyErased /\ pc = "erase"
    BY <1>5 DEF Restart
  <2>2. CASE g_flash_addr = 0
    BY <1>0, <2>1, <2>2, ErasureInterrupted
  <2>3. CASE g_flash_addr # 0
    <3>1. \E addrs : flash' = ErasedIn(addrs)
      BY <2>1 DEF PartlyErased
    <3>2. flash'[0] = ErasedByte
      BY <1>2, <1>3, <2>1, <2>3, <3>1 DEF ErasedIn
    <3> QED
      BY <3>2 DEF FlashIntact
  <2> QED
    BY <2>2, <2>3
<1>6. \/ flash' = flash \/ EraseSector \/ Restart \/ PutData \/ PutHeader
  BY DEF Next, vars, globals, locals, world, storeUnchanged, KeyPressed, AutoBoot, Console,
     CmdUpload, CmdLoad, StartLoad, CmdStore, CmdExecute, CmdExit, Answer, Refuse, Confirm,
     BootAnyway, Load, GetHeader, GetData, FinishLoad, Store, Erased, AllData, Stored
<1>7. ~PutData /\ ~PutHeader
  BY DEF PutData, PutHeader
<1> QED
  BY <1>1, <1>4, <1>5, <1>6, <1>7

(* Remainders may be taken of a part of a sum, or of none. *)
LEMMA ModSum ==
  ASSUME NEW m \in Nat \ {0}, NEW x \in Int, NEW y \in Int
  PROVE  ((x % m) + y) % m = (x + y) % m
<1>1. PICK q \in Int, r \in 0 .. m - 1 : x = q * m + r /\ x % m = r
  BY Division
<1>2. PICK p \in Int, s \in 0 .. m - 1 : r + y = p * m + s /\ (r + y) % m = s
  <2>1. r + y \in Int
    OBVIOUS
  <2> QED
    BY <2>1, Division
<1>3. x + y = (q + p) * m + s
  BY <1>1, <1>2
<1>4. (x + y) % m = s
  <2>1. q + p \in Int
    OBVIOUS
  <2>2. ((q + p) * m + s) % m = s
    BY <2>1, Quotient
  <2> QED
    BY <1>3, <2>2
<1> QED
  BY <1>1, <1>2, <1>4

LEMMA ZeroRemainder ==
  ASSUME NEW m \in Nat \ {0}, NEW x \in 0 .. m - 1, NEW y \in 0 .. m - 1,
         (x - y) % m = 0
  PROVE  x = y
<1>1. x - y \in Int
  OBVIOUS
<1>2. PICK q \in Int : x - y = q * m
  <2>1. x - y = ((x - y) \div m) * m + ((x - y) % m) /\ (x - y) \div m \in Int
    BY <1>1, Division
  <2>2. ((x - y) \div m) * m \in Int
    BY <2>1, Product
  <2> QED
    BY <2>1, <2>2
<1>3. 0 < q => 0 * m + m <= q * m
  BY Multiples
<1>4. q < 0 => q * m + m <= 0 * m
  BY Multiples
<1> QED
  BY <1>2, <1>3, <1>4

(* One wrong word changes the sum by what it is wrong by.                  *)
LEMMA ErrorInSum ==
  ASSUME NEW m \in Nat \ {0}, NEW a \in Int, NEW s \in Int, NEW d \in Int, NEW w \in Int
  PROVE  (((a + s) % m) + w) % m = (a + ((s + d) % m) + ((w - d) % m)) % m
<1> DEFINE e == (w - d) % m
<1> DEFINE f == (s + d) % m
<1>1. e \in Int /\ f \in Int /\ w - d \in Int /\ s + d \in Int /\ a + s \in Int
  <2>1. w - d \in Int /\ s + d \in Int /\ a + s \in Int
    OBVIOUS
  <2> QED
    BY <2>1, Division
<1>2. a + e \in Int /\ s + d + a \in Int
  BY <1>1
<1>3. (f + (a + e)) % m = ((s + d) + (a + e)) % m
  BY ONLY m \in Nat \ {0}, <1>1, <1>2, ModSum
<1>4. (e + (s + d + a)) % m = ((w - d) + (s + d + a)) % m
  BY ONLY m \in Nat \ {0}, <1>1, <1>2, ModSum
<1>5. (((a + s) % m) + w) % m = ((a + s) + w) % m
  BY <1>1, ModSum
<1> HIDE DEF e, f
<1>6. f + (a + e) = a + f + e /\ (s + d) + (a + e) = e + (s + d + a)
      /\ (w - d) + (s + d + a) = (a + s) + w
  BY <1>1
<1>7. (a + f + e) % m = ((a + s) + w) % m
  BY <1>3, <1>4, <1>6
<1> QED
  BY <1>5, <1>7 DEF e, f

LEMMA WrappedIs ==
  ASSUME NEW image \in Images
  PROVE  /\ Len(Wrapped(image)) = 4 + Len(image.data)
         /\ Wrapped(image)[3] = image.size
         /\ Wrapped(image)[4] = Complement(Sum(image.data))
         /\ \A m \in 1 .. Len(image.data) : Wrapped(image)[4 + m] = image.data[m]
<1> DEFINE h == <<Signature, image.base, image.size, Complement(Sum(image.data))>>
<1>1. image.data \in Seq(Word) /\ Len(image.data) \in Nat /\ image.base \in Word
      /\ image.size \in Word /\ Complement(Sum(image.data)) \in Word /\ Signature \in Word
  BY ImageSizes, BootAssumption
<1>2. h \in Seq(Word) /\ Len(h) = 4 /\ h[3] = image.size
      /\ h[4] = Complement(Sum(image.data))
  BY <1>1
<1>3. Wrapped(image) = h \o image.data
  BY DEF Wrapped
<1> HIDE DEF h
<1> DEFINE data == image.data
<1>4. data \in Seq(Word) /\ Len(data) \in Nat
  BY <1>1
<1> HIDE DEF data
<1>5. /\ Len(h \o data) = Len(h) + Len(data)
      /\ \A k \in 1 .. Len(h) + Len(data) :
           (h \o data)[k] = IF k <= Len(h) THEN h[k] ELSE data[k - Len(h)]
  BY ONLY <1>2, <1>4, ConcatProperties, ZenonT(30)
<1> DEFINE both == h \o data
<1> HIDE DEF both
<1>6. /\ Len(both) = 4 + Len(data)
      /\ \A k \in 1 .. 4 + Len(data) : both[k] = IF k <= 4 THEN h[k] ELSE data[k - 4]
  BY <1>2, <1>5 DEF both
<1>7. both[3] = h[3] /\ both[4] = h[4] /\ \A m \in 1 .. Len(data) : both[4 + m] = data[m]
  BY <1>4, <1>6
<1> QED
  BY <1>2, <1>3, <1>6, <1>7 DEF data, both

(* Before anything is read. *)
LEMMA ReadStarts ==
  ASSUME NEW from \in {"uart", "flash"}, NEW byAuto, StartLoad(from, byAuto),
         from = "uart" => file' \in Images
  PROVE  ReadFollows'
<1>1. stream' = from /\ Len(header') = 0 /\ i' = 0
  BY DEF StartLoad
<1>2. 1 .. 0 = {} /\ 0 \notin {3, 4} /\ 0 # 4
  OBVIOUS
<1>3. from = "uart" => UartFollows'
  BY <1>1, <1>2 DEF UartFollows
<1>4. FlashFollows'
  BY <1>1, <1>2 DEF FlashFollows
<1> QED
  BY <1>1, <1>3, <1>4 DEF ReadFollows

(* The next word of the host's file, or at most one wrong word.            *)
LEMMA UartGets ==
  ASSUME Shape, FaultsBounded, MaxFaults <= 1, stream = "uart", file \in Images,
         NEW w \in Word, StreamGet(w)
  PROVE  /\ faults \in Nat /\ faults' \in Nat /\ faults' >= faults
         /\ FaultsBounded' /\ Received < 4 + Len(file.data)
         /\ \/ w = Wrapped(file)[Received + 1]
            \/ w \in FaultWords /\ faults = 0 /\ faults' # 0
<1>1. MaxFaults \in Nat
  BY BootAssumption
<1>2. Received < 4 + Len(file.data)
  BY WrappedIs DEF StreamGet
<1>3. \/ w = Wrapped(file)[Received + 1] /\ faults' = faults
      \/ w \in FaultWords /\ faults < MaxFaults /\ faults' = faults + 1
  BY DEF StreamGet
<1> QED
  BY <1>1, <1>2, <1>3 DEF FaultsBounded

LEMMA UartGetHeader ==
  ASSUME Shape, FaultsBounded, MaxFaults <= 1, UartFollows, stream = "uart", GetHeader
  PROVE  UartFollows'
<1> DEFINE len == Len(header)
<1> DEFINE n == Len(file.data)
<1> DEFINE c == Complement(Sum(file.data))
<1>0. TypeOK /\ pc = "load" /\ i = 0 /\ i' = 0 /\ len < 4 /\ file \in Images /\ file' = file
  BY DEF Shape, LoadShape, GetHeader, UartFollows
<1>1. PICK w \in Word : StreamGet(w) /\ header' = Append(header, w)
  BY DEF GetHeader
<1>2. /\ len \in 0 .. 3 /\ Len(header') = len + 1 /\ header'[len + 1] = w
      /\ \A m \in 1 .. len : header'[m] = header[m]
  BY ONLY <1>0, <1>1, w \in Word, HeaderGrows, ZenonT(30)
<1>3. 0 \div WordBytes = 0 /\ 1 .. 0 = {} /\ Loaded' = 0
  BY <1>0, Params DEF Loaded
<1>4. Received = len
  BY <1>0, <1>2, <1>3 DEF Received
<1>5. /\ faults \in Nat /\ faults' \in Nat /\ faults' >= faults
      /\ \/ w = Wrapped(file)[len + 1]
         \/ w \in FaultWords /\ faults = 0 /\ faults' # 0
  BY <1>0, <1>1, <1>4, UartGets
<1>6. /\ n \in Nat /\ c \in Word /\ Wrapped(file)[3] = file.size /\ Wrapped(file)[4] = c
      /\ Sums(file.data)[0] = 0
  <2>1. PartialSums(Sums(file.data), file.data, n)
    BY <1>0, ImageSizes, SumsAre
  <2> QED
    BY <1>0, <2>1, ImageSizes, WrappedIs DEF PartialSums
<1> HIDE DEF len, n, c
<1>7. ASSUME Len(header') \in {3, 4}
      PROVE  header'[3] = file.size \/ (header'[3] \in FaultWords /\ faults' # 0)
  <2>1. CASE len = 2
    BY <1>2, <1>5, <1>6, <2>1
  <2>2. CASE len = 3
    <3>1. header'[3] = header[3]
      BY <1>2, <2>2
    <3>2. header[3] = file.size \/ (header[3] \in FaultWords /\ faults # 0)
      BY <2>2 DEF UartFollows, len
    <3> QED
      BY <1>5, <3>1, <3>2
  <2>3. len + 1 = 3 \/ len + 1 = 4
    BY <1>2, <1>7
  <2> QED
    BY <1>2, <2>1, <2>2, <2>3
<1>8. ASSUME Len(header') = 4
      PROVE  \E error \in Word :
               /\ header'[4] = (c + 0 + error) % WordMod
               /\ error # 0 => faults' # 0 /\ header'[3] = file.size
  <2>0. len = 3 /\ header'[4] = w /\ header'[3] = header[3]
    <3>1. len = 3
      <4>1. \A k \in 0 .. 3 : k + 1 = 4 => k = 3
        OBVIOUS
      <4> QED
        BY <1>2, <1>8, <4>1
    <3>2. 3 \in 1 .. len /\ len + 1 = 4
      BY <3>1
    <3> QED
      BY <1>2, <3>1, <3>2
  <2>1. WordMod \in Nat \ {0} /\ w \in 0 .. WordMod - 1 /\ c \in 0 .. WordMod - 1
        /\ 0 \in Word /\ c \in Int /\ w \in Int
    BY <1>6, Sizes, Params
  <2>2. CASE w = c
    <3>1. c + 0 + 0 = c /\ c % WordMod = c
      BY <2>1, SmallRemainder
    <3> QED
      BY <2>0, <2>1, <2>2, <3>1
  <2>3. CASE w # c
    <3>1. faults' # 0 /\ header'[3] = file.size
      <4>1. faults = 0 /\ faults' # 0
        BY <1>5, <1>6, <2>0, <2>3
      <4>2. header[3] = file.size
        BY <2>0, <4>1 DEF UartFollows, len
      <4> QED
        BY <2>0, <4>1, <4>2
    <3> DEFINE error == (w - c) % WordMod
    <3>2. error \in Word
      <4>1. w - c \in Int
        BY <2>1
      <4> QED
        BY <2>1, <4>1, Division, Sizes
    <3>3. w = (c + 0 + error) % WordMod
      <4>1. w - c \in Int
        BY <2>1
      <4>2. (error + c) % WordMod = ((w - c) + c) % WordMod
        BY ONLY <2>1, <4>1, ModSum
      <4>3. w % WordMod = w
        BY <2>1, SmallRemainder
      <4> HIDE DEF error
      <4>4. error + c = c + 0 + error /\ (w - c) + c = w
        BY <2>1, <3>2, Sizes
      <4> QED
        BY <4>2, <4>3, <4>4
    <3> HIDE DEF error
    <3> QED
      BY <2>0, <3>1, <3>2, <3>3
  <2> QED
    BY <2>2, <2>3
<1>9. ASSUME Len(header') = 4 PROVE \E error \in Word : UartSum(error)'
  <2>1. PICK error \in Word :
          /\ header'[4] = (c + 0 + error) % WordMod
          /\ error # 0 => faults' # 0 /\ header'[3] = file.size
    BY <1>8, <1>9
  <2>2. UartSum(error)'
    BY <1>0, <1>3, <1>6, <2>1 DEF UartSum, c
  <2> QED
    BY <2>2
<1>10. Loaded' <= Len(file'.data)
  BY <1>0, <1>3, <1>6 DEF n
<1> QED
  BY <1>0, <1>7, <1>9, <1>10 DEF UartFollows

LEMMA UartGetData ==
  ASSUME Shape, FaultsBounded, MaxFaults <= 1, UartFollows, stream = "uart", GetData,
         Mapped(Target)
  PROVE  UartFollows'
<1> DEFINE n == Len(file.data)
<1> DEFINE c == Complement(Sum(file.data))
<1> DEFINE q == Loaded
<1> DEFINE S == Sums(file.data)
<1> DEFINE b == g_exe_base \div WordBytes
<1>0. TypeOK /\ pc = "load" /\ Len(header) = 4 /\ file \in Images
      /\ UNCHANGED <<file, g_exe_base>>
  BY DEF Shape, GetData, UartFollows
<1>1. PICK w \in Word :
           /\ StreamGet(w)
           /\ q \in Nat /\ Loaded' = q + 1
           /\ Len(header') = 4 /\ header'[3] = header[3]
           /\ header'[4] = (header[4] + w) % WordMod
           /\ mem'[b + q] = w /\ \A m \in 1 .. q : mem'[b + m - 1] = LoadedWord(m)
  BY DataLoaded
<1>2. Received = 4 + q
  BY <1>0 DEF Received, Loaded
<1>3. /\ faults \in Nat /\ faults' \in Nat /\ faults' >= faults /\ 4 + q < 4 + n
      /\ \/ w = Wrapped(file)[4 + q + 1]
         \/ w \in FaultWords /\ faults = 0 /\ faults' # 0
  BY <1>0, <1>1, <1>2, UartGets
<1>4. /\ n \in Nat /\ c \in Word /\ file.data \in [1 .. n -> Word]
      /\ \A m \in 1 .. n : Wrapped(file)[4 + m] = file.data[m]
  BY <1>0, ImageSizes, WrappedIs
<1>5. q + 1 \in 1 .. n /\ (q + 1) - 1 = q /\ 4 + q + 1 = 4 + (q + 1) /\ q \in 0 .. n
  BY <1>1, <1>3, <1>4
<1>6. /\ S \in [0 .. n -> Word] /\ S[q + 1] = (S[q] + file.data[q + 1]) % WordMod
  <2>1. PartialSums(S, file.data, n)
    BY <1>0, ImageSizes, SumsAre
  <2> QED
    BY <1>5, <2>1 DEF PartialSums
<1>7. PICK error \in Word : UartSum(error)
  BY <1>0 DEF UartFollows
<1> DEFINE d == file.data[q + 1]
<1>8. /\ WordMod \in Nat \ {0} /\ c \in Int /\ S[q] \in Int /\ w \in Int /\ error \in Int
      /\ d \in Word /\ d \in Int /\ c + error \in Int
  <2>1. S[q] \in Word /\ d \in Word
    BY <1>4, <1>5, <1>6
  <2>2. \A v \in Word : v \in Int
    BY Sizes
  <2>3. c \in Int /\ error \in Int
    BY <1>4, <2>2
  <2>4. c + error \in Int
    BY <2>3
  <2> QED
    BY <1>4, <2>1, <2>2, <2>4, Sizes, Params
<1>9. header[4] = (c + S[q] + error) % WordMod
      /\ (error = 0 => \A m \in 1 .. q : LoadedWord(m) = file.data[m])
      /\ (error # 0 => faults # 0 /\ header[3] = file.size)
  BY <1>7 DEF UartSum
<1> HIDE DEF n, c, S, q, b, d
<1>10. \E more \in Word :
         /\ header'[4] = (c + S[q + 1] + more) % WordMod
         /\ more = 0 => error = 0 /\ w = d
         /\ more # 0 => faults' # 0 /\ header'[3] = file.size
  <2>1. CASE w = d
    <3>1. ((((c + error) + S[q]) % WordMod) + w) % WordMod
            = ((c + error) + ((S[q] + w) % WordMod)) % WordMod
      BY ONLY <1>8, SumInWords
    <3>2. S[q + 1] = (S[q] + w) % WordMod /\ S[q + 1] \in Int
      <4>1. S[q + 1] \in Word
        BY <1>5, <1>6
      <4> QED
        BY <1>6, <2>1, <4>1, Sizes DEF d
    <3>3. (c + error) + S[q] = c + S[q] + error
          /\ (c + error) + S[q + 1] = c + S[q + 1] + error
      BY <1>8, <3>2
    <3>4. header'[4] = (c + S[q + 1] + error) % WordMod
      BY <1>1, <1>9, <3>1, <3>2, <3>3
    <3>5. error # 0 => faults' # 0 /\ header'[3] = file.size
      BY <1>1, <1>3, <1>9
    <3> QED
      BY <2>1, <3>4, <3>5
  <2>2. CASE w # d
    <3>1. faults = 0 /\ faults' # 0
      BY <1>3, <1>4, <1>5, <2>2 DEF d
    <3>2. error = 0 /\ header'[3] = file.size
      BY <1>0, <1>1, <1>9, <3>1 DEF UartFollows
    <3> DEFINE more == (w - d) % WordMod
    <3>3. more \in Word
      <4>1. w - d \in Int
        BY <1>8
      <4> QED
        BY <1>8, <4>1, Division, Sizes
    <3>4. more # 0
      BY <1>8, <2>2, Sizes, ZeroRemainder
    <3>5. (((c + S[q]) % WordMod) + w) % WordMod
            = (c + ((S[q] + d) % WordMod) + more) % WordMod
      BY ONLY <1>8, ErrorInSum
    <3> HIDE DEF more
    <3>6. c + S[q] + error = c + S[q]
      BY <1>8, <3>2
    <3>7. header'[4] = (c + S[q + 1] + more) % WordMod
      BY <1>1, <1>6, <1>9, <3>5, <3>6 DEF d
    <3> QED
      BY <3>1, <3>2, <3>3, <3>4, <3>7
  <2> QED
    BY <2>1, <2>2
<1>11. PICK more \in Word :
         /\ header'[4] = (c + S[q + 1] + more) % WordMod
         /\ more = 0 => error = 0 /\ w = d
         /\ more # 0 => faults' # 0 /\ header'[3] = file.size
  BY <1>10
<1>12. ASSUME more = 0, NEW m \in 1 .. q + 1 PROVE mem'[b + m - 1] = file.data[m]
  <2>1. q \in Nat /\ b \in Int
    <3>1. g_exe_base \in Int
      BY <1>0, Sizes DEF TypeOK
    <3>2. g_exe_base \div WordBytes \in Int
      BY ONLY <3>1, Params, Division, ZenonT(30)
    <3> QED
      BY <1>1, <3>2 DEF b
  <2>2. CASE m = q + 1
    <3>1. b + m - 1 = b + q
      BY <2>1, <2>2
    <3> QED
      BY <1>1, <1>11, <1>12, <2>2, <3>1 DEF d
  <2>3. CASE m \in 1 .. q
    BY <1>1, <1>9, <1>11, <1>12, <2>3
  <2> QED
    BY <2>1, <2>2, <2>3
<1>13. UartSum(more)'
  BY <1>0, <1>1, <1>11, <1>12 DEF UartSum, LoadedWord, c, S, b
<1>14. header'[3] = file.size \/ (header'[3] \in FaultWords /\ faults' # 0)
  BY <1>0, <1>1, <1>3 DEF UartFollows
<1>15. Loaded' <= Len(file'.data)
  BY <1>0, <1>1, <1>5 DEF n
<1> QED
  BY <1>0, <1>13, <1>14, <1>15 DEF UartFollows

LEMMA FlashGetHeader ==
  ASSUME Shape, FlashFollows, stream = "flash", GetHeader
  PROVE  FlashFollows'
<1> DEFINE len == Len(header)
<1>0. TypeOK /\ pc = "load" /\ i = 0 /\ i' = 0 /\ len < 4 /\ flash' = flash
      /\ g_flash_addr = len * WordBytes + i
  BY DEF Shape, LoadShape, GetHeader
<1>1. PICK w \in Word : StreamGet(w) /\ header' = Append(header, w)
  BY DEF GetHeader
<1>2. /\ len \in 0 .. 3 /\ Len(header') = len + 1 /\ header'[len + 1] = w
      /\ \A m \in 1 .. len : header'[m] = header[m]
  BY ONLY <1>0, <1>1, w \in Word, HeaderGrows, ZenonT(30)
<1>3. InFlash(w, len * WordBytes)
  <2>1. len * WordBytes \in Int
    <3>1. len \in Int
      BY <1>2
    <3> QED
      BY <3>1, Params, Product
  <2>2. g_flash_addr = len * WordBytes
    BY <1>0, <2>1
  <2> QED
    BY <1>1, <2>2 DEF StreamGet
<1> HIDE DEF len
<1>4. ASSUME NEW m \in 1 .. len + 1, m < 4
      PROVE  InFlash(header'[m], (m - 1) * WordBytes)
  <2>1. CASE m = len + 1
    <3>1. m - 1 = len
      BY <1>2, <2>1
    <3> QED
      BY <1>2, <1>3, <2>1, <3>1
  <2>2. CASE m \in 1 .. len
    BY <1>2, <1>4, <2>2 DEF FlashFollows, len
  <2> QED
    BY <1>2, <2>1, <2>2
<1>5. \A v, a : InFlash(v, a)' = InFlash(v, a)
  BY <1>0 DEF InFlash
<1>6. Loaded' = 0 /\ 1 .. 0 = {}
  BY <1>0, Params DEF Loaded
<1>7. ASSUME Len(header') = 4
      PROVE  \E checksum \in Word : \E sums :
               /\ InFlash(checksum, 3 * WordBytes)
               /\ PartialSums(sums, [m \in 1 .. Loaded' |-> LoadedWord(m)'], Loaded')
               /\ header'[4] = (checksum + sums[Loaded']) % WordMod
  <2>1. len = 3 /\ header'[4] = w
    <3>1. len = 3
      <4>1. \A k \in 0 .. 3 : k + 1 = 4 => k = 3
        OBVIOUS
      <4> QED
        BY <1>2, <1>7, <4>1
    <3> QED
      BY <1>2, <3>1
  <2> DEFINE none == [k \in 0 .. 0 |-> 0]
  <2>2. none[0] = 0 /\ \A words : PartialSums(none, words, 0)
    BY NoSums
  <2> HIDE DEF none
  <2>3. (w + none[0]) % WordMod = w
    <3>1. w \in 0 .. WordMod - 1 /\ WordMod \in Nat \ {0} /\ w + 0 = w
      BY Sizes, Params
    <3>2. w % WordMod = w
      BY <3>1, SmallRemainder
    <3> QED
      BY <2>2, <3>1, <3>2
  <2> QED
    BY <1>3, <1>6, <2>1, <2>2, <2>3
<1> QED
  BY <1>2, <1>4, <1>5, <1>6, <1>7 DEF FlashFollows

LEMMA FlashGetData ==
  ASSUME Shape, FlashFollows, stream = "flash", GetData, Mapped(Target)
  PROVE  FlashFollows'
<1> DEFINE q == Loaded
<1> DEFINE b == g_exe_base \div WordBytes
<1> DEFINE at(m) == HeaderBytes + (m - 1) * WordBytes
<1>0. TypeOK /\ pc = "load" /\ Len(header) = 4 /\ UNCHANGED <<flash, g_exe_base>>
      /\ g_flash_addr = 4 * WordBytes + i /\ HeaderBytes = 4 * WordBytes
  BY Sizes DEF Shape, LoadShape, GetData
<1>1. PICK w \in Word :
           /\ StreamGet(w)
           /\ q \in Nat /\ i = q * WordBytes /\ Loaded' = q + 1
           /\ Len(header') = 4 /\ header'[1] = header[1] /\ header'[2] = header[2]
           /\ header'[3] = header[3] /\ header'[4] = (header[4] + w) % WordMod
           /\ mem'[b + q] = w /\ \A m \in 1 .. q : mem'[b + m - 1] = LoadedWord(m)
  BY DataLoaded
<1>2. InFlash(w, at(q + 1))
  <2>1. (q + 1) - 1 = q
    BY <1>1
  <2>2. g_flash_addr = at(q + 1)
    BY <1>0, <1>1, <2>1
  <2> QED
    BY <1>1, <2>2 DEF StreamGet
<1>3. \A v, a : InFlash(v, a)' = InFlash(v, a)
  BY <1>0 DEF InFlash
<1>4. b \in Int
  <2>1. g_exe_base \in Int
    BY <1>0, Sizes DEF TypeOK
  <2> QED
    BY ONLY <2>1, Params, Division, ZenonT(30)
<1>5. \A m : LoadedWord(m)' = mem'[b + m - 1]
  BY <1>0 DEF LoadedWord
<1> HIDE DEF q, b, at
<1>6. b + (q + 1) - 1 = b + q
  BY <1>1, <1>4
<1>7. /\ LoadedWord(q + 1)' = mem'[b + (q + 1)' - 1]
      /\ \A m \in 1 .. q : LoadedWord(m) = mem'[b + m - 1]
  BY <1>1, <1>5
<1> DEFINE words == [m \in 1 .. q |-> LoadedWord(m)]
<1> DEFINE more == [m \in 1 .. q + 1 |-> mem'[b + m - 1]]
<1>8. /\ \A m \in 1 .. q : more[m] = words[m]
      /\ more[q + 1] = w
  BY <1>1, <1>6
<1>8a. PICK checksum \in Word : \E sums :
            /\ InFlash(checksum, 3 * WordBytes)
            /\ PartialSums(sums, words, q)
            /\ header[4] = (checksum + sums[q]) % WordMod
  BY <1>0 DEF FlashFollows, q
<1>9. PICK sums :
            /\ checksum \in Word
            /\ InFlash(checksum, 3 * WordBytes)
            /\ PartialSums(sums, words, q)
            /\ header[4] = (checksum + sums[q]) % WordMod
  BY <1>8a
<1>10. ASSUME NEW m \in 1 .. q + 1
       PROVE  mem'[b + m - 1] \in Word /\ InFlash(mem'[b + m - 1], at(m))
  <2>1. CASE m = q + 1
    BY <1>1, <1>2, <1>6, <2>1
  <2>2. CASE m \in 1 .. q
    <3>1. LoadedWord(m) \in Word /\ InFlash(LoadedWord(m), at(m))
      BY <1>0, <2>2 DEF FlashFollows, q, at
    <3> QED
      BY <1>1, <2>2, <3>1
  <2> QED
    BY <1>1, <2>1, <2>2
<1> HIDE DEF words, more
<1>11. \E sum : PartialSums(sum, more, q + 1) /\ sum[q + 1] = (sums[q] + w) % WordMod
  <2>1. PartialSums(sums, more, q)
    BY <1>8, <1>9 DEF PartialSums
  <2> QED
    BY <1>1, <1>8, <2>1, SumsGrow
<1>12. PICK sum : PartialSums(sum, more, q + 1) /\ sum[q + 1] = (sums[q] + w) % WordMod
  BY <1>11
<1>13. header'[4] = (checksum + sum[q + 1]) % WordMod
  <2>1. WordMod \in Nat \ {0} /\ checksum \in Int /\ sums[q] \in Int /\ w \in Int
    <3>1. sums[q] \in Word
      BY <1>1, <1>9 DEF PartialSums
    <3> QED
      BY <3>1, Sizes, Params
  <2>2. (((checksum + sums[q]) % WordMod) + w) % WordMod
          = (checksum + ((sums[q] + w) % WordMod)) % WordMod
    BY ONLY <2>1, SumInWords
  <2> QED
    BY <1>1, <1>9, <1>12, <2>2
<1>14. \A m \in 1 .. Len(header') : m < 4 => InFlash(header'[m], (m - 1) * WordBytes)
  <2>1. \A m \in 1 .. 4 : m < 4 => m = 1 \/ m = 2 \/ m = 3
    OBVIOUS
  <2> QED
    BY <1>0, <1>1, <2>1 DEF FlashFollows
<1>15. more = [m \in 1 .. Loaded' |-> LoadedWord(m)']
  BY <1>1, <1>5 DEF more
<1>16. \E checks \in Word : \E ss :
            /\ InFlash(checks, 3 * WordBytes)'
            /\ PartialSums(ss, [m \in 1 .. Loaded' |-> LoadedWord(m)'], Loaded')
            /\ header'[4] = (checks + ss[Loaded']) % WordMod
  BY <1>1, <1>3, <1>9, <1>12, <1>13, <1>15
<1>17. \A m \in 1 .. Loaded' : LoadedWord(m)' \in Word /\ InFlash(LoadedWord(m)', at(m))
  BY <1>1, <1>5, <1>10
<1> QED
  BY <1>3, <1>14, <1>16, <1>17 DEF FlashFollows, at

LEMMA ReadStays ==
  ASSUME Shape, FaultsBounded, MaxFaults <= 1, ReadFollows, [Next]_vars
  PROVE  ReadFollows'
<1> SUFFICES ASSUME pc' = "load" PROVE ReadFollows'
  BY DEF ReadFollows
<1>1. CASE UNCHANGED vars
  <2>1. UNCHANGED <<pc, stream, header, i, mem, flash, file, faults, g_exe_base>>
    BY <1>1 DEF vars, globals, locals, world
  <2> QED
    BY <2>1 DEF ReadFollows, UartFollows, UartSum, FlashFollows, Loaded, LoadedWord, InFlash
<1>2. CASE AutoBoot \/ CmdLoad \/ CmdUpload
  BY <1>2, ReadStarts DEF AutoBoot, CmdLoad, CmdUpload
<1>3. stream \in {"uart", "flash"}
  BY DEF Shape, TypeOK
<1>4. CASE GetHeader
  <2>1. pc = "load" /\ stream' = stream
    BY <1>4 DEF GetHeader
  <2>2. CASE stream = "uart"
    BY <1>4, <2>1, <2>2, UartGetHeader DEF ReadFollows
  <2>3. CASE stream = "flash"
    BY <1>4, <2>1, <2>3, FlashGetHeader DEF ReadFollows
  <2> QED
    BY <1>3, <2>2, <2>3
<1>5. CASE GetData
  <2>1. pc = "load" /\ stream' = stream /\ Mapped(Target)
    BY <1>5 DEF GetData
  <2>2. CASE stream = "uart"
    BY <1>5, <2>1, <2>2, UartGetData DEF ReadFollows
  <2>3. CASE stream = "flash"
    BY <1>5, <2>1, <2>3, FlashGetData DEF ReadFollows
  <2> QED
    BY <1>3, <2>2, <2>3
<1>6. ~FinishLoad
  <2>1. ASSUME FinishLoad PROVE pc' # "load"
    BY <2>1, ZenonT(60) DEF FinishLoad, Failed
  <2> QED
    BY <2>1
<1>7. ~(KeyPressed \/ CmdStore \/ CmdExecute \/ CmdExit \/ Answer \/ Store \/ Restart)
  BY DEF KeyPressed, CmdStore, CmdExecute, CmdExit, Answer, Refuse, Confirm, BootAnyway,
     Store, EraseSector, Erased, PutData, AllData, PutHeader, Stored, Restart, Boots
<1> QED
  BY <1>1, <1>2, <1>4, <1>5, <1>6, <1>7 DEF Next, Console, Load

(* What a load that ends with an executable has read: all its words, and   *)
(* they add up.                                                            *)
LEMMA LoadEnds ==
  ASSUME Shape, FinishLoad, g_exe_size' # 0
  PROVE  LET size == header[3]
         IN /\ pc = "load" /\ Len(header) = 4 /\ header[1] = Signature
            /\ g_exe_size' = size /\ size \in Word /\ size # 0 /\ size <= MemBytes
            /\ (header[4] + 1) % WordMod = 0
            /\ Loaded = WordsOf(size) /\ Loaded \in Nat \ {0}
            /\ Exe' = [m \in 1 .. Loaded |-> LoadedWord(m)]
<1> DEFINE size == header[3]
<1>0. /\ TypeOK /\ pc = "load" /\ g_exe_size = 0 /\ Len(header) = 4 /\ ~(i < size)
      /\ header[1] = Signature /\ UNCHANGED <<g_exe_base, mem>>
  BY DEF Shape, LoadShape, FinishLoad, MoreData
<1>1. /\ size \in Word /\ g_exe_base \in Nat /\ i \in Nat /\ i % WordBytes = 0
  BY <1>0, TargetIs
<1>2. g_exe_size' = size /\ (header[4] + 1) % WordMod = 0
  BY <1>0 DEF FinishLoad
<1>3. size \in Nat /\ size # 0
  BY <1>1, <1>2, Sizes
<1>4. i # 0 /\ i >= size
  BY <1>0, <1>1, <1>3
<1>5. i < size + WordBytes /\ g_exe_base + i <= MemBytes
  BY <1>0, <1>4 DEF Shape, LoadShape
<1>6. i = Padded(size)
  BY <1>1, <1>3, <1>4, <1>5, WithinSize
<1>7. Loaded = WordsOf(size) /\ Loaded \in Nat
  BY <1>3, <1>6, PaddedSize DEF Loaded
<1>8. Loaded # 0
  <2>1. ASSUME WordsOf(size) = 0 PROVE Padded(size) = 0
    BY <2>1, Params DEF Padded
  <2> QED
    BY <1>4, <1>6, <1>7, <2>1
<1>9. size <= MemBytes
  BY <1>1, <1>3, <1>4, <1>5, Params
<1>10. Exe' = [m \in 1 .. Loaded |-> LoadedWord(m)]
  BY <1>0, <1>2, <1>7 DEF Exe, InMemory, LoadedWord
<1> QED
  BY <1>0, <1>1, <1>2, <1>3, <1>7, <1>8, <1>9, <1>10

(* The host's words with at most one wrong one add up only if it is a size *)
(* of as many words, or an address.                                        *)
LEMMA UartLoadEnds ==
  ASSUME Shape, UartFollows, CutImagesShow, FinishLoad, g_exe_size' # 0
  PROVE  \E image \in Images : Carries(image, g_exe_size') /\ Exe' = image.data
<1> DEFINE n == Len(file.data)
<1> DEFINE c == Complement(Sum(file.data))
<1> DEFINE S == Sums(file.data)
<1> DEFINE q == Loaded
<1>0. /\ Len(header) = 4 /\ g_exe_size' = header[3]
      /\ (header[4] + 1) % WordMod = 0
      /\ q = WordsOf(header[3]) /\ q \in Nat \ {0}
      /\ Exe' = [m \in 1 .. q |-> LoadedWord(m)]
  BY LoadEnds
<1>1. /\ file \in Images /\ q <= n
      /\ header[3] = file.size \/ header[3] \in FaultWords
  BY <1>0 DEF UartFollows
<1>2. PICK error \in Word : UartSum(error)
  BY <1>0 DEF UartFollows
<1>3. /\ n \in Nat /\ file.data \in [1 .. n -> Word] /\ WordsOf(file.size) = n
      /\ S \in [0 .. n -> Word] /\ Sum(file.data) = S[n]
  <2>1. PartialSums(S, file.data, n)
    BY <1>1, ImageSizes, SumsAre
  <2>2. WordsOf(file.size) = n
    BY <1>1, BootAssumption
  <2> QED
    BY <1>1, <2>1, <2>2, ImageSizes DEF PartialSums, Sum
<1>4. header[4] = (c + S[q] + error) % WordMod
      /\ (error = 0 => \A m \in 1 .. q : LoadedWord(m) = file.data[m])
      /\ (error # 0 => header[3] = file.size)
  BY <1>2 DEF UartSum
<1>5. c = WordMod - 1 - S[n]
  BY <1>3 DEF Complement
<1>6. /\ S[q] \in 0 .. WordMod - 1 /\ S[n] \in 0 .. WordMod - 1 /\ WordMod \in Nat \ {0}
      /\ error \in 0 .. WordMod - 1
  <2>1. q \in 0 .. n /\ n \in 0 .. n
    BY <1>0, <1>1, <1>3
  <2>2. S[q] \in Word /\ S[n] \in Word
    BY <1>3, <2>1
  <2> QED
    BY <2>2, Sizes, Params
<1> HIDE DEF n, c, S, q
<1>7. (WordMod + (S[q] - S[n] + error)) % WordMod = 0
  <2>1. c + S[q] + error \in Int /\ 1 \in Int
    BY <1>5, <1>6
  <2>2. (((c + S[q] + error) % WordMod) + 1) % WordMod = ((c + S[q] + error) + 1) % WordMod
    BY ONLY <1>6, <2>1, ModSum
  <2>3. (c + S[q] + error) + 1 = WordMod + (S[q] - S[n] + error)
    BY <1>5, <1>6
  <2> QED
    BY <1>0, <1>4, <2>2, <2>3
<1>8. (S[q] - S[n] + error) % WordMod = 0
  <2>1. S[q] - S[n] + error \in Int /\ WordMod \in Int
    BY <1>6
  <2>2. ((WordMod % WordMod) + (S[q] - S[n] + error)) % WordMod
          = (WordMod + (S[q] - S[n] + error)) % WordMod
    BY ONLY <1>6, <2>1, ModSum
  <2>3. WordMod % WordMod = 0
    <3>1. (1 * WordMod + 0) % WordMod = 0 /\ 1 * WordMod + 0 = WordMod
      BY <1>6, Quotient
    <3> QED
      BY <3>1
  <2>4. 0 + (S[q] - S[n] + error) = S[q] - S[n] + error
    BY <2>1
  <2> QED
    BY <1>7, <2>2, <2>3, <2>4
<1>9. q = n /\ error = 0
  <2>1. CASE header[3] = file.size
    <3>1. q = n
      BY <1>0, <1>3, <2>1
    <3>2. S[q] - S[n] + error = error - 0 /\ 0 \in 0 .. WordMod - 1
      BY <1>6, <3>1
    <3>3. error = 0
      BY <1>6, <1>8, <3>2, ZeroRemainder
    <3> QED
      BY <3>1, <3>3
  <2>2. CASE header[3] # file.size
    <3>1. error = 0 /\ header[3] \in FaultWords
      BY <1>1, <1>4, <2>2
    <3>2. S[q] - S[n] + error = S[q] - S[n]
      BY <1>6, <3>1
    <3>3. S[q] = S[n]
      BY <1>6, <1>8, <3>2, ZeroRemainder
    <3>4. ~(q \in 1 .. n - 1)
      BY <1>0, <1>1, <1>3, <3>1, <3>3 DEF CutImagesShow, S, n
    <3> QED
      BY <1>0, <1>1, <1>3, <3>1, <3>4
  <2> QED
    BY <2>1, <2>2
<1>10. Exe' = file.data
  BY <1>0, <1>3, <1>4, <1>9
<1>11. Carries(file, g_exe_size')
  BY <1>0, <1>1, <1>9 DEF Carries, n
<1> QED
  BY <1>1, <1>10, <1>11

(* A word of the header or of the data that is read, where the flash is    *)
(* partly written or partly erased.                                        *)
LEMMA HeaderWordLeft ==
  ASSUME NEW h, NEW j \in 1 .. HeaderBytes, HeaderLeft(h, j), NEW m \in 0 .. 3,
         NEW w \in Word, InFlash(w, m * WordBytes)
  PROVE  \E t \in 0 .. WordBytes : ErasedFrom(h[m + 1], t) = w
<1> DEFINE a == m * WordBytes
<1>0. a \in Nat /\ a + WordBytes <= HeaderBytes /\ HeaderBytes \in Nat
      /\ a % WordBytes = 0 /\ a \div WordBytes = m
  <2>1. m \in Int /\ m \in Nat /\ m < 4 /\ 0 \in 0 .. WordBytes - 1
    BY Params
  <2>2. a + WordBytes <= 4 * WordBytes /\ a \in Nat
    BY <2>1, Params, Multiples, NatProduct
  <2>3. (m * WordBytes + 0) % WordBytes = 0 /\ (m * WordBytes + 0) \div WordBytes = m
    BY <2>1, Params, Quotient
  <2>4. m * WordBytes + 0 = a
    BY <2>2
  <2> QED
    BY <2>2, <2>3, <2>4, Params, Sizes
<1> DEFINE t == IF j <= a THEN 0 ELSE IF j >= a + WordBytes THEN WordBytes ELSE j - a
<1> HIDE DEF a
<1>1. t \in 0 .. WordBytes
  BY <1>0, Params
<1>2. ASSUME NEW k \in 0 .. WordBytes - 1
      PROVE  ByteOf(w, k) = IF k < t THEN ByteOf(h[m + 1], k) ELSE ErasedByte
  <2>1. a + k \in 0 .. FlashBytes - 1 /\ a + k \in 0 .. HeaderBytes - 1
        /\ FlashBytes \in Nat \ {0} /\ a \in Int
    BY <1>0, Params, Sizes
  <2>2. (a + k) % FlashBytes = a + k
    BY <2>1, SmallRemainder
  <2>3. (a + k) \div WordBytes = m /\ (a + k) % WordBytes = k
    <3>1. (a + k) \div WordBytes = a \div WordBytes /\ (a + k) % WordBytes = k
      BY ONLY <1>0, <2>1, k \in 0 .. WordBytes - 1, Params, ByteOfWord, ZenonT(30)
    <3> QED
      BY <1>0, <3>1
  <2>4. ByteOf(w, k) = flash[a + k]
    BY <2>2 DEF InFlash, a
  <2>5. flash[a + k] = IF a + k < j THEN ByteOf(h[m + 1], k) ELSE ErasedByte
    BY <2>1, <2>3 DEF HeaderLeft
  <2>6. a + k < j <=> k < t
    BY <1>0, Params
  <2> HIDE DEF t
  <2> QED
    BY <2>4, <2>5, <2>6
<1> HIDE DEF t
<1>3. ErasedFrom(h[m + 1], t) = w
  BY <1>2, ErasedFromIs
<1> QED
  BY <1>1, <1>3

LEMMA DataWordLeft ==
  ASSUME NEW image \in Images, NEW b \in HeaderBytes .. SectorBytes, DataLeft(image.data, b),
         NEW m \in 1 .. Len(image.data), NEW w \in Word,
         InFlash(w, HeaderBytes + (m - 1) * WordBytes)
  PROVE  ErasedTail(image.data, b)[m] = w
<1> DEFINE d == WordBytes
<1> DEFINE n == Len(image.data)
<1> DEFINE j == (m - 1) * d
<1> DEFINE at == HeaderBytes + j
<1> DEFINE t == IF at >= SectorBytes \/ at + d <= b THEN d
                ELSE IF at >= b THEN 0 ELSE b - at
<1>0. /\ d \in Nat \ {0} /\ n \in Nat /\ n * d \in Nat /\ n * d <= MemBytes
      /\ DOMAIN image.data = 1 .. n
  BY Params, ImageSizes
<1>1. /\ j \in Nat /\ j + d <= n * d /\ j % d = 0 /\ j \div d = m - 1
  <2>1. m - 1 \in Int /\ m - 1 \in Nat /\ m - 1 < n /\ 0 \in 0 .. d - 1 /\ n \in Int
    BY <1>0
  <2>2. j + d <= n * d /\ j \in Nat
    BY ONLY <1>0, <2>1, Multiples, NatProduct
  <2>3. ((m - 1) * d + 0) % d = 0 /\ ((m - 1) * d + 0) \div d = m - 1
    BY ONLY <1>0, <2>1, Quotient
  <2>4. (m - 1) * d + 0 = j
    BY <2>2
  <2> QED
    BY <2>2, <2>3, <2>4
<1>2. /\ HeaderBytes \in Nat /\ FlashBytes \in Nat \ {0} /\ SectorBytes \in Nat
      /\ HeaderBytes + MemBytes <= FlashBytes /\ MemBytes \in Nat
      /\ HeaderBytes = 4 * d
  BY Params, Sizes
<1>3. at < SectorBytes => at + d <= SectorBytes
  <2>1. at = (4 + (m - 1)) * d
    <3>1. m - 1 \in Int
      OBVIOUS
    <3> QED
      BY <1>0, <1>2, <3>1
  <2>2. 4 + (m - 1) \in Int /\ 0 \in 0 .. d - 1
    BY <1>0
  <2>3. ((4 + (m - 1)) * d + 0) % d = 0
    BY ONLY <1>0, <2>2, Quotient
  <2>4. at \in Int /\ at + 0 = at /\ (4 + (m - 1)) * d + 0 = at
    BY <1>1, <1>2, <2>1
  <2>5. at % d = 0 /\ SectorBytes % d = 0 /\ SectorBytes \in Int
    BY <2>3, <2>4, Sizes, <1>2
  <2> HIDE DEF at
  <2> QED
    BY <1>0, <2>4, <2>5, AlignedBelow
<1>4. ErasedTail(image.data, b)[m] = ErasedFrom(image.data[m], t)
  BY <1>0 DEF ErasedTail
<1>5. (m - 1) * d = j /\ m = (m - 1) + 1
  OBVIOUS
<1> HIDE DEF j, n
<1>6. ASSUME NEW k \in 0 .. d - 1
      PROVE  ByteOf(w, k) = IF k < t THEN ByteOf(image.data[m], k) ELSE ErasedByte
  <2>1. at + k \in 0 .. FlashBytes - 1 /\ j + k \in 0 .. n * d - 1 /\ j \in Int
        /\ at + k = HeaderBytes + (j + k)
    BY <1>0, <1>1, <1>2
  <2>2. (at + k) % FlashBytes = at + k
    BY <1>2, <2>1, SmallRemainder
  <2>3. (j + k) \div d = m - 1 /\ (j + k) % d = k
    <3>1. (j + k) \div d = j \div d /\ (j + k) % d = k
      BY ONLY <1>0, <1>1, <2>1, k \in 0 .. d - 1, ByteOfWord, ZenonT(30)
    <3> QED
      BY <1>1, <3>1
  <2>4. ByteOf(w, k) = flash[at + k]
    BY <1>5, <2>2 DEF InFlash
  <2>5. flash[at + k] = IF at + k \in b .. SectorBytes - 1 THEN ErasedByte
                        ELSE ByteOf(image.data[m], k)
    BY <1>5, <2>1, <2>3 DEF DataLeft, n
  <2>6. at + k \in b .. SectorBytes - 1 <=> ~(k < t)
    BY <1>0, <1>1, <1>2, <1>3
  <2> HIDE DEF t, at
  <2> QED
    BY <2>4, <2>5, <2>6
<1> HIDE DEF t
<1>7. ErasedFrom(image.data[m], t) = w
  BY <1>6, ErasedFromIs
<1> QED
  BY <1>4, <1>7

(* What an interrupted store or erasure has left adds up only if all the   *)
(* words of the image are there.                                           *)
LEMMA FlashLoadIntact ==
  ASSUME Shape, FlashFollows, FlashIntact, CutSizesShow, ErasureShows, stream = "flash",
         FinishLoad, g_exe_size' # 0
  PROVE  \E image \in Images : Carries(image, g_exe_size') /\ Exe' = image.data
<1> DEFINE size == header[3]
<1> DEFINE q == Loaded
<1>0. /\ pc = "load" /\ Len(header) = 4 /\ header[1] = Signature /\ g_exe_size' = size
      /\ size \in Word /\ size <= MemBytes
      /\ (header[4] + 1) % WordMod = 0
      /\ q = WordsOf(size) /\ q \in Nat \ {0}
      /\ Exe' = [m \in 1 .. q |-> LoadedWord(m)]
  BY LoadEnds
<1>1. /\ InFlash(header[1], 0) /\ InFlash(size, 2 * WordBytes)
      /\ \A m \in 1 .. q : LoadedWord(m) \in Word
                           /\ InFlash(LoadedWord(m), HeaderBytes + (m - 1) * WordBytes)
  <2>1. 1 \in 1 .. 4 /\ 3 \in 1 .. 4 /\ 1 < 4 /\ 3 < 4
    OBVIOUS
  <2>2. InFlash(header[1], (1 - 1) * WordBytes) /\ InFlash(size, (3 - 1) * WordBytes)
    BY <1>0, <2>1 DEF FlashFollows
  <2>3. (1 - 1) * WordBytes = 0 /\ (3 - 1) * WordBytes = 2 * WordBytes
    BY Params
  <2> QED
    BY <1>0, <2>2, <2>3 DEF FlashFollows
<1>2. flash[0] # ErasedByte
  <2>1. 0 \in 0 .. WordBytes - 1 /\ (0 + 0) % FlashBytes = 0
    BY Params, Sizes, SmallRemainder
  <2>2. ByteOf(Signature, 0) = flash[0]
    BY <1>0, <1>1, <2>1 DEF InFlash
  <2> QED
    BY <2>2, BootAssumption
<1>3. PICK image \in Images, base \in Word, was \in Word,
           j \in 1 .. HeaderBytes, b \in HeaderBytes .. SectorBytes :
             ImageLeft(image, base, was, j, b)
  BY <1>2 DEF FlashIntact
<1> DEFINE h == ImageHeader(image, base, was)
<1>4. h[3] = was /\ h[4] = Complement(Sum(image.data))
  BY DEF ImageHeader
<1> HIDE DEF h
<1>5. HeaderLeft(h, j) /\ DataLeft(image.data, b) /\ Carries(image, was)
  BY <1>3 DEF ImageLeft, h
<1>6. size = was
  <2>1. 2 \in 0 .. 3 /\ 2 + 1 = 3
    OBVIOUS
  <2>2. PICK t \in 0 .. WordBytes : ErasedFrom(h[2 + 1], t) = size
    BY ONLY <1>0, <1>1, <1>5, <2>1, j \in 1 .. HeaderBytes, HeaderWordLeft
  <2>3. size = was \/ size > MemBytes
    BY <1>4, <1>5, <2>1, <2>2 DEF CutSizesShow
  <2> QED
    BY <1>0, <2>3, Params, Sizes
<1>7. q = Len(image.data) /\ DOMAIN image.data = 1 .. q
  BY <1>0, <1>5, <1>6, ImageSizes DEF Carries
<1> DEFINE left == ErasedTail(image.data, b)
<1>8. left = [m \in 1 .. q |-> LoadedWord(m)]
  <2>1. ASSUME NEW m \in 1 .. q PROVE left[m] = LoadedWord(m)
    BY <1>1, <1>5, <1>7, <2>1, DataWordLeft
  <2>2. left = [m \in 1 .. q |-> left[m]]
    BY <1>7 DEF ErasedTail
  <2> HIDE DEF left
  <2> QED
    BY <2>1, <2>2
<1>8a. PICK checksum \in Word : \E sums :
        /\ InFlash(checksum, 3 * WordBytes)
        /\ PartialSums(sums, [m \in 1 .. q |-> LoadedWord(m)], q)
        /\ header[4] = (checksum + sums[q]) % WordMod
  BY <1>0 DEF FlashFollows
<1>9. PICK sums :
        /\ checksum \in Word
        /\ InFlash(checksum, 3 * WordBytes)
        /\ PartialSums(sums, [m \in 1 .. q |-> LoadedWord(m)], q)
        /\ header[4] = (checksum + sums[q]) % WordMod
  BY <1>8a
<1>10. PICK t \in 0 .. WordBytes : ErasedFrom(Complement(Sum(image.data)), t) = checksum
  <2>1. 3 \in 0 .. 3 /\ 3 + 1 = 4
    OBVIOUS
  <2>2. PICK t \in 0 .. WordBytes : ErasedFrom(h[3 + 1], t) = checksum
    BY ONLY <1>5, <1>9, <2>1, j \in 1 .. HeaderBytes, HeaderWordLeft
  <2> QED
    BY <1>4, <2>1, <2>2
<1> HIDE DEF left
<1>11. Sum(left) = sums[q] /\ sums[q] \in Int
  <2>1. left \in [1 .. q -> Word]
    BY <1>1, <1>8
  <2>2. PartialSums(sums, left, q)
    BY <1>8, <1>9
  <2>3. sums[q] \in Int
    <3>1. sums[q] \in Word
      BY <1>0, <2>2 DEF PartialSums
    <3> QED
      BY <3>1, Sizes
  <2> QED
    BY <1>0, <2>1, <2>2, <2>3, SumOf
<1>12. (checksum + Sum(left) + 1) % WordMod = 0
  <2>1. /\ checksum + sums[q] \in Int /\ WordMod \in Nat \ {0} /\ 1 \in Int
    BY <1>11, Sizes, Params
  <2>2. (((checksum + sums[q]) % WordMod) + 1) % WordMod
          = ((checksum + sums[q]) + 1) % WordMod
    BY ONLY <2>1, ModSum
  <2> QED
    BY <1>0, <1>9, <1>11, <2>2
<1>13. left = image.data
  BY <1>10, <1>12 DEF ErasureShows, left
<1> QED
  BY <1>0, <1>5, <1>6, <1>8, <1>13

LEMMA ExeStays ==
  ASSUME BootInv, IntactInv, DamageShows, [Next]_vars
  PROVE  ExeIntact'
<1> SUFFICES ASSUME g_exe_size' # 0
             PROVE  \E image \in Images : Carries(image, g_exe_size') /\ Exe' = image.data
  BY DEF ExeIntact
<1>0. Shape /\ (pc = "load" => g_exe_size = 0)
  BY DEF BootInv, Shape, LoadShape
<1>1. CASE UNCHANGED <<g_exe_size, g_exe_base, mem>>
  <2>1. Exe' = Exe
    BY <1>1 DEF Exe, InMemory
  <2> QED
    BY <1>1, <2>1 DEF IntactInv, ExeIntact
<1>2. CASE FinishLoad
  <2>1. pc = "load" /\ stream \in {"uart", "flash"}
    BY <1>0, <1>2 DEF FinishLoad, Shape, TypeOK
  <2>2. CASE stream = "uart"
    BY <1>0, <1>2, <2>1, <2>2, UartLoadEnds DEF IntactInv, ReadFollows, DamageShows
  <2>3. CASE stream = "flash"
    <3>1. FlashIntact
      BY <1>0, FlashStands DEF BootInv, IntactInv, DamageShows
    <3> QED
      BY <1>0, <1>2, <2>1, <2>3, <3>1, FlashLoadIntact DEF IntactInv, ReadFollows, DamageShows
  <2> QED
    BY <2>1, <2>2, <2>3
<1>3. ~(AutoBoot \/ CmdUpload \/ CmdLoad \/ Restart)
  BY DEF AutoBoot, CmdUpload, CmdLoad, StartLoad, Restart, Boots
<1>4. ~(GetHeader \/ GetData)
  BY <1>0 DEF GetHeader, GetData
<1> QED
  BY <1>1, <1>2, <1>3, <1>4 DEF Next, vars, globals, locals, world, storeUnchanged,
     KeyPressed, Console, CmdStore, CmdExecute, CmdExit, Answer, Refuse, Confirm, BootAnyway,
     Load, Store, EraseSector, Erased, PutData, AllData, PutHeader, Stored

LEMMA FaultsStay ==
  ASSUME FaultsBounded, [Next]_vars
  PROVE  FaultsBounded'
<1>1. MaxFaults \in Nat
  BY BootAssumption
<1>2. faults' = faults \/ (faults < MaxFaults /\ faults' = faults + 1)
  BY DEF Next, vars, globals, locals, world, storeUnchanged, KeyPressed, AutoBoot, Console,
     CmdUpload, CmdLoad, StartLoad, CmdStore, CmdExecute, CmdExit, Answer, Refuse, Confirm,
     BootAnyway, Load, GetHeader, GetData, StreamGet, FinishLoad, Store, EraseSector, Erased,
     PutData, AllData, PutHeader, Stored, Restart
<1> QED
  BY <1>1, <1>2 DEF FaultsBounded

(* What the loader calls executable is in memory, word for word, one of    *)
(* the host's images, as long as the UART gets at most one word wrong and  *)
(* what interruptions leave of an image does not happen to add up.  Power  *)
(* may fail as often as it likes: a store writes its header last, so half  *)
(* a store has no signature, or half a header, and half an erasure loses   *)
(* the signature or the end of what is there.                              *)
THEOREM ExecutableStaysIntact ==
  ASSUME MaxFaults <= 1, DamageShows
  PROVE  Spec => []ExecutableIntact
<1>1. Init => IntactInv
  <2> SUFFICES ASSUME Init PROVE IntactInv
    OBVIOUS
  <2>1. flash[0] = ErasedByte
    BY Params, Sizes DEF Init
  <2>2. faults = 0 /\ 0 \in 0 .. MaxFaults
    BY BootAssumption DEF Init
  <2> QED
    BY <2>1, <2>2 DEF Init, IntactInv, FaultsBounded, ExeIntact, FlashKept, FlashIntact,
       ReadFollows
<1>2. BootInv /\ IntactInv /\ [Next]_vars => IntactInv'
  <2> SUFFICES ASSUME BootInv, IntactInv, [Next]_vars PROVE IntactInv'
    OBVIOUS
  <2>1. Shape
    BY DEF BootInv
  <2>2. FaultsBounded'
    BY FaultsStay DEF IntactInv
  <2>3. ExeIntact'
    BY ExeStays
  <2>4. FlashKept'
    BY FlashStays DEF IntactInv, DamageShows
  <2>5. ReadFollows'
    BY <2>1, ReadStays DEF IntactInv
  <2> QED
    BY <2>2, <2>3, <2>4, <2>5 DEF IntactInv
<1>3. BootInv /\ IntactInv => ExecutableIntact
  <2> SUFFICES ASSUME BootInv, IntactInv, g_exe_size # 0
               PROVE  \E image \in Images : Holds(image)
    BY DEF ExecutableIntact
  <2>1. PICK image \in Images : Carries(image, g_exe_size) /\ Exe = image.data
    BY DEF IntactInv, ExeIntact
  <2>2. Holds(image)
    BY <2>1 DEF Holds, Carries, Exe
  <2> QED
    BY <2>2
<1> QED
  BY <1>1, <1>2, <1>3, BootLayer, PTL DEF Spec
=============================================================================
