----------------------------- MODULE Bootloader -----------------------------
(***************************************************************************)
(* The NEORV32 bootloader (sw/bootloader) with its default options: UART   *)
(* console, automatic boot and SPI flash.  The host sends executables over *)
(* the UART, the loader copies them to main memory, to flash and back, and *)
(* starts them.  Power fails and the reset button is pressed in any step,  *)
(* the flash programming of a byte or of a sector included.                *)
(*                                                                         *)
(* A word has WordBytes bytes of ByteBits bits, and addresses, sizes and   *)
(* the checksum are words.  Texts, LED and timer interrupt are left out.   *)
(***************************************************************************)
EXTENDS Integers, Sequences

CONSTANTS
  ByteBits, WordBytes,      \* 8 and 4 in the code
  MemBytes,                 \* main memory, from address 0
  SectorBytes, Sectors,     \* flash from SPI_FLASH_BASE_ADDR on, which wraps
  AddressMod,               \* addresses g_flash_addr can hold, 2^32 in the code
  Signature,                \* BIN_SIGNATURE
  Images,                   \* executables of the host: base, size, data words
  NoImage,
  FaultWords, MaxFaults,    \* words the UART turns another word into, how often
  MaxCuts                   \* resets and power failures that interrupt work

Byte == SUBSET (0 .. ByteBits - 1)  \* the bits that are 1
Word == 0 .. 2^(ByteBits * WordBytes) - 1
WordMod == 2^(ByteBits * WordBytes)
ErasedByte == 0 .. ByteBits - 1
HeaderBytes == 4 * WordBytes     \* BIN_OFFSET_DATA
FlashBytes == Sectors * SectorBytes
DEFAULT_EXE_ADDR == 0

WordsOf(size) == (size + WordBytes - 1) \div WordBytes
ByteOf(word, k) == {b \in ErasedByte : (word \div 2^(ByteBits * k + b)) % 2 = 1}

ASSUME BootAssumption ==
  /\ {ByteBits, WordBytes, MemBytes, SectorBytes, Sectors, AddressMod}
       \subseteq Nat \ {0}
  /\ {MaxFaults, MaxCuts} \subseteq Nat
  /\ Signature \in Word /\ ByteOf(Signature, 0) # ErasedByte /\ FaultWords \subseteq Word
  /\ NoImage \notin Images
  /\ \A image \in Images :
       /\ image.base \in Word /\ image.base % WordBytes = 0
       /\ image.size \in Word \ {0} /\ image.base + image.size <= MemBytes
       /\ image.data \in Seq(Word) /\ Len(image.data) = WordsOf(image.size)

(* Memory and sectors are whole words, a word can name any byte of memory, *)
(* and the flash holds an executable as large as the memory.  The code     *)
(* relies on it: neither loader nor store looks at the size of the flash.  *)
ASSUME SizeAssumption ==
  /\ MemBytes % WordBytes = 0 /\ SectorBytes % WordBytes = 0 /\ HeaderBytes <= SectorBytes
  /\ WordMod \in Nat /\ MemBytes < WordMod /\ HeaderBytes < WordMod
  /\ HeaderBytes + MemBytes + WordBytes <= FlashBytes /\ FlashBytes < AddressMod
(* A word is the word of its bytes. *)
ASSUME WordAssumption ==
  \A v, w \in Word : (\A k \in 0 .. WordBytes - 1 : ByteOf(v, k) = ByteOf(w, k)) => v = w

VARIABLES
  pc,            \* "wait", "load", "console", "confirm", "erase", "store",
                 \* "anyway", "app", "halted"
  g_exe_base, g_exe_size, g_flash_addr,
  mem,           \* words of main memory
  flash,         \* bytes of flash
  stream, auto,  \* system_app_load: "uart" or "flash", called by auto-boot
  header, i,     \* locals of system_app_load and system_app_store
  sectors,       \* local of spi_flash_erase: sectors still to erase
  spi,           \* neorv32_spi_available, with a flash behind it
  file,          \* what the host sends
  faults, cuts,  \* bounds: UART faults and interruptions so far
  stored         \* history: the image of the last complete store, until erased

globals == <<g_exe_base, g_exe_size, g_flash_addr>>
locals == <<stream, auto, header, i, sectors>>
world == <<spi, file, faults, cuts, stored>>
vars == <<pc, globals, mem, flash, locals, world>>

-----------------------------------------------------------------------------
(* Words, bytes and the image format                                       *)

InFlash(word, addr) ==
  \A k \in 0 .. WordBytes - 1 : ByteOf(word, k) = flash[(addr + k) % FlashBytes]
(* Programming flash only clears bits. *)
Programmed(old, new) == old \cap new

(* sums[k] is the sum of the first k words. *)
Sums(words) ==
  LET sums[k \in 0 .. Len(words)] ==
        IF k = 0 THEN 0 ELSE (sums[k - 1] + words[k]) % WordMod
  IN sums
Sum(words) == Sums(words)[Len(words)]
Complement(word) == WordMod - 1 - word
Wrapped(image) ==
  <<Signature, image.base, image.size, Complement(Sum(image.data))>> \o image.data

InMemory(base, size) == [k \in 1 .. WordsOf(size) |-> mem[base \div WordBytes + k - 1]]
Holds(image) ==
  /\ WordsOf(g_exe_size) = Len(image.data)
  /\ InMemory(g_exe_base, g_exe_size) = image.data

-----------------------------------------------------------------------------
(* Reset runs the start-up code, which initialises the global variables.   *)
Boots ==
  /\ pc' = "wait"
  /\ g_exe_base' = DEFAULT_EXE_ADDR /\ g_exe_size' = 0 /\ g_flash_addr' = 0
  /\ stream' = "uart" /\ auto' = FALSE /\ header' = <<>> /\ i' = 0 /\ sectors' = 0
  /\ file' = NoImage

Init ==
  /\ pc = "wait"
  /\ g_exe_base = DEFAULT_EXE_ADDR /\ g_exe_size = 0 /\ g_flash_addr = 0
  /\ mem = [k \in 0 .. MemBytes \div WordBytes - 1 |-> 0]
  /\ flash = [k \in 0 .. FlashBytes - 1 |-> ErasedByte]
  /\ stream = "uart" /\ auto = FALSE /\ header = <<>> /\ i = 0 /\ sectors = 0
  /\ spi \in BOOLEAN /\ file = NoImage /\ faults = 0 /\ cuts = 0
  /\ stored = NoImage

(* The sector being erased may be erased from either end up to anywhere. *)
ErasedIn(addrs) == [k \in DOMAIN flash |-> IF k \in addrs THEN ErasedByte ELSE flash[k]]
Sector(addr) == addr .. addr + SectorBytes - 1
PartlyErased ==
  {ErasedIn({k \in Sector(g_flash_addr) : k < b}) : b \in Sector(g_flash_addr)}
    \cup {ErasedIn({k \in Sector(g_flash_addr) : k >= b}) : b \in Sector(g_flash_addr)}

Received == Len(header) + i \div WordBytes  \* words of the host's file
(* The reset button, command r or a power failure, which clears the memory;  *)
(* those that interrupt work are counted.                                  *)
Waits == stream = "uart" /\ Received >= Len(Wrapped(file))
Working == pc \in {"erase", "store", "seal"} \/ (pc = "load" /\ ~Waits)
Restart ==
  /\ IF Working THEN cuts < MaxCuts /\ cuts' = cuts + 1 ELSE UNCHANGED cuts
  /\ Boots
  /\ mem' \in {mem, [k \in DOMAIN mem |-> 0]}
  /\ \/ UNCHANGED <<flash, stored>>
     \/ /\ pc = "erase" /\ sectors > 0
        /\ flash' \in PartlyErased /\ stored' = NoImage
  /\ UNCHANGED <<spi, faults>>

-----------------------------------------------------------------------------
(* system_app_load                                                         *)

Failed == IF stream = "uart" THEN "halted" ELSE "console"

StartLoadKeepsSize(from, byAuto) ==  \* fault: the old executable stays announced
  /\ stream' = from /\ auto' = byAuto /\ header' = <<>> /\ i' = 0
  /\ g_flash_addr' = IF from = "flash" /\ spi THEN 0 ELSE g_flash_addr
  /\ pc' = IF from = "flash" /\ ~spi THEN "console" ELSE "load"
  /\ UNCHANGED <<g_exe_base, g_exe_size, mem, flash, sectors, spi, faults, cuts, stored>>
(* Nothing is executable any more, then the device is set up. *)
StartLoad(from, byAuto) ==
  /\ g_exe_size' = 0
  /\ stream' = from /\ auto' = byAuto /\ header' = <<>> /\ i' = 0
  /\ g_flash_addr' = IF from = "flash" /\ spi THEN 0 ELSE g_flash_addr
  /\ pc' = IF from = "flash" /\ ~spi THEN "console" ELSE "load"
  /\ UNCHANGED <<g_exe_base, mem, flash, sectors, spi, faults, cuts, stored>>

(* The next word: the host's, once turned into another, or the flash's.    *)
(* A host that has sent its file leaves the loader waiting.                *)
StreamGet(w) ==
  \/ /\ stream = "flash"
     /\ InFlash(w, g_flash_addr)
     /\ g_flash_addr' = (g_flash_addr + WordBytes) % AddressMod /\ UNCHANGED faults
  \/ /\ stream = "uart" /\ Received < Len(Wrapped(file))
     /\ \/ w = Wrapped(file)[Received + 1] /\ UNCHANGED faults
        \/ w \in FaultWords /\ faults < MaxFaults /\ faults' = faults + 1
     /\ UNCHANGED g_flash_addr

(* The base address is taken before the signature is looked at. *)
GetHeader ==
  /\ pc = "load" /\ Len(header) < 4
  /\ \E w \in Word :
       /\ StreamGet(w) /\ header' = Append(header, w)
       /\ IF Len(header) = 3
          THEN /\ g_exe_base' = header[2]
               /\ pc' = IF header[1] # Signature THEN Failed ELSE "load"
          ELSE UNCHANGED <<g_exe_base, pc>>
  /\ UNCHANGED <<g_exe_size, mem, flash, stream, auto, i, sectors, spi, file, cuts, stored>>

MoreData == i < header[3]
Target == (header[2] + i) % WordMod

MappedWraps(addr) == addr % WordBytes = 0  \* fault: no error past the memory
Mapped(addr) == addr % WordBytes = 0 /\ addr < MemBytes

(* header.checksum adds up; a store that fails traps, and a trap halts. *)
GetData ==
  /\ pc = "load" /\ Len(header) = 4 /\ MoreData
  /\ \E w \in Word :
       /\ StreamGet(w)
       /\ IF Mapped(Target)
          THEN /\ mem' = [mem EXCEPT ![Target \div WordBytes] = w]
               /\ header' = [header EXCEPT ![4] = (@ + w) % WordMod]
               /\ i' = (i + WordBytes) % WordMod /\ UNCHANGED pc
          ELSE pc' = "halted" /\ UNCHANGED <<mem, header, i>>
  /\ UNCHANGED <<g_exe_base, g_exe_size, flash, stream, auto, sectors, spi, file, cuts,
                 stored>>

LeaveLocals == header' = <<>> /\ i' = 0
(* Auto-boot starts what it loaded, the console only reports it. *)
FinishLoad ==
  /\ pc = "load" /\ Len(header) = 4 /\ ~MoreData
  /\ IF (header[4] + 1) % WordMod = 0
     THEN /\ g_exe_size' = header[3]
          /\ pc' = CASE ~auto -> "console"
                     [] auto /\ header[3] # 0 -> "app"
                     [] OTHER -> "anyway"
     ELSE pc' = Failed /\ UNCHANGED g_exe_size
  /\ LeaveLocals /\ file' = NoImage
  /\ UNCHANGED <<g_exe_base, g_flash_addr, mem, flash, stream, auto, sectors, spi,
                 faults, cuts, stored>>

-----------------------------------------------------------------------------
(* system_app_store                                                        *)

storeUnchanged == <<g_exe_base, g_exe_size, mem, stream, auto, spi, file, faults, cuts>>

(* Without an executable or a flash there is nothing to confirm. *)
CmdStore ==
  /\ pc = "console" /\ g_exe_size # 0 /\ spi
  /\ pc' = "confirm" /\ g_flash_addr' = 0
  /\ header' = <<Signature, g_exe_base, g_exe_size, 0>> /\ i' = 0
  /\ UNCHANGED <<storeUnchanged, flash, sectors, stored>>
Refuse ==
  /\ pc = "confirm" /\ pc' = "console" /\ LeaveLocals
  /\ UNCHANGED <<storeUnchanged, g_flash_addr, flash, sectors, stored>>

SectorsToEraseFloor == g_exe_size \div SectorBytes  \* fault: the begun sector forgotten
SectorsToErase == g_exe_size \div SectorBytes + 1
Confirm ==
  /\ pc = "confirm" /\ pc' = "erase"
  /\ g_flash_addr' = 0 /\ sectors' = SectorsToErase
  /\ UNCHANGED <<storeUnchanged, flash, header, i, stored>>
EraseSector ==
  /\ pc = "erase" /\ sectors > 0
  /\ flash' = ErasedIn(Sector(g_flash_addr)) /\ stored' = NoImage
  /\ sectors' = sectors - 1 /\ g_flash_addr' = g_flash_addr + SectorBytes
  /\ UNCHANGED <<storeUnchanged, pc, header, i>>
Erased ==
  /\ pc = "erase" /\ sectors = 0
  /\ pc' = "store" /\ g_flash_addr' = HeaderBytes
  /\ UNCHANGED <<storeUnchanged, flash, header, i, sectors, stored>>

(* spi_flash_stream_put programs a word byte by byte. *)
Put(word) ==
  /\ flash' = [flash EXCEPT ![g_flash_addr % FlashBytes] =
                            Programmed(@, ByteOf(word, i % WordBytes))]
  /\ g_flash_addr' = (g_flash_addr + 1) % AddressMod /\ i' = i + 1
PutData ==
  /\ pc = "store" /\ (i < g_exe_size \/ i % WordBytes # 0)
  /\ LET word == mem[(g_exe_base + i) \div WordBytes]
     IN /\ Put(word)
        /\ header' = IF i % WordBytes = 0
                     THEN [header EXCEPT ![4] = (@ + word) % WordMod] ELSE header
  /\ UNCHANGED <<storeUnchanged, pc, sectors, stored>>

(* The header goes in front of the data, when all of them are there. *)
AllDataKeepsAddress ==  \* fault: the address is not restored
  /\ pc = "store" /\ i >= g_exe_size /\ i % WordBytes = 0
  /\ pc' = "seal" /\ i' = 0
  /\ UNCHANGED <<storeUnchanged, g_flash_addr, flash, header, sectors, stored>>
AllData ==
  /\ pc = "store" /\ i >= g_exe_size /\ i % WordBytes = 0
  /\ pc' = "seal" /\ g_flash_addr' = 0 /\ i' = 0
  /\ UNCHANGED <<storeUnchanged, flash, header, sectors, stored>>
PutHeader ==
  /\ pc = "seal" /\ i < HeaderBytes
  /\ LET n == i \div WordBytes + 1
     IN Put(IF n = 4 THEN Complement(header[4]) ELSE header[n])
  /\ UNCHANGED <<storeUnchanged, pc, header, sectors, stored>>
Stored ==
  /\ pc = "seal" /\ i = HeaderBytes
  /\ pc' = "console" /\ LeaveLocals
  /\ stored' = [base |-> g_exe_base, size |-> g_exe_size,
                data |-> InMemory(g_exe_base, g_exe_size)]
  /\ UNCHANGED <<storeUnchanged, g_flash_addr, flash, sectors>>

-----------------------------------------------------------------------------
(* main and system_app_boot                                                *)

KeyPressed ==
  /\ pc = "wait" /\ pc' = "console"
  /\ UNCHANGED <<globals, mem, flash, locals, world>>
AutoBoot == pc = "wait" /\ StartLoad("flash", TRUE) /\ UNCHANGED file

CmdUpload == pc = "console" /\ StartLoad("uart", FALSE) /\ file' \in Images
CmdLoad == pc = "console" /\ StartLoad("flash", FALSE) /\ UNCHANGED file
CmdExecute ==
  /\ pc = "console" /\ pc' = IF g_exe_size = 0 THEN "anyway" ELSE "app"
  /\ UNCHANGED <<globals, mem, flash, locals, world>>
BootAnyway ==
  /\ pc = "anyway" /\ pc' \in {"app", "console"}
  /\ UNCHANGED <<globals, mem, flash, locals, world>>
CmdExit ==
  /\ pc = "console" /\ pc' = "halted"
  /\ UNCHANGED <<globals, mem, flash, locals, world>>

Load == GetHeader \/ GetData \/ FinishLoad
Store == EraseSector \/ Erased \/ PutData \/ AllData \/ PutHeader \/ Stored
Console == CmdUpload \/ CmdLoad \/ CmdStore \/ CmdExecute \/ CmdExit
Answer == Refuse \/ Confirm \/ BootAnyway

Next ==
  \/ KeyPressed \/ AutoBoot \/ Console \/ Answer
  \/ Load \/ Store
  \/ Restart

Spec == Init /\ [][Next]_vars
FairSpec == Spec /\ WF_vars(Load) /\ WF_vars(Store)  \* the CPU runs

-----------------------------------------------------------------------------
(* Properties                                                              *)

TypeOK ==
  /\ pc \in {"wait", "load", "console", "confirm", "erase", "store", "seal", "anyway",
             "app", "halted"}
  /\ g_exe_base \in Word /\ g_exe_size \in Word /\ g_flash_addr \in 0 .. FlashBytes
  /\ mem \in [0 .. MemBytes \div WordBytes - 1 -> Word]
  /\ flash \in [0 .. FlashBytes - 1 -> Byte]
  /\ stream \in {"uart", "flash"} /\ auto \in BOOLEAN
  /\ header \in Seq(Word) /\ Len(header) <= 4 /\ i \in Word
  /\ sectors \in 0 .. Sectors /\ spi \in BOOLEAN /\ file \in Images \cup {NoImage}

(* What the loader calls executable is in memory, word for word one of the *)
(* host's images, through every wrong word, failed load and power cut, and *)
(* whatever an interrupted store has left in flash.  Auto-boot and "e"     *)
(* start nothing else without a question.                                  *)
ExecutableIntact == g_exe_size # 0 => \E image \in Images : Holds(image)

(* The sectors that are erased have room for header and data. *)
Room(size) == HeaderBytes + size <= (size \div SectorBytes + 1) * SectorBytes

(* The checksum adds words up, so it does not tell every wrong word.  One  *)
(* it does; and it tells an interrupted store or erasure if the images are *)
(* such that the words left of them add up to something else.              *)
Carries(image, size) ==  \* the host's size, or a wrong one of as many words
  WordsOf(size) = Len(image.data) /\ (size = image.size \/ size \in FaultWords)
ErasedFrom(word, t) ==  \* its bytes from t on are erased
  CHOOSE w \in Word :
    \A k \in 0 .. WordBytes - 1 :
      ByteOf(w, k) = IF k < t THEN ByteOf(word, k) ELSE ErasedByte
ErasedTail(words, b) ==  \* the rest of the first sector, from b on, is
  [m \in DOMAIN words |->
     LET at == HeaderBytes + (m - 1) * WordBytes
     IN ErasedFrom(words[m], IF at >= SectorBytes \/ at + WordBytes <= b
                             THEN WordBytes ELSE IF at >= b THEN 0 ELSE b - at)]
RoomForImages ==
  \A image \in Images, size \in Word : Carries(image, size) => Room(size)
CutImagesShow ==  \* a wrong size that ends the image before it does
  \A image \in Images, size \in FaultWords :
    WordsOf(size) \in 1 .. Len(image.data) - 1 =>
      Sums(image.data)[WordsOf(size)] # Sum(image.data)
CutSizesShow ==
  \A image \in Images, size \in Word, t \in 0 .. WordBytes :
    Carries(image, size) => ErasedFrom(size, t) = size \/ ErasedFrom(size, t) > MemBytes
ErasureShows ==
  \A image \in Images, t \in 0 .. WordBytes, b \in HeaderBytes .. SectorBytes :
    LET left == ErasedTail(image.data, b)
        checksum == ErasedFrom(Complement(Sum(image.data)), t)
    IN left # image.data => (checksum + Sum(left) + 1) % WordMod # 0
DamageShows == RoomForImages /\ CutImagesShow /\ CutSizesShow /\ ErasureShows

(* After "OK" the flash holds the executable: a load from it that comes to *)
(* its end brings back base, size and every word.                          *)
LoadsBack ==
  pc = "load" /\ stream = "flash" /\ stored # NoImage /\ pc' \notin {"load", "wait"} =>
    g_exe_base' = stored.base /\ g_exe_size' = stored.size /\ Holds(stored)'
(* This holds whenever the erased sectors have room for header and data.   *)
HasRoom == Room(stored.size)
StoredImageLoads == [][stored # NoImage /\ HasRoom => LoadsBack]_vars

(* system.c:181-187: "Store application executable: copy data from main    *)
(* memory to device stream ... 0 if success", of every size.               *)
StoreKeepsImage == [][LoadsBack]_vars

(* Loading from flash comes to an end, also where an interrupted store has *)
(* left a header whose size or base is still erased.                       *)
FlashLoadEnds == (pc = "load" /\ stream = "flash") ~> pc # "load"
=============================================================================
