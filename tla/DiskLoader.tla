----------------------------- MODULE DiskLoader -----------------------------
(***************************************************************************)
(* The first stage boot loader: a 512-byte boot sector that resets the     *)
(* boot drive, learns its geometry, reads the second and third stages from *)
(* consecutive LBA sectors with INT 13h and jumps to the second stage.     *)
(*                                                                         *)
(* The program is sequential; what varies is the machine it boots on: the  *)
(* drive, the BIOS services that fail, and the register contents the BIOS  *)
(* leaves behind.  Memory is the set of sectors placed so far: every write *)
(* is 512 bytes long and all its addresses agree modulo 512, so a later    *)
(* write replaces an earlier one exactly when their addresses are equal.   *)
(***************************************************************************)
EXTENDS Integers

CONSTANTS
    Drives,         \* the drives a machine may boot from
    BootRegisters   \* what the BIOS may leave in BX, CX and DH at 0x7C00

Byte == 0..255
Word == {n \in Nat : n < 65536}

\* dl is the BIOS drive number, spt/heads/cylinders the logical geometry the
\* BIOS uses, faults the INT 13h services that may report an error.
DriveType == [dl : Byte, spt : 1..63, heads : 1..256, cylinders : Nat \ {0},
              faults : SUBSET {"reset", "params", "read"}]

ASSUME DrivesAssumption == Drives \subseteq DriveType

\* A larger BX would place the second stage over the stack or over the boot
\* sector itself: the code this module describes would be gone.
ASSUME BootRegistersAssumption ==
    BootRegisters \subseteq
        [bx : {n \in Nat : n <= 12288}, cx : Word, dh : Byte]

SectorSize == 512
FirstSector == 1            \* lba_sector db: sector 0 is the boot sector

\* The two calls of read_disk_sectors: destination and DI.
SecondStage == [segment |-> 0, offset |-> 49152, sectors |-> 8]
ThirdStage  == [segment |-> 4096, offset |-> 0, sectors |-> 127]
LastSector  == FirstSector + SecondStage.sectors + ThirdStage.sectors - 1

VARIABLES
    drive, regs,    \* the machine: constant during a boot
    pc,             \* where the loader is
    boot_drive, spt, hpc, lba_sector,   \* the words of first_stage_data
    dest,           \* [disk_read_segment:disk_read_offset] and the call's DI
    di, bx,         \* registers of the sector loop
    memory,         \* sectors placed: [addr, lba]
    paramsFailed,   \* history: INT 13h/08h reported an error
    cause           \* history: why the loader stopped

vars == <<drive, regs, pc, boot_drive, spt, hpc, lba_sector, dest, di, bx,
          memory, paramsFailed, cause>>

Machine == <<drive, regs>>
Params  == <<boot_drive, spt, hpc, paramsFailed>>
Reading == <<lba_sector, dest, di, bx, memory>>

Stopped == {"hang", "divide_fault"}

Init ==
    /\ drive \in Drives
    /\ regs \in BootRegisters
    /\ pc = "detect_boot_disk"
    /\ boot_drive = 0 /\ spt = 18 /\ hpc = 2
    /\ lba_sector = FirstSector
    /\ dest = SecondStage
    /\ di = 0 /\ bx = regs.bx
    /\ memory = {}
    /\ paramsFailed = FALSE
    /\ cause = "none"

Hang(why) ==
    /\ pc' = "hang"
    /\ cause' = why
    /\ UNCHANGED <<Machine, Params, Reading>>

-----------------------------------------------------------------------------
(***************************************************************************)
(* The BIOS (INT 13h), as far as the loader uses it.                       *)
(***************************************************************************)

\* CX packs the low byte of the cylinder and the sector: bits 8 and 9 of the
\* cylinder are never passed on.
BiosLba(chs) ==
    ((chs.cylinder % 256) * drive.heads + chs.head) * drive.spt + chs.sector - 1

\* A diskette transfer may not cross a 64K boundary of the DMA controller.
DmaFits(addr) == drive.dl < 128 => (addr % 65536) + SectorSize <= 65536

BiosAccepts(chs, addr) ==
    /\ chs.sector \in 1..drive.spt
    /\ chs.head < drive.heads
    /\ chs.cylinder % 256 < drive.cylinders
    /\ DmaFits(addr)

-----------------------------------------------------------------------------
(***************************************************************************)
(* The loader.                                                             *)
(***************************************************************************)

\* Mutants of CHS: the sector counted from 0; cylinder and head exchanged; the
\* head taken from the sector number instead of the track number.
CHSSectorFromZero(lba) ==
    [cylinder |-> (lba \div spt) \div hpc,
     head     |-> ((lba \div spt) % hpc) % 256,
     sector   |-> lba % spt]

CHSExchanged(lba) ==
    [cylinder |-> (lba \div spt) % hpc,
     head     |-> ((lba \div spt) \div hpc) % 256,
     sector   |-> (lba % spt) + 1]

CHSHeadOfSector(lba) ==
    [cylinder |-> (lba \div spt) \div hpc,
     head     |-> (lba % hpc) % 256,
     sector   |-> (lba % spt) + 1]

\* lba_2_chs: two 16-bit divisions; Head takes the low byte of the remainder.
CHS(lba) ==
    [cylinder |-> (lba \div spt) \div hpc,
     head     |-> ((lba \div spt) % hpc) % 256,
     sector   |-> (lba % spt) + 1]

Dest == dest.segment * 16 + bx     \* the physical address of ES:BX

ResetFails ==
    /\ pc = "detect_boot_disk"
    /\ "reset" \in drive.faults
    /\ Hang("reset")

\* A floppy keeps the geometry assembled into first_stage_data.
DetectBootDisk ==
    /\ pc = "detect_boot_disk"
    /\ boot_drive' = drive.dl
    /\ pc' = IF drive.dl = 0 THEN "read_second_stage"
                             ELSE "load_boot_drive_params"
    /\ UNCHANGED <<Machine, spt, hpc, paramsFailed, Reading, cause>>

\* Mutant: DH, the number of the last head, is not incremented.
LoadLastHead ==
    /\ pc = "load_boot_drive_params"
    /\ \E failed \in BOOLEAN :
         LET cl == IF failed THEN regs.cx ELSE drive.spt
             dh == IF failed THEN regs.dh ELSE drive.heads - 1
         IN  /\ failed => "params" \in drive.faults
             /\ hpc' = dh * 256
             /\ spt' = cl % 64
             /\ paramsFailed' = failed
    /\ pc' = "read_second_stage"
    /\ UNCHANGED <<Machine, boot_drive, Reading, cause>>

\* The loader does not look at the carry flag.  After an error CX and DH hold
\* what the BIOS left in them at boot.  DH is incremented as a byte and stored
\* in the HIGH byte of the word hpc; CX is masked to six bits.
LoadBootDriveParams ==
    /\ pc = "load_boot_drive_params"
    /\ \E failed \in BOOLEAN :
         LET cl == IF failed THEN regs.cx ELSE drive.spt
             dh == IF failed THEN regs.dh ELSE drive.heads - 1
         IN  /\ failed => "params" \in drive.faults
             /\ hpc' = ((dh + 1) % 256) * 256
             /\ spt' = cl % 64
             /\ paramsFailed' = failed
    /\ pc' = "read_second_stage"
    /\ UNCHANGED <<Machine, boot_drive, Reading, cause>>

\* Mutant: the offset is added to the BX the previous call ended with.
ReadDiskSectorsOnwards(stage) ==
    /\ dest' = stage
    /\ di' = lba_sector + stage.sectors
    /\ bx' = (bx + stage.offset) % 65536
    /\ pc' = "read_sector_loop"
    /\ UNCHANGED <<Machine, Params, lba_sector, memory, cause>>

\* The entry of read_disk_sectors.  BX is not cleared before the offset is
\* added; PUSHA/POPA give every call the BX the BIOS left.
ReadDiskSectors(stage) ==
    /\ dest' = stage
    /\ di' = lba_sector + stage.sectors
    /\ bx' = (regs.bx + stage.offset) % 65536
    /\ pc' = "read_sector_loop"
    /\ UNCHANGED <<Machine, Params, lba_sector, memory, cause>>

ReadSecondStage == pc = "read_second_stage" /\ ReadDiskSectors(SecondStage)
ReadThirdStage  == pc = "read_third_stage" /\ ReadDiskSectors(ThirdStage)

\* A zero divisor raises #DE; the handler returns to the faulting DIV.
DivideFault ==
    /\ pc = "read_sector_loop"
    /\ spt = 0 \/ hpc = 0
    /\ pc' = "divide_fault"
    /\ cause' = "divide"
    /\ UNCHANGED <<Machine, Params, Reading>>

\* One turn of .read_sector_loop: convert, read, place the sector, make sector
\* the next one, and go round while again holds.
Turn(sector, again) ==
    /\ pc = "read_sector_loop"
    /\ spt # 0 /\ hpc # 0
    /\ BiosAccepts(CHS(lba_sector), Dest)
    /\ memory' = {m \in memory : m.addr # Dest}
                 \union {[addr |-> Dest, lba |-> BiosLba(CHS(lba_sector))]}
    /\ lba_sector' = sector
    /\ bx' = (bx + SectorSize) % 65536
    /\ pc' = IF again THEN "read_sector_loop"
             ELSE IF dest = SecondStage THEN "read_third_stage"
             ELSE "get_key_stroke"
    /\ UNCHANGED <<Machine, Params, dest, di, cause>>

\* Mutant: JLE for JL.
ReadSectorOneMore == Turn(lba_sector + 1, lba_sector + 1 <= di)

\* The LBA is incremented and compared, signed, with DI.
ReadSector == Turn(lba_sector + 1, lba_sector + 1 < di)

\* There is no retry: any carry is "Disk Error".
ReadRejected ==
    /\ pc = "read_sector_loop"
    /\ spt # 0 /\ hpc # 0
    /\ ~BiosAccepts(CHS(lba_sector), Dest)
    /\ Hang("geometry")

ReadFails ==
    /\ pc = "read_sector_loop"
    /\ spt # 0 /\ hpc # 0
    /\ BiosAccepts(CHS(lba_sector), Dest)
    /\ "read" \in drive.faults
    /\ Hang("media")

KeyStroke ==
    /\ pc = "get_key_stroke"
    /\ pc' = "second_stage"
    /\ UNCHANGED <<Machine, Params, Reading, cause>>

Load ==
    \/ ResetFails \/ DetectBootDisk \/ LoadBootDriveParams
    \/ ReadSecondStage \/ ReadThirdStage
    \/ DivideFault \/ ReadSector \/ ReadRejected \/ ReadFails

Next == Load \/ KeyStroke

\* The processor keeps executing; nothing makes the user press a key.
Spec == Init /\ [][Next]_vars /\ WF_vars(Load)

-----------------------------------------------------------------------------
(***************************************************************************)
(* What the loader promises.                                               *)
(***************************************************************************)

TypeOK ==
    /\ drive \in Drives
    /\ regs \in BootRegisters
    /\ pc \in {"detect_boot_disk", "load_boot_drive_params",
               "read_second_stage", "read_third_stage", "read_sector_loop",
               "get_key_stroke", "second_stage"} \union Stopped
    /\ boot_drive \in Byte
    /\ spt \in 0..63
    /\ hpc \in Word
    /\ lba_sector \in FirstSector..LastSector + 1
    /\ dest \in {SecondStage, ThirdStage}
    /\ di \in 0..LastSector + 1
    /\ bx \in Word
    /\ memory \subseteq [addr : Nat, lba : Nat]
    /\ paramsFailed \in BOOLEAN
    /\ cause \in {"none", "reset", "geometry", "media", "divide"}

\* The only diskette the assembled geometry (18 sectors, 2 heads) describes.
Is144 == drive.spt = 18 /\ drive.heads = 2

\* The loader knows the geometry of the drive it boots from.
GeometryKnown == ~paramsFailed /\ (drive.dl = 0 => Is144)

StageAt(stage, first) ==
    \A k \in 0..stage.sectors - 1 :
        [addr |-> stage.segment * 16 + stage.offset + SectorSize * k,
         lba  |-> first + k] \in memory

\* When the loader is about to jump to 0xC000, every sector of both stages is
\* at its place, provided BX was 0 and the geometry is known: neither the
\* conversion of lba_2_chs, nor the odd hpc of a hard disk, nor the second
\* call of read_disk_sectors can have placed a wrong sector unnoticed.
ImagesInPlace ==
    pc \in {"get_key_stroke", "second_stage"} /\ regs.bx = 0 /\ GeometryKnown
        => /\ StageAt(SecondStage, FirstSector)
           /\ StageAt(ThirdStage, FirstSector + SecondStage.sectors)

\* With BX = 0 the sector loop never writes outside the two images, whatever
\* the drive, the geometry or the faults: not over the boot sector at 0x7C00,
\* the stack below 0xB000 or the memory regions at 0x21000.
OnlyImagesWritten ==
    regs.bx = 0 =>
        \A m \in memory :
            \/ 49152 <= m.addr /\ m.addr + SectorSize <= 53248
            \/ 65536 <= m.addr /\ m.addr + SectorSize <= 130560

\* "Disk Error" on a healthy drive of known geometry means the sector is past
\* the first cylinder: the heads stored in the high byte of hpc make
\* lba_2_chs count tracks as heads of cylinder 0.
RejectedPastFirstCylinder ==
    cause = "geometry" /\ regs.bx = 0 /\ GeometryKnown
        => lba_sector >= drive.heads * drive.spt

\* The divisions of lba_2_chs fault only if the parameters were not returned,
\* or the drive has 256 heads, which wrap DH to 0.
DivideFaultExplained ==
    pc = "divide_fault" => paramsFailed \/ (drive.heads = 256 /\ drive.dl # 0)

\* Both: a drive without faults is given up only for these two reasons.
StopsExplained == RejectedPastFirstCylinder /\ DivideFaultExplained

\* A healthy drive whose first cylinder holds both stages, or a healthy 1.44M
\* diskette, always boots.
HealthyDrive ==
    /\ drive.faults = {}
    /\ regs.bx = 0
    /\ \/ drive.dl = 0 /\ Is144 /\ drive.cylinders * 36 > LastSector
       \/ drive.dl # 0 /\ drive.heads < 256
                       /\ drive.heads * drive.spt > LastSector
HealthyDriveBoots == HealthyDrive => <>(pc = "get_key_stroke")
=============================================================================
