-------------------------- MODULE DiskLoaderProofs --------------------------
(***************************************************************************)
(* Proofs about the first stage for every drive and every register content *)
(* the BIOS may leave.  The inductive invariant says how far the loader    *)
(* has come (Progress), what geometry it computes with (Geometry) and that *)
(* the sectors read so far are where Target puts them (Placed, Written).   *)
(* The last section proves that the first stage implements its link of the *)
(* chain: Placed says that a sector read is at its place, and Progress     *)
(* that the next one goes where no other belongs.                          *)
(***************************************************************************)
EXTENDS DiskLoaderChain, TLAPS

\* Where sector lba belongs.
Target(lba) == IF lba < 9 THEN 49152 + SectorSize * (lba - 1)
                          ELSE 65536 + SectorSize * (lba - 9)

Progress ==
    /\ pc \in {"detect_boot_disk", "load_boot_drive_params",
               "read_second_stage"} => lba_sector = 1 /\ memory = {}
    /\ pc = "read_third_stage" => lba_sector = 9
    /\ pc \in {"get_key_stroke", "second_stage"} => lba_sector = 136
    /\ pc = "read_sector_loop" =>
         \/ dest = SecondStage /\ di = 9 /\ lba_sector < 9
         \/ dest = ThirdStage /\ di = 136 /\ 9 <= lba_sector /\ lba_sector < 136
    /\ pc = "read_sector_loop" /\ regs.bx = 0 => Dest = Target(lba_sector)

Geometry ==
    /\ pc \notin Stopped => cause = "none"
    /\ pc = "detect_boot_disk" => spt = 18 /\ hpc = 2 /\ ~paramsFailed
    /\ pc = "load_boot_drive_params" => drive.dl # 0 /\ ~paramsFailed
    /\ pc \in {"read_second_stage", "read_third_stage", "read_sector_loop"} =>
         \/ drive.dl = 0 /\ spt = 18 /\ hpc = 2 /\ ~paramsFailed
         \/ drive.dl # 0 /\ paramsFailed
         \/ drive.dl # 0 /\ spt = drive.spt /\ hpc = 256 * (drive.heads % 256)

Sectors == FirstSector..LastSector

Placed ==
    regs.bx = 0 /\ GeometryKnown =>
        \A lba \in Sectors : lba < lba_sector =>
            [addr |-> Target(lba), lba |-> lba] \in memory

Written ==
    regs.bx = 0 =>
        \A m \in memory : \E lba \in Sectors : m.addr = Target(lba)

IInv ==
    /\ TypeOK
    /\ Progress
    /\ Geometry
    /\ Placed
    /\ Written
    /\ RejectedPastFirstCylinder
    /\ DivideFaultExplained

-----------------------------------------------------------------------------
(***************************************************************************)
(* Arithmetic of the conversion.                                           *)
(***************************************************************************)

\* Division with remainder, the fact every DIV of lba_2_chs rests on.
LEMMA DivMod ==
    ASSUME NEW a \in Nat, NEW b \in Nat \ {0}
    PROVE  /\ a \div b \in Nat
           /\ a % b \in 0..b - 1
           /\ a = b * (a \div b) + (a % b)
  OBVIOUS

\* Dividing by more than the dividend: what makes cylinder 0 of the odd hpc.
LEMMA DivBySmall ==
    ASSUME NEW a \in Nat, NEW b \in Nat, a < b
    PROVE  a \div b = 0 /\ a % b = a
  OBVIOUS

\* AND CX, 03FH: the mask of load_boot_drive_params keeps six bits.
LEMMA SixBits == \A n \in Nat : n % 64 \in 0..63
  OBVIOUS

\* The quotient of a sector number below 136 fits a byte.
LEMMA QuotientBound ==
    ASSUME NEW a \in Nat, NEW b \in Nat \ {0}, a < 136
    PROVE  a \div b \in 0..135
  OBVIOUS

\* The two divisions of lba_2_chs when the second divisor exceeds a byte.
LEMMA TrackIsHead ==
    ASSUME NEW lba \in Nat, lba < 136, NEW s \in Nat \ {0},
           NEW h \in Nat, h >= 256
    PROVE  /\ (lba \div s) \div h = 0
           /\ ((lba \div s) % h) % 256 = lba \div s
           /\ lba \div s \in 0..135
           /\ (lba % s) + 1 \in 1..s
           /\ (lba \div s) * s + (lba % s) = lba
<1>1. lba \div s \in 0..135
  BY QuotientBound
<1>2. /\ lba % s \in 0..s - 1
      /\ lba = s * (lba \div s) + (lba % s)
  BY DivMod
<1> DEFINE q == lba \div s
           r == lba % s
<1> HIDE DEF q, r
<1>3. q \in 0..135 /\ r \in 0..s - 1 /\ lba = s * q + r
  BY <1>1, <1>2 DEF q, r
<1>4. q \div h = 0 /\ q % h = q
  BY <1>3, DivBySmall
<1>5. q % 256 = q
  BY <1>3
<1>6. r + 1 \in 1..s
  BY <1>3
<1>7. s * q = q * s
  BY <1>3
<1>8. q * s + r = lba
  BY <1>3, <1>7
<1> QED
  BY <1>3, <1>4, <1>5, <1>6, <1>8 DEF q, r

\* A hard disk of known geometry: the whole track number is the head.
LEMMA DiskConversion ==
    ASSUME drive \in DriveType, spt = drive.spt, hpc \in Nat, hpc >= 256,
           NEW lba \in Nat, lba < 136
    PROVE  /\ CHS(lba).cylinder = 0
           /\ CHS(lba).head = lba \div spt
           /\ CHS(lba).sector \in 1..spt
           /\ BiosLba(CHS(lba)) = lba
<1>1. spt \in Nat \ {0} /\ drive.heads \in Nat
  BY DEF DriveType
<1> DEFINE q == lba \div spt
           r == lba % spt
<1>2. /\ q \div hpc = 0
      /\ (q % hpc) % 256 = q
      /\ q \in 0..135
      /\ r + 1 \in 1..spt
      /\ q * spt + r = lba
  <2>1. \A s \in Nat \ {0}, h \in Nat : h >= 256 =>
          /\ (lba \div s) \div h = 0
          /\ ((lba \div s) % h) % 256 = lba \div s
          /\ lba \div s \in 0..135
          /\ (lba % s) + 1 \in 1..s
          /\ (lba \div s) * s + (lba % s) = lba
    BY TrackIsHead
  <2> QED
    BY <1>1, <2>1
<1>7. q \in Nat /\ r \in Nat
  <2>1. \A s \in Nat \ {0} : lba \div s \in Nat /\ lba % s \in Nat
    BY DivMod
  <2> QED
    BY <1>1, <2>1
<1> HIDE DEF q, r
<1>3. CHS(lba) = [cylinder |-> q \div hpc, head |-> (q % hpc) % 256,
                  sector |-> r + 1]
  BY DEF CHS, q, r
<1>4. CHS(lba).cylinder = 0 /\ CHS(lba).head = q /\ CHS(lba).sector = r + 1
  BY <1>2, <1>3
<1>5. BiosLba(CHS(lba)) = ((0 % 256) * drive.heads + q) * spt + (r + 1) - 1
  BY <1>4 DEF BiosLba
<1>6. (0 % 256) * drive.heads + q = q
  BY <1>1, <1>2
<1>8. BiosLba(CHS(lba)) = q * spt + r
  BY <1>1, <1>5, <1>6, <1>7
<1> QED
  BY <1>2, <1>4, <1>8 DEF q

\* A 1.44M diskette: the textbook conversion with 18 sectors and 2 heads.
LEMMA FloppyConversion ==
    ASSUME Is144, spt = 18, hpc = 2, NEW lba \in Nat, lba < 136
    PROVE  /\ BiosLba(CHS(lba)) = lba
           /\ CHS(lba).sector \in 1..18
           /\ CHS(lba).head \in 0..1
           /\ CHS(lba).cylinder = (lba \div 18) \div 2
           /\ CHS(lba).cylinder \in 0..3
  BY DEF Is144, BiosLba, CHS

\* The sector numbers of the two images and their places, as numerals.
LEMMA Numbers ==
    /\ FirstSector = 1 /\ LastSector = 135 /\ SectorSize = 512
    /\ SecondStage.segment = 0 /\ SecondStage.offset = 49152
    /\ SecondStage.sectors = 8
    /\ ThirdStage.segment = 4096 /\ ThirdStage.offset = 0
    /\ ThirdStage.sectors = 127
    /\ SecondStage # ThirdStage
  BY DEF FirstSector, LastSector, SectorSize, SecondStage, ThirdStage

\* The sectors the loader reads are 1 to 135: the stop values of the two loops.
LEMMA SectorsAre ==
    \A lba : lba \in Sectors <=> lba \in Nat /\ 1 <= lba /\ lba < 136
  BY Numbers DEF Sectors

\* No two sectors share a place.
LEMMA TargetInjective ==
    ASSUME NEW a \in Sectors, NEW b \in Sectors, Target(a) = Target(b)
    PROVE  a = b
  BY Numbers, SectorsAre DEF Target

\* The invariant holds at 0x7C00: the words of first_stage_data are inside the
\* ranges, nothing is read yet.
LEMMA InitIInv == Init => IInv
<1> SUFFICES ASSUME Init PROVE IInv
  OBVIOUS
<1>1. drive \in DriveType /\ regs \in BootRegisters /\ regs.bx \in Nat
      /\ regs.bx <= 12288
  BY DrivesAssumption, BootRegistersAssumption DEF Init
<1>2. TypeOK
  <2>1. bx \in Word /\ hpc \in Word /\ boot_drive \in Byte
    BY <1>1 DEF Init, Word, Byte
  <2>2. lba_sector \in FirstSector..LastSector + 1 /\ di \in 0..LastSector + 1
    BY Numbers DEF Init
  <2>3. spt \in 0..63 /\ memory \subseteq [addr : Nat, lba : Nat]
    BY DEF Init
  <2> QED
    BY <2>1, <2>2, <2>3 DEF Init, TypeOK
<1>3. Progress /\ Geometry
  BY Numbers DEF Init, Progress, Geometry, Stopped
<1>4. Placed /\ Written
  BY Numbers, SectorsAre DEF Init, Placed, Written
<1>5. RejectedPastFirstCylinder /\ DivideFaultExplained
  BY DEF Init, RejectedPastFirstCylinder, DivideFaultExplained
<1> QED
  BY <1>2, <1>3, <1>4, <1>5 DEF IInv

-----------------------------------------------------------------------------
(***************************************************************************)
(* Every step preserves the invariant.                                     *)
(***************************************************************************)

\* The types a step relies on, with the machine's assumptions unfolded.
LEMMA Types ==
    ASSUME TypeOK
    PROVE  /\ drive \in DriveType
           /\ drive.dl \in Byte /\ drive.spt \in 1..63
           /\ drive.heads \in 1..256 /\ drive.cylinders \in Nat \ {0}
           /\ regs.bx \in Nat /\ regs.bx <= 12288
           /\ regs.cx \in Nat /\ regs.dh \in Byte
           /\ spt \in Nat /\ hpc \in Nat /\ bx \in Nat
           /\ lba_sector \in Nat /\ 1 <= lba_sector /\ lba_sector <= 136
           /\ dest.segment \in Nat
<1>1. drive \in DriveType /\ regs \in [bx : {n \in Nat : n <= 12288},
                                        cx : Word, dh : Byte]
  BY DrivesAssumption, BootRegistersAssumption DEF TypeOK
<1>2. regs.cx \in Nat /\ hpc \in Nat /\ bx \in Nat
  BY <1>1 DEF Word, TypeOK
<1>3. dest.segment \in Nat /\ lba_sector \in FirstSector..LastSector + 1
  BY Numbers DEF TypeOK
<1> QED
  BY <1>1, <1>2, <1>3, Numbers DEF TypeOK, DriveType

\* A hang changes nothing but pc and cause.
LEMMA HangStep ==
    ASSUME IInv, NEW why \in {"reset", "media"}, Hang(why)
    PROVE  IInv'
<1> USE DEF Hang, Machine, Params, Reading, IInv
<1>1. TypeOK'
  BY DEF TypeOK, Stopped
<1>2. Progress' /\ Geometry'
  BY DEF Progress, Geometry, Stopped
<1>3. Placed' /\ Written'
  BY DEF Placed, Written, GeometryKnown, Is144
<1>4. RejectedPastFirstCylinder' /\ DivideFaultExplained'
  BY DEF RejectedPastFirstCylinder, DivideFaultExplained
<1> QED
  BY <1>1, <1>2, <1>3, <1>4

\* detect_boot_disk disturbs no part of the invariant: it stores DL only.
LEMMA DetectBootDiskStep ==
    ASSUME IInv, DetectBootDisk
    PROVE  IInv'
<1> USE DEF DetectBootDisk, Machine, Reading, IInv
<1>1. TypeOK'
  BY Types DEF TypeOK
<1>2. Progress' /\ Geometry'
  BY DEF Progress, Geometry, Stopped
<1>3. Placed' /\ Written'
  BY Numbers, SectorsAre DEF Placed, Written, Progress
<1>4. RejectedPastFirstCylinder' /\ DivideFaultExplained'
  BY DEF RejectedPastFirstCylinder, DivideFaultExplained, Geometry, Stopped
<1> QED
  BY <1>1, <1>2, <1>3, <1>4

\* load_boot_drive_params establishes Geometry: the odd hpc of a hard disk, or
\* a word a failed call left.
LEMMA LoadBootDriveParamsStep ==
    ASSUME IInv, LoadBootDriveParams
    PROVE  IInv'
<1> USE DEF LoadBootDriveParams, Machine, Reading, IInv
<1>1. PICK failed \in BOOLEAN :
        /\ hpc' = (((IF failed THEN regs.dh ELSE drive.heads - 1) + 1) % 256)
                  * 256
        /\ spt' = (IF failed THEN regs.cx ELSE drive.spt) % 64
        /\ paramsFailed' = failed
  OBVIOUS
<1>2. /\ drive.spt \in 1..63 /\ drive.heads \in 1..256
      /\ regs.cx \in Nat /\ regs.dh \in Nat
  BY Types DEF Byte
<1>3. spt' \in 0..63 /\ (~failed => spt' = drive.spt)
  <2>1. CASE failed
    <3>1. spt' = regs.cx % 64
      BY <1>1, <2>1
    <3>2. regs.cx % 64 \in 0..63
      BY <1>2, SixBits
    <3> QED
      BY <2>1, <3>1, <3>2
  <2>2. CASE ~failed
    <3>1. drive.spt % 64 = drive.spt
      BY <1>2
    <3> QED
      BY <1>1, <1>2, <2>2, <3>1
  <2> QED
    BY <2>1, <2>2
<1>4. hpc' \in Word /\ (~failed => hpc' = 256 * (drive.heads % 256))
  BY <1>1, <1>2 DEF Word
<1>5. TypeOK'
  BY <1>1, <1>2, <1>3, <1>4 DEF TypeOK
<1>6. Progress' /\ Geometry'
  BY <1>1, <1>2, <1>3, <1>4 DEF Progress, Geometry, Stopped
<1>7. Placed' /\ Written'
  BY Numbers, SectorsAre DEF Placed, Written, Progress
<1>8. RejectedPastFirstCylinder' /\ DivideFaultExplained'
  BY DEF RejectedPastFirstCylinder, DivideFaultExplained, Geometry, Stopped
<1> QED
  BY <1>5, <1>6, <1>7, <1>8

\* The entry of read_disk_sectors, for either stage.
LEMMA ReadDiskSectorsStep ==
    ASSUME IInv, NEW stage \in {SecondStage, ThirdStage},
           ReadDiskSectors(stage),
           \/ pc = "read_second_stage" /\ stage = SecondStage
           \/ pc = "read_third_stage" /\ stage = ThirdStage
    PROVE  IInv'
<1> USE DEF ReadDiskSectors, Machine, Params, IInv
<1>1. /\ regs.bx \in Nat /\ regs.bx <= 12288
      /\ \/ lba_sector = 1 /\ stage = SecondStage
         \/ lba_sector = 9 /\ stage = ThirdStage
  BY Types DEF Progress
<1>2. stage.offset \in Nat /\ stage.offset <= 49152
  BY Numbers
<1>3. bx' \in Nat /\ bx' < 65536 /\ (regs.bx = 0 => bx' = stage.offset)
  BY <1>1, <1>2
<1>4. di' \in 0..LastSector + 1
  BY <1>1, Numbers
<1>5. TypeOK'
  <2>1. bx' \in Word
    BY <1>3 DEF Word
  <2> QED
    BY <1>4, <2>1 DEF TypeOK
<1>6. Progress'
  BY <1>1, <1>3, Numbers DEF Progress, Dest, Target
<1>7. Geometry'
  BY DEF Geometry, Stopped
<1>8. Placed' /\ Written'
  BY DEF Placed, Written, GeometryKnown, Is144
<1>9. RejectedPastFirstCylinder' /\ DivideFaultExplained'
  BY DEF RejectedPastFirstCylinder, DivideFaultExplained, Geometry, Stopped
<1> QED
  BY <1>5, <1>6, <1>7, <1>8, <1>9

\* A division by zero in lba_2_chs leads back to the parameters: hpc is 0 only
\* for DH = 255, spt only for a CL the BIOS did not set.
LEMMA DivideFaultStep ==
    ASSUME IInv, DivideFault
    PROVE  IInv'
<1> USE DEF DivideFault, Machine, Params, Reading, IInv
<1>1. TypeOK'
  BY DEF TypeOK, Stopped
<1>2. Progress' /\ Geometry'
  BY DEF Progress, Geometry, Stopped
<1>3. Placed' /\ Written'
  BY DEF Placed, Written, GeometryKnown, Is144
<1>4. RejectedPastFirstCylinder'
  BY DEF RejectedPastFirstCylinder
<1>5. DivideFaultExplained'
  <2>1. drive.spt \in 1..63 /\ drive.heads \in 1..256
    BY Types
  <2>2. 256 * (drive.heads % 256) = 0 => drive.heads = 256
    BY <2>1
  <2> QED
    BY <2>1, <2>2 DEF DivideFaultExplained, Geometry
<1> QED
  BY <1>1, <1>2, <1>3, <1>4, <1>5

\* What the geometry in force means for the conversion of a sector.
LEMMA Conversion ==
    ASSUME TypeOK, Geometry, GeometryKnown, pc = "read_sector_loop",
           spt # 0, hpc # 0, NEW lba \in Nat, lba < 136
    PROVE  /\ BiosLba(CHS(lba)) = lba
           /\ \/ /\ drive.dl = 0 /\ Is144
                 /\ CHS(lba).sector \in 1..18 /\ CHS(lba).head \in 0..1
                 /\ CHS(lba).cylinder = (lba \div 18) \div 2
                 /\ CHS(lba).cylinder \in 0..3
              \/ /\ spt = drive.spt
                 /\ CHS(lba).sector \in 1..spt
                 /\ CHS(lba).cylinder = 0
                 /\ CHS(lba).head = lba \div spt
<1>1. CASE drive.dl = 0
  <2>1. Is144 /\ spt = 18 /\ hpc = 2
    BY <1>1 DEF Geometry, GeometryKnown
  <2> QED
    BY <1>1, <2>1, FloppyConversion
<1>2. CASE drive.dl # 0
  <2>1. /\ spt = drive.spt /\ hpc = 256 * (drive.heads % 256)
        /\ drive \in DriveType /\ drive.heads \in 1..256
    BY <1>2, Types DEF Geometry, GeometryKnown
  <2>2. hpc \in Nat /\ hpc >= 256
    BY <2>1
  <2> QED
    BY <2>1, <2>2, DiskConversion
<1> QED
  BY <1>1, <1>2

\* The conversion yields natural numbers, whatever the divisors hold.
LEMMA ConversionTypes ==
    ASSUME spt \in Nat \ {0}, hpc \in Nat \ {0}, NEW lba \in Nat
    PROVE  CHS(lba).head \in Nat /\ CHS(lba).cylinder \in Nat
<1>1. \A s \in Nat \ {0} : lba \div s \in Nat
  BY DivMod
<1>2. lba \div spt \in Nat
  BY <1>1
<1> DEFINE q == lba \div spt
<1> HIDE DEF q
<1>3. q \in Nat
  BY <1>2 DEF q
<1>4. \A h \in Nat \ {0} : q \div h \in Nat /\ q % h \in Nat
  BY <1>3, DivMod
<1>5. q \div hpc \in Nat /\ q % hpc \in Nat
  BY <1>4
<1>6. (q % hpc) % 256 \in Nat
  BY <1>5
<1> QED
  BY <1>5, <1>6 DEF CHS, q

\* What INT 13h/02h reads is a sector number, whatever CX and DH hold.
LEMMA BiosLbaType ==
    ASSUME NEW chs, chs.sector \in Nat \ {0}, chs.head \in Nat,
           chs.cylinder \in Nat, drive.heads \in Nat, drive.spt \in Nat
    PROVE  BiosLba(chs) \in Nat
<1>1. chs.cylinder % 256 \in Nat
  OBVIOUS
<1>2. \A a, b \in Nat : a * b \in Nat /\ a + b \in Nat
  OBVIOUS
<1>3. (chs.cylinder % 256) * drive.heads + chs.head \in Nat
  BY <1>1, <1>2
<1>4. ((chs.cylinder % 256) * drive.heads + chs.head) * drive.spt \in Nat
  BY <1>2, <1>3
<1>5. \A x \in Nat, k \in Nat \ {0} : x + k - 1 \in Nat
  OBVIOUS
<1> QED
  BY <1>4, <1>5 DEF BiosLba

\* A turn of read_sector_loop places the sector where the image wants it and
\* keeps BX and lba_sector in step.
LEMMA ReadSectorStep ==
    ASSUME IInv, ReadSector
    PROVE  IInv'
<1> USE DEF ReadSector, Turn, Machine, Params, IInv
<1> DEFINE new == [addr |-> Dest, lba |-> BiosLba(CHS(lba_sector))]
<1>1. /\ regs.bx \in Nat /\ bx \in Nat /\ lba_sector \in Nat
      /\ dest.segment \in Nat /\ Dest \in Nat
      /\ \/ dest = SecondStage /\ di = 9 /\ 1 <= lba_sector /\ lba_sector < 9
         \/ dest = ThirdStage /\ di = 136 /\ 9 <= lba_sector /\ lba_sector < 136
      /\ lba_sector < 136 /\ lba_sector \in Sectors
      /\ regs.bx = 0 => Dest = Target(lba_sector)
  BY Types, SectorsAre DEF Progress, Dest
<1>2. bx' \in Nat /\ bx' < 65536
  BY <1>1, Numbers
<1>3. /\ BiosLba(CHS(lba_sector)) \in Nat
      /\ GeometryKnown => BiosLba(CHS(lba_sector)) = lba_sector
  <2>1. CHS(lba_sector).sector \in 1..drive.spt
    BY DEF BiosAccepts
  <2>2. CHS(lba_sector).head \in Nat /\ CHS(lba_sector).cylinder \in Nat
    BY <1>1, ConversionTypes, Types
  <2>3. drive.heads \in Nat /\ drive.spt \in Nat
    BY Types
  <2>4. BiosLba(CHS(lba_sector)) \in Nat
    BY <2>1, <2>2, <2>3, BiosLbaType
  <2>5. GeometryKnown => BiosLba(CHS(lba_sector)) = lba_sector
    BY <1>1, Conversion
  <2> QED
    BY <2>4, <2>5
<1>4. memory' = {m \in memory : m.addr # Dest} \union {new}
  OBVIOUS
<1> HIDE DEF new
<1>5. TypeOK'
  <2>1. bx' \in Word
    BY <1>2 DEF Word
  <2>2. lba_sector' \in FirstSector..LastSector + 1
    BY <1>1, Numbers
  <2>3. memory' \subseteq [addr : Nat, lba : Nat]
    BY <1>1, <1>3, <1>4 DEF new, TypeOK
  <2> QED
    BY <2>1, <2>2, <2>3 DEF TypeOK
<1>6. Progress'
  <2>1. pc' = "read_sector_loop" /\ regs.bx = 0 => Dest' = Target(lba_sector')
    <3> SUFFICES ASSUME pc' = "read_sector_loop", regs.bx = 0
                 PROVE  Dest' = Target(lba_sector')
      OBVIOUS
    <3>1. dest' = dest /\ lba_sector' = lba_sector + 1 /\ lba_sector + 1 < di
      OBVIOUS
    <3>2. CASE dest = SecondStage
      <4>1. bx = 49152 + 512 * (lba_sector - 1) /\ lba_sector + 1 < 9
        BY <1>1, <3>1, <3>2, Numbers DEF Dest, Target
      <4>2. bx' = bx + 512
        BY <1>1, <4>1, Numbers
      <4> QED
        BY <1>1, <3>1, <3>2, <4>1, <4>2, Numbers DEF Dest, Target
    <3>3. CASE dest = ThirdStage
      <4>1. bx = 512 * (lba_sector - 9) /\ 9 <= lba_sector /\ lba_sector < 136
        BY <1>1, <3>1, <3>3, Numbers DEF Dest, Target
      <4>2. bx' = bx + 512
        BY <1>1, <4>1, Numbers
      <4> QED
        BY <1>1, <3>1, <3>3, <4>1, <4>2, Numbers DEF Dest, Target
    <3> QED
      BY <1>1, <3>2, <3>3
  <2> QED
    BY <1>1, <2>1, Numbers DEF Progress
<1>7. Geometry'
  BY DEF Geometry, Stopped
<1>8. Placed'
  <2> SUFFICES ASSUME regs.bx = 0, GeometryKnown,
                      NEW lba \in Sectors, lba < lba_sector'
               PROVE  [addr |-> Target(lba), lba |-> lba] \in memory'
    BY DEF Placed, GeometryKnown, Is144
  <2>1. CASE lba = lba_sector
    BY <1>1, <1>3, <1>4, <2>1 DEF new
  <2>2. CASE lba # lba_sector
    <3>1. lba < lba_sector
      BY <1>1, <2>2, SectorsAre
    <3>2. [addr |-> Target(lba), lba |-> lba] \in memory
      BY <3>1 DEF Placed
    <3>3. Target(lba) # Dest
      BY <1>1, <2>2, TargetInjective
    <3> QED
      BY <1>4, <3>2, <3>3
  <2> QED
    BY <2>1, <2>2
<1>9. Written'
  <2> SUFFICES ASSUME regs.bx = 0, NEW m \in memory'
               PROVE  \E lba \in Sectors : m.addr = Target(lba)
    BY DEF Written
  <2>1. CASE m = new
    BY <1>1, <2>1 DEF new
  <2>2. CASE m \in memory
    BY <2>2 DEF Written
  <2> QED
    BY <1>4, <2>1, <2>2
<1>10. RejectedPastFirstCylinder' /\ DivideFaultExplained'
  BY DEF RejectedPastFirstCylinder, DivideFaultExplained, Geometry, Stopped
<1> QED
  BY <1>5, <1>6, <1>7, <1>8, <1>9, <1>10

\* A healthy transfer of known geometry is refused only past cylinder 0.
LEMMA RejectedWhy ==
    ASSUME IInv, pc = "read_sector_loop", spt # 0, hpc # 0, regs.bx = 0,
           GeometryKnown, ~BiosAccepts(CHS(lba_sector), Dest)
    PROVE  lba_sector >= drive.heads * drive.spt
<1> DEFINE chs == CHS(lba_sector)
<1>1. /\ lba_sector \in Nat /\ 1 <= lba_sector /\ lba_sector < 136
      /\ Dest = Target(lba_sector)
      /\ drive.cylinders \in Nat \ {0} /\ drive.spt \in Nat \ {0}
      /\ drive.heads \in Nat
  BY Types DEF IInv, Progress
<1>2. DmaFits(Dest)
  BY <1>1, Numbers DEF DmaFits, Target
<1>3. \/ /\ Is144 /\ chs.sector \in 1..18 /\ chs.head \in 0..1
         /\ chs.cylinder = (lba_sector \div 18) \div 2
         /\ chs.cylinder \in 0..3
      \/ /\ spt = drive.spt /\ chs.sector \in 1..spt
         /\ chs.cylinder = 0 /\ chs.head = lba_sector \div spt
  BY <1>1, Conversion DEF IInv
<1>4. ~(/\ chs.sector \in 1..drive.spt
        /\ chs.head < drive.heads
        /\ chs.cylinder % 256 < drive.cylinders)
  BY <1>2 DEF BiosAccepts
<1> HIDE DEF chs
<1>5. CASE /\ Is144 /\ chs.sector \in 1..18 /\ chs.head \in 0..1
           /\ chs.cylinder = (lba_sector \div 18) \div 2
           /\ chs.cylinder \in 0..3
  <2>1. drive.spt = 18 /\ drive.heads = 2
    BY <1>5 DEF Is144
  <2>2. chs.cylinder % 256 = chs.cylinder
    BY <1>5
  <2>3. chs.cylinder >= 1
    BY <1>1, <1>4, <1>5, <2>1, <2>2
  <2>4. lba_sector >= 36
    BY <1>1, <1>5, <2>3
  <2> QED
    BY <1>1, <2>1, <2>4
<1>6. CASE /\ spt = drive.spt /\ chs.sector \in 1..spt
           /\ chs.cylinder = 0 /\ chs.head = lba_sector \div spt
  <2> DEFINE q == lba_sector \div spt
             r == lba_sector % spt
  <2>1. \A a \in Nat, s \in Nat \ {0} :
           /\ a \div s \in Nat /\ a % s \in Nat
           /\ a = s * (a \div s) + (a % s)
    BY DivMod
  <2>2. q \in Nat /\ r \in Nat /\ lba_sector = spt * q + r
    BY <1>1, <1>6, <2>1
  <2>3. chs.head = q
    BY <1>6
  <2> HIDE DEF q, r
  <2>4. q >= drive.heads
    BY <1>1, <1>4, <1>6, <2>2, <2>3
  <2>5. \A a, b, s \in Nat : a >= b => s * a >= b * s
    OBVIOUS
  <2>6. spt * q >= drive.heads * spt
    BY <1>1, <1>6, <2>2, <2>4, <2>5
  <2>7. drive.heads * spt \in Nat /\ spt * q \in Nat
    BY <1>1, <1>6, <2>2
  <2> QED
    BY <1>1, <1>6, <2>2, <2>6, <2>7
<1> QED
  BY <1>3, <1>5, <1>6

\* .read_disk_error without a media fault: the invariant's account of it.
LEMMA ReadRejectedStep ==
    ASSUME IInv, ReadRejected
    PROVE  IInv'
<1> USE DEF ReadRejected, Hang, Machine, Params, Reading, IInv
<1>1. TypeOK'
  BY DEF TypeOK, Stopped
<1>2. Progress' /\ Geometry'
  BY DEF Progress, Geometry, Stopped
<1>3. Placed' /\ Written'
  BY DEF Placed, Written, GeometryKnown, Is144
<1>4. RejectedPastFirstCylinder'
  BY RejectedWhy DEF RejectedPastFirstCylinder, GeometryKnown, Is144
<1>5. DivideFaultExplained'
  BY DEF DivideFaultExplained
<1> QED
  BY <1>1, <1>2, <1>3, <1>4, <1>5

\* get_key_stroke changes nothing the invariant is about.
LEMMA KeyStrokeStep ==
    ASSUME IInv, KeyStroke
    PROVE  IInv'
<1> USE DEF KeyStroke, Machine, Params, Reading, IInv
<1>1. TypeOK'
  BY DEF TypeOK
<1>2. Progress' /\ Geometry'
  BY DEF Progress, Geometry, Stopped
<1>3. Placed' /\ Written'
  BY DEF Placed, Written, GeometryKnown, Is144
<1>4. RejectedPastFirstCylinder'
  BY DEF RejectedPastFirstCylinder, GeometryKnown, Is144
<1>5. DivideFaultExplained'
  BY DEF DivideFaultExplained
<1> QED
  BY <1>1, <1>2, <1>3, <1>4, <1>5

\* A stuttering step keeps the invariant.
LEMMA StutterStep ==
    ASSUME IInv, UNCHANGED vars
    PROVE  IInv'
<1> USE DEF vars, IInv
<1>1. TypeOK' /\ Progress' /\ Geometry'
  BY DEF TypeOK, Progress, Geometry, Dest, Stopped
<1>2. Placed' /\ Written'
  BY DEF Placed, Written, GeometryKnown, Is144
<1>3. RejectedPastFirstCylinder'
  BY DEF RejectedPastFirstCylinder, GeometryKnown, Is144
<1>4. DivideFaultExplained'
  BY DEF DivideFaultExplained
<1> QED
  BY <1>1, <1>2, <1>3, <1>4

\* Every step of the boot sector keeps the invariant: one case per action.
LEMMA NextIInv == IInv /\ [Next]_vars => IInv'
<1> SUFFICES ASSUME IInv, [Next]_vars PROVE IInv'
  OBVIOUS
<1>1. CASE ResetFails
  BY <1>1, HangStep DEF ResetFails
<1>2. CASE DetectBootDisk
  BY <1>2, DetectBootDiskStep
<1>3. CASE LoadBootDriveParams
  BY <1>3, LoadBootDriveParamsStep
<1>4. CASE ReadSecondStage
  BY <1>4, ReadDiskSectorsStep DEF ReadSecondStage
<1>5. CASE ReadThirdStage
  BY <1>5, ReadDiskSectorsStep DEF ReadThirdStage
<1>6. CASE DivideFault
  BY <1>6, DivideFaultStep
<1>7. CASE ReadSector
  BY <1>7, ReadSectorStep
<1>8. CASE ReadRejected
  BY <1>8, ReadRejectedStep
<1>9. CASE ReadFails
  BY <1>9, HangStep DEF ReadFails
<1>10. CASE KeyStroke
  BY <1>10, KeyStrokeStep
<1>11. CASE UNCHANGED vars
  BY <1>11, StutterStep
<1> QED
  BY <1>1, <1>2, <1>3, <1>4, <1>5, <1>6, <1>7, <1>8, <1>9, <1>10, <1>11
     DEF Next, Load

\* The invariant holds in every reachable state.
THEOREM Invariance == Spec => []IInv
  BY InitIInv, NextIInv, PTL DEF Spec

-----------------------------------------------------------------------------
(***************************************************************************)
(* What follows for every drive and every BIOS.                            *)
(***************************************************************************)

\* The loader's words and registers keep their types: spt never exceeds the
\* six bits INT 13h packs it in, lba_sector never passes the last sector.
THEOREM TypeCorrect == Spec => []TypeOK
<1>1. IInv => TypeOK
  BY DEF IInv
<1> QED
  BY <1>1, Invariance, PTL

\* Whenever the loader is about to jump to 0xC000 with BX = 0 and the geometry
\* known, all 135 sectors are at their place, for every drive.
THEOREM ImagesSafe == Spec => []ImagesInPlace
<1>1. IInv => ImagesInPlace
  <2> SUFFICES ASSUME IInv, pc \in {"get_key_stroke", "second_stage"},
                      regs.bx = 0, GeometryKnown
               PROVE  /\ StageAt(SecondStage, FirstSector)
                      /\ StageAt(ThirdStage, FirstSector + SecondStage.sectors)
    BY DEF ImagesInPlace
  <2>1. \A lba \in Sectors : [addr |-> Target(lba), lba |-> lba] \in memory
    BY SectorsAre DEF IInv, Progress, Placed
  <2>2. \A k \in Int : 0 <= k /\ k < 8 =>
            /\ 1 + k \in Sectors /\ Target(1 + k) = 49152 + 512 * k
    BY SectorsAre, Numbers DEF Target
  <2>3. \A k \in Int : 0 <= k /\ k < 127 =>
            /\ 9 + k \in Sectors /\ Target(9 + k) = 65536 + 512 * k
    BY SectorsAre, Numbers DEF Target
  <2>4. StageAt(SecondStage, FirstSector)
    BY <2>1, <2>2, Numbers DEF StageAt
  <2>5. StageAt(ThirdStage, FirstSector + SecondStage.sectors)
    BY <2>1, <2>3, Numbers DEF StageAt
  <2> QED
    BY <2>4, <2>5
<1> QED
  BY <1>1, Invariance, PTL

\* With BX = 0 nothing outside the two images is ever written.
THEOREM MemorySafe == Spec => []OnlyImagesWritten
<1>1. IInv => OnlyImagesWritten
  BY SectorsAre, Numbers DEF IInv, Written, OnlyImagesWritten, Target
<1> QED
  BY <1>1, Invariance, PTL

\* "Disk Error" without a fault means a sector past the first cylinder, and a
\* divide fault missing parameters or a drive of 256 heads.
THEOREM StopsAreExplained == Spec => []StopsExplained
<1>1. IInv => StopsExplained
  BY DEF IInv, StopsExplained
<1> QED
  BY <1>1, Invariance, PTL

-----------------------------------------------------------------------------
(* The chain. *)

Trusted == regs.bx = 0 /\ GeometryKnown

\* A sector's place in the chain's memory is the address the loader computes.
LEMMA PlaceIsTarget ==
    /\ Images = Sectors
    /\ \A lba \in Images : Place(lba) = Target(lba)
  BY SectorsAre, Numbers DEF Images, Sectors, Place, Target

\* A step of the loader that reads nothing and stays in the loader.
LEMMA Waiting ==
    ASSUME Stage = "first_stage", Stage' = "first_stage",
           UNCHANGED <<Machine, memory>>, Trusted' => Trusted
    PROVE  Chain!Prepare
<1>1. InPlace' = InPlace
  BY DEF InPlace
<1> QED
  BY <1>1 DEF Chain!Prepare, InPlace, Trusted

\* A sector read goes where it belongs, and replaces no other one.
LEMMA Reads ==
    ASSUME IInv, IInv', ReadSector
    PROVE  Trusted => InPlace \subseteq InPlace'
<1> SUFFICES ASSUME Trusted, NEW lba \in InPlace
             PROVE  lba \in InPlace'
  OBVIOUS
<1>1. lba \in Images /\ [addr |-> Place(lba), lba |-> lba] \in memory
  BY DEF InPlace
<1>2. CASE lba < lba_sector'
  <2>1. Trusted'
    BY DEF Trusted, ReadSector, Turn, Machine, Params, GeometryKnown, Is144
  <2>2. [addr |-> Target(lba), lba |-> lba] \in memory'
    BY <1>1, <1>2, <2>1, PlaceIsTarget DEF IInv, Placed, Trusted
  <2> QED
    BY <1>1, <2>2, PlaceIsTarget DEF InPlace
<1>3. CASE ~(lba < lba_sector')
  <2>1. lba # lba_sector /\ lba_sector \in Images
    BY <1>1, <1>3, SectorsAre, PlaceIsTarget, Numbers
    DEF IInv, TypeOK, Progress, ReadSector, Turn
  <2>2. Dest = Place(lba_sector)
    BY <2>1, PlaceIsTarget DEF IInv, Progress, ReadSector, Turn, Trusted
  <2>3. Place(lba) # Dest
    BY <1>1, <2>1, <2>2, PlaceIsTarget, TargetInjective
  <2>4. [addr |-> Place(lba), lba |-> lba] \in memory'
    BY <1>1, <2>3 DEF ReadSector, Turn
  <2> QED
    BY <1>1, <2>4 DEF InPlace
<1> QED
  BY <1>2, <1>3

\* Every step of the loader is a step of the chain or a stutter.
LEMMA StepSimulated ==
    ASSUME IInv, IInv', [Next]_vars
    PROVE  [Chain!Next]_<<Stage, InPlace, Trusted>>
<1> USE DEF Machine, Params, Reading
<1>1. CASE ResetFails \/ DivideFault \/ ReadRejected \/ ReadFails
  <2>1. Stage = "first_stage" /\ Stage' = "lost"
         /\ UNCHANGED <<InPlace, Trusted>>
    BY <1>1 DEF ResetFails, DivideFault, ReadRejected, ReadFails, Hang, Stage,
                Stopped, InPlace, Trusted, GeometryKnown, Is144
  <2> QED
    BY <2>1 DEF Chain!Next, Chain!GetLost, Trusted
<1>2. CASE DetectBootDisk \/ ReadSecondStage \/ ReadThirdStage
  <2>1. Stage = "first_stage" /\ Stage' = "first_stage"
        /\ UNCHANGED <<Machine, memory, paramsFailed>>
    BY <1>2 DEF DetectBootDisk, ReadSecondStage, ReadThirdStage,
                ReadDiskSectors, Stage, Stopped
  <2>2. Trusted' => Trusted
    BY <2>1 DEF Trusted, GeometryKnown, Is144
  <2> QED
    BY <2>1, <2>2, Waiting DEF Chain!Next
<1>3. CASE LoadBootDriveParams
  <2>1. Stage = "first_stage" /\ Stage' = "first_stage"
        /\ UNCHANGED <<Machine, memory>>
    BY <1>3 DEF LoadBootDriveParams, Stage, Stopped
  <2>2. Trusted' => Trusted
    BY <1>3 DEF LoadBootDriveParams, IInv, Geometry, Trusted, GeometryKnown,
                Is144
  <2> QED
    BY <2>1, <2>2, Waiting DEF Chain!Next
<1>4. CASE ReadSector
  <2>1. Stage = "first_stage" /\ Stage' = "first_stage"
    BY <1>4 DEF ReadSector, Turn, Stage, Stopped
  <2>2. Trusted' = Trusted
    BY <1>4 DEF ReadSector, Turn, Trusted, GeometryKnown, Is144
  <2>3. InPlace' \subseteq Images
    BY DEF InPlace, Images, FirstSector, LastSector
  <2> QED
    BY <1>4, <2>1, <2>2, <2>3, Reads DEF Chain!Next, Chain!Prepare, Trusted
<1>5. CASE KeyStroke
  <2>1. Stage = "first_stage" /\ Stage' = "second_stage"
        /\ UNCHANGED <<InPlace, Trusted>>
    BY <1>5 DEF KeyStroke, Stage, Stopped, InPlace, Trusted, GeometryKnown,
                Is144
  <2>2. Trusted => InPlace = Images
    BY <1>5, PlaceIsTarget, SectorsAre
    DEF KeyStroke, IInv, Progress, Placed, Trusted, InPlace
  <2> QED
    BY <2>1, <2>2 DEF Chain!Next, Chain!HandOver, Trusted
<1>6. CASE UNCHANGED vars
  BY <1>6 DEF vars, Stage, Stopped, InPlace, Trusted, GeometryKnown, Is144
<1> QED
  BY <1>1, <1>2, <1>3, <1>4, <1>5, <1>6 DEF Next, Load

\* The first stage implements the chain's promise.
THEOREM ChainImplemented == Spec => FirstStageImplements
<1>1. Init => Chain!Init
  BY DEF Init, Chain!Init, Stage, Stopped, InPlace
<1>2. ASSUME IInv, IInv', [Next]_vars
      PROVE  [Chain!Next]_<<Stage, InPlace, regs.bx = 0 /\ GeometryKnown>>
  BY <1>2, StepSimulated DEF Trusted
<1> QED
  BY <1>1, <1>2, Invariance, PTL DEF Spec, FirstStageImplements, Chain!Spec
=============================================================================
