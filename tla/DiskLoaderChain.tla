--------------------------- MODULE DiskLoaderChain ---------------------------
(***************************************************************************)
(* The first stage as the first link of the chain: what the second stage   *)
(* needs are the sectors of both images, each at its place.                *)
(***************************************************************************)
EXTENDS DiskLoader

Images == FirstSector .. LastSector

\* The address at which sector lba of the drive belongs.
Place(lba) ==
    IF lba < FirstSector + SecondStage.sectors
    THEN SecondStage.offset + SectorSize * (lba - FirstSector)
    ELSE ThirdStage.segment * 16
            + SectorSize * (lba - FirstSector - SecondStage.sectors)

Stage == CASE pc = "second_stage" -> "second_stage"
           [] pc \in Stopped -> "lost"
           [] OTHER -> "first_stage"

InPlace == {lba \in Images : [addr |-> Place(lba), lba |-> lba] \in memory}

Chain == INSTANCE BootChain WITH
            First <- "first_stage", Second <- "second_stage", Needs <- Images,
            stage <- Stage, ready <- InPlace,
            trusted <- regs.bx = 0 /\ GeometryKnown

\* The first stage keeps the chain's promise: with BX = 0 and the geometry
\* known, it jumps to 0xC000 only when every sector of both images is at its
\* place, and the reading of one image never spoils the other.
FirstStageImplements == Chain!Spec
=============================================================================
