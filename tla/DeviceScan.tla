------------------------------ MODULE DeviceScan ------------------------------
(***************************************************************************)
(* The kernel's two loops over hardware: every PCI function, read into     *)
(* pci_header by get_pci_device, and every ATA drive, asked to identify    *)
(* itself by ata_identify_disk, with the drives answering in their own     *)
(* time.  At this commit the call of ata_identify_disk is commented out;   *)
(* here it is made, where the comment stands.                              *)
(*                                                                         *)
(* A drive's status register is the set of its bits.  The 256 words a      *)
(* drive identifies itself with are scaled to Words, the ones that         *)
(* ata_print_info prints are Fields.                                       *)
(***************************************************************************)
EXTENDS Integers, Sequences

CONSTANTS
    Buses,      \* buses the loop reads: 255, numbers 0 to 254
    Devices,    \* 32
    Functions,  \* 8
    Words,      \* words of a drive's identification: 256
    Fields,     \* numbers of the words that are printed
    Kinds       \* what a drive may be

ASSUME LoopAssumption ==
    {Buses, Devices, Functions, Words} \subseteq Nat \ {0}
ASSUME FieldsAssumption == Fields # {} /\ Fields \subseteq 1 .. Words - 1
ASSUME KindsAssumption ==
    Kinds \subseteq {"absent", "floating", "disk", "late disk", "packet",
                     "faulty"}

Drives == {0, 2} \X {0, 1}      \* the channel, master or slave

VARIABLES
    pc,
    bus, device, function,
    header,     \* the function whose 64 words pci_header holds
    seen,       \* history: the functions read, in order
    al,         \* the low byte of RAX
    channel, master,            \* ata_channel_var and ata_master_var
    kind, status,               \* the drives and their status registers
    buffer,     \* ata_identify_buffer: of each word, its drive and number
    report      \* history: what was printed of each drive

scan == <<bus, device, function, header, seen, al>>
position == <<channel, master>>
vars == <<pc, scan, position, kind, status, buffer, report>>

drive == <<channel, master>>    \* the one asked

\* An empty channel may float, and then all of it does.
Machines ==
    {k \in [Drives -> Kinds] :
        \A c \in {0, 2} : k[<<c, 0>>] = "floating" <=> k[<<c, 1>>] = "floating"}

Resting(k) ==
    CASE k = "absent"   -> {}
      [] k = "floating" -> {"BSY", "DRDY", "DF", "DRQ", "ERR"}
      [] OTHER          -> {"DRDY"}

Unwritten == <<<<-1, 0>>, 0>>    \* a word of no drive

Init ==
    /\ pc = "function_loop"
    /\ bus = 0 /\ device = 0 /\ function = 0
    /\ header = <<>> /\ seen = <<>> /\ al = 252
    /\ channel = 0 /\ master = 0
    /\ kind \in Machines
    /\ status = [d \in Drives |-> Resting(kind[d])]
    /\ buffer = [w \in 0 .. Words |-> Unwritten]
    /\ report = <<>>

-----------------------------------------------------------------------------
(* The PCI scan. *)

\* Mutant of GetPciDevice: the address is not saved around the read, and ends
\* with the offset of the last word, 252.
GetPciDeviceUnsaved ==
    /\ pc = "function_loop"
    /\ header' = <<bus, device, function>> /\ seen' = Append(seen, header')
    /\ al' = 252
    /\ pc' = "next_function"
    /\ UNCHANGED <<bus, device, function, position, kind, status, buffer,
                   report>>

\* RAX keeps the address of the function, whose low byte is 0.
GetPciDevice ==
    /\ pc = "function_loop"
    /\ header' = <<bus, device, function>> /\ seen' = Append(seen, header')
    /\ al' = 0
    /\ pc' = "next_function"
    /\ UNCHANGED <<bus, device, function, position, kind, status, buffer,
                   report>>

GoTo(b, d, f, next) ==
    /\ pc = "next_function"
    /\ bus' = b /\ device' = d /\ function' = f /\ pc' = next
    /\ UNCHANGED <<header, seen, al, position, kind, status, buffer, report>>

NextFunction ==
    /\ function + 1 # Functions
    /\ GoTo(bus, device, function + 1, "function_loop")

\* Mutant of NextDevice: the function goes on from where it was.
NextDeviceSameFunction ==
    /\ function + 1 = Functions /\ device + 1 # Devices
    /\ GoTo(bus, device + 1, function, "function_loop")

NextDevice ==
    /\ function + 1 = Functions /\ device + 1 # Devices
    /\ GoTo(bus, device + 1, 0, "function_loop")

NextBus ==
    /\ function + 1 = Functions /\ device + 1 = Devices
    /\ GoTo(bus + 1, 0, 0,
            IF bus + 1 # Buses THEN "function_loop" ELSE "identify")

-----------------------------------------------------------------------------
(* The ATA drives. *)

\* Bit 2 of the control register holds both drives of a channel in reset.
Srst(byte) == (byte \div 4) % 2 = 1

\* The status once the command has been written: the drives of the emulator
\* answer at once, a late one shows for a while what it showed before.
Commanded(k) ==
    CASE k = "disk"   -> {"DRDY", "DRQ"}
      [] k = "packet" -> {"DRDY", "ERR"}
      [] OTHER        -> Resting(k)

\* XOR RAX,0 changes nothing: what the control register gets is what AL held.
SendIdentify ==
    /\ pc = "identify"
    /\ status' = [status EXCEPT ![drive] =
                     IF Srst(al) THEN {"BSY"} ELSE Commanded(kind[drive])]
    /\ pc' = "first_status"
    /\ UNCHANGED <<scan, position, kind, buffer, report>>

\* The byte compared as a signed number is below 2.
BelowTwo(s) == "BSY" \in s \/ s \subseteq {"ERR"}

FirstStatus ==
    /\ pc = "first_status"
    /\ pc' = IF BelowTwo(status[drive]) THEN "error" ELSE "check_ready"
    /\ UNCHANGED <<scan, position, kind, status, buffer, report>>

\* Mutant of CheckReady: only DRQ ends the loop.
CheckReadyDrqOnly ==
    /\ pc = "check_ready" /\ "DRQ" \in status[drive]
    /\ pc' = "ready"
    /\ UNCHANGED <<scan, position, kind, status, buffer, report>>

\* An iteration that sees neither bit reads the register again.
CheckReady ==
    /\ pc = "check_ready" /\ status[drive] \intersect {"ERR", "DRQ"} # {}
    /\ pc' = IF "ERR" \in status[drive] THEN "error" ELSE "ready"
    /\ UNCHANGED <<scan, position, kind, status, buffer, report>>

Identified(place) ==
    [w \in DOMAIN buffer |->
        IF w \in place .. place + Words - 1 THEN <<drive, w - place>>
        ELSE buffer[w]]

\* Mutant of ReadData: the second channel's words go after the first's.
ReadDataApart ==
    /\ pc = "ready"
    /\ buffer' = Identified(IF channel = 0 THEN 0 ELSE Words)
    /\ status' = [status EXCEPT ![drive] = @ \ {"DRQ"}]
    /\ pc' = "print"
    /\ UNCHANGED <<scan, position, kind, report>>

\* RDI, 0 or 2, is added to the address of the buffer: the second channel's
\* words are stored one place further, over the words of the first.
ReadData ==
    /\ pc = "ready"
    /\ buffer' = Identified(channel \div 2)
    /\ status' = [status EXCEPT ![drive] = @ \ {"DRQ"}]
    /\ pc' = "print"
    /\ UNCHANGED <<scan, position, kind, report>>

Says(found, printed) ==
    /\ report' = Append(report,
                    [drive |-> drive, found |-> found, printed |-> printed])
    /\ pc' = "next_drive"
    /\ UNCHANGED <<scan, position, kind, status, buffer>>

\* ata_print_info reads from the start of the buffer, whatever the channel.
PrintInfo == pc = "print" /\ Says(TRUE, [f \in Fields |-> buffer[f]])

PrintError == pc = "error" /\ Says(FALSE, <<>>)

\* Mutant of NextDrive: the channel is incremented once.
NextDriveByOne ==
    /\ pc = "next_drive"
    /\ master' = (master + 1) % 2
    /\ channel' = IF master = 1 THEN channel + 1 ELSE channel
    /\ pc' = IF channel' < 4 THEN "identify" ELSE "kernel_halt"
    /\ UNCHANGED <<scan, kind, status, buffer, report>>

NextDrive ==
    /\ pc = "next_drive"
    /\ master' = (master + 1) % 2
    /\ channel' = IF master = 1 THEN channel + 2 ELSE channel
    /\ pc' = IF channel' < 4 THEN "identify" ELSE "kernel_halt"
    /\ UNCHANGED <<scan, kind, status, buffer, report>>

\* A late drive becomes busy, and then has its data or its fault.  Nothing looks
\* at a drive before it is asked or after it is reported.
DriveAdvances(d) ==
    /\ pc \in {"first_status", "check_ready"}
    /\ d = drive /\ kind[d] \in {"late disk", "faulty"}
    /\ \/ status[d] = {"DRDY"} /\ status' = [status EXCEPT ![d] = {"BSY"}]
       \/ /\ status[d] = {"BSY"}
          /\ status' = [status EXCEPT ![d] =
                IF kind[d] = "faulty" THEN {"DRDY", "DF"} ELSE {"DRDY", "DRQ"}]
    /\ UNCHANGED <<pc, scan, position, kind, buffer, report>>

Kernel ==
    \/ GetPciDevice \/ NextFunction \/ NextDevice \/ NextBus
    \/ SendIdentify \/ FirstStatus \/ CheckReady \/ ReadData \/ PrintInfo
    \/ PrintError \/ NextDrive

Next == Kernel \/ \E d \in Drives : DriveAdvances(d)

Spec ==
    /\ Init /\ [][Next]_vars /\ WF_vars(Kernel)
    /\ \A d \in Drives : WF_vars(DriveAdvances(d))

-----------------------------------------------------------------------------
TypeOK ==
    /\ pc \in {"function_loop", "next_function", "identify", "first_status",
               "check_ready", "ready", "print", "error", "next_drive",
               "kernel_halt"}
    /\ bus \in 0 .. Buses /\ device \in 0 .. Devices - 1
    /\ function \in 0 .. Functions - 1 /\ al \in {0, 252}
    /\ channel \in {0, 2, 4} /\ master \in {0, 1}
    /\ status \in [Drives -> SUBSET {"BSY", "DRDY", "DF", "DRQ", "ERR"}]

Serial(f) == (f[1] * Devices + f[2]) * Functions + f[3]

\* Every function of the buses the loop covers is read once, in order, before
\* the first drive is asked.
ScanExact ==
    /\ \A k \in 1 .. Len(seen) : Serial(seen[k]) = k - 1
    /\ pc \notin {"function_loop", "next_function"} =>
          Len(seen) = Buses * Devices * Functions

\* "Found Drive" is said of disks only, with words of that drive, and with the
\* right ones on the first channel; "Error" is said of no disk that answers at
\* once.
IdentifiedTruly ==
    \A k \in 1 .. Len(report) :
        LET r == report[k] IN
        IF r.found
        THEN /\ kind[r.drive] \in {"disk", "late disk"}
             /\ \A f \in Fields :
                    /\ r.printed[f][1] = r.drive
                    /\ r.drive[1] = 0 => r.printed[f][2] = f
        ELSE kind[r.drive] # "disk"

\* Without a drive that fails with neither bit set, the kernel halts with all
\* four drives reported.
ScanEnds ==
    (\A d \in Drives : kind[d] # "faulty") =>
        <>(/\ pc = "kernel_halt"
           /\ {report[k].drive : k \in 1 .. Len(report)} = Drives)
=============================================================================
