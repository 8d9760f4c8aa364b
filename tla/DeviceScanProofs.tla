--------------------------- MODULE DeviceScanProofs ---------------------------
(***************************************************************************)
(* The two loops over hardware, for every size of their bounds and every   *)
(* machine.  The inductive invariant is a conjunction of four parts: the   *)
(* functions read so far are those before the loop's position (ScanHere);  *)
(* what a drive that is asked can show, given what it is, and what has     *)
(* already been concluded from it (DriveHere); whose words the buffer      *)
(* holds when it is printed (BufferHere); and the report, which follows    *)
(* from the other two (ReportHere).                                        *)
(***************************************************************************)
EXTENDS DeviceScan, TLAPS

-----------------------------------------------------------------------------
(* The inductive invariant. *)

Scanning == {"function_loop", "next_function"}
AllFunctions == Buses * Devices * Functions
Here == <<bus, device, function>>

\* Every function up to this one has been read.
ScanHere ==
    /\ seen \in Seq(Nat \X Nat \X Nat)
    /\ \A k \in 1 .. Len(seen) : Serial(seen[k]) = k - 1
    /\ pc \in Scanning => bus < Buses
    /\ pc = "function_loop" => Len(seen) = Serial(Here)
    /\ pc = "next_function" => Len(seen) = Serial(Here) + 1
    /\ pc \notin Scanning => Len(seen) = AllFunctions

Bits == {"BSY", "DRDY", "DF", "DRQ", "ERR"}

\* What a drive of each kind may show once it has been asked.
Answers(k) ==
    {Commanded(k)} \union
        (IF k \in {"late disk", "faulty"} THEN {{"DRDY"}, {"BSY"}} ELSE {})
        \union (IF k = "late disk" THEN {{"DRDY", "DRQ"}} ELSE {})
        \union (IF k = "faulty" THEN {{"DRDY", "DF"}} ELSE {})

\* What is known of the drive that is asked.
DriveHere ==
    /\ kind \in [Drives -> Kinds]
    /\ pc # "function_loop" => al = 0
    /\ pc \in Scanning => channel = 0 /\ master = 0
    /\ pc # "kernel_halt" => drive \in Drives
    /\ pc \in {"first_status", "check_ready"} =>
          status[drive] \in Answers(kind[drive])
    /\ pc = "check_ready" => kind[drive] \notin {"absent", "floating"}
    /\ pc \in {"ready", "print"} => kind[drive] \in {"disk", "late disk"}
    /\ pc = "error" => kind[drive] # "disk"

Places == Drives \union {<<-1, 0>>}

BufferHere ==
    /\ buffer \in [0 .. Words -> Places \X (0 .. Words)]
    /\ pc = "print" =>
          \A f \in Fields : /\ buffer[f][1] = drive
                            /\ channel = 0 => buffer[f][2] = f

Printed == [Fields -> Places \X (0 .. Words)] \union {<<>>}
Reports == [drive : Drives, found : BOOLEAN, printed : Printed]

ReportHere == report \in Seq(Reports) /\ IdentifiedTruly

IInv == TypeOK /\ ScanHere /\ DriveHere /\ BufferHere /\ ReportHere

-----------------------------------------------------------------------------
(* The scan. *)

\* The order of the functions: each is followed by the next one of its
\* device, the first one of the next device, or the first one of the next bus.
LEMMA SerialSteps ==
    ASSUME NEW b \in Nat, NEW d \in Nat, NEW f \in Nat
    PROVE  /\ Serial(<<b, d, f>>) \in Nat /\ Serial(<<0, 0, 0>>) = 0
           /\ Serial(<<b, d, f + 1>>) = Serial(<<b, d, f>>) + 1
           /\ f + 1 = Functions =>
                 Serial(<<b, d + 1, 0>>) = Serial(<<b, d, f>>) + 1
           /\ f + 1 = Functions /\ d + 1 = Devices =>
                 Serial(<<b + 1, 0, 0>>) = Serial(<<b, d, f>>) + 1
           /\ Serial(<<Buses, 0, 0>>) = AllFunctions
<1> USE LoopAssumption DEF Serial, AllFunctions
<1>1. b * Devices \in Nat /\ (b * Devices + d) * Functions \in Nat
      /\ 0 * Devices = 0 /\ 0 * Functions = 0
  OBVIOUS
<1>2. Serial(<<b, d, f>>) = (b * Devices + d) * Functions + f
      /\ Serial(<<b, d, f + 1>>) = (b * Devices + d) * Functions + (f + 1)
      /\ Serial(<<b, d + 1, 0>>) = (b * Devices + (d + 1)) * Functions + 0
      /\ Serial(<<b + 1, 0, 0>>) = ((b + 1) * Devices + 0) * Functions + 0
      /\ Serial(<<Buses, 0, 0>>) = (Buses * Devices + 0) * Functions + 0
      /\ Serial(<<0, 0, 0>>) = (0 * Devices + 0) * Functions + 0
  OBVIOUS
<1>3. (b + 1) * Devices = b * Devices + Devices
  OBVIOUS
<1>4. (b * Devices + (d + 1)) * Functions
          = (b * Devices + d) * Functions + Functions
  BY <1>1
<1>5. Buses * Devices * Functions \in Nat
  OBVIOUS
<1> QED
  BY <1>1, <1>2, <1>3, <1>4, <1>5

\* Every step keeps what is known of the scan: its position and the table it
\* has filled so far.
LEMMA ScanStep ==
    ASSUME TypeOK, ScanHere, [Next]_vars
    PROVE  ScanHere'
<1> USE LoopAssumption DEF ScanHere, Scanning
<1>1. CASE GetPciDevice
  <2> DEFINE f == <<bus, device, function>>
  <2>1. /\ pc = "function_loop" /\ pc' = "next_function"
        /\ seen' = Append(seen, f) /\ UNCHANGED <<bus, device, function>>
    BY <1>1 DEF GetPciDevice
  <2>2. f \in Nat \X Nat \X Nat
    BY DEF TypeOK
  <2>3. Len(seen) = Serial(f)
    BY <2>1 DEF Here
  <2>4. Here' = f
    BY <2>1 DEF Here
  <2> HIDE DEF f
  <2>5. /\ seen' \in Seq(Nat \X Nat \X Nat)
        /\ Len(seen') = Len(seen) + 1
        /\ seen'[Len(seen) + 1] = f
        /\ \A k \in 1 .. Len(seen) : seen'[k] = seen[k]
    BY <2>1, <2>2
  <2>6. \A k \in 1 .. Len(seen') : Serial(seen'[k]) = k - 1
    <3> SUFFICES ASSUME NEW k \in 1 .. Len(seen')
                 PROVE  Serial(seen'[k]) = k - 1
      OBVIOUS
    <3>1. CASE k \in 1 .. Len(seen)
      BY <2>5, <3>1
    <3>2. CASE k = Len(seen) + 1
      BY <2>3, <2>5, <3>2
    <3> QED
      BY <2>5, <3>1, <3>2
  <2> QED
    BY <2>1, <2>3, <2>4, <2>5, <2>6
<1>2. CASE NextFunction \/ NextDevice \/ NextBus
  <2>1. pc = "next_function" /\ UNCHANGED seen
    BY <1>2 DEF NextFunction, NextDevice, NextBus, GoTo
  <2>2. bus \in Nat /\ device \in Nat /\ function \in Nat /\ bus < Buses
        /\ Len(seen) = Serial(<<bus, device, function>>) + 1
    BY <2>1 DEF TypeOK, Here
  <2>3. CASE NextFunction
    <3>1. pc' = "function_loop" /\ bus' = bus
          /\ Here' = <<bus, device, function + 1>>
      BY <2>3 DEF NextFunction, GoTo, Here
    <3> QED
      BY ZenonT(30), <2>1, <2>2, <3>1, SerialSteps
  <2>4. CASE NextDevice
    <3>1. pc' = "function_loop" /\ bus' = bus
          /\ Here' = <<bus, device + 1, 0>> /\ function + 1 = Functions
      BY <2>4 DEF NextDevice, GoTo, Here
    <3> QED
      BY ZenonT(30), <2>1, <2>2, <3>1, SerialSteps
  <2>5. CASE NextBus
    <3>1. /\ pc' = IF bus + 1 # Buses THEN "function_loop" ELSE "identify"
          /\ bus' = bus + 1 /\ Here' = <<bus + 1, 0, 0>>
          /\ function + 1 = Functions /\ device + 1 = Devices
      BY <2>5 DEF NextBus, GoTo, Here
    <3>2. Len(seen) = Serial(<<bus + 1, 0, 0>>)
      <4>1. function + 1 = Functions /\ device + 1 = Devices
        BY <3>1
      <4>2. \A b, d, f \in Nat : f + 1 = Functions /\ d + 1 = Devices =>
                Serial(<<b + 1, 0, 0>>) = Serial(<<b, d, f>>) + 1
        BY SerialSteps
      <4>3. Serial(<<bus + 1, 0, 0>>) = Serial(<<bus, device, function>>) + 1
        BY ONLY <2>2, <4>1, <4>2
      <4> QED
        BY <2>2, <4>3
    <3>3. bus + 1 = Buses => Len(seen) = AllFunctions
      BY <3>2, SerialSteps
    <3> QED
      <4>1. CASE bus + 1 = Buses
        BY <2>1, <3>1, <3>3, <4>1
      <4>2. CASE bus + 1 # Buses
        <5>1. bus' < Buses
          BY <2>2, <3>1, <4>2, LoopAssumption
        <5>2. pc' = "function_loop" /\ Len(seen') = Serial(Here')
          BY <2>1, <3>1, <3>2, <4>2
        <5> QED
          BY <2>1, <5>1, <5>2
      <4> QED
        BY <4>1, <4>2
  <2> QED
    BY <1>2, <2>3, <2>4, <2>5
<1>3. CASE \/ SendIdentify \/ FirstStatus \/ CheckReady \/ ReadData
           \/ PrintInfo \/ PrintError \/ NextDrive
           \/ \E d \in Drives : DriveAdvances(d)
  <2>1. UNCHANGED <<bus, device, function, seen>>
    BY <1>3
    DEF SendIdentify, FirstStatus, CheckReady, ReadData, PrintInfo,
        PrintError, NextDrive, DriveAdvances, Says, scan
  <2>2. pc \notin Scanning /\ pc' \notin Scanning
    BY <1>3
    DEF SendIdentify, FirstStatus, CheckReady, ReadData, PrintInfo,
        PrintError, NextDrive, DriveAdvances, Says
  <2> QED
    BY <2>1, <2>2
<1>4. CASE UNCHANGED vars
  BY <1>4 DEF vars, scan, Here
<1> QED
  BY <1>1, <1>2, <1>3, <1>4 DEF Next, Kernel
-----------------------------------------------------------------------------
(* The drives. *)

\* What a drive of each kind shows when it has been asked.
LEMMA CommandedIs ==
    /\ Commanded("disk") = {"DRDY", "DRQ"}
    /\ Commanded("packet") = {"DRDY", "ERR"}
    /\ Commanded("absent") = {} /\ Commanded("floating") = Bits
    /\ Commanded("late disk") = {"DRDY"} /\ Commanded("faulty") = {"DRDY"}
  BY DEF Commanded, Resting, Bits

\* What IDENTIFY leaves in the status register is a byte.
LEMMA CommandedBits == \A k \in Kinds : Commanded(k) \subseteq Bits
<1> SUFFICES ASSUME NEW k \in Kinds
             PROVE  Commanded(k) \subseteq Bits
  OBVIOUS
<1>1. CASE k \in {"disk", "packet"}
  BY <1>1, CommandedIs DEF Bits
<1>2. CASE k \in {"absent", "floating"}
  BY <1>2, CommandedIs
<1>3. CASE k \in {"late disk", "faulty"}
  BY <1>3, CommandedIs DEF Bits
<1> QED
  BY <1>1, <1>2, <1>3, KindsAssumption

\* So is the status of a channel no command was sent to.
LEMMA RestingIs == \A k : Resting(k) \subseteq Bits
<1> SUFFICES ASSUME NEW k
             PROVE  Resting(k) \subseteq Bits
  OBVIOUS
<1>1. CASE k = "absent"
  BY <1>1 DEF Resting
<1>2. CASE k = "floating"
  BY <1>2 DEF Resting, Bits
<1>3. CASE k \notin {"absent", "floating"}
  <2>1. Resting(k) = {"DRDY"}
    BY <1>3 DEF Resting
  <2> QED
    BY <2>1 DEF Bits
<1> QED
  BY <1>1, <1>2, <1>3

\* The bytes each kind of device may be seen to answer IDENTIFY with.
LEMMA AnswersAre ==
    /\ Answers("disk") = {{"DRDY", "DRQ"}}
    /\ Answers("packet") = {{"DRDY", "ERR"}}
    /\ Answers("absent") = {{}} /\ Answers("floating") = {Bits}
    /\ Answers("late disk") = {{"DRDY"}, {"BSY"}, {"DRDY", "DRQ"}}
    /\ Answers("faulty") = {{"DRDY"}, {"BSY"}, {"DRDY", "DF"}}
<1>1. Answers("disk") = {{"DRDY", "DRQ"}}
  BY CommandedIs DEF Answers
<1>2. Answers("packet") = {{"DRDY", "ERR"}}
  BY CommandedIs DEF Answers
<1>3. Answers("absent") = {{}} /\ Answers("floating") = {Bits}
  BY CommandedIs DEF Answers
<1>4. Answers("late disk") = {{"DRDY"}, {"BSY"}, {"DRDY", "DRQ"}}
  BY CommandedIs DEF Answers
<1>5. Answers("faulty") = {{"DRDY"}, {"BSY"}, {"DRDY", "DF"}}
  BY CommandedIs DEF Answers
<1> QED
  BY <1>1, <1>2, <1>3, <1>4, <1>5

\* From the first answer: a drive that seems ready is neither absent nor on a
\* floating channel, and one whose answer is an error is no disk that answers
\* at once.
LEMMA FirstAnswer ==
    ASSUME NEW k \in Kinds, NEW s \in Answers(k)
    PROVE  /\ s \subseteq Bits
           /\ BelowTwo(s) => k # "disk"
           /\ ~BelowTwo(s) => k \notin {"absent", "floating"}
<1>1. CASE k = "disk"
  <2>1. s = {"DRDY", "DRQ"}
    BY <1>1, AnswersAre
  <2> QED
    BY <1>1, <2>1 DEF BelowTwo, Bits
<1>2. CASE k = "packet"
  <2>1. s = {"DRDY", "ERR"}
    BY <1>2, AnswersAre
  <2> QED
    BY <1>2, <2>1 DEF BelowTwo, Bits
<1>3. CASE k = "absent"
  <2>1. s = {}
    BY <1>3, AnswersAre
  <2> QED
    BY <1>3, <2>1 DEF BelowTwo, Bits
<1>4. CASE k = "floating"
  <2>1. s = Bits
    BY <1>4, AnswersAre
  <2> QED
    BY <1>4, <2>1 DEF BelowTwo, Bits
<1>5. CASE k = "late disk"
  <2>1. s = {"DRDY"} \/ s = {"BSY"} \/ s = {"DRDY", "DRQ"}
    BY <1>5, AnswersAre
  <2> QED
    BY <1>5, <2>1 DEF BelowTwo, Bits
<1>6. CASE k = "faulty"
  <2>1. s = {"DRDY"} \/ s = {"BSY"} \/ s = {"DRDY", "DF"}
    BY <1>6, AnswersAre
  <2> QED
    BY <1>6, <2>1 DEF BelowTwo, Bits
<1> QED
  BY <1>1, <1>2, <1>3, <1>4, <1>5, <1>6, KindsAssumption

\* From a later one: what has data is a disk, what has an error is a packet
\* device.
LEMMA LaterAnswer ==
    ASSUME NEW k \in Kinds \ {"absent", "floating"}, NEW s \in Answers(k)
    PROVE  /\ "ERR" \in s => k = "packet"
           /\ "DRQ" \in s => k \in {"disk", "late disk"}
<1>1. CASE k = "disk"
  <2>1. s = {"DRDY", "DRQ"}
    BY <1>1, AnswersAre
  <2> QED
    BY <1>1, <2>1
<1>2. CASE k = "packet"
  <2>1. s = {"DRDY", "ERR"}
    BY <1>2, AnswersAre
  <2> QED
    BY <1>2, <2>1
<1>3. CASE k = "late disk"
  <2>1. s = {"DRDY"} \/ s = {"BSY"} \/ s = {"DRDY", "DRQ"}
    BY <1>3, AnswersAre
  <2> QED
    BY <1>3, <2>1
<1>4. CASE k = "faulty"
  <2>1. s = {"DRDY"} \/ s = {"BSY"} \/ s = {"DRDY", "DF"}
    BY <1>4, AnswersAre
  <2> QED
    BY <1>4, <2>1
<1> QED
  BY <1>1, <1>2, <1>3, <1>4, KindsAssumption

\* The control register is written with AL, whose bit 2 is clear after the
\* scan: no drive is held in reset.
LEMMA NoReset == al = 0 => ~Srst(al)
  BY DEF Srst

\* Every step keeps what ata_identify knows of the drive it is at.
LEMMA DriveStep ==
    ASSUME TypeOK, ScanHere, DriveHere, [Next]_vars
    PROVE  DriveHere'
<1> USE DEF DriveHere, Scanning
<1>1. CASE GetPciDevice
  BY <1>1 DEF GetPciDevice, drive, position
<1>2. CASE NextFunction \/ NextDevice \/ NextBus
  <2>1. /\ pc = "next_function" /\ pc' \in {"function_loop", "identify"}
        /\ UNCHANGED <<al, channel, master, kind, status>>
    BY <1>2 DEF NextFunction, NextDevice, NextBus, GoTo, position
  <2> QED
    BY <2>1 DEF drive, Drives
<1>3. CASE SendIdentify
  <2>1. /\ pc = "identify" /\ pc' = "first_status"
        /\ UNCHANGED <<al, channel, master, kind>>
        /\ status' = [status EXCEPT ![drive] =
                IF Srst(al) THEN {"BSY"} ELSE Commanded(kind[drive])]
    BY <1>3 DEF SendIdentify, scan, position
  <2>2. drive \in Drives /\ drive' = drive /\ DOMAIN status = Drives
    BY <2>1 DEF drive, TypeOK
  <2>3. status'[drive] = Commanded(kind[drive])
    BY <2>1, <2>2, NoReset
  <2>4. status'[drive] \in Answers(kind[drive])
    BY <2>3 DEF Answers
  <2> QED
    BY <2>1, <2>2, <2>4
<1>4. CASE FirstStatus
  <2>1. /\ pc = "first_status"
        /\ UNCHANGED <<al, channel, master, kind, status>>
        /\ pc' = IF BelowTwo(status[drive]) THEN "error" ELSE "check_ready"
    BY <1>4 DEF FirstStatus, scan, position
  <2>2. drive' = drive /\ drive \in Drives /\ kind[drive] \in Kinds
        /\ status[drive] \in Answers(kind[drive])
    BY <2>1 DEF drive
  <2>3. /\ BelowTwo(status[drive]) => kind[drive] # "disk"
        /\ ~BelowTwo(status[drive]) =>
              kind[drive] \notin {"absent", "floating"}
    BY <2>2, FirstAnswer
  <2> QED
    BY <2>1, <2>2, <2>3
<1>5. CASE CheckReady
  <2>1. /\ pc = "check_ready"
        /\ UNCHANGED <<al, channel, master, kind, status>>
        /\ status[drive] \intersect {"ERR", "DRQ"} # {}
        /\ pc' = IF "ERR" \in status[drive] THEN "error" ELSE "ready"
    BY <1>5 DEF CheckReady, scan, position
  <2>2. drive' = drive /\ drive \in Drives
        /\ kind[drive] \in Kinds \ {"absent", "floating"}
        /\ status[drive] \in Answers(kind[drive])
    BY <2>1 DEF drive
  <2>3. /\ "ERR" \in status[drive] => kind[drive] = "packet"
        /\ "DRQ" \in status[drive] => kind[drive] \in {"disk", "late disk"}
    BY <2>2, LaterAnswer
  <2> QED
    BY <2>1, <2>2, <2>3
<1>6. CASE ReadData
  BY <1>6 DEF ReadData, drive, scan, position
<1>7. CASE PrintInfo \/ PrintError
  BY <1>7 DEF PrintInfo, PrintError, Says, drive, scan, position
<1>8. CASE NextDrive
  <2>1. /\ pc = "next_drive" /\ UNCHANGED <<al, kind>>
        /\ master' = (master + 1) % 2
        /\ channel' = IF master = 1 THEN channel + 2 ELSE channel
        /\ pc' = IF channel' < 4 THEN "identify" ELSE "kernel_halt"
    BY <1>8 DEF NextDrive, scan
  <2>2. channel \in {0, 2} /\ master \in {0, 1}
    BY <2>1 DEF drive, Drives
  <2>3. master' \in {0, 1}
    BY <2>1, <2>2
  <2>4. pc' = "identify" => channel' \in {0, 2}
    BY <2>1, <2>2
  <2> QED
    BY <2>1, <2>3, <2>4 DEF drive, Drives
<1>9. ASSUME NEW d \in Drives, DriveAdvances(d)
      PROVE  DriveHere'
  <2>1. /\ pc \in {"first_status", "check_ready"} /\ d = drive
        /\ UNCHANGED <<pc, al, channel, master, kind>>
        /\ kind[d] \in {"late disk", "faulty"}
        /\ \/ status' = [status EXCEPT ![d] = {"BSY"}]
           \/ status' = [status EXCEPT ![d] =
                IF kind[d] = "faulty" THEN {"DRDY", "DF"} ELSE {"DRDY", "DRQ"}]
    BY <1>9 DEF DriveAdvances, scan, position
  <2>2. DOMAIN status = Drives
    BY DEF TypeOK
  <2>3. status'[d] \in Answers(kind[d])
    BY <2>1, <2>2 DEF Answers
  <2> QED
    BY <2>1, <2>3 DEF drive
<1>10. CASE UNCHANGED vars
  BY <1>10 DEF vars, scan, position, drive
<1> QED
  BY <1>1, <1>2, <1>3, <1>4, <1>5, <1>6, <1>7, <1>8, <1>9, <1>10
  DEF Next, Kernel
\* Every step keeps the types.
LEMMA TypeStep ==
    ASSUME TypeOK, ScanHere, DriveHere, [Next]_vars
    PROVE  TypeOK'
<1> USE LoopAssumption DEF TypeOK
<1>1. CASE GetPciDevice
  BY <1>1 DEF GetPciDevice, position
<1>2. CASE NextFunction \/ NextDevice \/ NextBus
  <2>1. /\ pc = "next_function" /\ pc' \in {"function_loop", "identify"}
        /\ UNCHANGED <<al, channel, master, status>>
    BY <1>2 DEF NextFunction, NextDevice, NextBus, GoTo, position
  <2>2. bus < Buses /\ Buses \in Nat /\ Devices \in Nat /\ Functions \in Nat
    BY <2>1 DEF ScanHere, Scanning
  <2>3. bus' \in 0 .. Buses /\ device' \in 0 .. Devices - 1
        /\ function' \in 0 .. Functions - 1
    BY <1>2, <2>2 DEF NextFunction, NextDevice, NextBus, GoTo
  <2> QED
    BY <2>1, <2>3
<1>3. CASE SendIdentify
  <2>1. Commanded(kind[drive]) \subseteq Bits
    <3>1. kind[drive] \in Kinds
      BY <1>3 DEF SendIdentify, DriveHere
    <3> QED
      BY <3>1, CommandedBits
  <2>2. status' \in [Drives -> SUBSET Bits]
    BY <1>3, <2>1 DEF SendIdentify, Bits
  <2> QED
    BY <1>3, <2>2 DEF SendIdentify, scan, position, Bits
<1>4. CASE FirstStatus
  BY <1>4 DEF FirstStatus, scan, position
<1>5. CASE CheckReady
  BY <1>5 DEF CheckReady, scan, position
<1>6. CASE ReadData
  <2>1. status[drive] \in SUBSET Bits
    BY <1>6 DEF ReadData, DriveHere, Bits
  <2>2. status' = [status EXCEPT ![drive] = status[drive] \ {"DRQ"}]
    BY <1>6 DEF ReadData
  <2>3. status' \in [Drives -> SUBSET Bits]
    BY <2>1, <2>2 DEF Bits
  <2> QED
    BY <1>6, <2>3 DEF ReadData, scan, position, Bits
<1>7. CASE PrintInfo \/ PrintError
  BY SMTT(30), <1>7 DEF PrintInfo, PrintError, Says, scan, position
<1>8. CASE NextDrive
  <2>1. /\ UNCHANGED <<bus, device, function, al, status>>
        /\ master' = (master + 1) % 2
        /\ channel' = IF master = 1 THEN channel + 2 ELSE channel
        /\ pc' \in {"identify", "kernel_halt"}
    BY <1>8 DEF NextDrive, scan
  <2>2. channel \in {0, 2} /\ master \in {0, 1}
    BY <1>8 DEF NextDrive, DriveHere, drive, Drives
  <2>3. master' \in {0, 1} /\ channel' \in {0, 2, 4}
    BY <2>1, <2>2
  <2> QED
    BY <2>1, <2>3
<1>9. ASSUME NEW d \in Drives, DriveAdvances(d)
      PROVE  TypeOK'
  <2>1. PICK s \in {{"BSY"}, {"DRDY", "DF"}, {"DRDY", "DRQ"}} :
            status' = [status EXCEPT ![d] = s]
    BY <1>9 DEF DriveAdvances
  <2>2. status' \in [Drives -> SUBSET Bits]
    BY <2>1 DEF Bits
  <2> QED
    BY <1>9, <2>2 DEF DriveAdvances, scan, position, Bits
<1>10. CASE UNCHANGED vars
  BY <1>10 DEF vars, scan, position
<1> QED
  BY <1>1, <1>2, <1>3, <1>4, <1>5, <1>6, <1>7, <1>8, <1>9, <1>10
  DEF Next, Kernel

-----------------------------------------------------------------------------
(* The report. *)

\* Only ReadData writes the buffer, and only it leads to the printing.
LEMMA BufferStep ==
    ASSUME TypeOK, DriveHere, BufferHere, [Next]_vars
    PROVE  BufferHere'
<1>1. CASE ReadData
  <2> DEFINE place == channel \div 2
  <2>1. /\ pc = "ready" /\ pc' = "print" /\ UNCHANGED <<channel, master>>
        /\ buffer' = Identified(place)
    BY <1>1 DEF ReadData, position
  <2>2. drive \in Drives /\ drive' = drive
    BY <2>1 DEF DriveHere, drive
  <2>3. channel \in {0, 2} /\ place = IF channel = 0 THEN 0 ELSE 1
    BY <2>2 DEF drive, Drives
  <2>4. DOMAIN buffer = 0 .. Words /\ Words \in Nat \ {0}
    BY LoopAssumption DEF BufferHere
  <2> HIDE DEF place
  <2>5. buffer' = [w \in 0 .. Words |->
            IF w \in place .. place + Words - 1 THEN <<drive, w - place>>
            ELSE buffer[w]]
    BY <2>1, <2>4 DEF Identified
  <2>6. buffer' \in [0 .. Words -> Places \X (0 .. Words)]
    <3>1. ASSUME NEW w \in 0 .. Words, w \in place .. place + Words - 1
          PROVE  <<drive, w - place>> \in Places \X (0 .. Words)
      BY <2>2, <2>3, <2>4, <3>1 DEF Places
    <3>2. \A w \in 0 .. Words : buffer[w] \in Places \X (0 .. Words)
      BY DEF BufferHere
    <3> QED
      BY <2>5, <3>1, <3>2
  <2>7. ASSUME NEW f \in Fields
        PROVE  buffer'[f] = <<drive, f - place>>
    <3>1. f \in 1 .. Words - 1
      BY FieldsAssumption
    <3>2. f \in 0 .. Words /\ f \in place .. place + Words - 1
      BY <2>3, <2>4, <3>1
    <3> QED
      BY <2>5, <3>2
  <2>8. ASSUME NEW f \in Fields
        PROVE  buffer'[f][1] = drive' /\ (channel' = 0 => buffer'[f][2] = f)
    <3>1. f \in Nat
      BY FieldsAssumption, <2>4
    <3> QED
      BY <2>1, <2>2, <2>3, <2>7, <2>8, <3>1
  <2> QED
    BY <2>6, <2>8 DEF BufferHere
<1>2. CASE ~ReadData
  <2>1. UNCHANGED buffer /\ (pc' = "print" => UNCHANGED <<pc, vars>>)
    BY <1>2
    DEF Next, Kernel, vars, scan, position, GetPciDevice, NextFunction,
        NextDevice, NextBus, GoTo, SendIdentify, FirstStatus, CheckReady,
        PrintInfo, PrintError, Says, NextDrive, DriveAdvances
  <2> QED
    BY <2>1 DEF BufferHere, vars, position, drive
<1> QED
  BY <1>1, <1>2

\* Every step keeps what the disks reported so far rest on.
LEMMA ReportStep ==
    ASSUME TypeOK, DriveHere, BufferHere, ReportHere, [Next]_vars
    PROVE  ReportHere'
<1> USE DEF ReportHere
<1>1. UNCHANGED kind
  BY DEF Next, Kernel, vars, scan, position, GetPciDevice, NextFunction,
         NextDevice, NextBus, GoTo, SendIdentify, FirstStatus, CheckReady,
         ReadData, PrintInfo, PrintError, Says, NextDrive, DriveAdvances
<1> DEFINE True(r) ==
             IF r.found
             THEN /\ kind[r.drive] \in {"disk", "late disk"}
                  /\ \A f \in Fields :
                         /\ r.printed[f][1] = r.drive
                         /\ r.drive[1] = 0 => r.printed[f][2] = f
             ELSE kind[r.drive] # "disk"
<1>2. ASSUME NEW r \in Reports, report' = Append(report, r), True(r)
      PROVE  ReportHere'
  <2>1. /\ report' \in Seq(Reports) /\ Len(report') = Len(report) + 1
        /\ report'[Len(report) + 1] = r
        /\ \A k \in 1 .. Len(report) : report'[k] = report[k]
    <3> HIDE DEF True
    <3>1. report \in Seq(Reports)
      OBVIOUS
    <3> QED
      BY <1>2, <3>1
  <2>2. \A k \in 1 .. Len(report) : True(report[k])
    BY DEF IdentifiedTruly
  <2> HIDE DEF True
  <2>3. ASSUME NEW k \in 1 .. Len(report')
        PROVE  True(report'[k])
    <3>1. CASE k \in 1 .. Len(report)
      BY <2>1, <2>2, <3>1
    <3>2. CASE k = Len(report) + 1
      BY <1>2, <2>1, <3>2
    <3> QED
      BY <2>1, <3>1, <3>2
  <2> USE DEF True
  <2>4. IdentifiedTruly'
    BY <1>1, <2>3 DEF IdentifiedTruly
  <2> QED
    BY <2>1, <2>4
<1>3. CASE PrintInfo
  <2> DEFINE r == [drive |-> drive, found |-> TRUE,
                   printed |-> [f \in Fields |-> buffer[f]]]
  <2>1. pc = "print" /\ report' = Append(report, r)
    BY <1>3 DEF PrintInfo, Says
  <2>2. drive \in Drives /\ kind[drive] \in {"disk", "late disk"}
    BY <2>1 DEF DriveHere
  <2>3. \A f \in Fields :
           /\ buffer[f] \in Places \X (0 .. Words)
           /\ buffer[f][1] = drive
           /\ channel = 0 => buffer[f][2] = f
    BY <2>1, FieldsAssumption, LoopAssumption DEF BufferHere
  <2>4. r \in Reports
    BY <2>2, <2>3 DEF Reports, Printed
  <2>5. True(r)
    BY <2>2, <2>3 DEF drive
  <2> HIDE DEF r, True
  <2> QED
    BY <1>2, <2>1, <2>4, <2>5
<1>4. CASE PrintError
  <2> DEFINE r == [drive |-> drive, found |-> FALSE, printed |-> <<>>]
  <2>1. pc = "error" /\ report' = Append(report, r)
    BY <1>4 DEF PrintError, Says
  <2>2. drive \in Drives /\ kind[drive] # "disk"
    BY <2>1 DEF DriveHere
  <2>3. r \in Reports
    BY <2>2 DEF Reports, Printed
  <2>4. True(r)
    BY <2>2
  <2> HIDE DEF r, True
  <2> QED
    BY <1>2, <2>1, <2>3, <2>4
<1>5. CASE ~PrintInfo /\ ~PrintError
  <2>1. UNCHANGED report
    BY <1>5
    DEF Next, Kernel, vars, scan, position, GetPciDevice, NextFunction,
        NextDevice, NextBus, GoTo, SendIdentify, FirstStatus, CheckReady,
        ReadData, NextDrive, DriveAdvances
  <2> QED
    BY <1>1, <2>1 DEF IdentifiedTruly
<1> QED
  BY <1>3, <1>4, <1>5

-----------------------------------------------------------------------------
(* The theorems. *)

\* The scan starts with nothing found and nothing reported.
LEMMA Initially == Init => IInv
<1> SUFFICES ASSUME Init
             PROVE  IInv
  OBVIOUS
<1> USE LoopAssumption DEF Init
<1>1. kind \in [Drives -> Kinds]
  BY DEF Machines
<1>2. TypeOK
  BY RestingIs DEF TypeOK, Bits
<1>3. ScanHere
  <2>1. Here = <<0, 0, 0>> /\ Serial(<<0, 0, 0>>) = 0 /\ seen = <<>>
    BY SerialSteps DEF Here
  <2> QED
    BY <2>1 DEF ScanHere, Scanning
<1>4. DriveHere
  BY <1>1 DEF DriveHere, Scanning, drive, Drives
<1>5. BufferHere
  BY DEF BufferHere, Unwritten, Places
<1>6. ReportHere
  BY DEF ReportHere, IdentifiedTruly
<1> QED
  BY <1>2, <1>3, <1>4, <1>5, <1>6 DEF IInv

\* No step of the scan or of the drives breaks the invariant.
LEMMA Inductive == IInv /\ [Next]_vars => IInv'
  BY TypeStep, ScanStep, DriveStep, BufferStep, ReportStep DEF IInv

\* Every variable keeps its type: the loops' counters stay within the bounds
\* of the configuration space and of the four drives.
THEOREM TypeCorrect == Spec => []TypeOK
<1>1. IInv => TypeOK
  BY DEF IInv
<1> QED
  BY Initially, Inductive, <1>1, PTL DEF Spec

\* The three nested counters of the PCI loop read every function of the buses
\* they cover once, in order, and the drives are asked only afterwards; for
\* every number of buses, devices and functions.
THEOREM ScanIsExact == Spec => []ScanExact
<1>1. IInv => ScanExact
  BY DEF IInv, ScanHere, ScanExact, Scanning, AllFunctions
<1> QED
  BY Initially, Inductive, <1>1, PTL DEF Spec

\* "Found Drive" is printed of disks only, with that drive's words, and
\* "Error" of no disk that answers at once, for every mixture of drives and
\* every moment at which a late one answers.
THEOREM ReportIsTrue == Spec => []IdentifiedTruly
<1>1. IInv => IdentifiedTruly
  BY DEF IInv, ReportHere
<1> QED
  BY Initially, Inductive, <1>1, PTL DEF Spec
=============================================================================
