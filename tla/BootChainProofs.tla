---------------------------- MODULE BootChainProofs ----------------------------
(***************************************************************************)
(* Proofs about BootChain, for any of its kinds of machines, any options,  *)
(* and any number of interfaces and mishaps.                               *)
(***************************************************************************)
EXTENDS BootChain, TLAPS

-----------------------------------------------------------------------------
(* What the proxy makes of each kind of machine. *)

LEMMA MaxOfFew ==
  ASSUME NEW S \in SUBSET {1, 2}, S # {}
  PROVE  Max(S) \in S /\ \A n \in S : Max(S) >= n
<1>1. \E m \in S : \A n \in S : m >= n
  <2>1. CASE 2 \in S
    BY <2>1
  <2>2. CASE 2 \notin S
    <3>1. S = {1}
      BY <2>2
    <3> QED
      BY <3>1
  <2> QED
    BY <2>1, <2>2
<1> QED
  BY <1>1 DEF Max

\* A packet whose architectures are all known is taken for the last.
LEMMA LastCounts ==
  ASSUME NEW m, NEW n \in {1, 2}, DOMAIN m.arches = 1..n, NEW f,
         FirmwareOf(m.arches[n]) = f, \A i \in 1..n : FirmwareOf(m.arches[i]) # "unsupported"
  PROVE  Known(m) # {} /\ FirmwareOf(m.arches[Max(Known(m))]) = f
<1>1. Known(m) = 1..n
  BY DEF Known
<1>2. 1..n \in SUBSET {1, 2} /\ n \in 1..n
  <2>1. 1 \in 1..n /\ \A i \in 1..n : i = 1 \/ i = 2
    OBVIOUS
  <2> QED
    BY <2>1
<1>3. Max(1..n) \in 1..n /\ \A i \in 1..n : Max(1..n) >= i
  BY <1>2, MaxOfFew
<1>4. Max(1..n) = n
  BY <1>2, <1>3
<1> QED
  BY <1>1, <1>2, <1>4

LEMMA Plain ==
  ASSUME NEW m, NEW f, f # "X86PC", Known(m) # {}, FirmwareOf(m.arches[Max(Known(m))]) = f
  PROVE  ValidateDHCP(m) = f
BY DEF ValidateDHCP

\* What looks like a PC is one of three.
OfPC(m) == Known(m) # {} /\ FirmwareOf(m.arches[Max(Known(m))]) = "X86PC"

FirmwareTable ==
  [bios |-> "X86PC", biosIpxe |-> "X86Ipxe", efi |-> "X86EFI", efiArm |-> "ARMEFI",
   efiHttp |-> "X86HTTP", armHttp |-> "ARMHTTP", efiLast |-> "X86EFI", efiFirst |-> "X86PC",
   efi32 |-> "X86EFI", http32 |-> "X86HTTP", rpi |-> "RPi", rpiUsb |-> "X86PC",
   itanium |-> "unsupported", host |-> "unsupported"]

LEMMA Firmwares ==
  ASSUME kind \in DOMAIN Machine, program = "uboot" => kind = "rpi", NEW port,
         NEW m, m = Packet(port)
  PROVE  ValidateDHCP(m) = IF program = "uboot" THEN "ARMEFI" ELSE FirmwareTable[kind]
<1>1. m.arches = IF program = "uboot" THEN <<"UBOOT_ARM64">> ELSE Machine[kind].arches
  BY DEF Packet
<1>3. ASSUME NEW n \in {1, 2}, DOMAIN m.arches = 1..n, FirmwareOf(m.arches[n]) # "X86PC",
             \A i \in 1..n : FirmwareOf(m.arches[i]) # "unsupported"
      PROVE  ValidateDHCP(m) = FirmwareOf(m.arches[n])
  <2>1. Known(m) # {} /\ FirmwareOf(m.arches[Max(Known(m))]) = FirmwareOf(m.arches[n])
    BY <1>3, LastCounts
  <2> QED
    BY <1>3, <2>1, Plain
<1>4. CASE program = "uboot"
  <2>1. DOMAIN m.arches = 1..1 /\ m.arches[1] = "UBOOT_ARM64"
    BY <1>1, <1>4 DEF Machine
  <2> QED
    BY <1>3, <1>4, <2>1 DEF FirmwareOf
<1>5. CASE program # "uboot" /\ kind = "efi"
  <2>1. DOMAIN m.arches = 1..2 /\ m.arches[1] = "EFI_BC" /\ m.arches[2] = "EFI_X86_64"
    BY <1>1, <1>5 DEF Machine
  <2>2. \A i \in 1..2 : FirmwareOf(m.arches[i]) # "unsupported"
    BY <2>1 DEF FirmwareOf
  <2> QED
    BY <1>3, <1>5, <2>1, <2>2 DEF FirmwareTable, FirmwareOf
<1>6. CASE program # "uboot" /\ kind = "efiArm"
  <2>1. DOMAIN m.arches = 1..1 /\ m.arches[1] = "EFI_ARM64"
    BY <1>1, <1>6 DEF Machine
  <2> QED
    BY <1>3, <1>6, <2>1 DEF FirmwareTable, FirmwareOf
<1>7. CASE program # "uboot" /\ kind = "efiHttp"
  <2>1. DOMAIN m.arches = 1..1 /\ m.arches[1] = "EFI_X86_64_HTTP"
    BY <1>1, <1>7 DEF Machine
  <2> QED
    BY <1>3, <1>7, <2>1 DEF FirmwareTable, FirmwareOf
<1>8. CASE program # "uboot" /\ kind = "armHttp"
  <2>1. DOMAIN m.arches = 1..1 /\ m.arches[1] = "EFI_ARM64_HTTP"
    BY <1>1, <1>8 DEF Machine
  <2> QED
    BY <1>3, <1>8, <2>1 DEF FirmwareTable, FirmwareOf
<1>9. CASE program # "uboot" /\ kind = "efiLast"
  <2>1. DOMAIN m.arches = 1..2 /\ m.arches[1] = "INTEL_X86PC" /\ m.arches[2] = "EFI_X86_64"
    BY <1>1, <1>9 DEF Machine
  <2>2. \A i \in 1..2 : FirmwareOf(m.arches[i]) # "unsupported"
    BY <2>1 DEF FirmwareOf
  <2> QED
    BY <1>3, <1>9, <2>1, <2>2 DEF FirmwareTable, FirmwareOf
<1>10. CASE program # "uboot" /\ kind = "efi32"
  <2>1. DOMAIN m.arches = 1..1 /\ m.arches[1] = "EFI_IA32"
    BY <1>1, <1>10 DEF Machine
  <2> QED
    BY <1>3, <1>10, <2>1 DEF FirmwareTable, FirmwareOf
<1>11. CASE program # "uboot" /\ kind = "http32"
  <2>1. DOMAIN m.arches = 1..1 /\ m.arches[1] = "EFI_X86_HTTP"
    BY <1>1, <1>11 DEF Machine
  <2> QED
    BY <1>3, <1>11, <2>1 DEF FirmwareTable, FirmwareOf
<1>12. CASE program # "uboot" /\ kind \in {"bios", "biosIpxe", "rpi", "rpiUsb", "efiFirst"}
  <2>1. OfPC(m)
    <3>1. CASE kind # "efiFirst"
      <4>1. DOMAIN m.arches = 1..1 /\ m.arches[1] = "INTEL_X86PC"
        BY <1>1, <1>12, <3>1 DEF Machine
      <4>2. FirmwareOf(m.arches[1]) = "X86PC" /\ \A i \in 1..1 : FirmwareOf(m.arches[i]) # "unsupported"
        BY <4>1 DEF FirmwareOf
      <4> QED
        BY <4>1, <4>2, LastCounts DEF OfPC
    <3>2. CASE kind = "efiFirst"
      <4>1. DOMAIN m.arches = 1..2 /\ m.arches[1] = "EFI_X86_64" /\ m.arches[2] = "INTEL_X86PC"
        BY <1>1, <1>12, <3>2 DEF Machine
      <4>2. FirmwareOf(m.arches[2]) = "X86PC" /\ \A i \in 1..2 : FirmwareOf(m.arches[i]) # "unsupported"
        BY <4>1 DEF FirmwareOf
      <4> QED
        BY <4>1, <4>2, LastCounts DEF OfPC
    <3> QED
      BY <3>1, <3>2
  <2>2. CASE kind = "rpi"
    <3>1. m.oui = "Raspberry Pi"
      BY <2>2 DEF Packet
    <3>2. ValidateDHCP(m) = "RPi"
      BY <2>1, <3>1 DEF OfPC, ValidateDHCP
    <3> QED
      BY <1>12, <2>2, <3>2 DEF FirmwareTable
  <2>3. CASE kind = "biosIpxe"
    <3>1. m.oui # "Raspberry Pi" /\ m.userClass = "iPXE"
      BY <2>3 DEF Packet
    <3>2. ValidateDHCP(m) = "X86Ipxe"
      BY <2>1, <3>1 DEF OfPC, ValidateDHCP
    <3> QED
      BY <1>12, <2>3, <3>2 DEF FirmwareTable
  <2>4. CASE kind \in {"bios", "rpiUsb", "efiFirst"}
    <3>1. m.oui # "Raspberry Pi" /\ m.userClass # "iPXE"
      BY <2>4, ChainAssumption DEF Packet
    <3>2. ValidateDHCP(m) = "X86PC"
      BY <2>1, <3>1 DEF OfPC, ValidateDHCP
    <3> QED
      BY <1>12, <2>4, <3>2 DEF FirmwareTable
  <2> QED
    BY <1>12, <2>2, <2>3, <2>4
<1>13. CASE program # "uboot" /\ kind \in {"itanium", "host"}
  <2>1. \A i \in DOMAIN m.arches : m.arches[i] = "EFI_ITANIUM"
    BY <1>1, <1>13 DEF Machine
  <2>2. Known(m) = {}
    BY <2>1 DEF Known, FirmwareOf
  <2> QED
    BY <1>13, <2>2 DEF FirmwareTable, ValidateDHCP
<1> QED
  BY <1>4, <1>5, <1>6, <1>7, <1>8, <1>9, <1>10, <1>11, <1>12, <1>13 DEF Machine

\* A machine in its right mind, at work on an offer.
AtWork ==
  /\ kind \in DOMAIN Machine
  /\ program \in {"firmware", "uboot"}
  /\ program = "uboot" => kind = "rpi"
  /\ Firmware # "unsupported"

\* What it is offered it reads the right way, and is a file that is served and, but for some, built
\* for it, unless it is a Raspberry Pi.
LEMMA Offers ==
  ASSUME AtWork
  PROVE  /\ Reads = "menu" <=> program = "firmware" /\ kind \in {"rpi"} \cup Unrecognised
         /\ Firmware = "RPi" <=> program = "firmware" /\ kind = "rpi"
         /\ Reads # "menu" =>
              /\ Wanted(OfferDHCP(Firmware)) = {BootFile(Firmware)}
              /\ BootFile(Firmware) \in Requests
              /\ BootFile(Firmware).file \in PatchedFiles
              /\ Machine[kind].runs = BuildOf(BootFile(Firmware).file) <=> kind \notin Misloaded
<1>1. Firmware = IF program = "uboot" THEN "ARMEFI" ELSE FirmwareTable[kind]
  BY Firmwares DEF Firmware, AtWork
<1>2. kind \notin {"itanium", "host"}
  BY <1>1 DEF AtWork, FirmwareTable
<1>3. /\ <<"", "undionly.kpxe">> \in BiosFiles
      /\ <<"", "snp.efi">> \in AmdFiles \ BiosFiles
      /\ <<"amd64", "snp.efi">> \in AmdFiles \ BiosFiles
      /\ <<"", "snp-arm64.efi">> \in ArmFiles \ (AmdFiles \cup BiosFiles)
      /\ <<"arm64", "snp.efi">> \in ArmFiles \ (AmdFiles \cup BiosFiles)
  BY DEF BiosFiles, AmdFiles, ArmFiles, Flat
<1>4. \A via \in {"tftp", "http"}, f \in PatchedFiles : [via |-> via, file |-> f] \in Requests
  BY DEF Requests
<1> USE DEF Reads, Wanted, OfferDHCP, BootFile, Tftp, Http, PatchedFiles, BuildOf, Machine, Misloaded,
            Unrecognised
<1>5. CASE program = "uboot"
  <2>1. Firmware = "ARMEFI" /\ kind = "rpi" /\ Reads = "header"
    BY <1>1, <1>5 DEF AtWork
  <2> QED
    BY <1>3, <1>4, <1>5, <2>1
<1>6. CASE program = "firmware" /\ kind = "bios"
  <2>1. Firmware = "X86PC" /\ Reads = "strict"
    BY <1>1, <1>6 DEF FirmwareTable
  <2> QED
    BY <1>3, <1>4, <1>6, <2>1
<1>7. CASE program = "firmware" /\ kind = "biosIpxe"
  <2>1. Firmware = "X86Ipxe" /\ Reads = "option"
    BY <1>1, <1>7 DEF FirmwareTable
  <2> QED
    BY <1>3, <1>4, <1>7, <2>1
<1>8. CASE program = "firmware" /\ kind = "efi"
  <2>1. Firmware = "X86EFI" /\ Reads = "strict"
    BY <1>1, <1>8 DEF FirmwareTable
  <2> QED
    BY <1>3, <1>4, <1>8, <2>1
<1>9. CASE program = "firmware" /\ kind = "efiArm"
  <2>1. Firmware = "ARMEFI" /\ Reads = "strict"
    BY <1>1, <1>9 DEF FirmwareTable
  <2> QED
    BY <1>3, <1>4, <1>9, <2>1
<1>10. CASE program = "firmware" /\ kind = "efiHttp"
  <2>1. Firmware = "X86HTTP" /\ Reads = "option"
    BY <1>1, <1>10 DEF FirmwareTable
  <2> QED
    BY <1>3, <1>4, <1>10, <2>1
<1>11. CASE program = "firmware" /\ kind = "armHttp"
  <2>1. Firmware = "ARMHTTP" /\ Reads = "option"
    BY <1>1, <1>11 DEF FirmwareTable
  <2> QED
    BY <1>3, <1>4, <1>11, <2>1
<1>12. CASE program = "firmware" /\ kind = "efiLast"
  <2>1. Firmware = "X86EFI" /\ Reads = "strict"
    BY <1>1, <1>12 DEF FirmwareTable
  <2> QED
    BY <1>3, <1>4, <1>12, <2>1
<1>13. CASE program = "firmware" /\ kind = "efiFirst"
  <2>1. Firmware = "X86PC" /\ Reads = "strict"
    BY <1>1, <1>13 DEF FirmwareTable
  <2> QED
    BY <1>3, <1>4, <1>13, <2>1
<1>14. CASE program = "firmware" /\ kind = "efi32"
  <2>1. Firmware = "X86EFI" /\ Reads = "strict"
    BY <1>1, <1>14 DEF FirmwareTable
  <2> QED
    BY <1>3, <1>4, <1>14, <2>1
<1>15. CASE program = "firmware" /\ kind = "http32"
  <2>1. Firmware = "X86HTTP" /\ Reads = "option"
    BY <1>1, <1>15 DEF FirmwareTable
  <2> QED
    BY <1>3, <1>4, <1>15, <2>1
<1>16. CASE program = "firmware" /\ kind = "rpi"
  <2>1. Firmware = "RPi" /\ Reads = "menu"
    BY <1>1, <1>16 DEF FirmwareTable
  <2> QED
    BY <1>3, <1>4, <1>16, <2>1
<1>17. CASE program = "firmware" /\ kind = "rpiUsb"
  <2>1. Firmware = "X86PC" /\ Reads = "menu"
    BY <1>1, <1>17 DEF FirmwareTable
  <2> QED
    BY <1>3, <1>4, <1>17, <2>1
<1> QED
  BY <1>2, <1>5, <1>6, <1>7, <1>8, <1>9, <1>10, <1>11, <1>12,
     <1>13, <1>14, <1>15, <1>16, <1>17 DEF AtWork

-----------------------------------------------------------------------------
(* The invariant. *)

\* What depends on the machine and its options only.
LEMMA Same ==
  ASSUME UNCHANGED <<options, kind, program>>
  PROVE  /\ Firmware' = Firmware /\ Reads' = Reads
         /\ Startable' <=> Startable
         /\ ServeRaspberryPi' <=> ServeRaspberryPi
         /\ \A port : Packet(port)' = Packet(port)
         /\ \A offer : Wanted(offer)' = Wanted(offer)
         /\ \A firmware : OfferDHCP(firmware)' = OfferDHCP(firmware)
<1>1. Reads' = Reads
  BY DEF Reads
<1>2. \A port : Packet(port)' = Packet(port)
  BY DEF Packet
<1>3. Firmware' = Firmware
  BY <1>2 DEF Firmware
<1>4. \A offer : Wanted(offer)' = Wanted(offer)
  BY <1>1 DEF Wanted
<1>5. \A firmware : OfferDHCP(firmware)' = OfferDHCP(firmware)
  BY DEF OfferDHCP
<1>6. (Startable' <=> Startable) /\ (ServeRaspberryPi' <=> ServeRaspberryPi)
  BY DEF Startable, ServeRaspberryPi
<1> QED
  BY <1>1, <1>2, <1>3, <1>4, <1>5, <1>6

LEMMA Nils == /\ Nil \notin {"bios", "amd64", "arm64", "agent", "talos", "disk"}
BY ChainAssumption DEF Builds, Decisions

LEMMA InvInit == Init => BootInv
BY ChainAssumption, Nils DEF Init, BootInv, TypeOK, LoaderInv, OfferInv, Attempts, Booted, Decisions, Builds

\* A machine that begins again, or has booted, has nothing left to do.
LEMMA RestartsStep ==
  ASSUME BootInv, NEW what \in {"firmware"} \cup Booted, Restarts(what), mishaps' \in 0..MaxMishaps,
         what \in Booted => kind \notin Misloaded \cup Unrecognised
  PROVE  BootInv'
<1> USE ChainAssumption, Nils DEF Restarts, Boots, BootInv, givenVars, Booted
<1>1. TypeOK'
  BY DEF TypeOK, Attempts
<1>2. LoaderInv'
  BY DEF LoaderInv
<1>3. OfferInv'
  <2>1. Startable' <=> Startable
    BY DEF Startable, ServeRaspberryPi
  <2> QED
    BY <2>1 DEF OfferInv
<1> QED
  BY <1>1, <1>2, <1>3

LEMMA MishapCounts ==
  ASSUME BootInv, Mishap PROVE mishaps' \in 0..MaxMishaps
BY ChainAssumption DEF BootInv, TypeOK, Mishap

\* What happens meanwhile does not touch what the machine is doing.
LEMMA WorldStep ==
  ASSUME BootInv, World, provider' \in {"up", "down"}, decision' \in Decisions,
         linked' \in SUBSET linked, mishaps' \in 0..MaxMishaps,
         provider' = "up" => provider = "up" \/ Startable
  PROVE  BootInv'
<1> USE DEF World, BootInv, givenVars, netVars, scriptVars
<1>1. TypeOK'
  BY DEF TypeOK
<1>2. LoaderInv'
  BY DEF LoaderInv
<1>3. OfferInv'
  BY Same DEF OfferInv
<1> QED
  BY <1>1, <1>2, <1>3

LEMMA PacketPort == ASSUME NEW port PROVE Packet(port).port = port
BY DEF Packet

LEMMA AskStep == ASSUME BootInv, NEW port \in {67, 4011}, Ask(port) PROVE BootInv'
<1> USE DEF Ask, Searching, BootInv, givenVars, scriptVars
<1>1. TypeOK'
  BY PacketPort DEF TypeOK
<1>2. LoaderInv'
  BY Nils DEF LoaderInv, Booted
<1>3. OfferInv'
  BY Same DEF OfferInv
<1> QED
  BY <1>1, <1>2, <1>3

\* The proxy makes the same of a packet to either port.
LEMMA HandlePacketStep == ASSUME BootInv, HandlePacket PROVE BootInv'
<1> USE DEF HandlePacket, BootInv, givenVars, scriptVars
<1>1. /\ todo = {} /\ reply = Nil /\ program \in {"firmware", "uboot"} /\ Startable
      /\ ValidateDHCP(packet) = Firmware
  <2>1. /\ kind \in DOMAIN Machine
        /\ program = "uboot" => kind = "rpi"
        /\ packet \in {Packet(67), Packet(4011)}
    BY ChainAssumption DEF OfferInv, TypeOK
  <2>2. Firmware = IF program = "uboot" THEN "ARMEFI" ELSE FirmwareTable[kind]
    BY <2>1, Firmwares DEF Firmware
  <2>3. ValidateDHCP(packet) = IF program = "uboot" THEN "ARMEFI" ELSE FirmwareTable[kind]
    BY <2>1, Firmwares
  <2> QED
    BY <2>2, <2>3 DEF OfferInv, Listening
<1>2. TypeOK'
  <2>1. \A firmware : OfferDHCP(firmware).serverIdentifier \in BOOLEAN
    BY DEF OfferDHCP
  <2> QED
    BY <2>1 DEF TypeOK
<1>3. LoaderInv'
  BY <1>1, Nils DEF LoaderInv, Booted
<1>4. OfferInv'
  BY <1>1, Same DEF OfferInv
<1> QED
  BY <1>2, <1>3, <1>4

LEMMA WorkIsInMind == ASSUME BootInv, reply # Nil \/ todo # {} PROVE AtWork
BY ChainAssumption DEF BootInv, TypeOK, OfferInv, AtWork

\* A Raspberry Pi that is not recognised is told to use the boot file, which it does not.
LEMMA UnrecognisedDrops ==
  ASSUME AtWork, kind \in Unrecognised
  PROVE  ~Understands(OfferDHCP(Firmware))
<1>1. program # "uboot" /\ Reads = "menu"
  BY Offers DEF AtWork, Unrecognised
<1>2. Firmware = "X86PC"
  BY <1>1, Firmwares DEF Firmware, AtWork, FirmwareTable, Unrecognised
<1>3. OfferDHCP(Firmware).vendor = "use boot file"
  BY <1>2 DEF OfferDHCP
<1> QED
  BY <1>1, <1>3 DEF Understands

LEMMA TakeReplyStep == ASSUME BootInv, TakeReply PROVE BootInv'
<1> USE DEF TakeReply, Searching, BootInv, givenVars, scriptVars
<1>1. reply = OfferDHCP(Firmware) /\ AtWork
  BY WorkIsInMind DEF OfferInv
<1>2. todo' \subseteq Wanted(OfferDHCP(Firmware))
  BY <1>1
<1>3. Wanted(OfferDHCP(Firmware)) \subseteq Requests
  <2>1. CASE Reads = "menu"
    BY <2>1 DEF Wanted, Requests
  <2>2. CASE Reads # "menu"
    BY <1>1, <2>2, Offers
  <2> QED
    BY <2>1, <2>2
<1>4. TypeOK'
  BY <1>2, <1>3 DEF TypeOK
<1>5. LoaderInv'
  BY <1>1, Nils DEF LoaderInv, Booted, AtWork
<1>6. OfferInv'
  BY <1>1, <1>2, Same, UnrecognisedDrops DEF OfferInv, AtWork
<1> QED
  BY <1>4, <1>5, <1>6

\* A machine that has all it was offered runs it, and it is built for the machine.
LEMMA FetchStep == ASSUME BootInv, NEW request \in todo, Fetch(request) PROVE BootInv'
<1> USE DEF Fetch, BootInv, givenVars, scriptVars, netVars
<1>1. AtWork /\ reply = Nil /\ packet = Nil /\ todo \subseteq Wanted(OfferDHCP(Firmware))
  BY WorkIsInMind DEF OfferInv
<1>2. CASE todo' # {}
  <2>1. TypeOK' /\ LoaderInv'
    BY <1>1, <1>2, Nils DEF TypeOK, LoaderInv, Booted, AtWork
  <2>2. OfferInv'
    BY <1>1, <1>2, Same DEF OfferInv
  <2> QED
    BY <2>1, <2>2
<1>3. CASE todo' = {} /\ Reads = "menu"
  <2>1. program' = "uboot" /\ UNCHANGED build /\ kind = "rpi" /\ program = "firmware"
    BY <1>1, <1>3, Offers DEF Loaded, OfferInv
  <2>2. TypeOK' /\ LoaderInv'
    BY <1>1, <1>3, <2>1, Nils DEF TypeOK, LoaderInv, Booted
  <2>3. OfferInv'
    <3>1. Startable' <=> Startable
      BY DEF Startable, ServeRaspberryPi
    <3> QED
      BY <1>1, <1>3, <2>1, <3>1 DEF OfferInv
  <2> QED
    BY <2>2, <2>3
<1>4. CASE todo' = {} /\ Reads # "menu"
  <2>1. /\ program' = "ipxe" /\ build' \in {"bios", "amd64", "arm64"}
        /\ build' = Machine[kind].runs <=> kind \notin Misloaded
        /\ kind \notin Unrecognised
    <3>1. request = BootFile(Firmware)
      BY <1>1, <1>4, Offers
    <3>2. kind \notin Unrecognised
      BY DEF OfferInv
    <3> QED
      BY <1>1, <1>4, <3>1, <3>2, Offers DEF Loaded, BuildOf
  <2>2. TypeOK' /\ LoaderInv'
    BY <1>1, <1>4, <2>1, Nils DEF TypeOK, LoaderInv, Booted, Builds
  <2>3. OfferInv'
    <3>1. Startable' <=> Startable
      BY DEF Startable, ServeRaspberryPi
    <3> QED
      BY <1>1, <1>4, <2>1, <3>1 DEF OfferInv
  <2> QED
    BY <2>2, <2>3
<1> QED
  BY <1>2, <1>3, <1>4

LEMMA TimeOutStep == ASSUME BootInv, TimeOut PROVE BootInv'
<1> USE DEF TimeOut, BootInv, givenVars, scriptVars
<1>1. TypeOK' /\ LoaderInv'
  BY DEF TypeOK, LoaderInv
<1>2. OfferInv'
  BY Same DEF OfferInv
<1> QED
  BY <1>1, <1>2

\* In the script a machine has nothing under way with the proxy.
LEMMA ScriptStep ==
  ASSUME BootInv, program = "ipxe",
         UNCHANGED <<provider, decision, linked, program, build, todo, netVars, givenVars>>,
         mishaps' \in 0..MaxMishaps, x' \in 0..Attempts, idx' \in 0..Interfaces,
         next' \in {Nil, "agent", "talos"}, next' # Nil => idx' < Interfaces /\ kind \notin Misloaded
  PROVE  BootInv'
<1> USE DEF BootInv, givenVars, netVars
<1>1. TypeOK' /\ LoaderInv'
  BY DEF TypeOK, LoaderInv, Booted
<1>2. OfferInv'
  BY Same DEF OfferInv
<1> QED
  BY <1>1, <1>2

LEMMA InvStep == BootInv /\ [Next]_vars => BootInv'
<1> SUFFICES ASSUME BootInv, [Next]_vars PROVE BootInv'
  OBVIOUS
<1>1. /\ mishaps \in 0..MaxMishaps /\ x \in 0..Attempts /\ idx \in 0..Interfaces
      /\ next \in {Nil, "agent", "talos"} /\ linked \subseteq 0..Interfaces - 1
      /\ provider \in {"up", "down"} /\ decision \in Decisions
      /\ next # Nil => program = "ipxe" /\ idx < Interfaces
  BY DEF BootInv, TypeOK, LoaderInv, Booted
\* A program that runs is what the machine is to run.
<1>r. InScript \/ Kernel => kind \notin Misloaded \cup Unrecognised
  BY DEF InScript, Kernel, BootInv, LoaderInv
<1>2. Mishap => mishaps' \in 0..MaxMishaps
  BY MishapCounts
<1>3. CASE PowerOn
  BY <1>1, <1>3, RestartsStep DEF PowerOn, Booted
<1>4. CASE Ask(67) \/ Ask(4011)
  BY <1>4, AskStep
<1>5. CASE HandlePacket
  BY <1>5, HandlePacketStep
<1>6. CASE TakeReply
  BY <1>6, TakeReplyStep
<1>7. CASE \E request \in todo : Fetch(request)
  BY <1>7, FetchStep
<1>8. CASE TimeOut
  BY <1>8, TimeOutStep
<1>9. CASE InterfaceFails \/ RequestFails
  <2>1. /\ program = "ipxe" /\ idx < Interfaces /\ next = Nil /\ idx' = idx + 1 /\ UNCHANGED <<x, next>>
        /\ UNCHANGED <<provider, decision, linked, program, build, todo, netVars, givenVars>>
        /\ mishaps' \in 0..MaxMishaps
    BY <1>1, <1>2, <1>9, ChainAssumption DEF InterfaceFails, RequestFails, InScript, NextInterface
  <2>2. idx' \in 0..Interfaces
    BY <1>1, <2>1, ChainAssumption
  <2> QED
    BY <1>1, <2>1, <2>2, ScriptStep
<1>10. CASE ChainToScript
  <2>1. /\ program = "ipxe" /\ idx < Interfaces /\ UNCHANGED <<x, idx, mishaps>>
        /\ next' \in {"agent", "talos"} /\ kind \notin Misloaded
        /\ UNCHANGED <<provider, decision, linked, program, build, todo, netVars, givenVars>>
    BY <1>1, <1>r, <1>10, ChainAssumption DEF ChainToScript, InScript
  <2> QED
    BY <1>1, <2>1, ScriptStep
<1>11. CASE BootFromDisk \/ Refuse
  BY <1>1, <1>r, <1>11, RestartsStep DEF BootFromDisk, Refuse, Booted
<1>12. CASE Exhausted
  <2>1. CASE x = Attempts
    BY <1>1, <1>12, <2>1, RestartsStep DEF Exhausted, Booted
  <2>2. CASE x # Attempts
    <3>1. /\ program = "ipxe" /\ next = Nil /\ x' = x + 1 /\ idx' = 0 /\ UNCHANGED <<next, mishaps>>
          /\ UNCHANGED <<provider, decision, linked, program, build, todo, netVars, givenVars>>
      BY <1>12, <2>2 DEF Exhausted, InScript
    <3>2. x' \in 0..Attempts /\ idx' \in 0..Interfaces
      BY <1>1, <2>2, <3>1, ChainAssumption DEF Attempts
    <3> QED
      BY <1>1, <3>1, <3>2, ScriptStep
  <2> QED
    BY <2>1, <2>2
<1>13. CASE BootKernel
  <2>1. next \in Booted /\ mishaps' \in 0..MaxMishaps
    BY <1>1, <1>13 DEF BootKernel, Kernel, Booted
  <2> QED
    BY <1>r, <1>13, <2>1, RestartsStep DEF BootKernel
<1>14. CASE BootFails \/ Reset
  BY <1>2, <1>14, RestartsStep DEF BootFails, Reset, Booted
<1>15. CASE Decide \/ ProviderStarts \/ ProviderStops \/ LinkBreaks
  <2>1. /\ World
        /\ provider' \in {"up", "down"} /\ decision' \in Decisions /\ linked' \in SUBSET linked
        /\ mishaps' \in 0..MaxMishaps
        /\ provider' = "up" => provider = "up" \/ Startable
    <3>1. CASE Decide
      BY <1>1, <3>1 DEF Decide
    <3>2. CASE ProviderStarts
      BY <1>1, <3>2 DEF ProviderStarts
    <3>3. CASE ProviderStops
      BY <1>1, <1>2, <3>3 DEF ProviderStops
    <3>4. CASE LinkBreaks
      BY <1>1, <1>2, <3>4 DEF LinkBreaks
    <3> QED
      BY <1>15, <3>1, <3>2, <3>3, <3>4
  <2> QED
    BY <2>1, WorldStep
<1>16. CASE UNCHANGED vars
  BY <1>16, Same DEF vars, BootInv, TypeOK, LoaderInv, OfferInv
<1> QED
  BY <1>3, <1>4, <1>5, <1>6, <1>7, <1>8, <1>9, <1>10, <1>11, <1>12, <1>13, <1>14, <1>15, <1>16
     DEF Next, Script

\* But for the machines the proxy has no iPXE for, or takes for a BIOS, a machine is only ever handed
\* an iPXE that is built for it; those never boot, and all work on what the proxy offered them
\* for what they say they are (dhcp/proxy.go, validateDHCP and OfferDHCP).
THEOREM BootInvariance == Spec => []BootInv
<1> QED
  BY InvInit, InvStep, PTL DEF Spec

LEMMA OffersKept == BootInv => OfferIsKept
<1> SUFFICES ASSUME BootInv, NEW request \in todo
             PROVE  Served(request) \/ request.file[2] \in UncheckedFiles
  BY DEF OfferIsKept
<1>1. /\ AtWork /\ request \in Wanted(OfferDHCP(Firmware)) /\ Startable
      /\ Firmware = "RPi" => ServeRaspberryPi
  BY WorkIsInMind DEF BootInv, OfferInv
<1>2. CASE Reads = "menu"
  <2>1. PICK name \in RaspberryPiFiles : request = [via |-> "tftp", file |-> <<"board", name>>]
    BY <1>1, <1>2 DEF Wanted
  <2>2. ServeRaspberryPi /\ RequiredFiles \subseteq options.firmware
    BY <1>1, <1>2, Offers DEF BootInv, OfferInv, Startable, Loadable
  <2>3. CASE name \in RequiredFiles
    <3>1. <<"", name>> \in BootFiles
      BY <2>2, <2>3 DEF BootFiles, Flat
    <3> QED
      BY <2>1, <3>1 DEF Served, HandleRead
  <2>4. CASE name \in UncheckedFiles
    BY <2>1, <2>4
  <2> QED
    BY <2>3, <2>4 DEF RaspberryPiFiles
<1>3. CASE Reads # "menu"
  <2>1. request.file \in PatchedFiles
    BY <1>1, <1>3, Offers
  <2> QED
    BY <2>1 DEF Served, HandleRead, FilesHandler, BootFiles
<1> QED
  BY <1>2, <1>3

\* Whatever the options the provider starts with, all a machine is offered is served to it, but for
\* the kernel and the device tree of a Raspberry Pi (dhcp/proxy.go, ServeRaspberryPi; ipxe/patch.go; rpi/firmware.go).
THEOREM OffersAreKept == Spec => []OfferIsKept
<1> QED
  BY BootInvariance, OffersKept, PTL

LEMMA OffersUnderstood == BootInv => OffersAreUnderstood
<1> SUFFICES ASSUME BootInv, reply # Nil, ~options.ipv6
             PROVE  Understands(reply) <=> kind \notin Unrecognised
  BY DEF OffersAreUnderstood
<1>1. AtWork /\ reply = OfferDHCP(Firmware)
  BY WorkIsInMind DEF BootInv, OfferInv
<1>2. reply.serverIdentifier
  BY <1>1 DEF OfferDHCP
<1>3. Firmware = IF program = "uboot" THEN "ARMEFI" ELSE FirmwareTable[kind]
  BY <1>1, Firmwares DEF Firmware, AtWork
<1>4. CASE Reads = "menu" /\ kind = "rpi"
  <2>1. Firmware = "RPi"
    BY <1>1, <1>4, Offers
  <2> QED
    BY <1>1, <1>4, <2>1 DEF Understands, OfferDHCP, Unrecognised
<1>5. CASE Reads = "menu" /\ kind # "rpi"
  <2>1. kind \in Unrecognised
    BY <1>1, <1>5, Offers
  <2> QED
    BY <1>1, <2>1, UnrecognisedDrops
\* A strict firmware is one of those that get the file in the header too, and are told to use it.
<1>6. CASE Reads = "strict"
  <2>1. program # "uboot" /\ Machine[kind].reads = "strict"
    BY <1>6 DEF Reads
  <2>2. kind \in {"bios", "efi", "efiArm", "efiLast", "efiFirst", "efi32"}
    BY <1>1, <1>3, <2>1 DEF AtWork, Machine, FirmwareTable
  <2>3. Firmware \in {"X86PC", "X86EFI", "ARMEFI"}
    BY <1>3, <2>1, <2>2 DEF FirmwareTable
  <2>4. reply.vendor = "use boot file"
    BY <1>1, <2>3 DEF OfferDHCP
  <2> QED
    BY <1>2, <1>6, <2>2, <2>4 DEF Understands, Unrecognised
<1>7. CASE Reads = "header"
  <2>1. program = "uboot" /\ kind = "rpi"
    BY <1>1, <1>7 DEF Reads, AtWork, Machine
  <2>2. Firmware = "ARMEFI"
    BY <1>3, <2>1
  <2>3. reply.header = BootFile(Firmware)
    BY <1>1, <2>2 DEF OfferDHCP
  <2>4. BootFile(Firmware) # Nil
    BY <1>1, <1>7, Offers, NilIsNoFile
  <2> QED
    BY <1>7, <2>1, <2>3, <2>4 DEF Understands, Unrecognised
<1>8. CASE Reads = "option"
  <2>1. kind \notin Unrecognised
    BY <1>8 DEF Reads, Machine, Unrecognised
  <2> QED
    BY <1>8, <2>1 DEF Understands
<1>9. Reads \in {"menu", "strict", "header", "option"}
  BY <1>1 DEF AtWork, Reads, Machine
<1> QED
  BY <1>4, <1>5, <1>6, <1>7, <1>8, <1>9

\* The firmware that asks takes what it is offered for an offer: none drops it in silence, and is
\* left to ask for ever, but a Raspberry Pi that is not recognised (dhcp/proxy.go, offerDHCP,
\* raspberryPiOUIs).
THEOREM OffersAreTaken == Spec => []OffersAreUnderstood
<1> QED
  BY BootInvariance, OffersUnderstood, PTL

\* A machine that is offered a boot takes the offer, and finds what it says, with the exceptions
\* OfferIsKept and OffersAreUnderstood name.
THEOREM OffersAreAlwaysSound == Spec => []OffersAreSound
<1>1. OfferIsKept /\ OffersAreUnderstood => OffersAreSound
  BY DEF OffersAreSound
<1> QED
  BY <1>1, OffersAreKept, OffersAreTaken, PTL

\* What the fair runs of the model checker look at is a Spec.
THEOREM FairIsSafe == FairSpec => [](BootInv /\ OffersAreSound)
<1> QED
  BY BootInvariance, OffersAreAlwaysSound, PTL DEF FairSpec
=============================================================================
