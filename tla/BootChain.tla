------------------------------- MODULE BootChain -------------------------------
(***************************************************************************)
(* How a machine that boots from the network gets to what it is to run: the *)
(* proxy DHCP server, the files served over TFTP and HTTP, the script        *)
(* embedded in the iPXE binaries, and the scripts the provider answers it    *)
(* with.  What it is to run is decided elsewhere (Lifecycle): here it is     *)
(* given, and may change at any time.                                        *)
(*                                                                         *)
(* A file is a pair of a directory and a name.                               *)
(***************************************************************************)
EXTENDS Integers, Sequences, FiniteSetsExt

CONSTANTS
  Nil,
  Kinds,       \* the kinds of machine looked at
  OptionSets,  \* the options of the provider looked at
  Interfaces,  \* how many network interfaces the machine has
  MaxMishaps   \* bound: resets, restarts, broken links and failed downloads

VARIABLES
  options,   \* how the provider was started
  provider,  \* "up" or "down"
  decision,  \* what the machine is to run
  kind,      \* what the machine is
  linked,    \* its interfaces on which there is a link and a DHCP lease
  program,   \* what it runs
  build,     \* what the iPXE it has loaded is built for, or Nil
  packet, reply,  \* its last packet to the proxy, until answered, and the answer
  todo,      \* the files it has yet to fetch
  x, idx,    \* attempts, and the interface at hand, of the embedded script
  next,      \* what it is loading in iPXE, or Nil
  mishaps

netVars == <<packet, reply>>
scriptVars == <<x, idx, next>>
givenVars == <<options, kind>>
vars == <<options, provider, decision, kind, linked, program, build, packet, reply, todo,
          x, idx, next, mishaps>>

\* An iPXE is for a BIOS or, by the architecture, for EFI.
Builds == {"bios", "amd64", "arm64"}
Decisions == {"agent", "talos", "disk", "notFound"}
Booted == {"agent", "talos", "disk"}

-----------------------------------------------------------------------------
(* Machines, by what their firmware runs, says in its packets and expects of *)
(* a reply: a strict one follows the PXE specification to the letter, one    *)
(* that reads the option is not strict, and a Raspberry Pi wants its menu.   *)
(* A Raspberry Pi may boot over an adapter that is not its own, and EFI may  *)
(* name a BIOS along with itself.                                            *)

Machine ==
  [bios     |-> [runs |-> "bios", reads |-> "strict", arches |-> <<"INTEL_X86PC">>],
   biosIpxe |-> [runs |-> "bios", reads |-> "option", arches |-> <<"INTEL_X86PC">>],
   efi      |-> [runs |-> "amd64", reads |-> "strict", arches |-> <<"EFI_BC", "EFI_X86_64">>],
   efiArm   |-> [runs |-> "arm64", reads |-> "strict", arches |-> <<"EFI_ARM64">>],
   efiHttp  |-> [runs |-> "amd64", reads |-> "option", arches |-> <<"EFI_X86_64_HTTP">>],
   armHttp  |-> [runs |-> "arm64", reads |-> "option", arches |-> <<"EFI_ARM64_HTTP">>],
   efiLast  |-> [runs |-> "amd64", reads |-> "strict", arches |-> <<"INTEL_X86PC", "EFI_X86_64">>],
   efiFirst |-> [runs |-> "amd64", reads |-> "strict", arches |-> <<"EFI_X86_64", "INTEL_X86PC">>],
   efi32    |-> [runs |-> "ia32", reads |-> "strict", arches |-> <<"EFI_IA32">>],
   http32   |-> [runs |-> "ia32", reads |-> "option", arches |-> <<"EFI_X86_HTTP">>],
   rpi      |-> [runs |-> "arm64", reads |-> "menu", arches |-> <<"INTEL_X86PC">>],
   rpiUsb   |-> [runs |-> "arm64", reads |-> "menu", arches |-> <<"INTEL_X86PC">>],
   itanium  |-> [runs |-> "ia64", reads |-> "strict", arches |-> <<"EFI_ITANIUM">>],
   host     |-> [runs |-> "amd64", reads |-> "strict", arches |-> <<>>]]

ASSUME ChainAssumption ==
  /\ Kinds \subseteq DOMAIN Machine
  /\ Interfaces \in Nat \ {0} /\ MaxMishaps \in Nat
  /\ Nil \notin Builds \cup Decisions \cup {"iPXE"}

\* The loader of a Raspberry Pi asks a second time, as what it is, and looks for the answer in
\* the BOOTP header only.
Reads == IF program = "uboot" THEN "header" ELSE Machine[kind].reads

Packet(port) ==
  [port |-> port,
   type |-> IF port = 67 THEN "discover" ELSE "request",
   arches |-> IF program = "uboot" THEN <<"UBOOT_ARM64">> ELSE Machine[kind].arches,
   oui |-> IF kind = "rpi" THEN "Raspberry Pi" ELSE "other",
   userClass |-> IF kind = "biosIpxe" THEN "iPXE" ELSE Nil]

-----------------------------------------------------------------------------
(* What is served. *)

RequiredFiles == {"config.txt", "start4.elf", "fixup4.dat"}

\* What a Raspberry Pi fetches: those, the kernel that its config.txt names, and the device tree
\* of the board (hack/rpi/README.md).
UncheckedFiles == {"u-boot.bin", "bcm2711-rpi-4-b.dtb"}
RaspberryPiFiles == RequiredFiles \cup UncheckedFiles

Flat(names) == {""} \X names

BiosFiles == Flat({"undionly.kpxe", "undionly.kpxe.0"})
AmdFiles == Flat({"ipxe.efi", "snp.efi"}) \cup {"amd64"} \X {"ipxe.efi", "snp.efi"}
ArmFiles == Flat({"ipxe-arm64.efi", "snp-arm64.efi"}) \cup {"arm64"} \X {"ipxe.efi", "snp.efi"}
PatchedFiles == BiosFiles \cup AmdFiles \cup ArmFiles

BuildOf(file) ==
  IF file \in BiosFiles THEN "bios" ELSE IF file \in AmdFiles THEN "amd64" ELSE "arm64"

\* The directory of the firmware is complete, and nothing in it hides an iPXE binary.
Loadable(firmware) == RequiredFiles \subseteq firmware /\ Flat(firmware) \cap PatchedFiles = {}

ServeRaspberryPi == options.firmware # Nil

BootFiles == PatchedFiles \cup (IF ServeRaspberryPi THEN Flat(options.firmware) ELSE {})

\* The provider does not start with files that it knows to be incomplete.
Startable ==
  /\ ServeRaspberryPi => Loadable(options.firmware)
  /\ options.assets # Nil => options.assets # {}

\* A board prefixes what it asks for with a directory of its own.
HandleRead(file) == file \in BootFiles \/ (file[1] = "board" /\ <<"", file[2]>> \in BootFiles)

FilesHandler(file) == file \in BootFiles

Served(request) ==
  IF request.via = "tftp" THEN HandleRead(request.file) ELSE FilesHandler(request.file)

-----------------------------------------------------------------------------
(* The proxy. *)

\* Mutant: U-Boot taken for a PC.
FirmwareOfPC(arch) ==
  CASE arch = "INTEL_X86PC" -> "X86PC"
    [] arch \in {"EFI_IA32", "EFI_X86_64", "EFI_BC", "EFI_ARM64", "UBOOT_ARM64"} -> "X86EFI"
    [] arch \in {"EFI_X86_HTTP", "EFI_X86_64_HTTP"} -> "X86HTTP"
    [] arch \in {"EFI_ARM64_HTTP", "UBOOT_ARM64_HTTP"} -> "ARMHTTP"
    [] OTHER -> "unsupported"

FirmwareOf(arch) ==
  CASE arch = "INTEL_X86PC" -> "X86PC"
    [] arch \in {"EFI_IA32", "EFI_X86_64", "EFI_BC"} -> "X86EFI"
    [] arch \in {"EFI_ARM64", "UBOOT_ARM64"} -> "ARMEFI"
    [] arch \in {"EFI_X86_HTTP", "EFI_X86_64_HTTP"} -> "X86HTTP"
    [] arch \in {"EFI_ARM64_HTTP", "UBOOT_ARM64_HTTP"} -> "ARMHTTP"
    [] OTHER -> "unsupported"

Known(m) == {i \in DOMAIN m.arches : FirmwareOf(m.arches[i]) # "unsupported"}

\* Of several architectures, the last that is known counts.
ValidateDHCP(m) ==
  LET firmware == IF Known(m) = {} THEN "unsupported" ELSE FirmwareOf(m.arches[Max(Known(m))])
  IN  IF firmware # "X86PC" THEN firmware
      ELSE IF m.oui = "Raspberry Pi" THEN "RPi"
      ELSE IF m.userClass = "iPXE" THEN "X86Ipxe"
      ELSE "X86PC"

\* Option 93 gives the architectures.
IsBootDHCP(m) == m.type = (IF m.port = 4011 THEN "request" ELSE "discover") /\ m.arches # <<>>

Tftp(name) == [via |-> "tftp", file |-> <<"", name>>]
Http(arch, name) == [via |-> "http", file |-> <<arch, name>>]

BootFile(firmware) ==
  CASE firmware \in {"X86PC", "X86Ipxe"} -> Tftp("undionly.kpxe")
    [] firmware = "X86EFI" -> Tftp("snp.efi")
    [] firmware = "ARMEFI" -> Tftp("snp-arm64.efi")
    [] firmware = "X86HTTP" -> Http("amd64", "snp.efi")
    [] firmware = "ARMHTTP" -> Http("arm64", "snp.efi")
    [] firmware = "RPi" -> Nil

\* Mutant: the file only named in the options.
OfferDHCPInOptions(firmware) ==
  [option |-> BootFile(firmware),
   header |-> Nil,
   vendor |-> CASE firmware \in {"X86PC", "X86EFI", "ARMEFI"} -> "use boot file"
                [] firmware = "RPi" -> "Raspberry Pi Boot"
                [] OTHER -> Nil,
   serverIdentifier |-> ~options.ipv6]

\* Standard PXE gets the file in the BOOTP header too, and is told to use it.
OfferDHCP(firmware) ==
  [option |-> BootFile(firmware),
   header |-> IF firmware \in {"X86PC", "X86EFI", "ARMEFI"} THEN BootFile(firmware) ELSE Nil,
   vendor |-> CASE firmware \in {"X86PC", "X86EFI", "ARMEFI"} -> "use boot file"
                [] firmware = "RPi" -> "Raspberry Pi Boot"
                [] OTHER -> Nil,
   serverIdentifier |-> ~options.ipv6]

-----------------------------------------------------------------------------
(* State. *)

Attempts == 10

Requests == [via: {"tftp", "http"}, file: PatchedFiles \cup {"board"} \X RaspberryPiFiles]

ASSUME NilIsNoFile == Nil \notin Requests

TypeOK ==
  /\ options \in OptionSets
  /\ provider \in {"up", "down"}
  /\ decision \in Decisions
  /\ kind \in Kinds
  /\ linked \in SUBSET (0..Interfaces - 1)
  /\ program \in {"off", "firmware", "uboot", "ipxe"} \cup Booted
  /\ build \in Builds \cup {Nil}
  /\ packet = Nil \/ packet.port \in {67, 4011}
  /\ reply = Nil \/ reply.serverIdentifier \in BOOLEAN
  /\ todo \in SUBSET Requests
  /\ x \in 0..Attempts /\ idx \in 0..Interfaces
  /\ next \in (Booted \ {"disk"}) \cup {Nil}
  /\ mishaps \in 0..MaxMishaps

Init ==
  /\ options \in OptionSets
  /\ provider = "down"
  /\ decision \in Decisions
  /\ kind \in Kinds
  /\ linked = 0..Interfaces - 1
  /\ program = "off" /\ build = Nil
  /\ packet = Nil /\ reply = Nil /\ todo = {}
  /\ x = 0 /\ idx = 0 /\ next = Nil
  /\ mishaps = 0

Mishap == mishaps < MaxMishaps /\ mishaps' = mishaps + 1

Boots(what) == program' = what /\ build' = Nil /\ UNCHANGED <<provider, decision, linked, givenVars>>

\* The machine is on its own again, with its firmware or nothing.
Restarts(what) ==
  /\ Boots(what)
  /\ packet' = Nil /\ reply' = Nil /\ todo' = {}
  /\ x' = 0 /\ idx' = 0 /\ next' = Nil

-----------------------------------------------------------------------------
(* Finding a server. *)

PowerOn == program = "off" /\ Restarts("firmware") /\ UNCHANGED mishaps

Searching == program \in {"firmware", "uboot"} /\ todo = {}

Ask(port) ==
  /\ Searching /\ packet = Nil /\ reply = Nil
  /\ packet' = Packet(port)
  /\ UNCHANGED <<provider, decision, linked, program, build, reply, todo, mishaps,
                 scriptVars, givenVars>>

Listening(port) == provider = "up" /\ (port = 67 => options.broadcast)

\* Mutant: a Raspberry Pi is offered a boot whether or not its files are there.
HandlePacketOfAnyBoard ==
  /\ packet # Nil /\ Listening(packet.port)
  /\ LET firmware == ValidateDHCP(packet)
     IN  IF /\ IsBootDHCP(packet) /\ firmware # "unsupported"
            /\ firmware = "RPi" => ~options.ipv6
         THEN reply' = OfferDHCP(firmware)
         ELSE UNCHANGED reply
  /\ packet' = Nil
  /\ UNCHANGED <<provider, decision, linked, program, build, todo, mishaps, scriptVars, givenVars>>

\* What is no boot request, or cannot be booted, gets no answer.
HandlePacket ==
  /\ packet # Nil /\ Listening(packet.port)
  /\ LET firmware == ValidateDHCP(packet)
     IN  IF /\ IsBootDHCP(packet) /\ firmware # "unsupported"
            /\ firmware = "RPi" => ServeRaspberryPi /\ ~options.ipv6
         THEN reply' = OfferDHCP(firmware)
         ELSE UNCHANGED reply
  /\ packet' = Nil
  /\ UNCHANGED <<provider, decision, linked, program, build, todo, mishaps, scriptVars, givenVars>>

\* The machine takes a reply it understands, and drops any other.
Understands(offer) ==
  CASE Reads = "strict" -> offer.serverIdentifier /\ offer.vendor = "use boot file"
    [] Reads = "menu" -> offer.vendor = "Raspberry Pi Boot"
    [] Reads = "header" -> offer.header # Nil
    [] Reads = "option" -> TRUE

Wanted(offer) ==
  CASE Reads = "menu" -> {[via |-> "tftp", file |-> <<"board", name>>] : name \in RaspberryPiFiles}
    [] Reads = "header" -> {offer.header}
    [] OTHER -> {offer.option}

TakeReply ==
  /\ Searching /\ reply # Nil
  /\ todo' = IF Understands(reply) THEN Wanted(reply) ELSE {}
  /\ reply' = Nil
  /\ UNCHANGED <<provider, decision, linked, program, build, packet, mishaps,
                 scriptVars, givenVars>>

-----------------------------------------------------------------------------
(* Fetching the loader. *)

Loaded(request) ==
  IF Reads = "menu" THEN program' = "uboot" /\ UNCHANGED build
  ELSE /\ program' = "ipxe"
       /\ build' = BuildOf(request.file)

\* The last file is run.
Fetch(request) ==
  /\ request \in todo /\ provider = "up" /\ Served(request)
  /\ todo' = todo \ {request}
  /\ IF todo' = {} THEN Loaded(request) ELSE UNCHANGED <<program, build>>
  /\ UNCHANGED <<provider, decision, linked, mishaps, netVars, scriptVars, givenVars>>

\* No answer, or none in time, or no such file: the machine begins again.  A Raspberry Pi that
\* has taken an offer does not (dhcp/proxy.go): it goes on asking.
TimeOut ==
  /\ packet # Nil \/ (todo # {} /\ Reads # "menu")
  /\ packet' = Nil /\ todo' = {}
  /\ UNCHANGED <<provider, decision, linked, program, build, reply, mishaps,
                 scriptVars, givenVars>>

-----------------------------------------------------------------------------
(* The embedded script, and what it is answered. *)

\* The address goes into the URL of the script as it is, which will not do for IPv6.
ScriptReachesProvider == provider = "up" /\ ~options.ipv6

\* What is not for ARM gets the kernel for amd64.
ArchOf(b) == IF b = "arm64" THEN "arm64" ELSE "amd64"

\* A local kernel or command line that is missing fails the machine here or a step later.
Answer ==
  IF \/ decision = "notFound"
     \/ decision = "disk" /\ options.bootFromDiskMethod = "http-404"
     \/ decision = "agent" /\ options.assets # Nil /\ ArchOf(build) \notin options.assets
  THEN "error" ELSE decision

InScript == program = "ipxe" /\ build = Machine[kind].runs /\ next = Nil

\* The firmware does not run what is built for another, and begins again.
Refuse ==
  /\ program = "ipxe" /\ build # Machine[kind].runs
  /\ Restarts("firmware") /\ UNCHANGED mishaps

NextInterface == idx' = idx + 1 /\ UNCHANGED <<x, next>>

\* No link, no lease, no provider, or an answer that is an error: on to the next.
InterfaceFails ==
  /\ InScript /\ idx < Interfaces
  /\ idx \in linked /\ ScriptReachesProvider => Answer = "error"
  /\ NextInterface
  /\ UNCHANGED <<provider, decision, linked, program, build, todo, mishaps, netVars, givenVars>>

\* A request can fail all the same: the state cannot be read, or the schematic not be made.
RequestFails ==
  /\ InScript /\ idx \in linked /\ ScriptReachesProvider
  /\ Mishap
  /\ NextInterface
  /\ UNCHANGED <<provider, decision, linked, program, build, todo, netVars, givenVars>>

ChainToScript ==
  /\ InScript /\ idx \in linked /\ ScriptReachesProvider
  /\ Answer \in {"agent", "talos"}
  /\ next' = Answer
  /\ UNCHANGED <<provider, decision, linked, program, build, todo, x, idx, mishaps,
                 netVars, givenVars>>

\* The script leaves iPXE, or has it start from the disk.
BootFromDisk ==
  /\ InScript /\ idx \in linked /\ ScriptReachesProvider
  /\ Answer = "disk"
  /\ Restarts("disk") /\ UNCHANGED mishaps

\* After the last interface the script begins again, and after so many attempts the machine.
Exhausted ==
  /\ InScript /\ idx = Interfaces
  /\ IF x = Attempts THEN Restarts("firmware") ELSE
       /\ x' = x + 1 /\ idx' = 0
       /\ UNCHANGED <<provider, decision, linked, program, build, todo, next, netVars, givenVars>>
  /\ UNCHANGED mishaps

\* The kernel is fetched from the image factory, or from the provider.
Kernel == program = "ipxe" /\ next # Nil

BootKernel ==
  /\ Kernel
  /\ next = "agent" /\ options.assets # Nil => provider = "up"
  /\ Restarts(next) /\ UNCHANGED mishaps

\* The script has replaced the embedded one, so iPXE ends here.
BootFails ==
  /\ Kernel
  /\ Mishap
  /\ Restarts("firmware")

-----------------------------------------------------------------------------
(* What goes on meanwhile. *)

World == UNCHANGED <<program, build, todo, netVars, scriptVars, givenVars>>

Reset == program # "off" /\ Mishap /\ Restarts("firmware")

Decide ==
  /\ \E d \in Decisions \ {decision} : decision' = d
  /\ World /\ UNCHANGED <<provider, linked, mishaps>>

ProviderStarts ==
  /\ provider = "down" /\ Startable
  /\ provider' = "up"
  /\ World /\ UNCHANGED <<decision, linked, mishaps>>

ProviderStops ==
  /\ provider = "up" /\ Mishap
  /\ provider' = "down"
  /\ World /\ UNCHANGED <<decision, linked>>

LinkBreaks ==
  /\ Mishap
  /\ \E i \in linked : linked' = linked \ {i}
  /\ World /\ UNCHANGED <<provider, decision>>

-----------------------------------------------------------------------------

Script == Refuse \/ InterfaceFails \/ ChainToScript \/ BootFromDisk \/ Exhausted \/ BootKernel

Next ==
  \/ PowerOn \/ Ask(67) \/ Ask(4011) \/ HandlePacket \/ TakeReply
  \/ \E request \in todo : Fetch(request)
  \/ TimeOut
  \/ Script \/ RequestFails \/ BootFails
  \/ Reset \/ Decide \/ ProviderStarts \/ ProviderStops \/ LinkBreaks

Spec == Init /\ [][Next]_vars

\* A machine goes on with what it does.  Packets and downloads may time out, but not for ever.
FairSpec ==
  /\ Spec
  /\ WF_vars(PowerOn) /\ WF_vars(TakeReply) /\ WF_vars(TimeOut) /\ WF_vars(Script)
  /\ SF_vars(Ask(67)) /\ SF_vars(Ask(4011)) /\ SF_vars(HandlePacket)
  /\ SF_vars(\E request \in todo : Fetch(request))

-----------------------------------------------------------------------------
(* Properties. *)

\* The proxy goes by what a machine says, which may not tell what it is.  There is no iPXE for
\* 32-bit EFI, which is handed the 64-bit one, and EFI that names a BIOS last is handed a BIOS's
\* (dhcp/proxy.go, validateDHCP).
Misloaded == {"efi32", "http32", "efiFirst"}

\* A Raspberry Pi that "is therefore not recognized" is offered what a PC is (raspberryPiOUIs).
Unrecognised == {"rpiUsb"}

\* But for those, whatever the proxy makes of a packet, the iPXE a machine is handed is built for
\* it (dhcp/proxy.go, validateDHCP: "going by the architecture alone would hand an ARM board an
\* x86 bootloader"); those never boot.  What it loads next it was told to load by its iPXE.
LoaderInv ==
  /\ program = "ipxe" <=> build # Nil
  /\ build # Nil => (build = Machine[kind].runs <=> kind \notin Misloaded)
  /\ build # Nil \/ program \in Booted => kind \notin Unrecognised
  /\ program \in Booted => kind \notin Misloaded
  /\ next # Nil => program = "ipxe" /\ kind \notin Misloaded /\ idx < Interfaces
  /\ program # "ipxe" => x = 0 /\ idx = 0
  /\ program \in Booted \cup {"off"} => packet = Nil /\ reply = Nil /\ todo = {}

\* What the proxy makes of the packets of the program that runs.
Firmware == ValidateDHCP(Packet(67))

\* A machine works on one thing at a time, and on what it was offered for what it is.
OfferInv ==
  /\ program = "uboot" => kind = "rpi"
  /\ provider = "up" \/ reply # Nil \/ todo # {} => Startable
  /\ packet # Nil =>
       /\ program \in {"firmware", "uboot"} /\ reply = Nil /\ todo = {}
       /\ packet \in {Packet(67), Packet(4011)}
  /\ reply # Nil => todo = {} /\ reply = OfferDHCP(Firmware)
  /\ reply # Nil \/ todo # {} =>
       /\ program \in {"firmware", "uboot"} /\ Firmware # "unsupported"
       /\ Firmware = "RPi" => ServeRaspberryPi
  /\ todo # {} => kind \notin Unrecognised /\ todo \subseteq Wanted(OfferDHCP(Firmware))

BootInv == TypeOK /\ LoaderInv /\ OfferInv

\* A boot is offered only to a machine all of whose files are served, under the names it asks
\* for them by (ipxe/boot_contract_test.go; dhcp/proxy.go, ServeRaspberryPi: a board that finds
\* nothing "hangs there retrying"), but for the kernel and the device tree of a Raspberry Pi, which
\* nobody checks.
OfferIsKept ==
  \A request \in todo : Served(request) \/ request.file[2] \in UncheckedFiles

\* Nobody is answered in vain: what the proxy offers over IPv4 is what the firmware that asks, a
\* strict one, one that wants a menu, or U-Boot, takes for an offer (dhcp/proxy.go, offerDHCP).
\* Only a Raspberry Pi that is not recognised drops it.
OffersAreUnderstood ==
  reply # Nil /\ ~options.ipv6 => (Understands(reply) <=> kind \notin Unrecognised)

\* Whoever is offered a boot takes the offer, and finds what it says.
OffersAreSound == OfferIsKept /\ OffersAreUnderstood

\* What the provider can boot.  Left out is what it cannot: over IPv6 the URL in the embedded
\* script is malformed, the script takes the 404 that is to send it to the disk for a failure,
\* there may be no kernel or device tree in the firmware of a Raspberry Pi, and a machine may not
\* be what the proxy takes it for.
Supported(what) ==
  /\ ~options.ipv6
  /\ kind \notin {"itanium", "host"} \cup Misloaded \cup Unrecognised
  /\ kind = "rpi" => ServeRaspberryPi /\ UncheckedFiles \subseteq options.firmware
  /\ what = "disk" => options.bootFromDiskMethod # "http-404"
  /\ what = "agent" /\ options.assets # Nil => ArchOf(Machine[kind].runs) \in options.assets

Steady(what) == provider = "up" /\ decision = what /\ linked # {}

Reaches(what) == []([]Steady(what) /\ program \in {"firmware", "uboot"} => <>(program = what))

\* A machine that boots from the network gets to what it is to run, through lost packets,
\* retries and restarts, once the provider stays up and of one mind (ipxe/patch.go, the embedded
\* script; dhcp/proxy.go, Run).
GetsBooted == \A what \in Booted : Supported(what) => Reaches(what)

\* A machine is sent to its disk by a 404 too (ipxe/boot.go, Boot404: "boot from disk using HTTP
\* 404 response to iPXE"): it is not, as the embedded script tries again, and then reboots.
NotFoundBootsFromDisk == options.bootFromDiskMethod = "http-404" => Reaches("disk")
=============================================================================
