----------------------------- MODULE MCBootChain -----------------------------
(* Instance of BootChain for TLC: every kind of machine, against the default *)
(* options of the provider and each that departs from them.                  *)
EXTENDS BootChain

MCKinds == DOMAIN Machine

Default == [broadcast |-> TRUE, ipv6 |-> FALSE, bootFromDiskMethod |-> "ipxe-exit",
            firmware |-> Nil, assets |-> Nil]

MCOptionSets ==
  {Default,
   [Default EXCEPT !.broadcast = FALSE],
   [Default EXCEPT !.ipv6 = TRUE],
   [Default EXCEPT !.bootFromDiskMethod = "http-404"]}
  \cup {[Default EXCEPT !.firmware = RaspberryPiFiles \cup more, !.bootFromDiskMethod = "ipxe-sanboot"] :
          more \in {{}, {"snp.efi"}}}
  \cup {[Default EXCEPT !.firmware = RaspberryPiFiles \ {missing}] :
          missing \in {"u-boot.bin", "bcm2711-rpi-4-b.dtb", "start4.elf"}}
  \cup {[Default EXCEPT !.assets = assets] : assets \in {{}, {"amd64"}}}

\* A plain PC, and the option in question.
PlainPC == {"bios"}
NotFound == {[Default EXCEPT !.bootFromDiskMethod = "http-404"]}
=============================================================================
