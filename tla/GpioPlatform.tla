---------------------------- MODULE GpioPlatform ----------------------------
(***************************************************************************)
(* Which GPIO pins a board has: what the GPIO servers ask before they      *)
(* touch a pin (platform.c).                                               *)
(***************************************************************************)
EXTENDS Integers, Sequences

MAX_PLATFORM_PINS == 128

\* One bit for each pin; pin 0 is the first bit of the first byte.
PinTable ==
  [BeagleBoneWhite |->
     <<12, 240, 11, 48, 255, 15, 240, 15, 127, 252, 195, 192, 0, 0, 20, 0>>,
   BeagleBoneBlack |->
     <<12, 240, 11, 48, 0, 15, 240, 12, 127, 252, 195, 192, 0, 0, 20, 0>>,
   BeagleBoneGreenWireless |->
     <<12, 240, 3, 0, 0, 0, 240, 0, 63, 252, 195, 192, 0, 0, 20, 0>>,
   PocketBeagle |->
     <<0, 0, 9, 48, 0, 15, 40, 120, 192, 0, 3, 192, 0, 3, 252, 0>>,
   RaspberryPi26 |->
     <<8, 0, 99, 208, 0, 0, 0, 0, 0, 0, 0, 0, 0, 0, 0, 0>>,
   RaspberryPi40 |->
     <<14, 12, 255, 240, 0, 0, 0, 0, 0, 0, 0, 0, 0, 0, 0, 0>>]

\* Any board whose name has "RaspberryPi" in it.
RaspberryPis ==
  {"RaspberryPi", "RaspberryPi1", "RaspberryPi1Gadget", "RaspberryPi2", "RaspberryPi3",
   "RaspberryPi3Gadget", "RaspberryPi4", "RaspberryPi5", "RaspberryPiZero2W"}

\* The platform of the board that the boot loader calls bn; a server on any
\* other board ends.  Without a revision in /proc/cpuinfo it counts as 0.
GPIO_Platform_Init(bn, revision) ==
  CASE bn = "BeagleBone" -> "BeagleBoneWhite"
    [] bn \in {"BeagleBoneBlack", "BeagleBoneBlackWireless", "BeagleBoneGreen"}
         -> "BeagleBoneBlack"
    [] bn = "BeagleBoneGreenWireless" -> "BeagleBoneGreenWireless"
    [] bn = "PocketBeagle" -> "PocketBeagle"
    [] bn \in RaspberryPis /\ revision <= 15 -> "RaspberryPi26"
    [] bn \in RaspberryPis /\ revision > 15 -> "RaspberryPi40"
    [] OTHER -> "none"

\* A pin beyond the table is one of an expander: nothing is known against it.
GPIO_Platform_Pin_Valid(platform, pin) ==
  \/ pin >= MAX_PLATFORM_PINS
  \/ (PinTable[platform][(pin \div 8) + 1] \div 2 ^ (7 - (pin % 8))) % 2 = 1

\* All the pins of the header.
HeaderPins(platform) ==
  {pin \in 0..MAX_PLATFORM_PINS - 1 : GPIO_Platform_Pin_Valid(platform, pin)}
=============================================================================
