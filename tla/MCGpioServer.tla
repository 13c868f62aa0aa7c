---------------------------- MODULE MCGpioServer ----------------------------
(* GpioServer for TLC, on the first Raspberry Pi: what each client's program *)
(* calls, and how often.                                                     *)
EXTENDS GpioServer, GpioPlatform, TLC

CONSTANTS c1, c2
req(op, p, d, s) == [op |-> op, pin |-> p, direction |-> d, state |-> s]

\* Boards lose pins to what is on board and never gain any: "Commandeers pins
\* for eMMC", "for eMMC and WL18xx" (platform.h:38-39), and the longer header
\* of the Raspberry Pi has the pins of the shorter.
ASSUME PinsCommandeered ==
  /\ HeaderPins("BeagleBoneBlack") \subseteq HeaderPins("BeagleBoneWhite")
  /\ HeaderPins("BeagleBoneGreenWireless") \subseteq HeaderPins("BeagleBoneBlack")
  /\ HeaderPins("RaspberryPi26") \subseteq HeaderPins("RaspberryPi40")

Board == GPIO_Platform_Init("RaspberryPi1", 15)
MCValid == {p \in Pins : GPIO_Platform_Pin_Valid(Board, p)}

\* c1 keeps pin 25, which c2 only reads, and closes pin 27, which c2 opens;
\* only the longer header has pin 26.
MCProgram ==
  (c1 :> {req("open", 25, 1, 0), req("open", 25, 0, 0), req("write", 25, 0, 1),
          req("write", 25, 0, 0), req("close", 25, 0, 0), req("close", 27, 0, 0)})
  @@ (c2 :> {req("open", 27, 1, 1), req("read", 25, 0, 0), req("open", 26, 0, 0),
             req("read", 26, 0, 0), req("write", 26, 0, 1)})
MCMaxCalls == (c1 :> 3) @@ (c2 :> 1)
MCMaxCopies == (c1 :> 2) @@ (c2 :> 1)
=============================================================================
