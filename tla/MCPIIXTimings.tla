---------------------------- MODULE MCPIIXTimings ----------------------------
(***************************************************************************)
(* Drives and configurations for model checking PIIXTimings.               *)
(***************************************************************************)
EXTENDS PIIXTimings, TLC

Asks(pio, pioCycle, dma, dmaCycle, udma) ==
  [pio |-> pio, pioCycle |-> pioCycle, dma |-> dma, dmaCycle |-> dmaCycle, udma |-> udma]

MCDrives == {<<0, 0>>, <<0, 1>>, <<1, 0>>}
MCCables == {{}, {<<0, 0>>, <<0, 1>>}}

(* U-DMA above what the cable of the second channel allows, and below; a   *)
(* DMA mode slowed down for the drive, and one with no supported mode      *)
(* below it; DMA and PIO that need different timings; PIO alone.           *)
MCConfigs ==
  <<0, 0>> :> {Asks(4, 120, NoMode, 0, 5), Asks(2, 240, 2, 120, 3),
                Asks(4, 120, NoMode, 0, 2)} @@
  <<0, 1>> :> {Asks(4, 150, 2, 150, NoMode), Asks(3, 200, 1, 300, 3)} @@
  <<1, 0>> :> {Asks(4, 120, NoMode, 0, 4), Asks(3, 200, NoMode, 0, NoMode)}
=============================================================================
