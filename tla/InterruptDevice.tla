--------------------------- MODULE InterruptDevice ---------------------------
(***************************************************************************)
(* The interrupt controller of the native machine                          *)
(* (pr_stage2_interrupt_device.cpp): I_STAT latches the rising edge of     *)
(* each source's line, and the DMA source is a level computed from the     *)
(* per-channel completion flags of DICR.  Registers are sets of sources or *)
(* channels; the operators map a controller to the controller after one    *)
(* register write or one device notification.                              *)
(***************************************************************************)
CONSTANT Channels   \* the DMA channels in use

VBlank == 0
CdRom  == 2
Dma    == 3
Sources == {VBlank, CdRom, Dma}

Controllers == [status : SUBSET Sources, lines : SUBSET Sources, master : BOOLEAN,
                enabled : SUBSET Channels, flags : SUBSET Channels]

\* Controller::Drive(source, true) and Drive(source, false): only a rising
\* line latches its source.
Raise(c, s) == [c EXCEPT !.status = IF s \in c.lines THEN @ ELSE @ \cup {s},
                         !.lines = @ \cup {s}]
Lower(c, s) == [c EXCEPT !.lines = @ \ {s}]

Pulse(c, s) == Lower(Raise(c, s), s)

\* A channel's enable gates new flags only: a flag already latched holds the
\* line whatever the enables become.
DmaMaster(c) == c.master /\ c.flags # {}

RefreshDmaLine(c) == IF DmaMaster(c) THEN Raise(c, Dma) ELSE Lower(c, Dma)

\* I_STAT is write-zero-to-clear; the line is left alone.
Acknowledge(c, s) == [c EXCEPT !.status = @ \ {s}]

WriteDicr(c, enabled, ack) ==
  RefreshDmaLine([c EXCEPT !.master = TRUE, !.enabled = enabled, !.flags = @ \ ack])

Flagged(c, ch) == c.master /\ ch \in c.enabled

NotifyDma(c, ch) ==
  RefreshDmaLine([c EXCEPT !.flags = IF Flagged(c, ch) THEN @ \cup {ch} ELSE @])

\* I_STAT & I_MASK & the registered word.  Every section that clears the mask
\* or the registered bits restores them before its fiber can wait, so the
\* dispatcher always runs with all three sources registered and unmasked.
Pending(c) == c.status

PowerOn == [status |-> {}, lines |-> {}, master |-> FALSE, enabled |-> {}, flags |-> {}]
=============================================================================
