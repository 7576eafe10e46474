-------------------------- MODULE IrqDispatch_proofs --------------------------
(***************************************************************************)
(* The dispatcher, for every set of channels and every bound: nothing that *)
(* is owed is lost sight of, a pass leaves at most a cleared table behind, *)
(* and a dispatch comes to an end, also when its VBlank callback gives way. *)
(***************************************************************************)
EXTENDS IrqDispatch, TLAPS, FiniteSetTheorems

\* The DMA line is the level of the completion flags, which are raised under
\* the master enable only; the CD line is the drive's flag; the VBlank line is
\* low between pulses.
LinesOK ==
  /\ ctl.flags # {} => ctl.master
  /\ Dma \in ctl.lines <=> ctl.flags # {}
  /\ CdRom \in ctl.lines <=> cd # "none"
  /\ VBlank \notin ctl.lines

\* The dispatcher serves only what is latched, and returns only when nothing
\* is: a scanout edge is delivered to a controller that has none latched.  None
\* is delivered while the task waits for the screen.
DispatchOK ==
  /\ pending \subseteq ctl.status
  /\ phase \in {"foreground", "begin"} => irq = "none"
  /\ VBlank \in ctl.status => irq # "none" /\ ~screen
  /\ screen => irq \notin {"vblank", "table", "full"}

IrqInv == TypeOK /\ LinesOK /\ DispatchOK /\ NoStrandedDma /\ NoStrandedCd /\ VBlankCounted

-----------------------------------------------------------------------------
(* What the controller's operators do to each register. *)

LEMMA SetFacts ==
  /\ \A S, x : x \in S => S \cup {x} = S
  /\ \A S, x : x \notin S => S \ {x} = S
  /\ \A S, x : x \notin S => (S \cup {x}) \ {x} = S
  /\ \A S : S \ {} = S
  OBVIOUS

LEMMA RaiseFields ==
  ASSUME NEW c \in Controllers, NEW s \in Sources
  PROVE  /\ Raise(c, s) \in Controllers
         /\ s \in c.lines => Raise(c, s).status = c.status
         /\ s \notin c.lines => Raise(c, s).status = c.status \cup {s}
         /\ Raise(c, s).lines = c.lines \cup {s}
         /\ Raise(c, s).master = c.master
         /\ Raise(c, s).flags = c.flags
  BY DEF Raise, Controllers

LEMMA LowerFields ==
  ASSUME NEW c \in Controllers, NEW s \in Sources
  PROVE  /\ Lower(c, s) \in Controllers
         /\ Lower(c, s).status = c.status
         /\ Lower(c, s).lines = c.lines \ {s}
         /\ Lower(c, s).master = c.master
         /\ Lower(c, s).flags = c.flags
  BY DEF Lower, Controllers

LEMMA PulseFields ==
  ASSUME NEW c \in Controllers, VBlank \notin c.lines
  PROVE  /\ Pulse(c, VBlank) \in Controllers
         /\ Pulse(c, VBlank).status = c.status \cup {VBlank}
         /\ Pulse(c, VBlank).lines = c.lines
         /\ Pulse(c, VBlank).master = c.master
         /\ Pulse(c, VBlank).flags = c.flags
<1>1. VBlank \in Sources
  BY DEF Sources
<1> DEFINE d == Raise(c, VBlank)
<1>2. /\ d \in Controllers /\ d.master = c.master /\ d.flags = c.flags
      /\ d.status = c.status \cup {VBlank} /\ d.lines = c.lines \cup {VBlank}
  BY <1>1, RaiseFields
<1>3. Pulse(c, VBlank) = Lower(d, VBlank)
  BY DEF Pulse
<1> HIDE DEF d
<1>4. d.lines \ {VBlank} = c.lines
  BY <1>2, SetFacts
<1>5. /\ Pulse(c, VBlank) \in Controllers /\ Pulse(c, VBlank).status = d.status
      /\ Pulse(c, VBlank).lines = d.lines \ {VBlank}
      /\ Pulse(c, VBlank).master = d.master /\ Pulse(c, VBlank).flags = d.flags
  BY <1>1, <1>2, <1>3, LowerFields
<1>6. QED
  BY <1>2, <1>4, <1>5

LEMMA AcknowledgeFields ==
  ASSUME NEW c \in Controllers, NEW s \in Sources
  PROVE  /\ Acknowledge(c, s) \in Controllers
         /\ Acknowledge(c, s).status = c.status \ {s}
         /\ Acknowledge(c, s).lines = c.lines
         /\ Acknowledge(c, s).master = c.master
         /\ Acknowledge(c, s).flags = c.flags
  BY DEF Acknowledge, Controllers

\* A refresh of a controller whose flags are raised under the master enable
\* only: the line becomes the level of the flags, and latches when it rises.
LEMMA RefreshFields ==
  ASSUME NEW c \in Controllers, c.flags # {} => c.master
  PROVE  /\ RefreshDmaLine(c) \in Controllers
         /\ c.flags # {} /\ Dma \notin c.lines => RefreshDmaLine(c).status = c.status \cup {Dma}
         /\ c.flags = {} \/ Dma \in c.lines => RefreshDmaLine(c).status = c.status
         /\ c.flags # {} => RefreshDmaLine(c).lines = c.lines \cup {Dma}
         /\ c.flags = {} => RefreshDmaLine(c).lines = c.lines \ {Dma}
         /\ RefreshDmaLine(c).master = c.master
         /\ RefreshDmaLine(c).flags = c.flags
<1>1. Dma \in Sources
  BY DEF Sources
<1>2. CASE c.flags # {}
  <2>1. RefreshDmaLine(c) = Raise(c, Dma)
    BY <1>2 DEF RefreshDmaLine, DmaMaster
  <2>2. QED
    BY <1>1, <1>2, <2>1, RaiseFields
<1>3. CASE c.flags = {}
  <2>1. RefreshDmaLine(c) = Lower(c, Dma)
    BY <1>3 DEF RefreshDmaLine, DmaMaster
  <2>2. QED
    BY <1>1, <1>3, <2>1, LowerFields
<1>4. QED
  BY <1>2, <1>3

\* A write of DICR that acknowledges the flags in a, from a controller whose
\* DMA line follows its flags: nothing is latched.
LEMMA WriteDicrFields ==
  ASSUME NEW c \in Controllers, NEW e, NEW a, e \subseteq Channels, a \subseteq Channels,
         Dma \in c.lines <=> c.flags # {}
  PROVE  /\ WriteDicr(c, e, a) \in Controllers
         /\ WriteDicr(c, e, a).status = c.status
         /\ c.flags \ a # {} => WriteDicr(c, e, a).lines = c.lines
         /\ c.flags \ a = {} => WriteDicr(c, e, a).lines = c.lines \ {Dma}
         /\ WriteDicr(c, e, a).master
         /\ WriteDicr(c, e, a).flags = c.flags \ a
<1> DEFINE d == [c EXCEPT !.master = TRUE, !.enabled = e, !.flags = @ \ a]
<1>1. d \in Controllers /\ d.status = c.status /\ d.lines = c.lines
      /\ d.master = TRUE /\ d.flags = c.flags \ a
  BY DEF Controllers
<1>2. WriteDicr(c, e, a) = RefreshDmaLine(d)
  BY DEF WriteDicr
<1> HIDE DEF d
<1>3. d.flags # {} => Dma \in d.lines /\ d.lines \cup {Dma} = d.lines
  BY <1>1, SetFacts
<1>4. QED
  BY <1>1, <1>2, <1>3, RefreshFields

LEMMA WriteEnableFields ==
  ASSUME NEW c \in Controllers, NEW e, e \subseteq Channels, Dma \in c.lines <=> c.flags # {}
  PROVE  /\ WriteDicr(c, e, {}) \in Controllers
         /\ WriteDicr(c, e, {}).status = c.status
         /\ WriteDicr(c, e, {}).lines = c.lines
         /\ WriteDicr(c, e, {}).master
         /\ WriteDicr(c, e, {}).flags = c.flags
<1> DEFINE a == {}
<1>1. a \subseteq Channels /\ c.flags \ a = c.flags
  BY SetFacts
<1>2. c.flags = {} => c.lines \ {Dma} = c.lines
  BY SetFacts
<1> HIDE DEF a
<1>3. /\ WriteDicr(c, e, a) \in Controllers
      /\ WriteDicr(c, e, a).status = c.status
      /\ WriteDicr(c, e, a).master
      /\ WriteDicr(c, e, a).flags = c.flags \ a
      /\ c.flags \ a # {} => WriteDicr(c, e, a).lines = c.lines
      /\ c.flags \ a = {} => WriteDicr(c, e, a).lines = c.lines \ {Dma}
  BY <1>1, WriteDicrFields
<1>4. WriteDicr(c, e, a).flags = c.flags /\ WriteDicr(c, e, a).lines = c.lines
  BY <1>1, <1>2, <1>3
<1>5. QED
  BY <1>3, <1>4 DEF a

LEMMA NotifyFields ==
  ASSUME NEW c \in Controllers, NEW ch \in Channels, c.flags # {} => c.master,
         Dma \in c.lines <=> c.flags # {}
  PROVE  /\ NotifyDma(c, ch) \in Controllers
         /\ Flagged(c, ch) => NotifyDma(c, ch).flags = c.flags \cup {ch}
         /\ ~Flagged(c, ch) => NotifyDma(c, ch).flags = c.flags
         /\ c.status \subseteq NotifyDma(c, ch).status
         /\ NotifyDma(c, ch).status \subseteq c.status \cup {Dma}
         /\ c.flags = {} /\ NotifyDma(c, ch).flags # {} => Dma \in NotifyDma(c, ch).status
         /\ NotifyDma(c, ch).flags # {} => NotifyDma(c, ch).lines = c.lines \cup {Dma}
         /\ NotifyDma(c, ch).flags = {} => NotifyDma(c, ch).lines = c.lines \ {Dma}
         /\ NotifyDma(c, ch).master = c.master
         /\ NotifyDma(c, ch).flags # {} => c.master
<1> DEFINE d == [c EXCEPT !.flags = IF Flagged(c, ch) THEN @ \cup {ch} ELSE @]
<1>1. d \in Controllers /\ d.status = c.status /\ d.lines = c.lines /\ d.master = c.master
      /\ (Flagged(c, ch) => d.flags = c.flags \cup {ch}) /\ (~Flagged(c, ch) => d.flags = c.flags)
  BY DEF Controllers
<1>2. NotifyDma(c, ch) = RefreshDmaLine(d)
  BY DEF NotifyDma
<1>3. d.flags # {} => d.master
  BY <1>1 DEF Flagged
<1> HIDE DEF d
<1>4. QED
  BY <1>1, <1>2, <1>3, RefreshFields

-----------------------------------------------------------------------------
LEMMA InitInv == Init => IrqInv
<1> SUFFICES ASSUME Init PROVE IrqInv
  OBVIOUS
<1>1. TypeOK
  <2>1. ctl \in Controllers
    BY DEF Init, Controllers, PowerOn
  <2>2. left \in 0..Submissions /\ queue \in 0..QueueSize /\ wall + edges <= MaxBlanks
    BY IrqAssumption DEF Init
  <2>3. pending \subseteq Sources /\ chans \subseteq Channels /\ installed \subseteq Channels
        /\ busy \subseteq Channels /\ owed \subseteq Channels
    BY DEF Init
  <2>4. edges \in Nat /\ wall \in Nat /\ ticks \in Nat /\ replies \in 0..2
    BY DEF Init
  <2>5. /\ cd \in {"none", "reply", "sector"}
        /\ phase \in {"foreground", "begin", "devices", "last"}
        /\ irq \in {"none", "scan", "vblank", "table", "full", "source", "dma", "channel"}
    BY DEF Init
  <2>6. screen \in BOOLEAN
    BY Zenon DEF Init
  <2>7. QED
    BY <2>1, <2>2, <2>3, <2>4, <2>5, <2>6 DEF TypeOK
<1>2. LinesOK /\ DispatchOK /\ NoStrandedDma /\ NoStrandedCd /\ VBlankCounted
  BY DEF Init, PowerOn, LinesOK, DispatchOK, NoStrandedDma, NoStrandedCd, VBlankCounted
<1>3. QED
  BY <1>1, <1>2 DEF IrqInv

LEMMA SetDmaCallbackInv ==
  ASSUME IrqInv, NEW c \in Channels, SetDmaCallback(c) PROVE IrqInv'
<1> USE DEF IrqInv
<1>1. PICK e \in SUBSET Channels : ctl' = WriteDicr(ctl, e, {})
  BY DEF SetDmaCallback, TypeOK, Controllers
<1>2. /\ ctl' \in Controllers /\ ctl'.flags = ctl.flags /\ ctl'.master
      /\ ctl'.status = ctl.status /\ ctl'.lines = ctl.lines
  <2>1. ctl \in Controllers /\ e \subseteq Channels /\ (Dma \in ctl.lines <=> ctl.flags # {})
    BY DEF TypeOK, LinesOK
  <2>2. QED
    BY <1>1, <2>1, WriteEnableFields
<1>3. TypeOK'
  <2>1. installed' \subseteq Channels
    BY DEF SetDmaCallback, TypeOK
  <2>2. UNCHANGED <<device, clock, host, control, owed>>
    BY DEF SetDmaCallback
  <2>3. QED
    BY <1>2, <2>1, <2>2 DEF TypeOK, device, clock, host, control
<1>4. LinesOK' /\ DispatchOK' /\ NoStrandedDma' /\ NoStrandedCd' /\ VBlankCounted'
  BY <1>2 DEF SetDmaCallback, LinesOK, DispatchOK, NoStrandedDma, NoStrandedCd, VBlankCounted,
              device, clock, host, control
<1>5. QED
  BY <1>3, <1>4

\* A completion, in a pass or at its end.
LEMMA NotifyInv ==
  ASSUME IrqInv, NEW c \in Channels, Notify(c),
         phase' = phase \/ (phase' = "foreground" /\ irq = "none"),
         UNCHANGED <<installed, queue, cd, replies, clock, screen, control>>
  PROVE  IrqInv'
<1> USE DEF IrqInv
<1>1. ctl' = NotifyDma(ctl, c) /\ ctl \in Controllers /\ (ctl.flags # {} => ctl.master)
      /\ (Dma \in ctl.lines <=> ctl.flags # {})
  BY DEF Notify, TypeOK, LinesOK
<1>2. /\ ctl' \in Controllers /\ ctl'.master = ctl.master
      /\ Flagged(ctl, c) => ctl'.flags = ctl.flags \cup {c}
      /\ ~Flagged(ctl, c) => ctl'.flags = ctl.flags
      /\ ctl.status \subseteq ctl'.status /\ ctl'.status \subseteq ctl.status \cup {Dma}
      /\ ctl.flags = {} /\ ctl'.flags # {} => Dma \in ctl'.status
      /\ ctl'.flags # {} => ctl'.lines = ctl.lines \cup {Dma}
      /\ ctl'.flags = {} => ctl'.lines = ctl.lines \ {Dma}
      /\ ctl'.flags # {} => ctl.master
  BY <1>1, NotifyFields
<1>3. TypeOK'
  BY <1>2 DEF Notify, TypeOK, clock, control
<1>4. LinesOK'
  BY <1>2 DEF LinesOK, Dma, CdRom, VBlank
<1>5. (VBlank \in ctl'.status <=> VBlank \in ctl.status) /\ (CdRom \in ctl.status => CdRom \in ctl'.status)
  BY <1>2 DEF Dma, CdRom, VBlank
<1>6. DispatchOK' /\ NoStrandedCd' /\ VBlankCounted'
  BY <1>2, <1>5 DEF DispatchOK, NoStrandedCd, VBlankCounted, clock, control
<1>7. owed' \subseteq ctl'.flags
  BY <1>2 DEF Notify, NoStrandedDma
<1>8. NoStrandedDma'
  BY <1>2, <1>7 DEF NoStrandedDma, control
<1>9. QED
  BY <1>3, <1>4, <1>6, <1>8

LEMMA CompleteInv ==
  ASSUME IrqInv, NEW c \in Channels, Complete(c) PROVE IrqInv'
<1>1. Notify(c)
  BY DEF Complete
<1>2. phase' = phase
  BY DEF Complete, host
<1>3. UNCHANGED <<installed, queue, cd, replies, clock, screen, control>>
  BY DEF Complete, host
<1>4. QED
  BY <1>1, <1>2, <1>3, NotifyInv

LEMMA FinishPassInv == ASSUME IrqInv, FinishPass PROVE IrqInv'
<1>1. /\ irq = "none" /\ phase' = "foreground" /\ OtcChannel \in Channels
      /\ UNCHANGED <<installed, queue, cd, replies, clock, screen, control>>
  BY IrqAssumption DEF FinishPass
<1>2. CASE OtcChannel \in busy
  <2>1. Notify(OtcChannel)
    BY <1>2 DEF FinishPass
  <2>2. QED
    BY <1>1, <2>1, NotifyInv
<1>3. CASE OtcChannel \notin busy
  <2>1. UNCHANGED <<busy, ctl, owed>>
    BY <1>3 DEF FinishPass
  <2>2. QED
    BY <1>1, <2>1 DEF IrqInv, TypeOK, LinesOK, DispatchOK, NoStrandedDma, NoStrandedCd,
       VBlankCounted, clock, control
<1>4. QED
  BY <1>2, <1>3

\* The drive's two ways of publishing share everything but the kind.
LEMMA PublishInv ==
  ASSUME IrqInv, NEW kind \in {"reply", "sector"}, Publish(kind), replies' \in 0..2,
         UNCHANGED <<installed, busy, queue, clock, host, control, owed>>
  PROVE  IrqInv'
<1> USE DEF IrqInv
<1>1. ctl' = Raise(ctl, CdRom) /\ ctl \in Controllers /\ CdRom \in Sources
  BY DEF Publish, TypeOK, Sources
<1>2. /\ ctl' \in Controllers /\ ctl'.master = ctl.master /\ ctl'.flags = ctl.flags
      /\ CdRom \notin ctl.lines => ctl'.status = ctl.status \cup {CdRom}
      /\ ctl'.lines = ctl.lines \cup {CdRom}
  BY <1>1, RaiseFields
<1>3. TypeOK'
  BY <1>2 DEF Publish, TypeOK, clock, host, control
<1>4. cd = "none" /\ cd' \in {"reply", "sector"} /\ CdRom \notin ctl.lines
  BY DEF Publish, LinesOK
<1>5. ctl'.status = ctl.status \cup {CdRom}
  BY <1>2, <1>4
<1>6. LinesOK'
  BY <1>2, <1>4 DEF LinesOK, Dma, CdRom, VBlank
<1>7. VBlank \in ctl'.status <=> VBlank \in ctl.status
  BY <1>5 DEF CdRom, VBlank
<1>8. DispatchOK' /\ VBlankCounted'
  BY <1>5, <1>7 DEF DispatchOK, VBlankCounted, clock, host, control
<1>9. NoStrandedDma' /\ NoStrandedCd'
  BY <1>2, <1>5 DEF NoStrandedDma, NoStrandedCd, control
<1>10. QED
  BY <1>3, <1>6, <1>8, <1>9

LEMMA DeliverEdgeInv == ASSUME IrqInv, DeliverEdge PROVE IrqInv'
<1> USE DEF IrqInv
<1>1. ctl' = Pulse(ctl, VBlank) /\ ctl \in Controllers /\ VBlank \notin ctl.lines
  BY DEF DeliverEdge, TypeOK, LinesOK
<1>2. /\ ctl' \in Controllers /\ ctl'.status = ctl.status \cup {VBlank} /\ ctl'.lines = ctl.lines
      /\ ctl'.master = ctl.master /\ ctl'.flags = ctl.flags
  BY <1>1, PulseFields
<1>3. irq = "none" /\ VBlank \notin ctl.status
  BY DEF DeliverEdge, DispatchOK
<1>4. irq' = "scan" /\ pending' = ctl'.status
  BY <1>2 DEF DeliverEdge, Dispatch, Pending
<1>5. ctl'.status \subseteq Sources
  BY <1>2 DEF Controllers
<1>6. edges' \in Nat /\ wall' \in Nat /\ wall' + edges' <= MaxBlanks /\ ticks' \in Nat
  BY IrqAssumption DEF DeliverEdge, TypeOK
<1>7. TypeOK'
  BY <1>2, <1>4, <1>5, <1>6 DEF DeliverEdge, Dispatch, TypeOK, device
<1>8. VBlankCounted'
  BY <1>2, <1>3 DEF DeliverEdge, VBlankCounted, TypeOK
<1>9. LinesOK' /\ DispatchOK' /\ NoStrandedDma' /\ NoStrandedCd'
  BY <1>2, <1>3, <1>4 DEF DeliverEdge, Dispatch, LinesOK, DispatchOK, NoStrandedDma, NoStrandedCd, device
<1>10. QED
  BY <1>7, <1>8, <1>9

LEMMA EndPassInv == ASSUME IrqInv, EndPass PROVE IrqInv'
<1> USE DEF IrqInv
<1>1. TypeOK'
  BY DEF EndPass, Servicing, Dispatch, Pending, TypeOK, Controllers, device, clock
<1>2. LinesOK' /\ DispatchOK' /\ NoStrandedDma' /\ NoStrandedCd' /\ VBlankCounted'
  BY DEF EndPass, Servicing, Dispatch, Pending, LinesOK, DispatchOK, NoStrandedDma, NoStrandedCd,
         VBlankCounted, device, clock
<1>3. QED
  BY <1>1, <1>2

LEMMA ServeSourceInv == ASSUME IrqInv, ServeSource PROVE IrqInv'
<1> USE DEF IrqInv
<1>1. PICK s \in pending :
        /\ irq = "scan" /\ pending' = pending \ {s} /\ ctl' = Acknowledge(ctl, s)
        /\ \/ s = VBlank /\ irq' = "vblank" /\ ticks' = ticks + 1 /\ left' = Submissions
              /\ UNCHANGED chans
           \/ s = CdRom /\ irq' = "source" /\ UNCHANGED <<ticks, left, chans>>
           \/ s = Dma /\ irq' = "dma" /\ chans' = ctl.flags /\ UNCHANGED <<ticks, left>>
        /\ UNCHANGED <<installed, device, edges, wall, host, owed>>
  BY DEF ServeSource
<1>2. s \in Sources /\ s \in ctl.status /\ ctl \in Controllers
  BY DEF TypeOK, DispatchOK
<1>3. /\ ctl' \in Controllers /\ ctl'.status = ctl.status \ {s} /\ ctl'.lines = ctl.lines
      /\ ctl'.master = ctl.master /\ ctl'.flags = ctl.flags
  BY <1>1, <1>2, AcknowledgeFields
<1>4. \/ s = VBlank /\ irq' = "vblank" /\ chans' = chans /\ ticks' = ticks + 1
      \/ s = CdRom /\ irq' = "source" /\ chans' = chans /\ ticks' = ticks
      \/ s = Dma /\ irq' = "dma" /\ chans' = ctl.flags /\ ticks' = ticks
  BY <1>1
<1>5. ticks' \in Nat /\ chans' \subseteq Channels /\ left' \in 0..Submissions
  <2>1. ticks' \in Nat /\ chans' \subseteq Channels
    BY <1>4 DEF TypeOK, Controllers
  <2>2. Submissions \in 0..Submissions
    BY IrqAssumption
  <2>3. left' = left \/ left' = Submissions
    BY <1>1
  <2>4. QED
    BY <2>1, <2>2, <2>3 DEF TypeOK
<1>6. TypeOK'
  BY <1>1, <1>3, <1>4, <1>5 DEF TypeOK, device, host
<1>7. LinesOK' /\ DispatchOK'
  <2>1. s = VBlank => ~screen
    BY <1>2 DEF DispatchOK
  <2>2. phase \notin {"foreground", "begin"}
    BY <1>1 DEF DispatchOK
  <2>3. QED
    BY <1>1, <1>3, <1>4, <2>1, <2>2 DEF LinesOK, DispatchOK, device, host
<1>8. NoStrandedDma' /\ NoStrandedCd'
  BY <1>1, <1>3, <1>4 DEF NoStrandedDma, NoStrandedCd, device, VBlank, CdRom, Dma
<1>9. VBlankCounted'
  <2>1. CASE s = VBlank
    <3>1. VBlank \in ctl.status /\ VBlank \notin ctl'.status /\ ticks' = ticks + 1 /\ wall' = wall
      BY <1>1, <1>2, <1>3, <2>1 DEF VBlank, CdRom, Dma
    <3>2. QED
      BY <3>1 DEF VBlankCounted, TypeOK
  <2>2. CASE s # VBlank
    <3>1. (VBlank \in ctl'.status <=> VBlank \in ctl.status) /\ ticks' = ticks /\ wall' = wall
      BY <1>1, <1>3, <2>2
    <3>2. QED
      BY <3>1 DEF VBlankCounted
  <2>3. QED
    BY <2>1, <2>2
<1>10. QED
  BY <1>6, <1>7, <1>8, <1>9

LEMMA ScanAgainInv == ASSUME IrqInv, ScanAgain PROVE IrqInv'
<1> USE DEF IrqInv
<1>1. TypeOK'
  BY DEF ScanAgain, Pending, TypeOK, Controllers, device, clock, host
<1>2. LinesOK' /\ DispatchOK' /\ NoStrandedDma' /\ NoStrandedCd' /\ VBlankCounted'
  BY DEF ScanAgain, Pending, LinesOK, DispatchOK, NoStrandedDma, NoStrandedCd, VBlankCounted,
         device, clock, host
<1>3. QED
  BY <1>1, <1>2

\* Lowering the CD line, and rewriting the ring channel's enable, latch nothing.
LEMMA ServeCdInv == ASSUME IrqInv, ServeCd PROVE IrqInv'
<1> USE DEF IrqInv
<1> DEFINE low == Lower(ctl, CdRom)
<1>1. CdRom \in Sources /\ ctl \in Controllers
  BY DEF Sources, TypeOK
<1>2. /\ low \in Controllers /\ low.master = ctl.master /\ low.flags = ctl.flags
      /\ low.status = ctl.status /\ low.lines = ctl.lines \ {CdRom}
  BY <1>1, LowerFields
<1>3. \/ ctl' = low
      \/ \E e \in SUBSET Channels : ctl' = WriteDicr(low, e, {})
  BY <1>1, IrqAssumption DEF ServeCd, Controllers
<1> HIDE DEF low
<1>4. /\ ctl' \in Controllers /\ ctl'.flags = ctl.flags /\ (ctl.flags # {} => ctl'.master)
      /\ ctl'.status = ctl.status /\ ctl'.lines = ctl.lines \ {CdRom}
  <2>1. CASE ctl' = low
    BY <1>2, <2>1 DEF LinesOK
  <2>2. CASE \E e \in SUBSET Channels : ctl' = WriteDicr(low, e, {})
    <3>1. Dma \in low.lines <=> low.flags # {}
      BY <1>2 DEF LinesOK, Dma, CdRom
    <3>2. PICK e \in SUBSET Channels : ctl' = WriteDicr(low, e, {})
      BY <2>2
    <3>3. e \subseteq Channels
      OBVIOUS
    <3>4. /\ ctl' \in Controllers /\ ctl'.flags = low.flags /\ ctl'.master
          /\ ctl'.status = low.status /\ ctl'.lines = low.lines
      BY <1>2, <3>1, <3>2, <3>3, WriteEnableFields
    <3>5. QED
      BY <1>2, <3>4
  <2>3. QED
    BY <1>2, <1>3, <2>1, <2>2
<1>5. cd' = "none" /\ busy' \subseteq Channels
      /\ UNCHANGED <<installed, queue, replies, clock, host, control, owed>>
  BY IrqAssumption DEF ServeCd, TypeOK
<1>6. TypeOK'
  BY <1>4, <1>5 DEF TypeOK, clock, host, control
<1>7. LinesOK' /\ DispatchOK' /\ NoStrandedDma' /\ NoStrandedCd' /\ VBlankCounted'
  BY <1>4, <1>5 DEF LinesOK, DispatchOK, NoStrandedDma, NoStrandedCd, VBlankCounted,
                    clock, host, control, Dma, CdRom, VBlank
<1>8. QED
  BY <1>6, <1>7

LEMMA ServeChannelInv == ASSUME IrqInv, ServeChannel PROVE IrqInv'
<1> USE DEF IrqInv
<1>1. PICK c \in chans :
        /\ irq = "dma" /\ chans' = chans \ {c} /\ ctl' = WriteDicr(ctl, ctl.enabled, {c})
        /\ owed' = owed \ {c} /\ irq' = (IF c \in installed THEN "channel" ELSE "dma")
        /\ UNCHANGED <<installed, device, clock, host, pending, left>>
  BY DEF ServeChannel
<1>2. c \in Channels /\ ctl \in Controllers /\ ctl.enabled \subseteq Channels /\ {c} \subseteq Channels
      /\ (Dma \in ctl.lines <=> ctl.flags # {})
  BY DEF TypeOK, Controllers, LinesOK
<1>3. /\ ctl' \in Controllers /\ ctl'.flags = ctl.flags \ {c} /\ ctl'.master
      /\ ctl'.status = ctl.status
      /\ ctl'.flags # {} => ctl'.lines = ctl.lines
      /\ ctl'.flags = {} => ctl'.lines = ctl.lines \ {Dma}
  BY <1>1, <1>2, WriteDicrFields
<1>4. Dma \in ctl.lines <=> ctl.flags # {}
  BY DEF LinesOK
<1>5. irq' \in {"dma", "channel"}
  BY <1>1
<1>6. TypeOK'
  BY <1>1, <1>3, <1>5 DEF TypeOK, device, clock, host
<1>7. LinesOK'
  BY <1>1, <1>3, <1>4 DEF LinesOK, device, Dma, CdRom, VBlank
<1>8. DispatchOK' /\ VBlankCounted'
  BY <1>1, <1>3, <1>5 DEF DispatchOK, VBlankCounted, clock, host
<1>9. NoStrandedDma' /\ NoStrandedCd'
  BY <1>1, <1>3, <1>5 DEF NoStrandedDma, NoStrandedCd, device
<1>10. QED
  BY <1>6, <1>7, <1>8, <1>9

\* What a VBlank callback submits, and its waits: they leave the controller,
\* the clock and the host's pass alone.
LEMMA CallbackInv ==
  ASSUME IrqInv,
         ClearTable \/ TableCleared \/ QueueFull \/ DrainFull \/ SlotFree \/ VBlankReturn
  PROVE  IrqInv'
<1> USE DEF IrqInv
<1>1. irq \in {"vblank", "table", "full"} /\ phase \notin {"foreground", "begin"} /\ ~screen
  <2>1. irq \in {"vblank", "table", "full"}
    BY DEF ClearTable, TableCleared, QueueFull, DrainFull, SlotFree, VBlankReturn, Submits
  <2>2. QED
    BY <2>1 DEF DispatchOK
<1>2. /\ UNCHANGED <<ctl, installed, cd, replies, clock, host, pending, chans, owed>>
      /\ irq' \in {"scan", "vblank", "table", "full"}
      /\ busy' \subseteq Channels
  BY <1>1, IrqAssumption DEF ClearTable, TableCleared, QueueFull, DrainFull, SlotFree, VBlankReturn,
     Submits, TypeOK, device, control
<1>3. queue' \in 0..QueueSize /\ left' \in 0..Submissions
  BY IrqAssumption DEF ClearTable, TableCleared, QueueFull, DrainFull, SlotFree, VBlankReturn,
     Submits, TypeOK, device, control
<1>4. TypeOK'
  BY <1>2, <1>3 DEF TypeOK, clock, host
<1>5. LinesOK' /\ DispatchOK' /\ NoStrandedDma' /\ NoStrandedCd' /\ VBlankCounted'
  BY <1>1, <1>2 DEF LinesOK, DispatchOK, NoStrandedDma, NoStrandedCd, VBlankCounted, clock, host
<1>6. QED
  BY <1>4, <1>5

\* The remaining actions leave the controller alone.
LEMMA QuietInv ==
  ASSUME IrqInv,
         \/ Enqueue \/ Command \/ SampleEdge \/ BeginPass \/ NoEdge
         \/ CdReturn \/ ChannelReturn \/ DmaAgain
         \/ \E c \in Channels : Start(c)
  PROVE  IrqInv'
<1> USE DEF IrqInv
<1>1. edges' \in Nat /\ wall' \in Nat /\ ticks' \in Nat /\ wall' + edges' <= MaxBlanks
  <2>1. CASE SampleEdge
    BY <2>1, IrqAssumption DEF SampleEdge, TypeOK
  <2>2. CASE ~SampleEdge
    BY <2>2 DEF Enqueue, Command, BeginPass, NoEdge, CdReturn, ChannelReturn, DmaAgain, Start,
                TypeOK, clock
  <2>3. QED
    BY <2>1, <2>2
<1>2. queue' \in 0..QueueSize /\ left' \in 0..Submissions
  BY IrqAssumption DEF Enqueue, Submits, Command, SampleEdge, BeginPass, NoEdge, CdReturn,
     ChannelReturn, DmaAgain, Start, TypeOK, device, control
<1>3. /\ ctl' = ctl /\ cd' = cd /\ owed' = owed /\ pending' = pending /\ installed' = installed
      /\ busy' \subseteq Channels /\ replies' \in 0..2 /\ chans' \subseteq Channels
      /\ ticks' = ticks /\ wall' = wall /\ screen' = screen
  BY DEF Enqueue, Command, SampleEdge, BeginPass, NoEdge, CdReturn, ChannelReturn, DmaAgain, Start,
         TypeOK, Controllers, device, clock, host, control
<1>4. /\ phase' \in {"foreground", "begin", "devices", "last"}
      /\ irq' \in {"none", "scan", "vblank", "table", "full", "source", "dma", "channel"}
      /\ irq' = "none" <=> irq = "none"
      /\ irq' \in {"vblank", "table", "full"} => irq' = irq
      /\ phase' \in {"foreground", "begin"} => irq' = "none"
  BY DEF Enqueue, Command, SampleEdge, BeginPass, NoEdge, CdReturn, ChannelReturn, DmaAgain, Start,
         TypeOK, DispatchOK, device, clock, host, control
<1>5. NoStrandedDma' /\ NoStrandedCd'
  BY DEF Enqueue, Command, SampleEdge, BeginPass, NoEdge, CdReturn, ChannelReturn, DmaAgain, Start,
         NoStrandedDma, NoStrandedCd, device, clock, host, control
<1>6. TypeOK'
  BY <1>1, <1>2, <1>3, <1>4 DEF TypeOK
<1>7. LinesOK' /\ DispatchOK' /\ VBlankCounted'
  BY <1>3, <1>4 DEF LinesOK, DispatchOK, VBlankCounted
<1>8. QED
  BY <1>5, <1>6, <1>7

\* The task begins, or ends, to wait for the screen: no edge is latched then.
LEMMA ScreenInv == ASSUME IrqInv, AwaitScreen \/ ScreenShown PROVE IrqInv'
<1> USE DEF IrqInv
<1>1. phase = "foreground" /\ irq = "none" /\ VBlank \notin ctl.status
  BY DEF AwaitScreen, ScreenShown, Foreground, DispatchOK
<1>2. /\ UNCHANGED <<ctl, installed, device, clock, control, owed>>
      /\ phase' \in {"foreground", "begin"} /\ screen' \in BOOLEAN
  BY <1>1 DEF AwaitScreen, ScreenShown
<1>3. QED
  BY <1>1, <1>2 DEF TypeOK, LinesOK, DispatchOK, NoStrandedDma, NoStrandedCd, VBlankCounted,
     device, clock, control

LEMMA StepInv == IrqInv /\ [Next]_vars => IrqInv'
<1> SUFFICES ASSUME IrqInv, [Next]_vars PROVE IrqInv'
  OBVIOUS
<1>1. CASE \E c \in Channels : SetDmaCallback(c)
  BY <1>1, SetDmaCallbackInv
<1>2. CASE \E c \in Channels : Complete(c)
  BY <1>2, CompleteInv
<1>3. CASE CdReply \/ CdSector
  <2>1. /\ \E kind \in {"reply", "sector"} : Publish(kind)
        /\ UNCHANGED <<installed, busy, queue, clock, host, control, owed>>
    BY <1>3 DEF CdReply, CdSector
  <2>2. replies' \in 0..2
    BY <1>3 DEF CdReply, CdSector, IrqInv, TypeOK
  <2>3. QED
    BY <2>1, <2>2, PublishInv
<1>4. CASE DeliverEdge
  BY <1>4, DeliverEdgeInv
<1>5. CASE EndPass
  BY <1>5, EndPassInv
<1>6. CASE ServeSource
  BY <1>6, ServeSourceInv
<1>7. CASE ScanAgain
  BY <1>7, ScanAgainInv
<1>8. CASE ServeCd
  BY <1>8, ServeCdInv
<1>9. CASE ServeChannel
  BY <1>9, ServeChannelInv
<1>10. CASE \/ Enqueue \/ Command \/ SampleEdge \/ BeginPass \/ NoEdge
            \/ CdReturn \/ ChannelReturn \/ DmaAgain
            \/ \E c \in Channels : Start(c)
  BY <1>10, QuietInv
<1>11. CASE ClearTable \/ TableCleared \/ QueueFull \/ DrainFull \/ SlotFree \/ VBlankReturn
  BY <1>11, CallbackInv
<1>12. CASE AwaitScreen \/ ScreenShown
  BY <1>12, ScreenInv
<1>13. CASE FinishPass
  BY <1>13, FinishPassInv
<1>14. CASE UNCHANGED vars
  BY <1>14 DEF vars, IrqInv, TypeOK, LinesOK, DispatchOK, NoStrandedDma, NoStrandedCd, VBlankCounted,
               device, clock, host, control
<1>15. QED
  BY <1>1, <1>2, <1>3, <1>4, <1>5, <1>6, <1>7, <1>8, <1>9, <1>10, <1>11, <1>12, <1>13, <1>14
  DEF Next, Pass, Dispatcher

\* IrqInv holds in every reachable state.
THEOREM DispatchInvariant == Spec => []IrqInv
<1>1. QED
  BY InitInv, StepInv, PTL DEF Spec

\* The registers, sets and counters of the dispatcher keep their types
\* (DispatchInterrupts800359B8 and the devices it serves).
THEOREM DispatchTypes == Spec => []TypeOK
<1>1. IrqInv => TypeOK
  BY DEF IrqInv
<1>2. QED
  BY <1>1, DispatchInvariant, PTL

\* Nothing the devices raised is stranded.
THEOREM NothingIsStranded == Spec => []NothingStranded
<1>1. IrqInv => NothingStranded
  BY DEF IrqInv, NothingStranded
<1>2. QED
  BY <1>1, DispatchInvariant, PTL

\* 80057034 counts every scanout edge that was delivered, once.
THEOREM EveryEdgeCountedOnce == Spec => []VBlankCounted
<1>1. IrqInv => VBlankCounted
  BY DEF IrqInv
<1>2. QED
  BY <1>1, DispatchInvariant, PTL
-----------------------------------------------------------------------------
(* What an event pass leaves behind. *)

\* The game's code never runs beside an interrupt it is owed: when the pass
\* is over the drive's response was taken, every delivered edge is counted and
\* every flagged completion was given to its callback, also those that callbacks'
\* own transfers raised while the dispatcher was serving.  The one exception is a
\* table that the last dispatch began to clear: it was cleared after that
\* dispatch, and the completion is latched for the next pass.
ForegroundOwedNothing ==
  Foreground =>
    /\ cd = "none" /\ ticks = wall
    /\ owed \subseteq {OtcChannel}
    /\ owed # {} => Dma \in ctl.status

PassInv ==
  /\ phase = "last" /\ irq = "none" => ctl.status = {}
  /\ phase = "foreground" => ctl.status \subseteq {Dma} /\ owed \subseteq {OtcChannel}

\* The clearing that ends a pass finds no flag up.
LEMMA FinishPassLeaves ==
  ASSUME IrqInv, PassInv, FinishPass PROVE PassInv'
<1>1. irq = "none" /\ phase' = "foreground" /\ ctl.status = {} /\ ctl.flags = {} /\ owed = {}
  BY DEF FinishPass, PassInv, IrqInv, NoStrandedDma
<1>2. CASE OtcChannel \in busy
  <2>1. /\ ctl' = NotifyDma(ctl, OtcChannel) /\ ctl \in Controllers /\ OtcChannel \in Channels
        /\ (Dma \in ctl.lines <=> ctl.flags # {}) /\ owed' \subseteq {OtcChannel}
    BY <1>1, <1>2, IrqAssumption DEF FinishPass, Notify, IrqInv, TypeOK, LinesOK
  <2>2. ctl'.status \subseteq ctl.status \cup {Dma}
    BY <1>1, <2>1, NotifyFields
  <2>3. QED
    BY <1>1, <2>1, <2>2 DEF PassInv
<1>3. CASE OtcChannel \notin busy
  BY <1>1, <1>3 DEF FinishPass, PassInv
<1>4. QED
  BY <1>2, <1>3

LEMMA PassStep ==
  ASSUME IrqInv, PassInv, [Next]_vars PROVE PassInv'
<1>1. CASE \E c \in Channels : SetDmaCallback(c)
  <2>1. PICK c \in Channels : SetDmaCallback(c)
    BY <1>1
  <2>2. PICK e \in SUBSET Channels : ctl' = WriteDicr(ctl, e, {})
    BY <2>1 DEF SetDmaCallback, IrqInv, TypeOK, Controllers
  <2>3. ctl'.status = ctl.status
    BY <2>2, WriteEnableFields DEF IrqInv, TypeOK, LinesOK
  <2>4. QED
    BY <2>1, <2>3 DEF SetDmaCallback, PassInv, host, control
<1>2. CASE EndPass \/ ScanAgain
  <2>1. phase' # "foreground" /\ ctl' = ctl /\ pending' = ctl.status
        /\ irq' = (IF pending' = {} THEN "none" ELSE "scan")
    BY <1>2 DEF EndPass, ScanAgain, Dispatch, Pending, IrqInv, DispatchOK, host
  <2>2. QED
    BY <2>1 DEF PassInv
<1>3. CASE \/ \E c \in Channels : Start(c)
           \/ Enqueue \/ Command \/ AwaitScreen
           \/ UNCHANGED vars
  BY <1>3 DEF Start, Enqueue, Command, AwaitScreen, PassInv, host, control, vars
<1>4. CASE \/ SampleEdge \/ BeginPass \/ DeliverEdge \/ NoEdge \/ ScreenShown
  BY <1>4 DEF SampleEdge, BeginPass, DeliverEdge, NoEdge, ScreenShown, Dispatch, Waiting,
     PassInv, host, control, IrqInv, DispatchOK
<1>5. CASE \/ \E c \in Channels : Complete(c)
           \/ CdReply \/ CdSector
  <2>1. phase # "foreground" /\ ~(phase = "last" /\ irq = "none") /\ UNCHANGED <<host, control>>
    BY <1>5 DEF Complete, CdReply, CdSector, Servicing, Waiting, IrqInv, DispatchOK
  <2>2. QED
    BY <2>1 DEF PassInv, host, control
<1>6. CASE \/ ServeSource \/ VBlankReturn \/ ClearTable \/ TableCleared
           \/ QueueFull \/ DrainFull \/ SlotFree \/ ServeCd \/ CdReturn
           \/ ServeChannel \/ ChannelReturn \/ DmaAgain
  <2>1. irq # "none"
    BY <1>6 DEF ServeSource, VBlankReturn, ClearTable, TableCleared, QueueFull, DrainFull, SlotFree,
       Submits, ServeCd, CdReturn, ServeChannel, ChannelReturn, DmaAgain
  <2>2. phase # "foreground" /\ phase' = phase
    BY <1>6, <2>1 DEF ServeSource, VBlankReturn, ClearTable, TableCleared, QueueFull, DrainFull,
       SlotFree, ServeCd, CdReturn, ServeChannel, ChannelReturn, DmaAgain, IrqInv, DispatchOK, host
  <2>3. irq' # "none"
    BY <1>6, <2>1 DEF ServeSource, VBlankReturn, ClearTable, TableCleared, QueueFull, DrainFull,
       SlotFree, ServeCd, CdReturn, ServeChannel, ChannelReturn, DmaAgain, control
  <2>4. QED
    BY <2>2, <2>3 DEF PassInv
<1>7. CASE FinishPass
  BY <1>7, FinishPassLeaves
<1>8. QED
  BY <1>1, <1>2, <1>3, <1>4, <1>5, <1>6, <1>7 DEF Next, Pass, Dispatcher

\* What the program that the event pass returns to finds pending.
THEOREM PassServesAll == Spec => []ForegroundOwedNothing
<1>1. Init => PassInv
  BY DEF Init, PowerOn, PassInv
<1>2. IrqInv /\ PassInv /\ [Next]_vars => PassInv'
  BY PassStep
<1>3. IrqInv /\ PassInv => ForegroundOwedNothing
  <2>1. SUFFICES ASSUME IrqInv, PassInv, Foreground PROVE ForegroundOwedNothing
    BY DEF ForegroundOwedNothing
  <2>2. /\ irq = "none" /\ wall \in Nat /\ ticks \in Nat
        /\ ctl.status \subseteq {Dma} /\ owed \subseteq {OtcChannel}
    BY <2>1 DEF PassInv, Foreground, IrqInv, TypeOK
  <2>3. VBlank \notin ctl.status /\ CdRom \notin ctl.status
    BY <2>2 DEF VBlank, CdRom, Dma
  <2>4. QED
    BY <2>1, <2>2, <2>3
    DEF IrqInv, NoStrandedDma, NoStrandedCd, VBlankCounted, ForegroundOwedNothing
<1>4. QED
  BY <1>1, <1>2, <1>3, DispatchInvariant, PTL DEF Spec

\* A callback gives way by suspending the task's fiber, which only the thread
\* that runs on it may do.  While the task waits for the screen, the host runs
\* its passes on a stack of its own.
CallbacksWaitOnFiber == screen => irq # "vblank" /\ ~Waiting

\* No callback that may give way is dispatched from the host's own stack.
THEOREM WaitsOnFiber == Spec => []CallbacksWaitOnFiber
<1>1. IrqInv => CallbacksWaitOnFiber
  BY DEF IrqInv, DispatchOK, CallbacksWaitOnFiber, Waiting
<1>2. QED
  BY <1>1, DispatchInvariant, PTL

-----------------------------------------------------------------------------
(* The dispatcher returns. *)

\* Steps left before the loop the dispatcher is in may end; a callback that
\* waits for a slot has one more transfer to submit when it finds it.
Place ==
  CASE irq = "none" -> 0
    [] irq = "scan" -> IF pending = {} THEN 2 ELSE 1
    [] irq = "vblank" -> 3
    [] irq = "table" -> 4
    [] irq = "full" -> 13
    [] irq = "source" -> 3
    [] irq = "dma" -> IF chans = {} THEN 4 ELSE 3
    [] irq = "channel" -> 5

Response == CASE cd = "none" -> 0 [] cd = "reply" -> 1 [] cd = "sector" -> 9

\* What VBlank callbacks may still submit: the one that runs, and the one that
\* the latched edge will run.
Latched == IF VBlank \in ctl.status THEN Submissions ELSE 0
Allowance == left + Latched

\* What the dispatcher may still be given to do: a VBlank callback submits, a
\* queued transfer is started, a started one completes and flags its channel, a
\* flag latches the DMA source, a reply latches the CD's, and what is latched
\* is served.
Work ==
  11 * Allowance + 9 * queue + 8 * Cardinality(busy) + 6 * replies + Response
    + 4 * Cardinality(ctl.status) + 3 * Cardinality(ctl.flags) + Place

\* Both loops of the dispatcher read their register again before they end
\* (DispatchInterrupts800359B8, DispatchDmaInterrupt80035FCC), and its
\* callbacks start transfers, and wait for devices, while it serves.  It
\* returns all the same: every step taken until then uses up some of a bounded
\* amount of work, except that a callback may change callbacks and the clock
\* may tick.
DispatchEnds ==
  [][irq # "none" =>
       \/ Work' < Work
       \/ Work' = Work /\ (SampleEdge \/ \E c \in Channels : SetDmaCallback(c))]_vars

\* A channel in the DMA dispatcher's copy is one whose flag is still up.
ChannelsFlagged == irq \in {"dma", "channel"} => chans \subseteq ctl.flags

LEMMA SmallSets ==
  ASSUME IrqInv
  PROVE  /\ IsFiniteSet(busy) /\ Cardinality(busy) \in Nat
         /\ IsFiniteSet(ctl.status) /\ Cardinality(ctl.status) \in Nat
         /\ IsFiniteSet(ctl.flags) /\ Cardinality(ctl.flags) \in Nat
<1>1. IsFiniteSet(0 .. 6)
  <2>1. 0 \in Int /\ 6 \in Int
    OBVIOUS
  <2>2. QED
    BY <2>1, FS_Interval
<1>2. /\ busy \subseteq 0 .. 6 /\ ctl.flags \subseteq 0 .. 6 /\ ctl.status \subseteq 0 .. 6
  <2>1. Sources \subseteq 0 .. 6
    BY DEF Sources, VBlank, CdRom, Dma
  <2>2. busy \subseteq Channels /\ ctl.flags \subseteq Channels /\ ctl.status \subseteq Sources
    BY DEF IrqInv, TypeOK, Controllers
  <2>3. QED
    BY <2>1, <2>2, IrqAssumption
<1>3. IsFiniteSet(busy) /\ IsFiniteSet(ctl.status) /\ IsFiniteSet(ctl.flags)
  BY <1>1, <1>2, FS_Subset
<1>4. QED
  BY <1>3, FS_CardinalityType

\* Adding to a set makes it larger by at most one, taking one of its members
\* away smaller by one.
LEMMA OneMore ==
  ASSUME NEW S, NEW T, NEW x, IsFiniteSet(S), S \subseteq T, T \subseteq S \cup {x}
  PROVE  /\ Cardinality(T) \in Nat
         /\ Cardinality(T) <= Cardinality(S) + 1
<1>1. IsFiniteSet(S \cup {x}) /\ Cardinality(S) \in Nat
      /\ Cardinality(S \cup {x}) <= Cardinality(S) + 1
  BY FS_AddElement, FS_CardinalityType
<1>2. IsFiniteSet(T) /\ Cardinality(T) <= Cardinality(S \cup {x})
      /\ Cardinality(S \cup {x}) \in Nat
  BY <1>1, FS_Subset, FS_CardinalityType
<1>3. Cardinality(T) \in Nat
  BY <1>2, FS_CardinalityType
<1>4. QED
  BY <1>1, <1>2, <1>3

LEMMA OneLess ==
  ASSUME NEW S, NEW x \in S, IsFiniteSet(S)
  PROVE  /\ Cardinality(S \ {x}) \in Nat
         /\ Cardinality(S \ {x}) = Cardinality(S) - 1
  BY FS_RemoveElement, FS_CardinalityType

LEMMA FlaggedStep ==
  ASSUME IrqInv, ChannelsFlagged, [Next]_vars PROVE ChannelsFlagged'
<1>1. CASE \E c \in Channels : SetDmaCallback(c)
  <2>1. PICK c \in Channels : SetDmaCallback(c)
    BY <1>1
  <2>2. PICK e \in SUBSET Channels : ctl' = WriteDicr(ctl, e, {})
    BY <2>1 DEF SetDmaCallback, IrqInv, TypeOK, Controllers
  <2>3. ctl'.flags = ctl.flags
    BY <2>2, WriteEnableFields DEF IrqInv, TypeOK, LinesOK
  <2>4. QED
    BY <2>1, <2>3 DEF SetDmaCallback, ChannelsFlagged, control
<1>2. CASE \E c \in Channels : Complete(c)
  <2>1. PICK c \in Channels : Complete(c)
    BY <1>2
  <2>2. ctl' = NotifyDma(ctl, c) /\ ctl \in Controllers /\ (ctl.flags # {} => ctl.master)
        /\ (Dma \in ctl.lines <=> ctl.flags # {})
    BY <2>1 DEF Complete, Notify, IrqInv, TypeOK, LinesOK
  <2>3. ctl.flags \subseteq ctl'.flags
    BY <2>2, NotifyFields
  <2>4. QED
    BY <2>1, <2>3 DEF Complete, ChannelsFlagged, control
<1>3. CASE CdReply \/ CdSector
  <2>1. ctl' = Raise(ctl, CdRom) /\ ctl \in Controllers /\ CdRom \in Sources
    BY <1>3 DEF CdReply, CdSector, Publish, IrqInv, TypeOK, Sources
  <2>2. ctl'.flags = ctl.flags
    BY <2>1, RaiseFields
  <2>3. QED
    BY <1>3, <2>2 DEF CdReply, CdSector, ChannelsFlagged, control
<1>4. CASE ServeSource
  <2>1. PICK s \in pending : /\ ctl' = Acknowledge(ctl, s)
                            /\ (irq' \in {"vblank", "source"} \/ chans' = ctl.flags)
    BY <1>4 DEF ServeSource
  <2>2. s \in Sources /\ ctl \in Controllers
    BY DEF IrqInv, TypeOK
  <2>3. ctl'.flags = ctl.flags
    BY <2>1, <2>2, AcknowledgeFields
  <2>4. QED
    BY <2>1, <2>3 DEF ChannelsFlagged
<1>5. CASE ServeChannel
  <2>1. PICK c \in chans : /\ irq = "dma" /\ chans' = chans \ {c}
                           /\ ctl' = WriteDicr(ctl, ctl.enabled, {c})
    BY <1>5 DEF ServeChannel
  <2>2. c \in Channels /\ ctl \in Controllers /\ ctl.enabled \subseteq Channels /\ {c} \subseteq Channels
        /\ (Dma \in ctl.lines <=> ctl.flags # {})
    BY DEF IrqInv, TypeOK, Controllers, LinesOK
  <2>3. ctl'.flags = ctl.flags \ {c}
    BY <2>1, <2>2, WriteDicrFields
  <2>4. QED
    BY <2>1, <2>3 DEF ChannelsFlagged
<1>6. CASE \/ EndPass \/ ScanAgain \/ DeliverEdge \/ ServeCd \/ CdReturn
  BY <1>6 DEF EndPass, ScanAgain, DeliverEdge, Dispatch, ServeCd, CdReturn, ChannelsFlagged, control
<1>7. CASE \/ \E c \in Channels : Start(c)
           \/ Enqueue \/ Command \/ SampleEdge \/ BeginPass \/ NoEdge \/ AwaitScreen \/ ScreenShown
           \/ ChannelReturn \/ DmaAgain \/ UNCHANGED vars
  BY <1>7 DEF Start, Enqueue, Command, SampleEdge, BeginPass, NoEdge, AwaitScreen, ScreenShown,
     ChannelReturn, DmaAgain, ChannelsFlagged, control, vars
<1>8. CASE ClearTable \/ TableCleared \/ QueueFull \/ DrainFull \/ SlotFree \/ VBlankReturn
  BY <1>8 DEF ClearTable, TableCleared, QueueFull, DrainFull, SlotFree, VBlankReturn, Submits,
     ChannelsFlagged, control
<1>9. CASE FinishPass
  BY <1>9 DEF FinishPass, ChannelsFlagged, control
<1>10. QED
  BY <1>1, <1>2, <1>3, <1>4, <1>5, <1>6, <1>7, <1>8, <1>9 DEF Next, Pass, Dispatcher

\* The numbers that the arguments below compare.
LEMMA WorkNumbers ==
  ASSUME IrqInv
  PROVE  /\ queue \in Nat /\ replies \in Nat /\ Response \in Nat /\ Place \in Nat
         /\ left \in Nat /\ Latched \in Nat /\ Allowance \in Nat
         /\ Cardinality(busy) \in Nat /\ Cardinality(ctl.status) \in Nat
         /\ Cardinality(ctl.flags) \in Nat
         /\ Work \in Nat
<1>1. queue \in Nat /\ replies \in Nat
  BY IrqAssumption DEF IrqInv, TypeOK
<1>2. Response \in Nat
  BY DEF IrqInv, TypeOK, Response
<1>3. Place \in Nat
  BY DEF IrqInv, TypeOK, Place
<1>4. left \in Nat /\ Submissions \in Nat
  BY IrqAssumption DEF IrqInv, TypeOK
<1>5. Latched \in Nat
  BY <1>4 DEF Latched
<1>6. Allowance \in Nat
  BY <1>4, <1>5 DEF Allowance
<1>7. QED
  BY <1>1, <1>2, <1>3, <1>4, <1>5, <1>6, SmallSets DEF Work

LEMMA CallbackEnds ==
  ASSUME IrqInv, NEW c \in Channels, SetDmaCallback(c) PROVE Work' = Work
<1>1. PICK e \in SUBSET Channels : ctl' = WriteDicr(ctl, e, {})
  BY DEF SetDmaCallback, IrqInv, TypeOK, Controllers
<1>2. ctl'.flags = ctl.flags /\ ctl'.status = ctl.status
  BY <1>1, WriteEnableFields DEF IrqInv, TypeOK, LinesOK
<1>3. QED
  BY <1>2 DEF SetDmaCallback, Work, Response, Place, Allowance, Latched, device, control

LEMMA CompleteEnds ==
  ASSUME IrqInv, NEW c \in Channels, Complete(c) PROVE Work' < Work
<1>1. ctl' = NotifyDma(ctl, c) /\ ctl \in Controllers /\ (ctl.flags # {} => ctl.master)
      /\ (Dma \in ctl.lines <=> ctl.flags # {})
  BY DEF Complete, Notify, IrqInv, TypeOK, LinesOK
<1>2. /\ ctl.status \subseteq ctl'.status /\ ctl'.status \subseteq ctl.status \cup {Dma}
      /\ ctl.flags \subseteq ctl'.flags /\ ctl'.flags \subseteq ctl.flags \cup {c}
  BY <1>1, NotifyFields
<1>3. Cardinality(ctl'.status) <= Cardinality(ctl.status) + 1 /\ Cardinality(ctl'.status) \in Nat
  BY <1>2, SmallSets, OneMore
<1>4. Cardinality(ctl'.flags) <= Cardinality(ctl.flags) + 1 /\ Cardinality(ctl'.flags) \in Nat
  BY <1>2, SmallSets, OneMore
<1>5. c \in busy /\ busy' = busy \ {c}
  BY DEF Complete, Notify
<1>6. Cardinality(busy') = Cardinality(busy) - 1
  BY <1>5, SmallSets, OneLess
<1>7. queue' = queue /\ replies' = replies /\ Response' = Response /\ Place' = Place
  BY DEF Complete, Response, Place, control
<1>8. Allowance' = Allowance
  BY <1>2 DEF Complete, Allowance, Latched, control, VBlank, Dma
<1>9. QED
  BY <1>3, <1>4, <1>6, <1>7, <1>8, WorkNumbers DEF Work

\* A transfer is worth less than what it was submitted, or queued, for.
LEMMA StartEnds ==
  ASSUME IrqInv, NEW c \in Channels, Start(c), irq # "none" PROVE Work' < Work
<1>1. /\ c \notin busy /\ busy' = busy \cup {c}
      /\ ctl' = ctl /\ replies' = replies /\ Response' = Response /\ Place' = Place
  BY DEF Start, Foreground, Response, Place, control
<1>2. \/ queue > 0 /\ queue' = queue - 1 /\ Allowance' = Allowance
      \/ queue' = queue /\ Allowance' = Allowance - 1
  <2>1. \/ queue > 0 /\ queue' = queue - 1 /\ left' = left
        \/ queue' = queue /\ left' = left - 1
    BY DEF Start, Submits, Foreground
  <2>2. QED
    BY <1>1, <2>1, WorkNumbers DEF Allowance, Latched
<1>3. Cardinality(busy') = Cardinality(busy) + 1
  BY <1>1, SmallSets, FS_AddElement
<1>4. QED
  BY <1>1, <1>2, <1>3, WorkNumbers DEF Work

\* So is an entry of the queue.
LEMMA EnqueueEnds ==
  ASSUME IrqInv, Enqueue, irq # "none" PROVE Work' < Work
<1> DEFINE rest == 8 * Cardinality(busy) + 6 * replies + Response
                     + 4 * Cardinality(ctl.status) + 3 * Cardinality(ctl.flags) + Place
<1>1. /\ queue' = queue + 1 /\ left' = left - 1
      /\ busy' = busy /\ ctl' = ctl /\ replies' = replies /\ Response' = Response /\ Place' = Place
  BY DEF Enqueue, Submits, Foreground, Response, Place
<1>2. Allowance' = Allowance - 1
  <2>1. Latched' = Latched
    BY <1>1 DEF Latched
  <2>2. QED
    BY <1>1, <2>1, WorkNumbers DEF Allowance
<1>3. rest' = rest
  BY <1>1
<1>4. rest \in Nat
  BY WorkNumbers
<1>5. Work = 11 * Allowance + 9 * queue + rest
  BY <1>4, WorkNumbers DEF Work
<1>6. Work' = 11 * Allowance' + 9 * queue' + rest'
  <2>1. Cardinality(busy') \in Nat /\ replies' \in Nat /\ Response' \in Nat /\ Place' \in Nat
        /\ Cardinality(ctl'.status) \in Nat /\ Cardinality(ctl'.flags) \in Nat
        /\ queue' \in Nat /\ Allowance' \in Int
    BY <1>1, <1>2, WorkNumbers
  <2>2. QED
    BY <2>1 DEF Work
<1> HIDE DEF rest
<1>7. QED
  BY <1>1, <1>2, <1>3, <1>4, <1>5, <1>6, WorkNumbers

\* The callback's waits: a table's clearing is a transfer and the return from
\* the wait; a wait for a slot is the draining and the submission.
LEMMA ClearTableEnds == ASSUME IrqInv, ClearTable PROVE Work' < Work
<1>1. /\ OtcChannel \notin busy /\ busy' = busy \cup {OtcChannel} /\ left' = left - 1
      /\ queue' = queue /\ ctl' = ctl /\ replies' = replies /\ Response' = Response
      /\ irq = "vblank" /\ irq' = "table"
  BY DEF ClearTable, Submits, Response
<1>2. Cardinality(busy') = Cardinality(busy) + 1
  BY <1>1, SmallSets, FS_AddElement
<1>3. Place = 3 /\ Place' = 4
  BY <1>1 DEF Place
<1>4. Allowance' = Allowance - 1
  <2>1. Latched' = Latched
    BY <1>1 DEF Latched
  <2>2. QED
    BY <1>1, <2>1, WorkNumbers DEF Allowance
<1>5. QED
  BY <1>1, <1>2, <1>3, <1>4, WorkNumbers DEF Work

LEMMA FullEnds == ASSUME IrqInv, QueueFull \/ SlotFree PROVE Work' < Work
<1>1. /\ busy' = busy /\ ctl' = ctl /\ replies' = replies /\ Response' = Response
      /\ \/ /\ irq = "vblank" /\ irq' = "full"
            /\ left' = left - 1 /\ queue' = queue
         \/ /\ irq = "full" /\ irq' = "vblank"
            /\ left' = left /\ queue' = queue + 1
  BY DEF QueueFull, SlotFree, Submits, Response, device
<1>2. \/ Place = 3 /\ Place' = 13 /\ left' = left - 1 /\ queue' = queue
      \/ Place = 13 /\ Place' = 3 /\ left' = left /\ queue' = queue + 1
  BY <1>1 DEF Place
<1>3. Allowance' = Allowance + left' - left
  <2>1. Latched' = Latched
    BY <1>1 DEF Latched
  <2>2. QED
    BY <1>2, <2>1, WorkNumbers DEF Allowance
<1>4. QED
  BY <1>1, <1>2, <1>3, WorkNumbers DEF Work

LEMMA DrainEnds == ASSUME IrqInv, DrainFull PROVE Work' < Work
<1>1. /\ GpuChannel \notin busy /\ busy' = busy \cup {GpuChannel} /\ queue' = queue - 1
      /\ ctl' = ctl /\ replies' = replies /\ Response' = Response /\ UNCHANGED control
  BY DEF DrainFull, Response
<1>2. Cardinality(busy') = Cardinality(busy) + 1
  BY <1>1, SmallSets, FS_AddElement
<1>3. Place' = Place /\ Allowance' = Allowance
  BY <1>1 DEF Place, Allowance, Latched, control
<1>4. QED
  BY <1>1, <1>2, <1>3, WorkNumbers DEF Work

LEMMA ReplyEnds ==
  ASSUME IrqInv, CdReply PROVE Work' < Work
<1>1. ctl' = Raise(ctl, CdRom) /\ ctl \in Controllers /\ CdRom \in Sources
  BY DEF CdReply, Publish, IrqInv, TypeOK, Sources
<1>2. /\ ctl'.flags = ctl.flags
      /\ ctl.status \subseteq ctl'.status /\ ctl'.status \subseteq ctl.status \cup {CdRom}
  BY <1>1, RaiseFields
<1>3. Cardinality(ctl'.status) <= Cardinality(ctl.status) + 1 /\ Cardinality(ctl'.status) \in Nat
  BY <1>2, SmallSets, OneMore
<1>4. /\ replies > 0 /\ replies' = replies - 1 /\ Response = 0 /\ Response' = 1
      /\ queue' = queue /\ busy' = busy /\ Place' = Place
  BY DEF CdReply, Publish, Response, Place, control
<1>5. Allowance' = Allowance
  BY <1>2 DEF CdReply, Allowance, Latched, control, VBlank, CdRom
<1>6. QED
  BY <1>2, <1>3, <1>4, <1>5, WorkNumbers DEF Work

\* The callback of a latched edge may submit what the edge stood for.
LEMMA ServeSourceEnds ==
  ASSUME IrqInv, ServeSource PROVE Work' < Work
<1>1. PICK s \in pending :
        /\ irq = "scan" /\ ctl' = Acknowledge(ctl, s)
        /\ \/ s = VBlank /\ irq' = "vblank" /\ left' = Submissions
           \/ s \in {CdRom, Dma} /\ irq' \in {"source", "dma"} /\ left' = left
        /\ UNCHANGED device
  BY DEF ServeSource
<1>2. s \in Sources /\ s \in ctl.status /\ ctl \in Controllers
  BY DEF IrqInv, TypeOK, DispatchOK
<1>3. ctl'.status = ctl.status \ {s} /\ ctl'.flags = ctl.flags
  BY <1>1, <1>2, AcknowledgeFields
<1>4. Cardinality(ctl'.status) = Cardinality(ctl.status) - 1
  BY <1>2, <1>3, SmallSets, OneLess
<1>5. Place = IF pending = {} THEN 2 ELSE 1
  BY <1>1 DEF Place
<1>6. irq' \in {"vblank", "source", "dma"}
  BY <1>1
<1>7. Place' <= 4 /\ Place' \in Nat
  BY <1>6 DEF Place
<1>8. queue' = queue /\ busy' = busy /\ replies' = replies /\ Response' = Response
  BY <1>1 DEF Response, device
<1>9. Allowance' <= Allowance /\ Allowance' \in Nat
  <2>1. CASE s = VBlank
    <3>1. VBlank \in ctl.status /\ VBlank \notin ctl'.status /\ left' = Submissions
      BY <1>1, <1>2, <1>3, <2>1 DEF VBlank, CdRom, Dma
    <3>2. Latched = Submissions /\ Latched' = 0
      BY <3>1 DEF Latched
    <3>3. QED
      BY <3>1, <3>2, WorkNumbers DEF Allowance
  <2>2. CASE s # VBlank
    <3>1. (VBlank \in ctl'.status <=> VBlank \in ctl.status) /\ left' = left
      BY <1>1, <1>3, <2>2
    <3>2. Allowance' = Allowance
      BY <3>1 DEF Allowance, Latched
    <3>3. QED
      BY <3>2, WorkNumbers
  <2>3. QED
    BY <2>1, <2>2
<1>10. QED
  BY <1>3, <1>4, <1>5, <1>7, <1>8, <1>9, WorkNumbers DEF Work

\* The sector whose callback starts the ring's transfer is worth more than
\* the transfer.
LEMMA ServeCdEnds ==
  ASSUME IrqInv, ServeCd PROVE Work' < Work
<1> DEFINE low == Lower(ctl, CdRom)
<1>1. CdRom \in Sources /\ ctl \in Controllers
  BY DEF Sources, IrqInv, TypeOK
<1>2. /\ low \in Controllers /\ low.flags = ctl.flags /\ low.status = ctl.status
      /\ low.lines = ctl.lines \ {CdRom}
  BY <1>1, LowerFields
<1>3. Dma \in low.lines <=> low.flags # {}
  BY <1>2 DEF IrqInv, LinesOK, Dma, CdRom
<1>4. /\ \/ ctl' = low /\ busy' = busy
         \/ /\ cd = "sector" /\ busy' = busy \cup {RingChannel}
            /\ \E e \in SUBSET Channels : ctl' = WriteDicr(low, e, {})
      /\ cd # "none" /\ cd' = "none"
      /\ UNCHANGED <<queue, replies, control>>
  BY <1>1, IrqAssumption DEF ServeCd, Controllers
<1> HIDE DEF low
<1>5. ctl'.flags = ctl.flags /\ ctl'.status = ctl.status
  BY <1>2, <1>3, <1>4, WriteEnableFields
<1>6. Place' = Place /\ Allowance' = Allowance
  BY <1>4, <1>5 DEF Place, Allowance, Latched, control
<1>7. CASE busy' = busy
  <2>1. Response' = 0 /\ Response > 0
    BY <1>4 DEF Response, IrqInv, TypeOK
  <2>2. QED
    BY <1>4, <1>5, <1>6, <1>7, <2>1, WorkNumbers DEF Work
<1>8. CASE cd = "sector" /\ busy' = busy \cup {RingChannel}
  <2>1. Response' = 0 /\ Response = 9
    BY <1>4, <1>8 DEF Response
  <2>2. Cardinality(busy') <= Cardinality(busy) + 1 /\ Cardinality(busy') \in Nat
    <3>1. busy \subseteq busy' /\ busy' \subseteq busy \cup {RingChannel}
      BY <1>8
    <3>2. QED
      BY <3>1, SmallSets, OneMore
  <2>3. QED
    BY <1>4, <1>5, <1>6, <2>1, <2>2, WorkNumbers DEF Work
<1>9. QED
  BY <1>4, <1>7, <1>8

LEMMA ServeChannelEnds ==
  ASSUME IrqInv, ChannelsFlagged, ServeChannel PROVE Work' < Work
<1>1. PICK c \in chans :
        /\ irq = "dma" /\ chans' = chans \ {c} /\ ctl' = WriteDicr(ctl, ctl.enabled, {c})
        /\ irq' = (IF c \in installed THEN "channel" ELSE "dma")
        /\ UNCHANGED <<device, left>>
  BY DEF ServeChannel
<1>2. c \in Channels /\ ctl \in Controllers /\ ctl.enabled \subseteq Channels /\ {c} \subseteq Channels
      /\ (Dma \in ctl.lines <=> ctl.flags # {})
  BY DEF IrqInv, TypeOK, Controllers, LinesOK
<1>3. ctl'.flags = ctl.flags \ {c} /\ ctl'.status = ctl.status
  BY <1>1, <1>2, WriteDicrFields
<1>4. c \in ctl.flags
  BY <1>1 DEF ChannelsFlagged
<1>5. Cardinality(ctl'.flags) = Cardinality(ctl.flags) - 1
  BY <1>3, <1>4, SmallSets, OneLess
<1>6. Place = 3
  <2>1. chans # {} /\ irq = "dma"
    BY <1>1
  <2>2. QED
    BY <2>1 DEF Place
<1>7. Place' <= 5 /\ Place' \in Nat
  <2>1. irq' \in {"channel", "dma"}
    BY <1>1
  <2>2. QED
    BY <2>1 DEF Place
<1>8. queue' = queue /\ busy' = busy /\ replies' = replies /\ Response' = Response
  BY <1>1 DEF Response, device
<1>9. Allowance' = Allowance
  BY <1>1, <1>3 DEF Allowance, Latched
<1>10. QED
  BY <1>3, <1>5, <1>6, <1>7, <1>8, <1>9, WorkNumbers DEF Work

LEMMA LoopEnds ==
  ASSUME IrqInv,
         VBlankReturn \/ TableCleared \/ ScanAgain \/ CdReturn \/ ChannelReturn \/ DmaAgain
  PROVE  Work' < Work
<1>1. UNCHANGED <<ctl, device>> /\ left' \in {0, left}
  BY DEF VBlankReturn, TableCleared, ScanAgain, CdReturn, ChannelReturn, DmaAgain
<1>2. Place' < Place /\ Place' \in Nat
  <2>1. CASE ScanAgain
    <3>1. irq = "scan" /\ pending = {} /\ irq' = IF pending' = {} THEN "none" ELSE "scan"
      BY <2>1 DEF ScanAgain
    <3>2. Place = 2
      BY <3>1 DEF Place
    <3>3. CASE pending' = {}
      BY <3>1, <3>2, <3>3 DEF Place
    <3>4. CASE pending' # {}
      BY <3>1, <3>2, <3>4 DEF Place
    <3>5. QED
      BY <3>3, <3>4
  <2>2. CASE CdReturn
    <3>1. irq = "source" /\ irq' = "scan"
      BY <2>2 DEF CdReturn
    <3>2. QED
      BY <3>1 DEF Place
  <2>3. CASE ChannelReturn
    <3>1. irq = "channel" /\ irq' = "dma"
      BY <2>3 DEF ChannelReturn
    <3>2. QED
      BY <3>1 DEF Place
  <2>4. CASE DmaAgain
    <3>1. irq = "dma" /\ chans = {} /\ irq' = IF chans' = {} THEN "scan" ELSE "dma"
      BY <2>4 DEF DmaAgain
    <3>2. Place = 4
      BY <3>1 DEF Place
    <3>3. CASE chans' = {}
      BY <3>1, <3>2, <3>3 DEF Place
    <3>4. CASE chans' # {}
      BY <3>1, <3>2, <3>4 DEF Place
    <3>5. QED
      BY <3>3, <3>4
  <2>5. CASE VBlankReturn
    <3>1. irq = "vblank" /\ irq' = "scan"
      BY <2>5 DEF VBlankReturn
    <3>2. QED
      BY <3>1 DEF Place
  <2>6. CASE TableCleared
    <3>1. irq = "table" /\ irq' = "vblank"
      BY <2>6 DEF TableCleared
    <3>2. QED
      BY <3>1 DEF Place
  <2>7. QED
    BY <2>1, <2>2, <2>3, <2>4, <2>5, <2>6
<1>3. /\ queue' = queue /\ busy' = busy /\ replies' = replies /\ Response' = Response
      /\ ctl' = ctl
  BY <1>1 DEF Response, device
<1>4. Allowance' <= Allowance /\ Allowance' \in Nat
  <2>1. left' \in Nat /\ left' <= left
    BY <1>1, WorkNumbers
  <2>2. Latched' = Latched
    BY <1>3 DEF Latched
  <2>3. QED
    BY <2>1, <2>2, WorkNumbers DEF Allowance
<1>5. QED
  BY <1>2, <1>3, <1>4, WorkNumbers DEF Work

LEMMA DispatchStep ==
  ASSUME IrqInv, ChannelsFlagged, [Next]_vars, irq # "none"
  PROVE  \/ Work' < Work
         \/ Work' = Work /\ (SampleEdge \/ \E c \in Channels : SetDmaCallback(c))
         \/ UNCHANGED vars
<1>1. CASE \E c \in Channels : SetDmaCallback(c)
  BY <1>1, CallbackEnds
<1>2. CASE \E c \in Channels : Complete(c)
  BY <1>2, CompleteEnds
<1>3. CASE \E c \in Channels : Start(c)
  BY <1>3, StartEnds
<1>4. CASE CdReply
  BY <1>4, ReplyEnds
<1>5. CASE SampleEdge
  BY <1>5 DEF SampleEdge, Work, Response, Place, Allowance, Latched, device, control
<1>6. CASE ServeSource
  BY <1>6, ServeSourceEnds
<1>7. CASE ServeCd
  BY <1>7, ServeCdEnds
<1>8. CASE ServeChannel
  BY <1>8, ServeChannelEnds
<1>9. CASE VBlankReturn \/ TableCleared \/ ScanAgain \/ CdReturn \/ ChannelReturn \/ DmaAgain
  BY <1>9, LoopEnds
<1>10. CASE Enqueue
  BY <1>10, EnqueueEnds
<1>11. CASE ClearTable
  BY <1>11, ClearTableEnds
<1>12. CASE QueueFull \/ SlotFree
  BY <1>12, FullEnds
<1>13. CASE DrainFull
  BY <1>13, DrainEnds
<1>14. ~(\/ Command \/ AwaitScreen \/ ScreenShown \/ CdSector \/ BeginPass \/ DeliverEdge \/ NoEdge
         \/ EndPass \/ FinishPass)
  <2>1. phase \notin {"foreground", "begin"}
    BY DEF IrqInv, DispatchOK
  <2>2. QED
    BY <2>1 DEF Command, AwaitScreen, ScreenShown, CdSector, BeginPass, DeliverEdge, NoEdge,
       EndPass, FinishPass, Foreground, Servicing
<1>15. QED
  BY <1>1, <1>2, <1>3, <1>4, <1>5, <1>6, <1>7, <1>8, <1>9, <1>10, <1>11, <1>12, <1>13, <1>14
  DEF Next, Pass, Dispatcher

\* A dispatch takes a bounded number of steps, whatever its callbacks start.
THEOREM DispatcherReturns == Spec => DispatchEnds
<1>1. Init => ChannelsFlagged
  BY DEF Init, ChannelsFlagged
<1>2. IrqInv /\ ChannelsFlagged /\ [Next]_vars => ChannelsFlagged'
  BY FlaggedStep
<1>3. IrqInv /\ ChannelsFlagged /\ [Next]_vars =>
        [irq # "none" =>
           \/ Work' < Work
           \/ Work' = Work /\ (SampleEdge \/ \E c \in Channels : SetDmaCallback(c))]_vars
  BY DispatchStep
<1>4. QED
  BY <1>1, <1>2, <1>3, DispatchInvariant, PTL DEF Spec, DispatchEnds
=============================================================================
