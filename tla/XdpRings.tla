------------------------------ MODULE XdpRings ------------------------------
(***************************************************************************)
(* The AF_XDP back end: `XdpBatchSender` of crates/ahp-cli/src/            *)
(* net_sender.rs over the UMEM and the two rings of crates/ahp-xdp.        *)
(*                                                                         *)
(* A UMEM frame is taken from the free list, filled and staged; a flush    *)
(* puts the staged frames on the TX ring, kicks the kernel and frees what  *)
(* the completion ring returns.  The kernel works on its own: it takes     *)
(* descriptors off the TX ring and posts the frames it is done with on the *)
(* completion ring when that has room.  Both rings are arrays indexed by   *)
(* free-running counters that wrap (2^32 in the code, IndexMod here).      *)
(***************************************************************************)
EXTENDS Naturals, Sequences, FiniteSets

CONSTANTS FrameCount, TxSize, CompSize, XdpBatchCapacity,
          IndexMod     \* the counters wrap here: a multiple of both sizes

VARIABLES freeList,    \* UMEM free list, a stack
          staged,      \* frames of the batch
          txRing,      \* TX ring: prod (cached and published), cons, desc
          kernel,      \* frames the kernel is transmitting
          comp,        \* completion ring: prod, cons, addr; cached_cons
          outstanding, \* XdpSocket.outstanding_tx
          xphase,      \* "idle", "submit", "drain", "error"
          drained,     \* frames read off the completion ring by this drain
          upto,        \* the producer index this drain loaded
          for          \* what the drain is for: "stage" or "flush"

xdpVars == <<freeList, staged, txRing, kernel, comp, outstanding, xphase, drained,
             upto, for>>

Frames == 0 .. FrameCount - 1

Wrap(i) == i % IndexMod
Gap(prod, cons) == (prod + IndexMod - cons) % IndexMod

\* Umem::new: every frame is free.
FreeFrames == [i \in 1 .. FrameCount |-> FrameCount - i]

\* The rings as they are mapped, empty.
NewTxRing == [prod |-> 0, cons |-> 0, desc |-> [i \in 0 .. TxSize - 1 |-> 0]]
NewCompRing == [prod |-> 0, cons |-> 0, cached |-> 0,
                addr |-> [i \in 0 .. CompSize - 1 |-> 0]]

XdpInit ==
  /\ freeList = FreeFrames
  /\ staged = <<>>
  /\ txRing = NewTxRing
  /\ kernel = {}
  /\ comp = NewCompRing
  /\ outstanding = 0
  /\ xphase = "idle"
  /\ drained = <<>>
  /\ upto = 0
  /\ for = "flush"

\* Umem::alloc_frame pops, free_frame pushes.
Top(stack) == stack[Len(stack)]
Pop(stack) == SubSeq(stack, 1, Len(stack) - 1)

\* stage_data: a free frame is filled and staged.
StageFrame ==
  /\ xphase = "idle" /\ Len(staged) < XdpBatchCapacity
  /\ freeList # <<>>
  /\ staged' = Append(staged, Top(freeList))
  /\ freeList' = Pop(freeList)
  /\ UNCHANGED <<txRing, kernel, comp, outstanding, xphase, drained, upto, for>>

\* No frame is free: look for completions first.
StageStarved ==
  /\ xphase = "idle" /\ Len(staged) < XdpBatchCapacity
  /\ freeList = <<>>
  /\ xphase' = "drain" /\ for' = "stage"
  /\ upto' = comp.prod
  /\ UNCHANGED <<freeList, staged, txRing, kernel, comp, outstanding, drained>>

\* flush with something staged.
FlushBegin ==
  /\ xphase = "idle" /\ staged # <<>>
  /\ xphase' = "submit"
  /\ UNCHANGED <<freeList, staged, txRing, kernel, comp, outstanding, drained, upto,
                 for>>

\* Mutant: the frame the full ring refused is forgotten.
RefusedForgotten(f) == <<>>

\* A frame the full ring refused goes back to the free list.
Refused(f) == <<f>>

\* TxRing::submit for the next staged frame.
Submit ==
  /\ xphase = "submit" /\ staged # <<>>
  /\ staged' = Tail(staged)
  /\ IF Gap(txRing.prod, txRing.cons) >= TxSize
     THEN /\ freeList' = freeList \o Refused(Head(staged))
          /\ UNCHANGED <<txRing, outstanding>>
     ELSE /\ txRing' = [txRing EXCEPT !.desc[txRing.prod % TxSize] = Head(staged),
                              !.prod = Wrap(@ + 1)]
          /\ outstanding' = outstanding + 1
          /\ UNCHANGED freeList
  /\ UNCHANGED <<kernel, comp, xphase, drained, upto, for>>

\* tx_kick: EAGAIN and ENOBUFS are not errors; any other failure returns
\* before the completions are drained and ends the transfer.
Kick(fails) ==
  /\ xphase = "submit" /\ staged = <<>>
  /\ xphase' = IF fails THEN "error" ELSE "drain"
  /\ for' = "flush"
  /\ upto' = comp.prod
  /\ UNCHANGED <<freeList, staged, txRing, kernel, comp, outstanding, drained>>

\* CompRing::drain reads one address; the consumer index is published last.
DrainOne ==
  /\ xphase = "drain" /\ comp.cached # upto
  /\ drained' = Append(drained, comp.addr[comp.cached % CompSize])
  /\ comp' = [comp EXCEPT !.cached = Wrap(@ + 1)]
  /\ UNCHANGED <<freeList, staged, txRing, kernel, outstanding, xphase, upto, for>>

\* tx_complete: outstanding_tx.saturating_sub.
TxComplete(n) == IF outstanding >= n THEN outstanding - n ELSE 0

\* The drain is over: publish the consumer index, count the frames off, free
\* them, and stage the packet that was waiting, or drop it.
DrainEnd ==
  /\ xphase = "drain" /\ comp.cached = upto
  /\ comp' = [comp EXCEPT !.cons = comp.cached]
  /\ outstanding' = TxComplete(Len(drained))
  /\ drained' = <<>>
  /\ xphase' = "idle"
  /\ IF for = "stage" /\ drained # <<>>
     THEN /\ staged' = Append(staged, Top(drained))
          /\ freeList' = freeList \o Pop(drained)
     ELSE /\ freeList' = freeList \o drained
          /\ UNCHANGED staged
  /\ UNCHANGED <<txRing, kernel, upto, for>>

\* The kernel takes a descriptor off the TX ring.  It first reserves room on
\* the completion ring for every frame it holds.
KernelTakes ==
  /\ txRing.cons # txRing.prod
  /\ Gap(comp.prod, comp.cons) + Cardinality(kernel) < CompSize
  /\ kernel' = kernel \cup {txRing.desc[txRing.cons % TxSize]}
  /\ txRing' = [txRing EXCEPT !.cons = Wrap(@ + 1)]
  /\ UNCHANGED <<freeList, staged, comp, outstanding, xphase, drained, upto, for>>

\* The frame has been sent: its address is posted on the completion ring.
KernelCompletes(f) ==
  /\ f \in kernel
  /\ kernel' = kernel \ {f}
  /\ comp' = [comp EXCEPT !.addr[comp.prod % CompSize] = f,
                          !.prod = Wrap(@ + 1)]
  /\ UNCHANGED <<freeList, staged, txRing, outstanding, xphase, drained, upto, for>>

XdpNext ==
  \/ StageFrame \/ StageStarved \/ FlushBegin \/ Submit
  \/ \E fails \in BOOLEAN : Kick(fails)
  \/ DrainOne \/ DrainEnd
  \/ KernelTakes
  \/ \E f \in Frames : KernelCompletes(f)

XdpSpec == XdpInit /\ [][XdpNext]_xdpVars

-----------------------------------------------------------------------------

\* How often frame f occurs on a ring between two indices.
OnRing(f, cells, size, cons, prod) ==
  Cardinality({k \in 0 .. Gap(prod, cons) - 1 :
                 cells[(cons + k) % size] = f})

Occurs(f, seq) == Cardinality({i \in DOMAIN seq : seq[i] = f})

\* Every UMEM frame is in exactly one place: free, staged, on the TX ring,
\* with the kernel, on the completion ring, or in the hands of a drain.  So no
\* frame is lost however often the rings are full or wrap, and a frame that
\* is filled for a new packet is never one the kernel may still read.  And
\* XdpSocket::outstanding is the number submitted and not yet drained.
FramesConserved ==
  /\ outstanding = Gap(txRing.prod, txRing.cons) + Cardinality(kernel)
                     + Gap(comp.prod, comp.cached) + Len(drained)
  /\ \A f \in Frames :
       Occurs(f, freeList) + Occurs(f, staged) + Occurs(f, drained)
         + OnRing(f, txRing.desc, TxSize, txRing.cons, txRing.prod)
         + (IF f \in kernel THEN 1 ELSE 0)
         + OnRing(f, comp.addr, CompSize, comp.cached, comp.prod) = 1

=============================================================================
