----------------------------- MODULE AxisQueues -----------------------------
(***************************************************************************)
(* Cycle-exact views of the stream buffers, as operators from the contents  *)
(* before a clock edge to the contents after it.  Modules that compose      *)
(* several buffers use these; AxisFifo shows that the ring-buffer           *)
(* implementation steps exactly so.                                         *)
(*                                                                          *)
(* A fall-through FIFO is [q, bram, res]: the words still in the ring, the  *)
(* word at the RAM output, the word in the output register (always empty    *)
(* when the FIFO has no output register).  Ports are sequences of at most   *)
(* one word, as in StreamFifo.                                              *)
(***************************************************************************)
EXTENDS Naturals, Sequences

EmptyFifo == [q |-> <<>>, bram |-> <<>>, res |-> <<>>]

FifoReady(f, depth) == Len(f.q) # depth - 1
FifoOut(f, registered) == IF registered THEN f.res ELSE f.bram
FifoWords(f) == f.res \o f.bram \o f.q

(* One edge of axis_fifo_fwft: "offer" is the sink's tvalid and tdata,       *)
(* "taken" the source's tready.                                              *)
FifoStep(f, depth, registered, offer, taken) ==
    LET bram_tready == IF registered THEN f.res = <<>> \/ taken ELSE taken
        rd_tready   == f.bram = <<>> \/ bram_tready
        avail       == f.q \o (IF FifoReady(f, depth) THEN offer ELSE <<>>)
        read        == avail # <<>> /\ rd_tready
    IN  [q    |-> IF read THEN Tail(avail) ELSE avail,
         bram |-> IF read THEN <<Head(avail)>>
                  ELSE IF bram_tready THEN <<>> ELSE f.bram,
         res  |-> IF ~registered THEN <<>>
                  ELSE IF bram_tready /\ f.bram # <<>> THEN f.bram
                  ELSE IF taken THEN <<>> ELSE f.res]

(* One edge of axis_fifo_er: as axis_fifo_fwft with its output register, but *)
(* a word always goes through the ring.                                      *)
FifoErStep(f, depth, offer, taken) ==
    LET bram_tready == f.res = <<>> \/ taken
        read        == f.q # <<>> /\ (f.bram = <<>> \/ bram_tready)
        left        == IF read THEN Tail(f.q) ELSE f.q
    IN  [q    |-> left \o (IF FifoReady(f, depth) THEN offer ELSE <<>>),
         bram |-> IF read THEN <<Head(f.q)>> ELSE IF bram_tready THEN <<>> ELSE f.bram,
         res  |-> IF bram_tready THEN f.bram ELSE f.res]

(* One edge of axis_reg, as the sequence of the words it holds.              *)
RegReady(r) == Len(r) < 2
RegOut(r) == IF r = <<>> THEN <<>> ELSE <<Head(r)>>
RegStep(r, offer, taken) ==
    (IF taken /\ r # <<>> THEN Tail(r) ELSE r) \o (IF RegReady(r) THEN offer ELSE <<>>)
=============================================================================
