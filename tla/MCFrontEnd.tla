----------------------------- MODULE MCFrontEnd -----------------------------
(* The front end for TLC, part by part: the buffers, the prefetcher over the *)
(* memory that InOrderMemory promises it, the instruction cache under the    *)
(* requests that the prefetcher makes, and the predictor between the decoder *)
(* and the execution unit.  "part" says which of them runs, chosen initially *)
(* and never changed; the others keep their reset state.                     *)
EXTENDS AxisFifo, FetchStream, ICache, Speculation, TLC

-----------------------------------------------------------------------------
(* The buffers: an axis_reg whose output port is the sink port of an         *)
(* axis_fifo_fwft with registered output, on one clock and one reset.  A     *)
(* ring of four slots fills (three words) and wraps with a word held at the  *)
(* output.  The consumer is free to stall at every edge, and the skid buffer *)
(* sees the stalls of the full FIFO.                                         *)
CONSTANTS w0, w1
MCData == {w0, w1}

VARIABLES tmp_tvalid, tmp_tdata, out_tvalid, out_tdata, reg_in, reg_out
regs == <<tmp_tvalid, tmp_tdata, out_tvalid, out_tdata, reg_in, reg_out>>

Reg == INSTANCE AxisReg WITH in <- reg_in, out <- reg_out

ChainClock ==
    \E v, r \in BOOLEAN, d \in Data :
        /\ Reg!Clock(v, d, wr_data_tready)
        /\ Clock(out_tvalid, out_tdata, r)

ChainReset ==
    \E v, r \in BOOLEAN, d \in Data :
        /\ Reg!Reset(v, d, wr_data_tready)
        /\ Reset(out_tvalid, out_tdata, r)

(* The prefetcher: a segment register of two values, IP wrapping after       *)
(* IP_SIZE / 4 words and jumps into the middle of a word.                    *)
MCCS == {0, 1}
MCTargets == {[cs |-> 1, ip |-> 6], [cs |-> 0, ip |-> 8]}

(* The cache: two lines, for programs that use two words of one line, which  *)
(* evict each other, and for programs that use one word of each line.        *)
MCWord == 0 .. 2
MCWorkingSets == {{0, 1}, {0, 2}}

(* The predictor: a program with a conditional branch, a call whose return   *)
(* may be tampered with, a return and a jump back; two items, so that the    *)
(* three resolved instructions evict each other, and a return stack of one   *)
(* place, which the call overflows on every second round.                    *)
I(o, n, t) == [op |-> o, next |-> n, target |-> t]
MCCode == 0 :> I("BRANCH", 1, 2) @@ 1 :> I("JCALL", 2, 3) @@ 2 :> I("LOOPU", 3, 0) @@ 3 :> I("RET", 0, 0)
MCReturns == {2, 0}
MCHandlers == {3}

-----------------------------------------------------------------------------
VARIABLE part
buffer_vars == <<vars, regs>>
all_vars == <<part, buffer_vars, stream_vars, cache_vars, path_vars>>

FrontInit ==
    /\ part \in {"buffers", "prefetcher", "cache", "predictor"}
    /\ Init /\ Reg!Init /\ StreamInit /\ CacheInit /\ PathInit
    /\ part # "buffers" => {tmp_tdata, out_tdata, bram_tdata} = {w0}
    /\ part # "cache" => working = {0, 1}
    /\ part # "predictor" => bpu_items[0].inst = 0

Buffers(A)    == part = "buffers"    /\ A /\ UNCHANGED <<part, stream_vars, cache_vars, path_vars>>
Prefetcher(A) == part = "prefetcher" /\ A /\ UNCHANGED <<part, buffer_vars, cache_vars, path_vars>>
Cache(A)      == part = "cache"      /\ A /\ UNCHANGED <<part, buffer_vars, stream_vars, path_vars>>
Predictor(A)  == part = "predictor"  /\ A /\ UNCHANGED <<part, buffer_vars, stream_vars, cache_vars>>

FrontNext ==
    \/ Buffers(ChainClock) \/ Buffers(ChainReset)
    \/ Prefetcher(StreamNext)
    \/ Cache(CacheNext)
    \/ Predictor(PathNext)

(* The fairness of each part, as its module has it; that of the parts is one *)
(* formula, because only one of them runs.                                   *)
Runs    == Buffers(ChainClock) \/ Prefetcher(StreamNext) \/ Cache(CacheNext) \/ Predictor(FreeEdge)
TakenUp == Prefetcher(Accepts) \/ Cache(MemoryAccepts)
Replied == Prefetcher(Answers) \/ Cache(MemoryAnswers)

FrontSpec ==
    /\ FrontInit /\ [][FrontNext]_all_vars
    /\ WF_all_vars(Runs) /\ WF_all_vars(TakenUp) /\ SF_all_vars(Replied)

-----------------------------------------------------------------------------
(* Who waits for what, in the part that runs: a word stored in the FIFO to   *)
(* be offered without any help from the consumer or another write            *)
(* (WordsReachTheOutput); the consumer for a word of the present stream      *)
(* (WordsKeepComing); a request to be answered (RequestsAnswered); the       *)
(* execution unit for an instruction to take, however often the program      *)
(* misleads the predictor (InstructionsKeepComing).                          *)
waits ==
    CASE part = "buffers" -> FifoWords(Fifo) # <<>>
      [] part = "cache"   -> outstanding # <<>>
      [] OTHER            -> TRUE

served ==
    CASE part = "buffers"    -> m_tvalid \/ FifoWords(Fifo) = <<>>
      [] part = "prefetcher" -> DataOut # <<>>
      [] part = "cache"      -> cpu_res # <<>>
      [] part = "predictor"  -> took

(* Nobody in the front end waits for ever, whatever is flushed, stalled or   *)
(* foretold wrongly (axis_fifo_fwft.vhd, line 88; cpu86_fetcher.vhd, line    *)
(* 192; cpu86_icache.vhd, line 236; cpu86_bpu.vhd, line 240).                *)
FrontEndGoesOn == waits ~> served
=============================================================================
