---------------------------- MODULE FetchStream ----------------------------
(***************************************************************************)
(* The prefetcher between its neighbours, as cpu86.vhd joins them: an        *)
(* in-order instruction memory with any delay (the instruction cache, or     *)
(* the memory interconnect when it is switched off), a consumer that stalls  *)
(* at will (cpu86_fetcher_buf) and a source of jumps (cpu86_bpu).            *)
(*                                                                          *)
(* A predicted jump is issued for an instruction of the present stream, so   *)
(* a word of the stream was consumed before it.  A jump of the execution     *)
(* unit may follow at any time, but it too needs an instruction fetched      *)
(* since the last jump of that kind: everything older was flushed.           *)
(***************************************************************************)
EXTENDS Fetcher

CONSTANT Targets               \* where jumps go
ASSUME TargetAssumption == Targets \subseteq Pointer

VARIABLES pending, asked_last, rd, \* the memory's (InOrderMemory calls the second "recent")
          stream_used,         \* a word of this stream was consumed
          exec_used,           \* a word was consumed since the last jump of the execution unit
          expect               \* history: the pointer of the word to deliver next

env_vars == <<pending, asked_last, rd, stream_used, exec_used, expect>>
stream_vars == <<fetcher_vars, env_vars>>

Words == {word_of(p) : p \in Pointer}
InstructionMemory == INSTANCE InOrderMemory WITH Word <- Words, recent <- asked_last

StreamInit ==
    /\ FetcherInit
    /\ InstructionMemory!Init
    /\ stream_used = FALSE /\ exec_used = FALSE
    /\ expect = Here

JumpKinds == {"none", "predicted", "executed"}

jumps(kind) ==
    CASE kind = "none"      -> {<<>>}
      [] kind = "predicted" -> {<<t>> : t \in IF stream_used THEN Targets ELSE {}}
      [] kind = "executed"  -> {<<t>> : t \in IF exec_used THEN Targets ELSE {}}

next_pointer(p) == [p EXCEPT !.ip = next_word_ip(@)]

Consumer(kind, jmp, data_rdy) ==
    /\ stream_used' = (kind = "none" /\ (stream_used \/ consumed(data_rdy)))
    /\ exec_used' = (kind # "executed" /\ (exec_used \/ consumed(data_rdy)))
    /\ expect' = IF jmp # <<>> THEN jmp[1]
                 ELSE IF consumed(data_rdy) THEN next_pointer(expect)
                 ELSE expect

StreamEdge(kind, req_rdy, jmp, data_rdy) ==
    /\ FetcherClock(req_rdy, rd, jmp, data_rdy)
    /\ InstructionMemory!Step(IF asked(req_rdy) THEN Request ELSE <<>>)
    /\ Consumer(kind, jmp, data_rdy)

StreamNext == \E kind \in JumpKinds, req_rdy, data_rdy \in BOOLEAN :
                \E jmp \in jumps(kind) : StreamEdge(kind, req_rdy, jmp, data_rdy)

StreamSpec == StreamInit /\ [][StreamNext]_stream_vars

-----------------------------------------------------------------------------
(* The clock runs, and the memory accepts and answers eventually.            *)
Accepts == /\ cmd_tvalid
           /\ \E kind \in JumpKinds, data_rdy \in BOOLEAN :
                \E jmp \in jumps(kind) : StreamEdge(kind, TRUE, jmp, data_rdy)
Answers == pending # <<>> /\ StreamNext /\ rd' # <<>>
StreamFairSpec ==
    /\ StreamSpec
    /\ WF_stream_vars(StreamNext) /\ WF_stream_vars(Accepts) /\ SF_stream_vars(Answers)

-----------------------------------------------------------------------------
StreamTypeOK ==
    /\ cs_tdata \in CS /\ ip_tdata \in 0 .. IP_SIZE - 1
    /\ cmd_tvalid \in BOOLEAN
    /\ max_hs_cnt \in 0 .. 31 /\ mem_hs_cnt \in 0 .. 31 /\ skip_hs_cnt \in 0 .. 31
    /\ asked_last \in 0 .. 1 /\ stream_used \in BOOLEAN /\ exec_used \in BOOLEAN
    /\ expect \in Pointer

Kept == FifoWords(fifo_0)

(* Every answer still to come is accounted for: the oldest skip_hs_cnt are   *)
(* to be discarded, and each of the others has the tag of its own request    *)
(* in fifo_0, at its output when the answer arrives (the code pops it        *)
(* without looking at tvalid).  mem_hs_cnt, 5 bits wide in effect, has not   *)
(* wrapped.                                                                  *)
AnswersAccounted ==
    /\ rd # <<>> /\ skip_hs_cnt = 0 => Tag # <<>>
    /\ mem_hs_cnt = Len(pending)
    /\ Len(pending) = skip_hs_cnt + Len(Kept)
    /\ \A i \in 1 .. Len(Kept) : pending[skip_hs_cnt + i] = word_of(Kept[i])

(* The consumer is offered exactly the words of the present stream, in       *)
(* order, none missing or repeated, each under its own CS:IP: whatever was   *)
(* in flight at a jump never shows.                                          *)
DeliversStream ==
    DataOut # <<>> => DataOut[1] = [tag |-> <<expect>>, word |-> word_of(expect)]

(* Neither FIFO of the prefetcher is ever full: the code does not look at    *)
(* their tready.  And at most three streams have requests in the memory at   *)
(* once, so the 15 usable slots of the cache's reorder buffer suffice: the   *)
(* cache ignores its "full" output.                                          *)
RoomForRequests ==
    /\ FifoReady(fifo_0, DEPTH_0) /\ FifoReady(fifo_1, DEPTH_1)
    /\ Len(pending) <= 3 * (LIMIT + 1)

(* Together, with the widths of the counters: no answer is lost or taken for *)
(* another.                                                                  *)
NoAnswerLost == StreamTypeOK /\ AnswersAccounted /\ RoomForRequests

(* The consumer is offered a word again and again.                           *)
WordsKeepComing == []<>(DataOut # <<>>)
=============================================================================
