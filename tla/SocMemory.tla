----------------------------- MODULE SocMemory -----------------------------
(***************************************************************************)
(* The memories of the system and the units that share them: the memory      *)
(* mapper (soc_mmu.vhd) behind the CPU, the on-chip RAM (on_chip_ram.vhd),   *)
(* the SDRAM arbiter (sdram_interconnect.vhd) between the CPU and the video  *)
(* controller, and the SDRAM controller.  One step is one clock edge.        *)
(*                                                                          *)
(* Nothing on the way back can be held: an answer that is not taken in its   *)
(* clock is lost.  Port 0 of the arbiter is "video", port 1 "ps" (the CPU).  *)
(***************************************************************************)
EXTENDS SdramCtrl, AxisQueues

CONSTANTS ORDER_DEPTH,         \* axis_fifo_res_target_inst, axis_fifo_inst: 32
          RESULT_DEPTH,        \* axis_fifo_bram_res_0_inst: 8
          CREDITS,             \* reads of the on-chip RAM under way: 7
          Scenes,              \* what a run asks: [cpu, video], the requests of the CPU and of the video
          MaxReads             \* bound: the reads that may wait once one was overtaken

RequestOf(port) == {r \in Request : r.port = port}

ASSUME SocAssumption ==
    /\ ORDER_DEPTH \in Nat \ {0, 1} /\ RESULT_DEPTH \in Nat \ {0, 1} /\ CREDITS \in Nat \ {0}
    /\ Port = {"ps", "video"} /\ MaxReads \in Nat
    /\ \A s \in Scenes :
          /\ s.cpu \subseteq ({"bram"} \X [wr : BOOLEAN]) \cup ({"sdram"} \X RequestOf("ps"))
          /\ s.video \subseteq RequestOf("video")

VARIABLES
    order,                     \* axis_fifo_res_target_inst: which memory answers next
    bram_req, ram, results,    \* the request register, the pipeline and the results of the on-chip RAM
    bram_trans_cnt, bram_req_tready,
    sdram_req,                 \* the mapper's request to the arbiter
    sdram_req_m, route_s, route, \* the arbiter: request, port to be queued, ports of the reads under way
    scene,                     \* what this run asks
    overtaken                  \* history: the SDRAM was read past an on-chip read that could not go on

mmu_vars == <<order, bram_req, ram, results, bram_trans_cnt, bram_req_tready, sdram_req>>
vars == <<mmu_vars, sdram_req_m, route_s, route, scene, overtaken, ctrl_vars>>

Init ==
    /\ InitCtrl /\ scene \in Scenes /\ overtaken = FALSE
    /\ order = EmptyFifo /\ results = EmptyFifo /\ bram_req = <<>> /\ ram = <<FALSE, FALSE, FALSE>>
    /\ bram_trans_cnt = 0 /\ bram_req_tready = TRUE
    /\ sdram_req = <<>> /\ sdram_req_m = <<>> /\ route_s = <<>> /\ route = EmptyFifo

-----------------------------------------------------------------------------
(* The arbiter.  Port 0 goes first.                                          *)
room == (sdram_req_m = <<>> \/ ~za_waitrequest) /\ FifoReady(route, ORDER_DEPTH)
port_req_sel(video) == IF video # <<>> THEN "video" ELSE "ps"
granted(video) == IF ~room THEN <<>> ELSE IF video # <<>> THEN video ELSE sdram_req
res_of(port) == za # <<>> /\ route.res = <<port>>

(* mutant: the ports of writes are queued too. *)
Arbiter_queues_writes(video) ==
    LET hs == granted(video)
    IN  /\ sdram_req_m' = IF hs # <<>> THEN hs ELSE IF za_waitrequest THEN sdram_req_m ELSE <<>>
        /\ route_s' = IF hs # <<>> THEN <<hs[1].port>> ELSE <<>>
        /\ route' = FifoErStep(route, ORDER_DEPTH, route_s, za # <<>>)
        /\ CtrlEdge(sdram_req_m)

Arbiter(video) ==
    LET hs == granted(video)
    IN  /\ sdram_req_m' = IF hs # <<>> THEN hs ELSE IF za_waitrequest THEN sdram_req_m ELSE <<>>
        /\ route_s' = IF hs # <<>> /\ ~hs[1].wr THEN <<hs[1].port>> ELSE <<>>
        /\ route' = FifoErStep(route, ORDER_DEPTH, route_s, za # <<>>)
        /\ CtrlEdge(sdram_req_m)

-----------------------------------------------------------------------------
(* The mapper.  A request is <<"bram", [wr]>> or <<"sdram", request>>.       *)
sdram_req_tready(video) == room /\ port_req_sel(video) = "ps"
mem_req_tready(to, video) == IF to = "bram" THEN bram_req_tready ELSE sdram_req_tready(video)

(* mutant: a result of the on-chip RAM does not wait for its turn. *)
bram_res_m_tready_any == results.res # <<>>
bram_res_m_tready == results.res # <<>> /\ order.res = <<"bram">>
mem_res_tvalid == (res_of("ps") /\ order.res = <<"sdram">>) \/ bram_res_m_tready

(* mutant: the credit comes back with the answer that leaves the on-chip RAM. *)
event_bram_res_early == ram[3]
event_bram_res == bram_res_m_tready

(* mutant: reads are never held back. *)
bram_credit_unlimited(event_bram_req) ==
    /\ bram_trans_cnt' = IF event_bram_req = event_bram_res THEN bram_trans_cnt
                         ELSE IF event_bram_req THEN bram_trans_cnt + 1 ELSE bram_trans_cnt - 1
    /\ UNCHANGED bram_req_tready

(* mutant: once closed the on-chip RAM does not open again. *)
bram_credit_stays_closed(event_bram_req) ==
    /\ bram_trans_cnt' = IF event_bram_req = event_bram_res THEN bram_trans_cnt
                         ELSE IF event_bram_req THEN bram_trans_cnt + 1 ELSE bram_trans_cnt - 1
    /\ bram_req_tready' = (bram_req_tready /\ ~(event_bram_req /\ ~event_bram_res /\ bram_trans_cnt = CREDITS - 1))

bram_credit(event_bram_req) ==
    /\ bram_trans_cnt' = IF event_bram_req = event_bram_res THEN bram_trans_cnt
                         ELSE IF event_bram_req THEN bram_trans_cnt + 1 ELSE bram_trans_cnt - 1
    /\ bram_req_tready' = IF event_bram_req # event_bram_res /\ bram_trans_cnt = CREDITS - 1
                          THEN event_bram_res ELSE bram_req_tready

bram_request(new) == IF new # <<>> THEN new ELSE IF bram_req_tready THEN <<>> ELSE bram_req

(* One clock of the mapper; mem_req is the request at its input, if any.     *)
Mapper(mem_req, video) ==
    LET hs    == mem_req # <<>> /\ mem_req_tready(mem_req[1][1], video)
        q     == mem_req[1][2]
        read  == hs /\ ~q.wr
        ask(to) == hs /\ mem_req[1][1] = to
    IN  /\ order' = FifoErStep(order, ORDER_DEPTH, IF read THEN <<mem_req[1][1]>> ELSE <<>>, mem_res_tvalid)
        /\ bram_req' = bram_request(IF ask("bram") THEN <<q>> ELSE <<>>)
        /\ ram' = <<bram_req # <<>> /\ bram_req_tready /\ ~bram_req[1].wr, ram[1], ram[2]>>
        /\ results' = FifoErStep(results, RESULT_DEPTH, IF ram[3] THEN <<"bram">> ELSE <<>>, bram_res_m_tready)
        /\ bram_credit(read /\ ask("bram"))
        /\ sdram_req' = IF ask("sdram") THEN <<q>>
                        ELSE IF sdram_req_tready(video) THEN <<>> ELSE sdram_req

-----------------------------------------------------------------------------
(* A read of the on-chip RAM cannot go on: the RAM is closed, or the read    *)
(* waits behind a read of the SDRAM.                                         *)
held_back ==
    \/ ~bram_req_tready
    \/ LET w == FifoWords(order)
       IN  \E a, b \in DOMAIN w : a < b /\ w[a] = "sdram" /\ w[b] = "bram"
reads_sdram(mem_req, video) ==
    mem_req # <<>> /\ mem_req[1][1] = "sdram" /\ ~mem_req[1][2].wr /\ sdram_req_tready(video)

Edge(mem_req, video) ==
    /\ Arbiter(video) /\ Mapper(mem_req, video) /\ UNCHANGED scene
    /\ overtaken' = (overtaken \/ (held_back /\ reads_sdram(mem_req, video)))

(* What the CPU asks: anything, at any time; once an answer may be lost, and *)
(* its turn stay in the queue for ever, only MaxReads reads wait.            *)
MemRequests ==
    {<<>>} \cup {<<q>> : q \in {a \in scene.cpu : overtaken => a[2].wr \/ Len(FifoWords(order)) < MaxReads}}
Video == {<<>>} \cup {<<r>> : r \in scene.video}

Next == \E mem_req \in MemRequests, video \in Video : Edge(mem_req, video)

Spec == Init /\ [][Next]_vars

(* The clock runs, and the video controller, which reads ahead into a FIFO   *)
(* of its own, leaves the arbiter to the CPU time and again.                 *)
VideoPauses == room /\ \E mem_req \in MemRequests : Edge(mem_req, <<>>)
FairSpec == Spec /\ WF_vars(Next) /\ SF_vars(VideoPauses)

-----------------------------------------------------------------------------
MapperTypeOK ==
    /\ TypeOK
    /\ bram_trans_cnt \in 0 .. CREDITS /\ bram_req_tready \in BOOLEAN /\ ram \in [1 .. 3 -> BOOLEAN]
    /\ \A n \in DOMAIN FifoWords(order) : FifoWords(order)[n] \in {"bram", "sdram"}
    /\ \A n \in DOMAIN FifoWords(route) : FifoWords(route)[n] \in Port

(* An answer of the SDRAM reaches the mapper when it is the SDRAM's turn;    *)
(* soc_mmu.vhd:253 drops it otherwise, and the read is never answered.       *)
NoAnswerIsDropped == res_of("ps") => order.res = <<"sdram">>

(* It has its turn although the on-chip RAM, which answers later than it is  *)
(* asked, may have up to seven reads under way when the SDRAM is read, as    *)
(* long as none of these is held back.                                       *)
AnswerHasItsTurn == NoAnswerIsDropped \/ overtaken

(* An answer finds the port that asked for it at the head of the arbiter's   *)
(* queue, although ports are queued a clock after their requests.            *)
AnswerFindsItsPort == za # <<>> => route.res = za

(* The ready wires that the mapper and the arbiter leave unconnected never   *)
(* matter: the queues of turns, of ports and of results have room for every  *)
(* read that the credits and the SDRAM admit.                                *)
QueuesHaveRoom ==
    /\ ram[3] => FifoReady(results, RESULT_DEPTH)
    /\ FifoReady(order, ORDER_DEPTH) \/ overtaken
    /\ route_s # <<>> => FifoReady(route, ORDER_DEPTH)

(* An answer is never lost and never goes to the wrong reader.               *)
AnswersFindTheirWay == MapperTypeOK /\ AnswerHasItsTurn /\ AnswerFindsItsPort /\ QueuesHaveRoom

(* Every read of the CPU is answered, whatever the video controller reads    *)
(* and whenever a refresh comes in between, and the on-chip RAM, closed when *)
(* the credits are used up, opens again, as long as no answer can be lost.   *)
ReadsOfCpuAnswered == []<>((FifoWords(order) = <<>> /\ bram_req_tready) \/ mem_res_tvalid \/ overtaken)
=============================================================================
