------------------------------- MODULE ICache -------------------------------
(***************************************************************************)
(* rtl/cpu86/cpu86_icache.vhd with its RAM (utils/axis_bram.vhd) and its     *)
(* reorder buffer (cpu86_icache_rob.sv): a direct-mapped, read-only cache    *)
(* of single words.  Hits overtake misses inside; the reorder buffer hands   *)
(* the answers back in the order of the requests.  One step is one rising    *)
(* edge.  The word stored at an address is abstracted to the address.        *)
(***************************************************************************)
EXTENDS Naturals, Sequences, AxisQueues

CONSTANTS Word,        \* word addresses: 18 bits in the code
          WorkingSets, \* the sets of words that a program may ask for
          LINES,       \* 256 in the code
          ROB_SIZE,    \* 16 in the code: slots of the reorder buffer
          MISS_DEPTH   \* 16 in the code: depth of axis_fifo_inst_0

ASSUME ICacheAssumption ==
    /\ Word \subseteq Nat /\ WorkingSets \subseteq SUBSET Word
    /\ LINES \in Nat \ {0} /\ ROB_SIZE \in Nat \ {0, 1, 2}
    /\ MISS_DEPTH \in Nat /\ MISS_DEPTH >= ROB_SIZE

VARIABLES
    ram, cache_line_vld,                       \* cells [tag, word]; lines filled
    bram, res,                                 \* the lookups in the two stages of axis_bram
    mem_req, mem_req_reg, miss_fifo,           \* the miss register, axis_reg_mem_req_inst, axis_fifo_inst_0
    slot, rob_wr_addr, rob_rd_addr, rob_fifo_cnt,          \* cpu86_icache_rob: <<>> is a slot not valid
    rob_wr_tready, rob_rd_tvalid, cpu_res,
    mem_pending, mem_res,                      \* the memory: words asked, the answer on its wires
    working,                                   \* the words the program asks for, the same all along
    outstanding, recent                        \* history: requests of the CPU not answered; made on the last edge

rob_vars == <<slot, rob_wr_addr, rob_rd_addr, rob_fifo_cnt, rob_wr_tready, rob_rd_tvalid, cpu_res>>
cache_vars == <<ram, cache_line_vld, bram, res, mem_req, mem_req_reg, miss_fifo, rob_vars,
          mem_pending, mem_res, working, outstanding, recent>>

line(a) == a % LINES
tag(a)  == a \div LINES
Cell(a) == [tag |-> tag(a), word |-> a]

RobSlots == 0 .. ROB_SIZE - 1

CacheInit ==
    /\ ram = [l \in 0 .. LINES - 1 |-> [tag |-> 0, word |-> 0]] /\ cache_line_vld = {}
    /\ bram = <<>> /\ res = <<>>
    /\ mem_req = <<>> /\ mem_req_reg = <<>> /\ miss_fifo = EmptyFifo
    /\ slot = [i \in RobSlots |-> <<>>] /\ rob_wr_addr = 0 /\ rob_rd_addr = 0 /\ rob_fifo_cnt = 0
    /\ rob_wr_tready = TRUE /\ rob_rd_tvalid = FALSE /\ cpu_res = <<>>
    /\ mem_pending = <<>> /\ mem_res = <<>>
    /\ working \in WorkingSets /\ outstanding = <<>> /\ recent = 0

-----------------------------------------------------------------------------
(* Wires.                                                                    *)
mem_req_tready == RegReady(mem_req_reg)
miss_issued    == mem_req # <<>> /\ mem_req_tready
cache_always   == TRUE                                \* mutant: a blocked miss does not stall the lookups
cache_tready   == mem_req = <<>> \/ mem_req_tready
looked_up      == res # <<>> /\ cache_tready
lookup_tready    == res = <<>> \/ cache_tready
cpu_req_tready == bram = <<>> \/ lookup_tready

hit_any_tag(r) == r.vld                               \* mutant: the tag is not compared
hit(r) == r.vld /\ r.cell.tag = tag(r.addr)
cache_hit == looked_up /\ hit(res[1])

(* The miss that the word from memory answers.  The code pops the FIFO       *)
(* without looking at tvalid; MissIsThere shows that it may.                 *)
fill_unread == IF mem_res # <<>> THEN FifoOut(miss_fifo, FALSE) ELSE <<>>    \* mutant: no output register
fill == IF mem_res # <<>> THEN FifoOut(miss_fifo, TRUE) ELSE <<>>

written  == [tag |-> tag(fill[1].addr), word |-> mem_res[1]]
fills(a) == fill # <<>> /\ line(fill[1].addr) = line(a)

-----------------------------------------------------------------------------
(* axis_bram: the RAM returns what it held before this edge's write, and a   *)
(* word written on the edge of the lookup is put aside and used instead.  A  *)
(* stalled lookup re-reads its cell while a request is offered.              *)
bypass(a) == IF fills(a) THEN <<written>> ELSE <<>>

Lookup(a) == [addr |-> a, vld |-> line(a) \in cache_line_vld, idx |-> rob_wr_addr,
              byp |-> bypass(a), cell |-> ram[line(a)]]

Accepted(req) == IF cpu_req_tready THEN req ELSE <<>>

RamPort(req) ==
    /\ ram' = IF fill # <<>>
              THEN [ram EXCEPT ![line(fill[1].addr)] = written]
              ELSE ram
    /\ cache_line_vld' = cache_line_vld \cup {line(fill[i].addr) : i \in DOMAIN fill}
    /\ bram' = IF Accepted(req) # <<>> THEN <<Lookup(req[1])>>
               ELSE IF lookup_tready THEN <<>>
               ELSE IF req # <<>> /\ bram # <<>> THEN <<[bram[1] EXCEPT !.cell = ram[line(bram[1].addr)]]>>
               ELSE bram
    /\ res' = IF bram # <<>> /\ lookup_tready
              THEN <<[addr |-> bram[1].addr, vld |-> bram[1].vld, idx |-> bram[1].idx,
                      cell |-> IF bram[1].byp # <<>> THEN bram[1].byp[1] ELSE bram[1].cell]>>
              ELSE IF cache_tready THEN <<>>
              ELSE res

(* A lookup that misses goes to the miss register, and from there to the     *)
(* memory (through axis_reg) and to the FIFO that remembers its slot.        *)
MissPath(mem_rdy) ==
    /\ mem_req' = IF looked_up
                  THEN IF hit(res[1]) THEN <<>> ELSE <<[addr |-> res[1].addr, idx |-> res[1].idx]>>
                  ELSE IF mem_req_tready THEN <<>>
                  ELSE mem_req
    /\ mem_req_reg' = RegStep(mem_req_reg, IF mem_req # <<>> THEN <<mem_req[1].addr>> ELSE <<>>, mem_rdy)
    /\ miss_fifo' = FifoStep(miss_fifo, MISS_DEPTH, TRUE,
                             IF miss_issued THEN mem_req ELSE <<>>, mem_res # <<>>)

-----------------------------------------------------------------------------
(* cpu86_icache_rob.sv.  A request reserves the next slot, whatever the      *)
(* "tag valid" output says; hits and fills complete theirs; the oldest slot  *)
(* leaves when it is complete.                                               *)
rob_taken == rob_rd_tvalid /\ slot[rob_rd_addr] # <<>>

next_rob_slot_linear(i) == i + 1                          \* mutant: the ring does not wrap
next_rob_slot(i) == (i + 1) % ROB_SIZE

reserved_kept(i, req) == FALSE                        \* mutant: reserving does not clear "valid"
reserved(i, req) == Accepted(req) # <<>> /\ rob_wr_tready /\ i = rob_wr_addr

SlotNext(i, req) ==
    IF reserved(i, req) THEN <<>>
    ELSE IF fill # <<>> /\ fill[1].idx = i THEN mem_res
    ELSE IF cache_hit /\ res[1].idx = i THEN <<res[1].cell.word>>
    ELSE slot[i]

full_early == ROB_SIZE - 2                            \* mutant: full one slot too soon
full_at    == ROB_SIZE - 1

Rob(req) ==
    LET w == Accepted(req) # <<>> /\ rob_wr_tready
    IN  /\ slot' = [i \in RobSlots |-> SlotNext(i, req)]
        /\ rob_wr_addr' = IF w THEN next_rob_slot(rob_wr_addr) ELSE rob_wr_addr
        /\ rob_rd_addr' = IF rob_taken THEN next_rob_slot(rob_rd_addr) ELSE rob_rd_addr
        /\ rob_fifo_cnt' = IF w /\ ~rob_taken THEN rob_fifo_cnt + 1
                       ELSE IF rob_taken /\ ~w THEN rob_fifo_cnt - 1 ELSE rob_fifo_cnt
        /\ rob_wr_tready' = IF w /\ ~rob_taken THEN rob_fifo_cnt + 1 # full_at
                             ELSE rob_wr_tready \/ rob_taken
        /\ rob_rd_tvalid' = IF rob_taken /\ ~w THEN rob_fifo_cnt - 1 # 0
                             ELSE rob_rd_tvalid \/ w
        /\ cpu_res' = IF rob_taken THEN slot[rob_rd_addr] ELSE <<>>

-----------------------------------------------------------------------------
(* The memory interconnect behind the cache: in order, any delay.            *)
Memory(mem_rdy) ==
    /\ mem_pending' = (IF mem_res # <<>> THEN Tail(mem_pending) ELSE mem_pending)
                      \o (IF mem_rdy THEN RegOut(mem_req_reg) ELSE <<>>)
    /\ mem_res' \in {<<>>} \cup (IF mem_pending' # <<>> THEN {<<Head(mem_pending')>>} ELSE {})

CacheEdge(req, mem_rdy) ==
    /\ RamPort(req) /\ MissPath(mem_rdy) /\ Rob(req) /\ Memory(mem_rdy)
    /\ outstanding' = (IF cpu_res # <<>> THEN Tail(outstanding) ELSE outstanding) \o Accepted(req)
    /\ recent' = Len(Accepted(req)) /\ UNCHANGED working

(* The prefetcher keeps fewer requests under way than there are slots: what  *)
(* FetchStream's RoomForRequests shows of it.                                *)
Requests == {<<>>} \cup (IF Len(outstanding) < ROB_SIZE - 1 THEN {<<a>> : a \in working} ELSE {})

CacheNext == \E req \in Requests, mem_rdy \in BOOLEAN : CacheEdge(req, mem_rdy)

CacheSpec == CacheInit /\ [][CacheNext]_cache_vars

(* The clock runs; the memory accepts and answers eventually.                *)
MemoryAccepts == mem_req_reg # <<>> /\ \E req \in Requests : CacheEdge(req, TRUE)
MemoryAnswers == mem_pending # <<>> /\ CacheNext /\ mem_res' # <<>>
CacheFairSpec == CacheSpec /\ WF_cache_vars(CacheNext) /\ WF_cache_vars(MemoryAccepts) /\ SF_cache_vars(MemoryAnswers)

-----------------------------------------------------------------------------
Maybe(S) == {<<>>} \cup {<<a>> : a \in S}
Miss == [addr : Word, idx : RobSlots]

CacheTypeOK ==
    /\ cache_line_vld \subseteq 0 .. LINES - 1
    /\ mem_req \in Maybe(Miss)
    /\ rob_wr_addr \in RobSlots /\ rob_rd_addr \in RobSlots /\ rob_fifo_cnt \in RobSlots
    /\ rob_wr_tready \in BOOLEAN /\ rob_rd_tvalid \in BOOLEAN
    /\ slot \in [RobSlots -> Maybe(Word)]
    /\ cpu_res \in Maybe(Word) /\ mem_res \in Maybe(Word)

(* The answer of the memory meets the miss it belongs to.                    *)
MissIsThere == mem_res # <<>> => fill # <<>> /\ fill[1].addr = mem_res[1]

(* The reorder buffer never gives one slot to two requests, and never gives  *)
(* a request none: "full" is ignored by the cache.                           *)
SlotForEveryRequest ==
    /\ Accepted(<<0>>) # <<>> /\ Requests # {<<>>} => rob_wr_tready
    /\ rob_fifo_cnt + Len(cpu_res) = Len(outstanding)

(* Together, with the ranges of the pointers: every answer has a place to    *)
(* go.                                                                       *)
AnswersHaveAPlace == CacheTypeOK /\ MissIsThere /\ SlotForEveryRequest

(* Whatever order hits and misses complete in, the cache is to the           *)
(* prefetcher an in-order memory: each request is answered once, in order,   *)
(* with its own word, and no sooner than two edges after it.                 *)
InOrder == INSTANCE InOrderMemory
              WITH pending <- outstanding, rd <- cpu_res
ImplementsMemory == InOrder!Spec

(* Every request is answered.                                                *)
RequestsAnswered == outstanding # <<>> ~> cpu_res # <<>>
=============================================================================
