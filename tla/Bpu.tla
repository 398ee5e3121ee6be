--------------------------------- MODULE Bpu ---------------------------------
(***************************************************************************)
(* rtl/cpu86/cpu86_bpu.vhd and its return stack cpu86_bpu_lifo.sv: between   *)
(* the decoder and the execution unit, it sends the prefetcher where the     *)
(* next instruction is likely to be, and hands every instruction on with     *)
(* what it foretold of it.  An address stands for a CS:IP pair; one step is  *)
(* one rising edge.                                                          *)
(***************************************************************************)
EXTENDS Integers, Sequences, FiniteSets, AxisQueues

CONSTANTS Code,           \* address -> [op, next, target]: the program as decoded
          BPU_ITEM_CNT,   \* 8 in the code
          DEPTH           \* 16 in the code: places of the return stack

Address == DOMAIN Code
Items   == 0 .. BPU_ITEM_CNT - 1
Ops == {"OTHER", "BRANCH", "LOOPU", "RET",
        "JMPU", "JCALL",                     \* code(3) = '0': the target is in the instruction
        "INDIRECT"}                          \* JMPU or JCALL with code(3) = '1'

ASSUME BpuAssumption ==
    /\ Code \in [Address -> [op : Ops, next : Address, target : Address]]
    /\ BPU_ITEM_CNT \in 1 .. 8 /\ DEPTH \in Nat \ {0}

VARIABLES
    bpu_items, next_free_bpu_item_idx,   \* the branches remembered, replaced in turn
    d_jump,                              \* the resolution of the last edge, with the items it hit
    lifo,                                \* the return stack, last address first
    instr_reg,                           \* delayed_instr_data_reg_inst and bpu_item_reg_inst
    instr_m, jump_m                      \* the output registers

bpu_vars == <<bpu_items, next_free_bpu_item_idx, d_jump, lifo, instr_reg, instr_m, jump_m>>

BpuInit ==
    /\ \E a \in Address :
          bpu_items = [i \in Items |-> [valid |-> FALSE, saturated_cnt |-> 0, inst |-> a, jump |-> a]]
    /\ next_free_bpu_item_idx = 0 /\ d_jump = <<>> /\ lifo = <<>>
    /\ instr_reg = <<>> /\ instr_m = <<>> /\ jump_m = <<>>

op(a) == Code[a].op

hits(a) == {i \in Items : bpu_items[i].valid /\ bpu_items[i].inst = a}

\* The position of the item hit: the bitwise OR of the positions of all.
hit_idx(S) ==
    LET bit(b) == IF \E i \in S : (i \div b) % 2 = 1 THEN b ELSE 0
    IN  bit(1) + bit(2) + bit(4)

-----------------------------------------------------------------------------
(* The edge.  "s" is what the decoder offers (<<>> or <<address>>), "m_rdy"  *)
(* the ready of the execution unit, and "j" its resolution of a jump: <<>>   *)
(* or <<[inst, jump, taken, first, bypass, mismatch, is_ret]>>.              *)
instr_s_tready_waits(m_rdy, j) == j = <<>> /\ jump_m = <<>> /\ m_rdy       \* mutant: waits for ready
instr_s_tready(m_rdy, j)       == j = <<>> /\ jump_m = <<>> /\ (instr_m = <<>> \/ m_rdy)

mispredicted(j) == j # <<>> /\ j[1].mismatch

\* The instruction that leaves the input register at this edge, and its item.
passing(m_rdy, j) == IF instr_s_tready(m_rdy, j) THEN RegOut(instr_reg) ELSE <<>>
item(e) == bpu_items[hit_idx(e.hit)]

pops(e) == lifo # <<>> /\ op(e.addr) = "RET"
foretold(e) ==
    /\ e.hit # {} /\ item(e).saturated_cnt > 1
    /\ op(e.addr) \in {"BRANCH", "RET"}

bpu_taken(e) == pops(e) \/ foretold(e)
bpu_target(e) == IF pops(e) THEN Head(lifo) ELSE item(e).jump

InputRegs(s, m_rdy, j) ==
    instr_reg' = IF jump_m # <<>> THEN <<>>
                 ELSE RegStep(instr_reg,
                              IF s # <<>> THEN <<[addr |-> s[1], hit |-> hits(s[1])]>> ELSE <<>>,
                              instr_s_tready(m_rdy, j))

\* The address foretold is not read unless bpu_taken.
Forward(m_rdy, j) ==
    LET p == passing(m_rdy, j)
    IN  instr_m' = IF mispredicted(j) THEN <<>>
                   ELSE IF p # <<>>
                   THEN <<[addr |-> p[1].addr, taken |-> bpu_taken(p[1]), first |-> p[1].hit = {},
                           target |-> IF bpu_taken(p[1]) THEN <<bpu_target(p[1])>> ELSE <<>>]>>
                   ELSE IF m_rdy THEN <<>>
                   ELSE instr_m

\* jump_proc: the execution unit first, then the instruction that passes.
DriveJump(m_rdy, j) ==
    LET p == passing(m_rdy, j)
    IN  jump_m' = IF mispredicted(j) THEN <<j[1].jump>>
                  ELSE IF p = <<>> THEN <<>>
                  ELSE IF pops(p[1]) THEN <<Head(lifo)>>
                  ELSE IF op(p[1].addr) \in {"JMPU", "JCALL"} THEN <<Code[p[1].addr].target>>
                  ELSE IF foretold(p[1]) THEN <<item(p[1]).jump>>
                  ELSE <<>>

(* cpu86_bpu_lifo: a push into a full stack drops the oldest address.        *)
ReturnStack(m_rdy, j) ==
    LET p == passing(m_rdy, j)
    IN  lifo' = IF mispredicted(j) /\ j[1].is_ret THEN <<>>
                ELSE IF p = <<>> THEN lifo
                ELSE IF op(p[1].addr) = "JCALL"
                THEN SubSeq(<<Code[p[1].addr].next>> \o lifo, 1,
                            IF Len(lifo) = DEPTH THEN DEPTH ELSE Len(lifo) + 1)
                ELSE IF pops(p[1]) THEN Tail(lifo)
                ELSE lifo

(* The items are updated one edge after the resolution, by the hits of the   *)
(* resolution's own edge.                                                    *)
Delay(j) ==
    d_jump' = IF j = <<>> THEN <<>> ELSE <<[j |-> j[1], hit |-> hits(j[1].inst)]>>

learns == d_jump # <<>> /\ ~d_jump[1].j.bypass
allocates_any == learns                                  \* mutant: also when an item was hit
allocates     == learns /\ d_jump[1].hit = {}
updated(i) == learns /\ (i \in d_jump[1].hit \/ (allocates /\ i = next_free_bpu_item_idx))

counted_on(cnt, j) ==                                    \* mutant: does not saturate
    IF j.first THEN (IF j.taken THEN 1 ELSE 0) ELSE IF j.taken THEN cnt + 1 ELSE cnt - 1
counted(cnt, j) ==
    IF j.first THEN (IF j.taken THEN 1 ELSE 0)
    ELSE IF j.taken THEN (IF cnt < 3 THEN cnt + 1 ELSE cnt)
    ELSE (IF cnt > 0 THEN cnt - 1 ELSE cnt)

Learn ==
    /\ bpu_items' =
          [i \in Items |->
             IF updated(i)
             THEN [valid |-> TRUE, inst |-> d_jump[1].j.inst,
                   jump |-> IF d_jump[1].j.taken THEN d_jump[1].j.jump ELSE bpu_items[i].jump,
                   saturated_cnt |-> counted(bpu_items[i].saturated_cnt, d_jump[1].j)]
             ELSE bpu_items[i]]
    /\ next_free_bpu_item_idx' = IF allocates THEN (next_free_bpu_item_idx + 1) % BPU_ITEM_CNT
                                 ELSE next_free_bpu_item_idx

BpuClock(s, m_rdy, j) ==
    /\ InputRegs(s, m_rdy, j) /\ Forward(m_rdy, j) /\ DriveJump(m_rdy, j)
    /\ ReturnStack(m_rdy, j) /\ Delay(j) /\ Learn
=============================================================================
