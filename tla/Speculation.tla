----------------------------- MODULE Speculation -----------------------------
(***************************************************************************)
(* The branch predictor between the two sides it misleads: the front end,    *)
(* which delivers the instructions that follow the last jump it was sent,    *)
(* and the execution unit, which takes instructions in order, finds out      *)
(* where each jump really goes and has the predictor correct the front end.  *)
(* The execution unit is register_reader (rr), the instruction in ifeu and   *)
(* mexec (exec) and the jump interface (jmp_dout); the others of its states  *)
(* only delay, and are a free choice to stall.                               *)
(***************************************************************************)
EXTENDS Bpu

CONSTANTS Start,      \* the reset address
          Returns,    \* where RET and indirect jumps of the program may go
          Handlers    \* where an interrupt may go

ASSUME SpeculationAssumption == Start \in Address /\ Returns \cup Handlers \subseteq Address

VARIABLES
    front_ip,         \* the next address that the decoder offers
    rr,               \* register_reader's output
    exec,             \* the jump that ifeu and mexec are working on (jmp_lock is taken)
    jmp_dout,         \* the jump interface to the predictor
    expect_addr, took      \* history: the next address in program order; an instruction was taken

path_vars == <<bpu_vars, front_ip, rr, exec, jmp_dout, expect_addr, took>>

PathInit ==
    /\ BpuInit /\ front_ip = Start
    /\ rr = <<>> /\ exec = <<>> /\ jmp_dout = <<>>
    /\ expect_addr = Start /\ took = FALSE

-----------------------------------------------------------------------------
event_jump == mispredicted(jmp_dout)

(* ifeu takes the instruction unless a jump is in the works: jmp_lock is     *)
(* released on the edge that drives the resolution, and seen free one later. *)
takes(go) == go /\ rr # <<>> /\ exec = <<>> /\ jmp_dout = <<>>

(* jmp_lock_m_lock_tvalid: the instructions that mexec resolves.             *)
to_resolve(i) == i.ext \/ op(i.addr) \in {"BRANCH", "LOOPU", "RET", "INDIRECT"}

(* jump_control_proc: which way the jump goes, and where.                    *)
Outcomes(i) ==
    IF i.ext THEN [taken : {TRUE}, target : Handlers]
    ELSE IF op(i.addr) \in {"RET", "INDIRECT"} THEN [taken : {TRUE}, target : Returns]
    ELSE [taken : BOOLEAN, target : {Code[i.addr].target}]

\* Mutant of mismatch: only the direction is compared.
mismatch_direction(i, o) == i.taken # o.taken
mismatch(i, o) == i.taken # o.taken \/ (i.taken /\ o.taken /\ i.target # <<o.target>>)

\* jump_dout_forming_proc.
Resolution(i, o) ==
    [inst |-> i.addr, taken |-> o.taken, first |-> i.first, bypass |-> i.ext,
     jump |-> IF i.taken /\ ~o.taken THEN Code[i.addr].next ELSE o.target,
     mismatch |-> mismatch(i, o), is_ret |-> ~i.ext /\ op(i.addr) = "RET"]

\* Where the program goes after an instruction that mexec need not resolve.
follows(i) == IF op(i.addr) \in {"JMPU", "JCALL"} THEN Code[i.addr].target ELSE Code[i.addr].next

(* The instruction queue into register_reader: the next instruction, or an   *)
(* external interrupt with the address of the instruction it goes before.    *)
reader_ready(go) == rr = <<>> \/ takes(go)

Reader(go, rdy, ext) ==
    rr' = IF event_jump THEN <<>>
          ELSE IF ext THEN <<[addr |-> instr_m[1].addr, ext |-> TRUE, first |-> TRUE,
                              taken |-> FALSE, target |-> <<>>]>>
          ELSE IF rdy /\ instr_m # <<>>
          THEN <<[addr |-> instr_m[1].addr, ext |-> FALSE, first |-> instr_m[1].first,
                  taken |-> instr_m[1].taken, target |-> instr_m[1].target]>>
          ELSE IF takes(go) THEN <<>>
          ELSE rr

Resolve(done) ==
    \/ /\ done /\ exec # <<>>
       /\ \E o \in Outcomes(exec[1]) :
             /\ jmp_dout' = <<Resolution(exec[1], o)>>
             /\ expect_addr' = IF o.taken THEN o.target ELSE Code[exec[1].addr].next
       /\ exec' = <<>>
    \/ /\ ~(done /\ exec # <<>>)
       /\ jmp_dout' = <<>>
       /\ UNCHANGED <<exec, expect_addr>>

Take(go) ==
    /\ jmp_dout' = <<>>
    /\ exec' = IF to_resolve(rr[1]) THEN rr ELSE <<>>
    /\ expect_addr' = IF to_resolve(rr[1]) THEN expect_addr ELSE follows(rr[1])

(* One edge: "offer", the decoder has an instruction; "rdy", register_reader *)
(* finds its registers free; "ext", it takes an interrupt instead; "go" and  *)
(* "done", ifeu and mexec do not stall.                                      *)
Edge(offer, rdy, ext, go, done) ==
    LET s    == IF offer THEN <<front_ip>> ELSE <<>>
        m_rdy == rdy /\ ~ext /\ reader_ready(go) /\ instr_m # <<>>
    IN  /\ rdy => reader_ready(go)
        /\ ext => instr_m # <<>> /\ rr = <<>> /\ ~rdy
        /\ BpuClock(s, m_rdy, jmp_dout)
        /\ front_ip' = IF jump_m # <<>> THEN jump_m[1]
                       ELSE IF offer /\ RegReady(instr_reg) THEN Code[front_ip].next
                       ELSE front_ip
        /\ Reader(go, rdy, ext)
        /\ IF takes(go) THEN Take(go) ELSE Resolve(done)
        /\ took' = takes(go)

(* An input that nothing looks at is not enumerated.                         *)
Looked(c) == IF c THEN BOOLEAN ELSE {FALSE}

PathNext ==
    \E offer \in Looked(RegReady(instr_reg) /\ jump_m = <<>>), rdy \in Looked(instr_m # <<>>),
       ext \in Looked(instr_m # <<>> /\ rr = <<>>), go \in Looked(takes(TRUE)), done \in Looked(exec # <<>>) :
          Edge(offer, rdy, ext, go, done)

PathSpec == PathInit /\ [][PathNext]_path_vars

(* Fairness: again and again there is an edge on which nobody stalls.        *)
FreeEdge == \E ext \in BOOLEAN : Edge(TRUE, reader_ready(TRUE) /\ ~ext, ext, TRUE, TRUE)
PathFairSpec == PathSpec /\ WF_path_vars(FreeEdge)

-----------------------------------------------------------------------------
Foretold == {<<>>} \cup {<<a>> : a \in Address}
PathTypeOK ==
    /\ bpu_items \in [Items -> [valid : BOOLEAN, saturated_cnt : 0 .. 3, inst : Address, jump : Address]]
    /\ next_free_bpu_item_idx \in Items
    /\ lifo \in UNION {[1 .. n -> Address] : n \in 0 .. DEPTH}
    /\ instr_reg \in UNION {[1 .. n -> [addr : Address, hit : SUBSET Items]] : n \in 0 .. 2}
    /\ jump_m \in Foretold /\ front_ip \in Address /\ expect_addr \in Address

(* Whatever was foretold, the execution unit takes the instructions of the   *)
(* program in program order: what it takes next, unless a correction is      *)
(* about to flush it, is at the address where the last one went.  The same   *)
(* holds of the return address that an interrupt saves.                      *)
TakesProgramOrder == takes(TRUE) => rr[1].addr = expect_addr

(* No branch is remembered twice: the position of a hit is an OR, and with   *)
(* two hits it would be the position of a third item.  The item is written   *)
(* an edge after it was looked up, so that it takes two resolutions of one   *)
(* branch on consecutive edges to break it.  And counters saturate.          *)
OneItemPerBranch ==
    /\ PathTypeOK
    /\ \A i, k \in Items :
        bpu_items[i].valid /\ bpu_items[k].valid /\ bpu_items[i].inst = bpu_items[k].inst => i = k

(* However often the program misleads the predictor, instructions go on      *)
(* being taken.                                                              *)
InstructionsKeepComing == []<>took
=============================================================================
