------------------------------- MODULE AxisReg -------------------------------
(***************************************************************************)
(* rtl/utils/axis_reg.vhd: the two-word skid buffer put between stages of   *)
(* the CPU and of the SoC.  One step of the module is one rising edge of    *)
(* clk; the other side of each port is the environment, free to drive       *)
(* in_s_tvalid and out_m_tready as it likes at every edge.                  *)
(***************************************************************************)
EXTENDS Naturals, Sequences, AxisQueues

CONSTANT Data

VARIABLES tmp_tvalid, tmp_tdata,     \* the skid register
          out_tvalid, out_tdata,     \* the output register
          in, out                    \* what the two ports transferred at the last edge

vars == <<tmp_tvalid, tmp_tdata, out_tvalid, out_tdata, in, out>>

TypeOK ==
    /\ tmp_tvalid \in BOOLEAN /\ tmp_tdata \in Data
    /\ out_tvalid \in BOOLEAN /\ out_tdata \in Data
    /\ in  \in {<<>>} \cup {<<d>> : d \in Data}
    /\ out \in {<<>>} \cup {<<d>> : d \in Data}

Init ==
    /\ tmp_tvalid = FALSE /\ tmp_tdata \in Data
    /\ out_tvalid = FALSE /\ out_tdata \in Data
    /\ in = <<>> /\ out = <<>>

in_tready == ~tmp_tvalid
tmp_tready(out_tready) == ~out_tvalid \/ out_tready

(* tmp_buffer_process: a word that arrives while the output is blocked is   *)
(* kept aside, and the sink is closed from the next cycle on.               *)
TmpBuffer(in_tvalid, in_tdata, out_tready) ==
    /\ tmp_tvalid' = \/ in_tvalid /\ out_tvalid /\ ~out_tready
                     \/ tmp_tvalid /\ ~tmp_tready(out_tready)
    /\ tmp_tdata'  = IF in_tvalid /\ in_tready THEN in_tdata ELSE tmp_tdata

\* The data half of out_process: the word kept aside goes first.
OutData(in_tvalid, in_tdata, out_tready) ==
    out_tdata' = IF tmp_tready(out_tready) /\ tmp_tvalid THEN tmp_tdata
                 ELSE IF tmp_tready(out_tready) /\ in_tvalid THEN in_tdata
                 ELSE out_tdata

\* out_process: the output register.
OutReg(in_tvalid, in_tdata, out_tready) ==
    /\ out_tvalid' = (in_tvalid \/ tmp_tvalid \/ (out_tvalid /\ ~out_tready))
    /\ OutData(in_tvalid, in_tdata, out_tready)

Clock(in_tvalid, in_tdata, out_tready) ==
    /\ TmpBuffer(in_tvalid, in_tdata, out_tready)
    /\ OutReg(in_tvalid, in_tdata, out_tready)
    /\ in'  = IF in_tvalid /\ in_tready THEN <<in_tdata>> ELSE <<>>
    /\ out' = IF out_tvalid /\ out_tready THEN <<out_tdata>> ELSE <<>>

\* resetn = '0' at the edge clears the two valid bits; the data paths go on.
Reset(in_tvalid, in_tdata, out_tready) ==
    /\ tmp_tvalid' = FALSE /\ out_tvalid' = FALSE
    /\ tmp_tdata' = IF in_tvalid /\ in_tready THEN in_tdata ELSE tmp_tdata
    /\ OutData(in_tvalid, in_tdata, out_tready)
    /\ in' = <<>> /\ out' = <<>>

Next == \E v, r \in BOOLEAN, d \in Data : Clock(v, d, r) \/ Reset(v, d, r)

Spec == Init /\ [][Next]_vars

-----------------------------------------------------------------------------
\* The words held, oldest first.
Held == (IF out_tvalid THEN <<out_tdata>> ELSE <<>>)
        \o (IF tmp_tvalid THEN <<tmp_tdata>> ELSE <<>>)

Queue == INSTANCE StreamFifo WITH queue <- Held, Capacity <- 2

(* The buffer is a two-place FIFO: every word that crosses the sink port     *)
(* crosses the source port once and in order, whatever the interleaving of   *)
(* stalls, also when both ports fire at the edge at which the skid empties.  *)
ImplementsQueue == Queue!Spec

(* Every edge is the step that the composed modules use for axis_reg.        *)
StepsAsRegStep ==
    [][\A v, r \in BOOLEAN, d \in Data :
          Clock(v, d, r) => Held' = RegStep(Held, IF v THEN <<d>> ELSE <<>>, r)]_vars

(* The skid register is only ever filled behind a full output register; a    *)
(* word kept aside with the output empty would be overtaken by the next one. *)
SkidBehindOutput == tmp_tvalid => out_tvalid
=============================================================================
