------------------------------- MODULE PicLite -------------------------------
(***************************************************************************)
(* rtl/soc/pic/pic_lite.sv: the interrupt controller.  A rising edge of a    *)
(* line that is not masked is remembered in irr; the line with the lowest    *)
(* number is offered to the CPU, and the CPU's acknowledgement forgets it.   *)
(* PicClock is one clock edge; "ack" is interrupt_ack, "imr_write" the mask  *)
(* written by the CPU, if any.                                               *)
(***************************************************************************)
EXTENDS Naturals

CONSTANT INTR_QTY            \* 5 lines in the code

ASSUME QtyAssumption == INTR_QTY \in Nat \ {0}

VARIABLES d_interrupt_input,      \* the lines at the last edge
          imr, irr,               \* masked lines; remembered lines
          interrupt_valid, irr_idx  \* the line offered to the CPU (its vector)

pic_vars == <<d_interrupt_input, imr, irr, interrupt_valid, irr_idx>>

Lines == 0 .. INTR_QTY - 1

PicInit == /\ d_interrupt_input = {} /\ imr = {} /\ irr = {}
           /\ interrupt_valid = FALSE /\ irr_idx = 0

rising(interrupt_input) == interrupt_input \ (d_interrupt_input \cup imr)

(* An edge on the clock edge of the acknowledgement is kept.                 *)
acknowledged(ack) == IF interrupt_valid /\ ack THEN {irr_idx} ELSE {}
irr_next(interrupt_input, ack) == (irr \ acknowledged(ack)) \cup rising(interrupt_input)

first_of(lines) == CHOOSE i \in lines : \A j \in lines : i <= j

offer_newest(ack) ==                   \* mutant: the offer follows the priorities while it waits
    IF irr # {} /\ ~(interrupt_valid /\ ack)
    THEN interrupt_valid' = TRUE /\ irr_idx' = first_of(irr)
    ELSE interrupt_valid' = FALSE /\ irr_idx' = irr_idx
offer(ack) ==
    IF ~interrupt_valid /\ irr # {}
    THEN interrupt_valid' = TRUE /\ irr_idx' = first_of(irr)
    ELSE interrupt_valid' = (interrupt_valid /\ ~ack) /\ irr_idx' = irr_idx

PicClock(interrupt_input, ack, imr_write) ==
    /\ d_interrupt_input' = interrupt_input
    /\ imr' = imr_write
    /\ irr' = irr_next(interrupt_input, ack)
    /\ offer(ack)

PicTypeOK == /\ d_interrupt_input \subseteq Lines /\ imr \subseteq Lines /\ irr \subseteq Lines
             /\ interrupt_valid \in BOOLEAN /\ irr_idx \in Lines
=============================================================================
