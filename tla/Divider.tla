------------------------------ MODULE Divider ------------------------------
(***************************************************************************)
(* riscv_divider.v: one bit of the quotient a clock edge.  The issue stage *)
(* starts a division and holds the pipeline until writeback_valid_o; a     *)
(* squash of the instruction does not reach the divider, which goes on     *)
(* with a division nobody waits for until another one replaces it.         *)
(***************************************************************************)
EXTENDS Arithmetic

CONSTANTS
  Divisions,    (* [op, a, b]: divisions a fresh divider is given           *)
  Again,        (* divisions it is given afterwards                         *)
  AbandonAtEnd  (* whether one may start in the cycle another one completes *)

DivisionNames == {"div", "divu", "rem", "remu"}

ASSUME DividerAssumption ==
  /\ \A d \in Divisions \cup Again : d.op \in DivisionNames /\ d.a \in Number /\ d.b \in Number
  /\ AbandonAtEnd \in BOOLEAN

VARIABLES
  div,     (* div_busy_q, dividend_q, divisor_q, quotient_q, q_mask_q,      *)
           (* div_inst_q and invert_res_q                                   *)
  valid,   (* valid_q                                                       *)
  result,  (* wb_result_q                                                   *)
  asked    (* the division the pipeline waits for, or Nothing               *)

divVars == <<div, valid, result, asked>>

Nothing == [op |-> "nothing"]

DivReset == [busy |-> FALSE, dividend |-> 0, divisor |-> 0, quotient |-> 0, mask |-> 0,
             isDiv |-> FALSE, invert |-> FALSE]

DivInit == div = DivReset /\ valid = FALSE /\ result = 0 /\ asked = Nothing

Magnitude(op, x) == IF op \in {"div", "rem"} /\ Negative(x) THEN Wrap(-x) ELSE x

(* A slip: the quotient of a division by zero gets a sign, too. *)
LoadedSigned(op, a, b) ==
  [busy |-> TRUE, dividend |-> Magnitude(op, a), divisor |-> Magnitude(op, b) * 2^(W - 1),
   quotient |-> 0, mask |-> 2^(W - 1), isDiv |-> op \in {"div", "divu"},
   invert |-> \/ op = "div" /\ Negative(a) # Negative(b)
              \/ op = "rem" /\ Negative(a)]

Loaded(op, a, b) ==
  [busy     |-> TRUE,
   dividend |-> Magnitude(op, a),
   divisor  |-> Magnitude(op, b) * 2^(W - 1),
   quotient |-> 0,
   mask     |-> 2^(W - 1),
   isDiv    |-> op \in {"div", "divu"},
   invert   |-> \/ op = "div" /\ Negative(a) # Negative(b) /\ b # 0
                \/ op = "rem" /\ Negative(a)]

DivComplete == div.mask = 0 /\ div.busy

Stepped ==
  LET fits == div.divisor <= div.dividend
  IN  [div EXCEPT !.dividend = IF fits THEN Wrap(@ - div.divisor) ELSE @,
                  !.quotient = IF fits THEN @ + div.mask ELSE @,
                  !.divisor = @ \div 2,
                  !.mask = @ \div 2]

DivResult ==
  LET magnitude == IF div.isDiv THEN div.quotient ELSE div.dividend
  IN  IF div.invert THEN Wrap(-magnitude) ELSE magnitude

(* The flops that every edge sets, whether a division starts or not.       *)
DivOutput ==
  /\ valid' = DivComplete
  /\ result' = IF DivComplete THEN DivResult ELSE result

(* A division is issued: the pipeline waits for no other.                  *)
Divide(d) ==
  /\ asked = Nothing
  /\ AbandonAtEnd \/ ~ DivComplete
  /\ div' = Loaded(d.op, d.a, d.b)
  /\ asked' = d
  /\ DivOutput

(* The pipeline takes the answer, or squashes the instruction.             *)
DivideOn(squash) ==
  /\ \/ div.busy
     \/ valid
  /\ div' = IF DivComplete THEN [div EXCEPT !.busy = FALSE]
            ELSE IF div.busy THEN Stepped
            ELSE div
  /\ asked' = IF valid \/ squash THEN Nothing ELSE asked
  /\ DivOutput
=============================================================================
