---------------------------- MODULE TaskIdFormat ----------------------------
(***************************************************************************)
(* generate_task_id (lib.rs 615-632) formats the triple                    *)
(*   (block number, extrinsic index, event count)                          *)
(* as the bytes of format!("{:}-{:}-{:}", ...).  A task id is modelled as  *)
(* the sequence of its characters; each number is written in decimal.     *)
(***************************************************************************)
EXTENDS Naturals, Sequences

\* The ten decimal digit characters, indexed by their value.
DigitChar == [d \in 0..9 |-> <<"0","1","2","3","4","5","6","7","8","9">>[d + 1]]

\* The "{:}" Display formatting of an unsigned integer: its decimal digits,
\* most significant first, without leading zeros.
DecimalDigits[n \in Nat] ==
    IF n < 10 THEN <<DigitChar[n]>>
    ELSE DecimalDigits[n \div 10] \o <<DigitChar[n % 10]>>

\* Mutant: the format string without the event count, "{:}-{:}".
GenerateTaskIdWithoutEvent(blockNumber, txId, evtIndex) ==
    DecimalDigits[blockNumber] \o <<"-">> \o DecimalDigits[txId]

\* Mutant: the format string without separators, "{:}{:}{:}".
GenerateTaskIdUnseparated(blockNumber, txId, evtIndex) ==
    DecimalDigits[blockNumber] \o DecimalDigits[txId] \o DecimalDigits[evtIndex]

\* generate_task_id: block number and extrinsic index default to 0 when
\* absent (lib.rs 616-625); the caller passes the values it read.
GenerateTaskId(blockNumber, txId, evtIndex) ==
    DecimalDigits[blockNumber] \o <<"-">> \o DecimalDigits[txId]
        \o <<"-">> \o DecimalDigits[evtIndex]
=============================================================================
