------------------------------ MODULE Machine ------------------------------
(***************************************************************************)
(* The part of a CFDP transaction that every state machine shares: the     *)
(* Transaction and Machine classes of machines/machine.py, as records and  *)
(* pure operators on them. An operator has the name of the method it       *)
(* translates, takes the machine as it is before the call and returns the  *)
(* machine as it is after. Sender1 and Receiver1 add update_state.         *)
(*                                                                         *)
(* Left out: the flags of the acknowledged mode (ACK, NAK and FIN PDUs),   *)
(* which nothing sets, and `frozen`, which only an event that no caller    *)
(* raises would set. Indications are log messages and are left out.        *)
(***************************************************************************)
EXTENDS Naturals, Sequences

Roles == {"UNDEFINED", "CLASS_1_SENDER", "CLASS_1_RECEIVER"}

ConditionCodes == {"NO_ERROR", "CANCEL_REQUEST_RECEIVED"}

\* HandlerCode. A condition without an entry in the MIB gets None, which does
\* what IGNORE does.
HandlerCodes == {"CANCEL", "SUSPEND", "IGNORE", "ABANDON"}

FinalStatuses == {"SUCCESSFUL", "CANCELLED", "ABANDONED", "NO_METADATA"}

\* The timer of a machine; a sender has none. Time is abstract: a RUNNING timer
\* may have expired whenever somebody looks.
TimerModes == {"None", "OFF", "RUNNING", "PAUSED"}

\* Machine.__init__ and Transaction.__init__.
NewMachine(role, timer) ==
  [ role             |-> role,
    state            |-> "S1",
    file             |-> "None",     \* open source file of a sender
    temp_file        |-> "None",     \* temporary file of a receiver
    inactivity_timer |-> timer,
    is_md_outgoing   |-> FALSE,
    is_oef_outgoing  |-> FALSE,
    eof_sent         |-> FALSE,
    initiated_cancel |-> FALSE,
    is_shutdown      |-> FALSE,
    suspended        |-> FALSE,
    cancelled        |-> FALSE,
    abandoned        |-> FALSE,
    finished         |-> FALSE,
    condition_code   |-> "None",
    final_status     |-> "None",
    delivery_code    |-> "None",
    put_request_received |-> FALSE,
    file_size         |-> 0,     \* of the source file, in the sender's metadata
    tell              |-> 0,     \* position in the open source file
    filedata_checksum |-> 0,
    recv_file_size    |-> 0,
    temp_data         |-> <<>>,  \* content of the temporary file
    temp_exists       |-> FALSE ]

\* The values of a machine, given those of the checksum it keeps.
MachineType(checksums) ==
  [ role : Roles, state : {"S1", "S2"},
    file : {"None", "Open"}, temp_file : {"None", "Open", "Closed"},
    inactivity_timer : TimerModes,
    is_md_outgoing : BOOLEAN, is_oef_outgoing : BOOLEAN, eof_sent : BOOLEAN,
    initiated_cancel : BOOLEAN, is_shutdown : BOOLEAN, suspended : BOOLEAN,
    cancelled : BOOLEAN, abandoned : BOOLEAN, finished : BOOLEAN,
    condition_code : ConditionCodes \cup {"None"},
    final_status : FinalStatuses \cup {"None"},
    delivery_code : {"None", "DATA_COMPLETE"},
    put_request_received : BOOLEAN,
    file_size : Nat, tell : Nat, filedata_checksum : checksums,
    recv_file_size : Nat, temp_data : Seq(Nat), temp_exists : BOOLEAN ]

\* As it would be without the test that there is a timer.
StopTimersUnchecked(mode) == "OFF"

StopTimers(mode) == IF mode = "None" THEN "None" ELSE "OFF"

\* As it would be if it left the source file open.
shutdownWithFileOpen(m) ==
  [m EXCEPT !.temp_file = IF @ = "Open" THEN "None" ELSE @, !.is_shutdown = TRUE]

shutdown(m) ==
  [m EXCEPT !.file = "None",
            !.temp_file = IF @ = "Open" THEN "None" ELSE @,
            !.is_shutdown = TRUE]

abandon(m) ==
  shutdown([m EXCEPT !.abandoned = TRUE,
                     !.finished = TRUE,
                     !.final_status = "ABANDONED"])

suspend(m) ==
  IF m.suspended THEN m
  ELSE [m EXCEPT !.suspended = TRUE,
                 !.inactivity_timer = IF @ = "RUNNING" THEN "PAUSED" ELSE @]

cancel(m) ==
  [m EXCEPT !.is_oef_outgoing = FALSE,
            !.is_md_outgoing = FALSE,
            !.cancelled = TRUE,
            !.inactivity_timer = StopTimers(@)]

\* As it would be without the shutdown at its end.
notifyWithoutShutdown(m) == [m EXCEPT !.is_oef_outgoing = TRUE, !.cancelled = TRUE]

notify_partner_of_cancel(m) ==
  shutdown([m EXCEPT !.is_oef_outgoing = TRUE, !.cancelled = TRUE])

\* is_metadata_received is initialised to False and never set, so a machine in
\* the receiver's role would always report NO_METADATA; no machine has that role.
finish_transaction(m) ==
  [m EXCEPT !.is_oef_outgoing = FALSE,
            !.is_md_outgoing = FALSE,
            !.inactivity_timer = StopTimers(@),
            !.finished = TRUE,
            !.final_status = CASE m.role = "CLASS_1_RECEIVER" -> "NO_METADATA"
                               [] m.role # "CLASS_1_RECEIVER" /\ m.cancelled -> "CANCELLED"
                               [] OTHER -> "SUCCESSFUL"]

\* Every fault is raised in state S2. There a sender answers NOTICE_OF_CANCELLATION,
\* ABANDON_TRANSACTION and NOTICE_OF_SUSPENSION with the methods named here; a
\* receiver answers ABANDON_TRANSACTION with a shutdown and ignores a suspension.
fault_handler(m, handler) ==
  LET cancelled == cancel([m EXCEPT !.initiated_cancel = TRUE])
  IN  CASE handler = "IGNORE" -> m
        [] handler = "CANCEL" /\ m.role = "CLASS_1_SENDER" ->
             notify_partner_of_cancel(cancelled)
        [] handler = "CANCEL" /\ m.role = "CLASS_1_RECEIVER" ->
             finish_transaction(cancelled)
        [] handler = "CANCEL" /\ m.role = "UNDEFINED" -> cancelled
        [] handler = "ABANDON" ->
             IF m.role = "CLASS_1_SENDER" THEN abandon(m) ELSE shutdown(m)
        [] handler = "SUSPEND" ->
             IF m.role = "CLASS_1_SENDER" THEN suspend(m) ELSE m
============================================================================
