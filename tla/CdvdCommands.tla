----------------------------- MODULE CdvdCommands -----------------------------
(***************************************************************************)
(* The CDVD's S-commands as the IOP's driver uses them: parameters go into  *)
(* a FIFO of 16 bytes, the command register executes at once and answers    *)
(* with 1 to 16 bytes, which are read one by one while the ready register   *)
(* says that there are more.  A store of a halfword at the command register *)
(* is a command and, after it, a parameter byte of the next one; a load at  *)
(* the data register takes one byte, whatever its width.                    *)
(*                                                                         *)
(* A byte of an answer is zero, a byte of that command's own, or an error   *)
(* code.                                                                    *)
(***************************************************************************)
EXTENDS Integers, Sequences

CONSTANTS
  Fifo,       \* 16
  Bytes,      \* parameter bytes considered
  MaxSent     \* bound: parameters the driver sends before a command

(* What the constants must be.                                              *)
CdvdAssumption == Fifo \in Nat /\ Fifo >= 3 /\ 0 \in Bytes /\ Bytes \subseteq Nat /\ MaxSent \in Nat

Commands == {"mecha", "forbid", "wakeup", "bypass", "region", "open", "read", "write", "close",
             "other"}

VARIABLES
  params,     \* cdvd_scmd_params_, the first cdvd_scmd_param_count_
  result, pos,\* cdvd_scmd_result_, the first cdvd_scmd_result_count_; cdvd_scmd_result_pos_
  ready,      \* bit 6 of cdvd_sready_ is clear: there is an answer to read
  config,     \* cdvd_config_: rw, blocks, index; the offset is not used
  driver      \* history: sent, what the driver sent since the last command; length and
              \* refused, the answer it may expect to that; opened, the first parameter of
              \* the last OPEN not closed, or None; got, the bytes read since

vars == <<params, result, pos, ready, config, driver>>

None == -1
Closed == [rw |-> 0, blocks |-> 0, index |-> 0]

(* iop_write8 at S-DATAIN: a full FIFO drops the byte.                      *)
Pushed(queue, v) == IF Len(queue) < Fifo THEN Append(queue, v) ELSE queue

Blank(n) == [i \in 1..n |-> "zero"]
Head1(v, n) == <<v>> \o Blank(n - 1)
Error(wrong) == IF wrong THEN "error" ELSE "zero"

(* What a command answers.                                                  *)
Answer(command) ==
  CASE command = "mecha"  -> IF params # <<>> /\ params[1] = 0
                             THEN <<"mecha", "mecha", "mecha", "zero">> ELSE <<"refused">>
    [] command = "forbid" -> <<"forbid">>
    [] command = "wakeup" -> Blank(10)
    [] command = "region" -> <<"zero", "region", "zero">> \o [i \in 1..7 |-> "region"] \o Blank(5)
    [] command = "read"   -> Head1(Error(config.rw # 0), 16)
    [] command = "write"  -> <<Error(config.rw # 1)>>
    [] command = "other"  -> <<"error">>
    [] OTHER              -> <<"zero">>

(* What it does to the configuration area's state.                          *)
Configured(command) ==
  CASE command = "open" /\ Len(params) >= 3 ->
         [rw |-> params[1], blocks |-> params[3], index |-> 0]
    [] command \in {"read", "write"} /\ config.index < config.blocks ->
         [config EXCEPT !.index = @ + 1]
    [] command = "close" -> Closed
    [] OTHER -> config

-----------------------------------------------------------------------------
(* What a driver may expect of an answer.                                   *)
Length(command, args) ==
  CASE command = "mecha"  -> IF args # <<>> /\ Head(args) = 0 THEN 4 ELSE 1
    [] command = "wakeup" -> 10
    [] command = "region" -> 15
    [] command = "read"   -> 16
    [] OTHER -> 1

(* The mechacon has the version command only; READ and WRITE want the area  *)
(* open their way (a drive that nothing was opened on can be read).         *)
Refused(command, args, opened) ==
  CASE command = "mecha" -> args = <<>> \/ Head(args) # 0
    [] command = "read"  -> opened \notin {None, 0}
    [] command = "write" -> opened # 1
    [] OTHER -> command = "other"

(* iop_write8 at S-COMMAND; rest is what follows it in the same store.  The *)
(* mutant leaves an old answer's position.                                  *)
RestartKept == pos
Restart == 0
Execute(command, rest) ==
  /\ result' = Answer(command) /\ pos' = Restart /\ ready' = TRUE
  /\ config' = Configured(command)
  /\ params' = rest
  /\ driver' = [sent |-> rest, got |-> <<>>, length |-> Length(command, driver.sent),
                refused |-> Refused(command, driver.sent, driver.opened),
                opened |-> CASE command = "open" /\ Len(driver.sent) >= 3 -> Head(driver.sent)
                             [] command = "close" -> None
                             [] OTHER -> driver.opened]

Command == \E c \in Commands : Execute(c, <<>>)
CommandHalfword == \E c \in Commands, v \in Bytes : Execute(c, <<v>>)

Parameter ==
  /\ Len(driver.sent) < MaxSent
  /\ \E v \in Bytes : /\ params' = Pushed(params, v)
                      /\ driver' = [driver EXCEPT !.sent = Append(@, v)]
  /\ UNCHANGED <<result, pos, ready, config>>

(* iop_read8 at S-DATAOUT.                                                  *)
ReadData ==
  /\ Len(driver.got) <= 16
  /\ IF ready /\ pos < Len(result)
     THEN /\ pos' = pos + 1 /\ ready' = (pos' < Len(result))
          /\ driver' = [driver EXCEPT !.got = Append(@, result[pos'])]
     ELSE /\ driver' = [driver EXCEPT !.got = Append(@, "zero")]
          /\ UNCHANGED <<pos, ready>>
  /\ UNCHANGED <<params, result, config>>

Init ==
  /\ params = <<>> /\ result = <<>> /\ pos = 0 /\ ready = FALSE /\ config = Closed
  /\ driver = [sent |-> <<>>, got |-> <<>>, length |-> 0, refused |-> FALSE, opened |-> None]

Next == Command \/ CommandHalfword \/ Parameter \/ ReadData

Spec == Init /\ [][Next]_vars

-----------------------------------------------------------------------------
(* The driver reads the answer to its last command, computed from the       *)
(* parameters it sent for that command, whole and in order, then zeros; the *)
(* ready register says exactly whether there is more; a parameter of one    *)
(* command or an unread byte of one answer never reaches the next.          *)
CommandResults ==
  LET got == driver.got
      refusals == {"error", "refused"}
  IN  /\ ready <=> Len(got) < driver.length
      /\ driver.length > 0 /\ got # <<>> => (Head(got) \in refusals <=> driver.refused)
      /\ \A i \in DOMAIN got : /\ i > driver.length => got[i] = "zero"
                               /\ i > 1 => got[i] \notin refusals
                               /\ i <= driver.length => got[i] = result[i]
      /\ config.index <= config.blocks
===============================================================================
