--------------------------------- MODULE Ahci ---------------------------------
(***************************************************************************)
(* A port of the AHCI driver (drivers/hdd/ahci) and the controller on the  *)
(* other side of its registers. The driver polls: each read of a register  *)
(* is a step of its own, and the controller goes on in between. It answers *)
(* a command with the data or with an error; it may be busy for as long as *)
(* it likes before a command. The driver uses the first command slot only. *)
(***************************************************************************)
EXTENDS Naturals, TLC

CONSTANTS
  SPIN_LIMIT,    \* polls for a device that is busy (10000000)
  SECTORS,       \* sectors of one read (sector_count)
  Sectors        \* bound: the sectors that are read from

ASSUME AhciAssumption ==
  SPIN_LIMIT \in Nat /\ SECTORS \in Nat \ {0} /\ Sectors \subseteq Nat

VARIABLES
  \* registers of the port
  ST, CR, FRE, FR,  \* command_and_status: start and running, FIS enable and running
  busy,             \* task_file_data: ATA_DEV_BUSY or ATA_DEV_DRQ
  issued,           \* command_issue, bit 0
  TFES,             \* interrupt_status: HBA_PxIS_TFES
  \* memory that the controller reads and writes
  table,            \* the sector in the command table of slot 0
  buffer,           \* for each sector of the read, {the sector whose data it holds}
  \* the controller
  transfer,         \* the command it carries out: [sector, done], or NoTransfer
  halted,           \* it has failed a command and takes no other before a restart
  \* the driver
  pc,               \* what it does next
  spin,             \* the local of read_sector
  request, result   \* the sector last asked for, what read_sector returned

registers == <<ST, CR, FRE, FR, busy, issued, TFES>>
controller == <<transfer, halted>>
call == <<spin, request, result>>
vars == <<registers, table, buffer, controller, pc, call>>

NoTransfer == [sector |-> 0, done |-> SECTORS + 1]
Old == {}
Index == 0 .. SECTORS - 1

\* The command has the three low bytes of the number of the sector.
LBA_LIMIT == 16777216
lba(sector) == sector % LBA_LIMIT

\* What the firmware leaves: the port running or not, the device busy or not.
Init ==
  /\ ST \in BOOLEAN /\ CR = ST /\ FRE = ST /\ FR = ST
  /\ busy \in BOOLEAN
  /\ issued = FALSE /\ TFES = FALSE
  /\ table = 0
  /\ buffer = [i \in Index |-> Old]
  /\ transfer = NoTransfer /\ halted = FALSE
  /\ pc = "unconfigured"
  /\ spin = 0 /\ request = 0 /\ result = FALSE

-----------------------------------------------------------------------------
(* The driver. *)

Idle == pc \in {"unconfigured", "idle"}

\* configure_port(): stop_cmd() clears ST and then FRE, and waits for both to be
\* seen; start_cmd() waits for CR alone.
configure_port ==
  /\ Idle
  /\ ST' = FALSE /\ pc' = "stop_fre"
  /\ UNCHANGED <<CR, FRE, FR, busy, issued, TFES, table, buffer, controller, call>>

StopFre ==
  /\ pc = "stop_fre"
  /\ FRE' = FALSE /\ pc' = "stopping"
  /\ UNCHANGED <<ST, CR, FR, busy, issued, TFES, table, buffer, controller, call>>

\* The port has stopped: it gets a new command list and new, cleared tables.
StopWaits ==
  /\ pc = "stopping" /\ ~FR /\ ~CR
  /\ table' = 0 /\ pc' = "starting"
  /\ UNCHANGED <<registers, buffer, controller, call>>

StartFre ==
  /\ pc = "starting" /\ ~CR
  /\ FRE' = TRUE /\ pc' = "start_st"
  /\ UNCHANGED <<ST, CR, FR, busy, issued, TFES, table, buffer, controller, call>>

StartSt ==
  /\ pc = "start_st"
  /\ ST' = TRUE /\ pc' = "idle"
  /\ UNCHANGED <<CR, FRE, FR, busy, issued, TFES, table, buffer, controller, call>>

Asks(sector) ==
  /\ pc = "idle"
  /\ table' = lba(sector) /\ request' = sector /\ spin' = 0
  /\ pc' = "spin"
  /\ UNCHANGED <<ST, CR, FRE, FR, busy, issued, buffer, controller, result>>

ReadWithOldStatus(sector) == Asks(sector) /\ UNCHANGED TFES   \* mutant
read_sector(sector) == Asks(sector) /\ TFES' = FALSE

Returns(ok) == result' = ok /\ pc' = "idle"

SpinOnceMore ==                                  \* mutant
  /\ pc = "spin" /\ busy /\ spin <= SPIN_LIMIT
  /\ spin' = spin + 1
  /\ UNCHANGED <<registers, table, buffer, controller, pc, request, result>>

Spin ==
  /\ pc = "spin" /\ busy /\ spin < SPIN_LIMIT
  /\ spin' = spin + 1
  /\ UNCHANGED <<registers, table, buffer, controller, pc, request, result>>

\* Also when the device has become ready at the very last poll.
SpinTimesOut ==
  /\ pc = "spin" /\ spin = SPIN_LIMIT
  /\ Returns(FALSE)
  /\ UNCHANGED <<registers, table, buffer, controller, spin, request>>

Issue ==
  /\ pc = "spin" /\ ~busy /\ spin < SPIN_LIMIT
  /\ issued' = TRUE /\ pc' = "poll_issue"
  /\ UNCHANGED <<ST, CR, FRE, FR, busy, TFES, table, buffer, controller, call>>

PollBusy ==                                      \* mutant: done if not busy
  /\ pc = "poll_issue"
  /\ IF busy THEN pc' = "poll_status" /\ UNCHANGED result ELSE Returns(TRUE)
  /\ UNCHANGED <<registers, table, buffer, controller, spin, request>>

PollIssue ==
  /\ pc = "poll_issue"
  /\ IF issued THEN pc' = "poll_status" /\ UNCHANGED result ELSE Returns(TRUE)
  /\ UNCHANGED <<registers, table, buffer, controller, spin, request>>

PollNoStatus ==                                  \* mutant: errors not looked for
  /\ pc = "poll_status"
  /\ pc' = "poll_issue"
  /\ UNCHANGED <<registers, table, buffer, controller, call>>

PollStatus ==
  /\ pc = "poll_status"
  /\ IF TFES THEN Returns(FALSE) ELSE pc' = "poll_issue" /\ UNCHANGED result
  /\ UNCHANGED <<registers, table, buffer, controller, spin, request>>

DriverStep ==
  \/ StopFre \/ StopWaits \/ StartFre \/ StartSt
  \/ Spin \/ SpinTimesOut \/ Issue \/ PollIssue \/ PollStatus

-----------------------------------------------------------------------------
(* The controller, as the driver has to expect it to be. *)

\* The command list starts, and stops: with it go the issued commands, a transfer
\* that is under way and the memory of a failure.
ListStarts ==
  /\ ST /\ ~CR
  /\ CR' = TRUE
  /\ UNCHANGED <<ST, FRE, FR, busy, issued, TFES, table, buffer, controller, pc, call>>

ListStops ==
  /\ ~ST /\ CR
  /\ CR' = FALSE /\ issued' = FALSE
  /\ transfer' = NoTransfer /\ halted' = FALSE
  /\ UNCHANGED <<ST, FRE, FR, busy, TFES, table, buffer, pc, call>>

FisFollows ==
  /\ FR # FRE
  /\ FR' = FRE
  /\ UNCHANGED <<ST, CR, FRE, busy, issued, TFES, table, buffer, controller, pc, call>>

Fetch ==
  /\ ST /\ CR /\ FR /\ issued /\ ~halted /\ transfer = NoTransfer
  /\ transfer' = [sector |-> table, done |-> 0]
  /\ busy' = TRUE
  /\ UNCHANGED <<ST, CR, FRE, FR, issued, TFES, table, buffer, halted, pc, call>>

Transfer ==
  /\ transfer.done < SECTORS
  /\ buffer' = [buffer EXCEPT ![transfer.done] = {transfer.sector + transfer.done}]
  /\ transfer' = [transfer EXCEPT !.done = @ + 1]
  /\ UNCHANGED <<registers, table, halted, pc, call>>

Complete ==
  /\ transfer.done = SECTORS
  /\ transfer' = NoTransfer /\ busy' = FALSE /\ issued' = FALSE
  /\ UNCHANGED <<ST, CR, FRE, FR, TFES, table, buffer, halted, pc, call>>

\* A task file error: the command stays issued.
Fail ==
  /\ transfer # NoTransfer
  /\ transfer' = NoTransfer /\ halted' = TRUE /\ TFES' = TRUE /\ busy' = FALSE
  /\ UNCHANGED <<ST, CR, FRE, FR, issued, table, buffer, pc, call>>

\* What it was busy with before the driver came, or before the port was stopped,
\* ends or does not.
BecomesReady ==
  /\ busy /\ transfer = NoTransfer
  /\ busy' = FALSE
  /\ UNCHANGED <<ST, CR, FRE, FR, issued, TFES, table, buffer, controller, pc, call>>

-----------------------------------------------------------------------------

Port == ListStarts \/ ListStops \/ FisFollows \/ Fetch
Answer == Transfer \/ Complete \/ Fail

Next ==
  \/ configure_port \/ \E sector \in Sectors : read_sector(sector)
  \/ DriverStep \/ Port \/ Answer \/ BecomesReady

Spec == Init /\ [][Next]_vars

\* The driver's loops go on, the port follows its start and stop bits and takes
\* up what is issued, and the device answers what it has taken up.
FairSpec == Spec /\ WF_vars(DriverStep) /\ WF_vars(Port) /\ WF_vars(Answer)

-----------------------------------------------------------------------------
(* Properties *)

Addressed == {lba(sector) : sector \in Sectors}

\* Every register and local has its type; the polls are counted to their limit.
TypeOK ==
  /\ ST \in BOOLEAN /\ CR \in BOOLEAN /\ FRE \in BOOLEAN /\ FR \in BOOLEAN
  /\ busy \in BOOLEAN /\ issued \in BOOLEAN /\ TFES \in BOOLEAN
  /\ halted \in BOOLEAN /\ result \in BOOLEAN
  /\ table \in Addressed \cup {0} /\ request \in Sectors \cup {0}
  /\ DOMAIN buffer = Index
  /\ transfer = NoTransfer \/ /\ transfer.sector \in Addressed
                              /\ transfer.done \in 0 .. SECTORS
  /\ spin \in 0 .. SPIN_LIMIT

\* When read_sector() returns true, the buffer holds the sectors it was asked
\* for, if they are within the first 8 GiB of the disk, although between its two registers, and between poll and poll, the
\* controller fetches, transfers, fails or completes. [ahci.c:93-106]
ReadGivesSectors ==
  pc = "idle" /\ result /\ request < LBA_LIMIT =>
    \A i \in Index : buffer[i] = {request + i}

\* The controller writes to the buffer only while read_sector() waits for it: once
\* it has returned, also with false and after an earlier failure, the caller may
\* use the page for something else. [ahci.c:61, 97, 103]
BufferOnlyWhileReading ==
  [][buffer' # buffer => pc \in {"poll_issue", "poll_status"}]_vars

\* Each call of configure_port() and read_sector() returns if the device answers,
\* with data or an error, whatever it was doing before. Only a read from a port that
\* has failed one and was not configured again does not: its command is never taken
\* up, and the old error was cleared. [ahci.c:12-24, 94-104]
CallsReturn ==
  ~Idle /\ ~(halted /\ ~TFES) ~> Idle
=============================================================================
