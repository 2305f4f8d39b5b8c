------------------------------ MODULE AhciProofs ------------------------------
(***************************************************************************)
(* What holds of every read of a port, for any number of sectors, any      *)
(* limit of polls, and whatever the controller does between two accesses   *)
(* of the driver.                                                          *)
(***************************************************************************)
EXTENDS Ahci, TLAPS

Points == {"unconfigured", "stop_fre", "stopping", "starting", "start_st",
           "idle", "spin", "poll_issue", "poll_status"}
Polls == {"poll_issue", "poll_status"}

\* the first n sectors of the buffer hold what is on the disk from `sector' on
Holds(n, sector) == \A i \in Index : i < n => buffer[i] = {sector + i}

Flags ==
  /\ ST \in BOOLEAN /\ CR \in BOOLEAN /\ FRE \in BOOLEAN /\ FR \in BOOLEAN
  /\ busy \in BOOLEAN /\ issued \in BOOLEAN /\ TFES \in BOOLEAN
  /\ halted \in BOOLEAN /\ result \in BOOLEAN

Data ==
  /\ table \in Addressed \cup {0} /\ request \in Sectors \cup {0}
  /\ DOMAIN buffer = Index
  /\ transfer \in [sector : Addressed \cup {0}, done : 0 .. SECTORS + 1]
  /\ transfer = NoTransfer
     \/ (transfer.sector \in Addressed /\ transfer.done <= SECTORS)
  /\ spin \in 0 .. SPIN_LIMIT
  /\ pc \in Points

\* A command is carried out only while the driver polls for it, and from the
\* table as the driver wrote it.
CommandInv ==
  /\ pc \in {"idle", "spin"} \cup Polls => ST
  /\ pc \in {"spin"} \cup Polls => table = lba(request) /\ request \in Sectors
  /\ issued /\ ~halted => pc \in Polls
  /\ transfer # NoTransfer => issued /\ ~halted /\ transfer.sector = lba(request)

\* While a read is under way, the error bit is that of the read, or of an earlier
\* one after which the controller takes no command.
ErrorInv == pc \in {"spin"} \cup Polls /\ TFES => halted

\* Where the data is: up to the sector that is transferred next; all of it when the
\* command is no longer issued, and when the driver has returned true.
DataInv ==
  /\ transfer # NoTransfer => Holds(transfer.done, lba(request))
  /\ pc \in Polls /\ ~issued => Holds(SECTORS, lba(request))
  /\ pc \notin {"spin"} \cup Polls /\ result => Holds(SECTORS, lba(request))

AInv == Flags /\ Data /\ CommandInv /\ ErrorInv /\ DataInv

-----------------------------------------------------------------------------
(* Types *)

\* A transfer that is under way is not NoTransfer, and does not become it.
LEMMA TransferIsActive ==
  ASSUME Data
  PROVE  /\ transfer.done \in Nat
         /\ transfer.done <= SECTORS <=> transfer # NoTransfer
<1>1. SECTORS \in Nat \ {0}
  BY AhciAssumption
<1>2. transfer.done \in 0 .. SECTORS + 1
  BY DEF Data
<1>3. transfer = NoTransfer => transfer.done = SECTORS + 1
  BY DEF NoTransfer
<1> QED BY <1>1, <1>2, <1>3 DEF Data

\* What a step of the transfer does to it.
LEMMA TransferSteps ==
  ASSUME Data, Transfer
  PROVE  /\ transfer # NoTransfer /\ transfer.done \in Index
         /\ transfer'.sector = transfer.sector /\ transfer'.done = transfer.done + 1
<1>1. SECTORS \in Nat \ {0} /\ transfer.done < SECTORS
  BY AhciAssumption DEF Transfer
<1>2. transfer # NoTransfer /\ transfer.done \in Index
  BY <1>1, TransferIsActive DEF Index
<1>3. transfer' = [transfer EXCEPT !.done = transfer.done + 1]
  BY Zenon DEF Transfer
<1>4. transfer'.sector = transfer.sector /\ transfer'.done = transfer.done + 1
  BY <1>3 DEF Data
<1> QED BY <1>2, <1>4

\* NoTransfer has the type of a transfer.
LEMMA NoTransferType ==
  NoTransfer \in [sector : Addressed \cup {0}, done : 0 .. SECTORS + 1]
BY AhciAssumption DEF NoTransfer

\* Each step keeps the types of the registers' bits ...
LEMMA FlagsNext == Flags /\ [Next]_vars => Flags'
<1> SUFFICES ASSUME Flags, [Next]_vars PROVE Flags'
  OBVIOUS
<1> USE DEF Flags, registers, controller, call
<1>1. CASE configure_port \/ StopFre \/ StopWaits \/ StartFre \/ StartSt
  <2>1. CASE configure_port
    BY <2>1, Zenon DEF configure_port
  <2>2. CASE StopFre
    BY <2>2, Zenon DEF StopFre
  <2>3. CASE StopWaits
    BY <2>3, Zenon DEF StopWaits
  <2>4. CASE StartFre
    BY <2>4, Zenon DEF StartFre
  <2>5. CASE StartSt
    BY <2>5, Zenon DEF StartSt
  <2> QED
    BY <1>1, <2>1, <2>2, <2>3, <2>4, <2>5
<1>2. ASSUME NEW sector \in Sectors, read_sector(sector) PROVE Flags'
  BY <1>2, Zenon DEF read_sector, Asks
<1>3. CASE Spin \/ SpinTimesOut \/ Issue \/ PollIssue \/ PollStatus
  <2>1. CASE Spin
    BY <2>1, Zenon DEF Spin
  <2>2. CASE SpinTimesOut
    BY <2>2, Zenon DEF SpinTimesOut, Returns
  <2>3. CASE Issue
    BY <2>3, Zenon DEF Issue
  <2>4. CASE PollIssue
    BY <2>4, Zenon DEF PollIssue, Returns
  <2>5. CASE PollStatus
    BY <2>5, Zenon DEF PollStatus, Returns
  <2> QED
    BY <1>3, <2>1, <2>2, <2>3, <2>4, <2>5
<1>4. CASE ListStarts \/ ListStops \/ FisFollows \/ Fetch
  <2>1. CASE ListStarts
    BY <2>1, Zenon DEF ListStarts
  <2>2. CASE ListStops
    BY <2>2, Zenon DEF ListStops
  <2>3. CASE FisFollows
    BY <2>3, Zenon DEF FisFollows
  <2>4. CASE Fetch
    BY <2>4, Zenon DEF Fetch
  <2> QED
    BY <1>4, <2>1, <2>2, <2>3, <2>4
<1>5. CASE Transfer \/ Complete \/ Fail \/ BecomesReady
  <2>1. CASE Transfer
    BY <2>1, Zenon DEF Transfer
  <2>2. CASE Complete
    BY <2>2, Zenon DEF Complete
  <2>3. CASE Fail
    BY <2>3, Zenon DEF Fail
  <2>4. CASE BecomesReady
    BY <2>4, Zenon DEF BecomesReady
  <2> QED
    BY <1>5, <2>1, <2>2, <2>3, <2>4
<1>6. CASE UNCHANGED vars
  BY <1>6, Zenon DEF vars
<1> QED
  BY <1>1, <1>2, <1>3, <1>4, <1>5, <1>6 DEF Next, DriverStep, Port, Answer

\* ... and of everything else.
LEMMA DataNext == Data /\ CommandInv /\ [Next]_vars => Data'
<1> SUFFICES ASSUME Data, CommandInv, [Next]_vars PROVE Data'
  OBVIOUS
<1> USE AhciAssumption DEF Data, Points, registers, controller, call
<1>1. CASE configure_port \/ StopFre \/ StopWaits \/ StartFre \/ StartSt
  BY <1>1 DEF configure_port, StopFre, StopWaits, StartFre, StartSt
<1>2. ASSUME NEW sector \in Sectors, read_sector(sector) PROVE Data'
  BY <1>2 DEF read_sector, Asks, Addressed
<1>3. CASE Spin \/ SpinTimesOut \/ Issue \/ PollIssue \/ PollStatus
  BY <1>3 DEF Spin, SpinTimesOut, Issue, PollIssue, PollStatus, Returns
<1>4. CASE ListStarts \/ FisFollows \/ BecomesReady
  BY <1>4 DEF ListStarts, FisFollows, BecomesReady
<1>5. CASE Fetch
  BY <1>5 DEF Fetch, CommandInv, Polls, Addressed
<1>6. CASE Transfer
  BY <1>6, TransferIsActive DEF Transfer
<1>7. CASE ListStops \/ Complete \/ Fail
  <2>1. transfer' = NoTransfer /\ UNCHANGED <<table, request, buffer, spin, pc>>
    BY <1>7, Zenon DEF ListStops, Complete, Fail
  <2> QED BY <2>1, NoTransferType
<1>8. CASE UNCHANGED vars
  BY <1>8 DEF vars
<1> QED
  BY <1>1, <1>2, <1>3, <1>4, <1>5, <1>6, <1>7, <1>8
  DEF Next, DriverStep, Port, Answer

-----------------------------------------------------------------------------
(* The invariant *)

\* The invariant holds at first, and each step keeps each part of it.
LEMMA AInvInit == Init => AInv
<1> SUFFICES ASSUME Init PROVE AInv
  OBVIOUS
<1> USE AhciAssumption DEF Init
<1>1. Flags
  BY Zenon DEF Flags
<1>2. Data
  BY NoTransferType DEF Data, Points
<1>3. CommandInv /\ ErrorInv /\ DataInv
  BY DEF CommandInv, ErrorInv, DataInv, Polls
<1> QED BY <1>1, <1>2, <1>3 DEF AInv

\* A command that is issued, and did not fail, is there only while the driver polls
\* for it, and its table is the one the driver wrote.
LEMMA CommandInvNext == AInv /\ [Next]_vars => CommandInv'
<1> SUFFICES ASSUME AInv, [Next]_vars PROVE CommandInv'
  OBVIOUS
<1> USE DEF AInv, CommandInv, Polls, registers, controller, call
<1>1. CASE configure_port \/ StopFre \/ StopWaits \/ StartFre \/ StartSt
  BY <1>1 DEF configure_port, Idle, StopFre, StopWaits, StartFre, StartSt
<1>2. ASSUME NEW sector \in Sectors, read_sector(sector) PROVE CommandInv'
  BY <1>2 DEF read_sector, Asks
<1>3. CASE Spin \/ SpinTimesOut \/ Issue
  BY <1>3 DEF Spin, SpinTimesOut, Issue, Returns
<1>4. CASE PollIssue \/ PollStatus
  BY <1>4 DEF PollIssue, PollStatus, Returns, ErrorInv
<1>5. CASE ListStarts \/ ListStops \/ FisFollows
  BY <1>5 DEF ListStarts, ListStops, FisFollows
<1>6. CASE Fetch
  BY <1>6 DEF Fetch
<1>7. CASE Transfer
  <2>1. transfer # NoTransfer /\ transfer'.sector = transfer.sector
    BY <1>7, TransferSteps
  <2>2. UNCHANGED <<ST, issued, halted, table, request, pc>>
    BY <1>7 DEF Transfer
  <2> QED BY <2>1, <2>2
<1>8. CASE Complete \/ Fail \/ BecomesReady
  BY <1>8 DEF Complete, Fail, BecomesReady
<1>9. CASE UNCHANGED vars
  BY <1>9 DEF vars
<1> QED
  BY <1>1, <1>2, <1>3, <1>4, <1>5, <1>6, <1>7, <1>8, <1>9
  DEF Next, DriverStep, Port, Answer

\* While a read is under way, a set error bit means that the controller has stopped.
LEMMA ErrorInvNext == AInv /\ [Next]_vars => ErrorInv'
<1> SUFFICES ASSUME AInv, [Next]_vars PROVE ErrorInv'
  OBVIOUS
<1> USE DEF AInv, ErrorInv, CommandInv, Polls, registers, controller, call
<1>1. CASE configure_port \/ StopFre \/ StopWaits \/ StartFre \/ StartSt
  BY <1>1 DEF configure_port, StopFre, StopWaits, StartFre, StartSt
<1>2. ASSUME NEW sector \in Sectors, read_sector(sector) PROVE ErrorInv'
  BY <1>2 DEF read_sector, Asks
<1>3. CASE Spin \/ SpinTimesOut \/ Issue \/ PollIssue \/ PollStatus
  BY <1>3 DEF Spin, SpinTimesOut, Issue, PollIssue, PollStatus, Returns
<1>4. CASE ListStarts \/ ListStops \/ FisFollows \/ Fetch
  BY <1>4 DEF ListStarts, ListStops, FisFollows, Fetch
<1>5. CASE Transfer \/ Complete \/ Fail \/ BecomesReady
  BY <1>5 DEF Transfer, Complete, Fail, BecomesReady
<1>6. CASE UNCHANGED vars
  BY <1>6 DEF vars
<1> QED
  BY <1>1, <1>2, <1>3, <1>4, <1>5, <1>6 DEF Next, DriverStep, Port, Answer

\* The buffer holds what was transferred so far, and all of it when the command is no
\* longer issued.
LEMMA DataInvNext == AInv /\ [Next]_vars => DataInv'
<1> SUFFICES ASSUME AInv, [Next]_vars PROVE DataInv'
  OBVIOUS
<1> USE AhciAssumption
    DEF AInv, DataInv, CommandInv, ErrorInv, Holds, Polls, registers, controller, call
<1>1. CASE configure_port \/ StopFre \/ StopWaits \/ StartFre \/ StartSt
  BY <1>1 DEF configure_port, Idle, StopFre, StopWaits, StartFre, StartSt
<1>2. ASSUME NEW sector \in Sectors, read_sector(sector) PROVE DataInv'
  BY <1>2 DEF read_sector, Asks
<1>3. CASE Spin \/ SpinTimesOut \/ Issue
  BY <1>3 DEF Spin, SpinTimesOut, Issue, Returns
<1>4. CASE PollIssue \/ PollStatus
  BY <1>4 DEF PollIssue, PollStatus, Returns
<1>5. CASE ListStarts \/ ListStops \/ FisFollows
  BY <1>5 DEF ListStarts, ListStops, FisFollows
<1>6. CASE Fetch
  <2>1. transfer'.sector = lba(request) /\ transfer'.done = 0 /\ issued /\ pc \in Polls
    BY <1>6 DEF Fetch
  <2>2. UNCHANGED <<buffer, issued, request, result, pc>>
    BY <1>6 DEF Fetch
  <2> QED BY <2>1, <2>2 DEF Index
<1>7. CASE Transfer
  <2>1. /\ transfer.done \in Index /\ transfer.sector = lba(request) /\ issued /\ pc \in Polls
        /\ transfer'.done = transfer.done + 1 /\ Holds(transfer.done, lba(request))
    BY <1>7, TransferSteps
  <2>2. /\ buffer' = [buffer EXCEPT ![transfer.done] = {lba(request) + transfer.done}]
        /\ UNCHANGED <<issued, request, result, pc>>
    BY <1>7, <2>1 DEF Transfer
  <2>3. \A i \in Index : i < transfer.done + 1 => buffer'[i] = {lba(request) + i}
    BY <2>1, <2>2 DEF Data, Index
  <2> QED BY <2>1, <2>2, <2>3
<1>8. CASE Complete
  <2>1. transfer # NoTransfer
    BY <1>8, TransferIsActive DEF Complete
  <2> QED BY <1>8, <2>1 DEF Complete
<1>9. CASE Fail \/ BecomesReady
  BY <1>9 DEF Fail, BecomesReady
<1>10. CASE UNCHANGED vars
  BY <1>10 DEF vars
<1> QED
  BY <1>1, <1>2, <1>3, <1>4, <1>5, <1>6, <1>7, <1>8, <1>9, <1>10
  DEF Next, DriverStep, Port, Answer

\* The invariant is inductive, and so holds for ever.
LEMMA AInvNext == AInv /\ [Next]_vars => AInv'
BY FlagsNext, DataNext, CommandInvNext, ErrorInvNext, DataInvNext DEF AInv

\* AInv is an invariant of the specification.
LEMMA Invariance == Spec => []AInv
BY AInvInit, AInvNext, PTL DEF Spec

-----------------------------------------------------------------------------
(* The theorems *)

\* Registers, locals and the transfer keep their types, and the polls for a busy
\* device end at their limit.
THEOREM TypeCorrect == Spec => []TypeOK
<1>1. AInv => TypeOK
  BY AhciAssumption DEF AInv, Flags, Data, TypeOK
<1> QED BY <1>1, Invariance, PTL

\* What read_sector() reports as read is in the buffer, every sector of it.
THEOREM ReadIsComplete == Spec => []ReadGivesSectors
<1>1. \A sector \in Nat : sector < LBA_LIMIT => lba(sector) = sector
  BY DEF lba, LBA_LIMIT
<1>2. AInv => ReadGivesSectors
  <2> SUFFICES ASSUME AInv, pc = "idle", result, request < LBA_LIMIT,
                      NEW i \in Index
               PROVE  buffer[i] = {request + i}
    BY DEF ReadGivesSectors
  <2>1. lba(request) = request
    BY <1>1, AhciAssumption DEF AInv, Data
  <2>2. Holds(SECTORS, lba(request))
    BY DEF AInv, DataInv, Polls
  <2> QED BY <2>1, <2>2, AhciAssumption DEF Holds, Index
<1> QED BY <1>2, Invariance, PTL

\* Once read_sector() has returned, also when it gave up, the controller leaves the
\* caller's page alone.
THEOREM BufferIsCallersAgain == Spec => BufferOnlyWhileReading
<1>1. AInv /\ [Next]_vars => [buffer' # buffer => pc \in {"poll_issue", "poll_status"}]_vars
  <2> SUFFICES ASSUME AInv, Next, buffer' # buffer PROVE pc \in Polls
    BY DEF Polls
  <2>1. Transfer
    BY DEF Next, DriverStep, Port, Answer, configure_port, StopFre, StopWaits, StartFre,
      StartSt, read_sector, Asks, Spin, SpinTimesOut, Issue, PollIssue, PollStatus,
      ListStarts, ListStops, FisFollows, Fetch, Complete, Fail, BecomesReady
  <2>2. transfer # NoTransfer
    BY <2>1, TransferSteps DEF AInv
  <2> QED BY <2>2 DEF AInv, CommandInv
<1> QED BY <1>1, Invariance, PTL DEF Spec, BufferOnlyWhileReading
=============================================================================
