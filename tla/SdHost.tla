------------------------------- MODULE SdHost -------------------------------
(***************************************************************************)
(* The EMMC host controller of the Raspberry Pi and the routines of        *)
(* driver/sddef.h that talk to it: waiting for the command line, sending a *)
(* command (with the APP_CMD prefix of application commands), waiting for  *)
(* an interrupt flag and taking the response apart.  io[t] is the state of *)
(* the routine that caller t is in: sd_init on the boot processor, later   *)
(* the interrupt handler in its place, or a process.  Nothing here keeps   *)
(* two callers apart; that is the business of sdlock.  The register        *)
(* accesses of one poll, and those that send a command, are one step.      *)
(*                                                                         *)
(* The card and the registers are hardware, modelled from how the driver   *)
(* uses them: a command is accepted only in the state of the card that     *)
(* allows it, its answer may come late, be lost or be corrupted, and a     *)
(* transfer may fail.                                                      *)
(***************************************************************************)
EXTENDS Integers, FiniteSets, TLC

CONSTANTS
    Caller,      \* who calls the routines
    Setups,      \* the cards in the slot and the versions of the controller
    Sectors,     \* the sectors of the card the driver is asked for
    Data,        \* contents of a sector
    Formatted,   \* what the sectors hold at first
    Garbage,     \* what a read of EMMC_DATA gives when no data is there
    POLLS,       \* polls of a waiting loop (1000000 in the code)
    None

\* Old cards, newer ones of standard and of high capacity; whether they have
\* four data lines; their file format; whether they report a voltage; the
\* specification number of the controller; and how often something may go wrong
\* in the run: a command, an answer or a transfer is lost, or comes after the
\* driver has stopped waiting for it.
Setup == [kind : {"SC1", "SC2", "HC"}, wide : BOOLEAN, volts : BOOLEAN,
          format : {"DOSFAT", "HDD", "UFF", "UNKNOWN"}, version : 0..2,
          faults : Nat]

ASSUME SdHostAssumption ==
    /\ Setups \subseteq Setup
    /\ Sectors \subseteq Nat /\ 0 \in Sectors
    /\ POLLS \in Nat /\ Formatted \in Data /\ Garbage \notin Data

HOST_SPEC_V2 == 1
FREQ_SETUP == 400000
FREQ_NORMAL == 25000000
BASE_CLOCK == 41666666

\* Flags of EMMC_INTERRUPT: TIMED_OUT stands for CMD_TIMEOUT and DATA_TIMEOUT,
\* ERR for the flags of INT_ERROR_MASK (one of which comes with a timeout).
Flag == {"CMD_DONE", "DATA_DONE", "READ_RDY", "WRITE_RDY", "TIMED_OUT", "ERR"}

OK == "SD_OK"
TIMEOUT == "SD_TIMEOUT"
BUSY == "SD_BUSY"
ERROR == "SD_ERROR"

\* The commands sdInit and sd_start send, and the type of their response.
ResponseType ==
    [GO_IDLE_STATE |-> "NO", SEND_IF_COND |-> "R7", APP_CMD |-> "NO",
     APP_CMD_RCA |-> "R1", APP_SEND_OP_COND |-> "R3", ALL_SEND_CID |-> "R2I",
     SEND_REL_ADDR |-> "R6", SEND_CSD |-> "R2S", CARD_SELECT |-> "R1",
     SEND_SCR |-> "R1", SET_BUS_WIDTH |-> "R1", SET_BLOCKLEN |-> "R1",
     READ_SINGLE |-> "R1", WRITE_SINGLE |-> "R1"]

AppCommand == {"APP_SEND_OP_COND", "SEND_SCR", "SET_BUS_WIDTH"}

VARIABLES
    card,    \* the card: kind, protocol state, address, bus width; failed: a
             \* transfer went wrong, or something came too late for the driver
    disk,    \* the contents of its sectors
    emmc,    \* the registers of the controller
    sdCard,  \* the descriptor of the card (SDDescriptor)
    io       \* io[t]: the routine t is in, sdSendCommand* or sdWaitForInterrupt

hostVars == <<card, disk, emmc, sdCard, io>>

NoOcr == [complete |-> FALSE, ccs |-> FALSE, voltage |-> FALSE]
NoStatus == [app |-> FALSE, error |-> FALSE]

\* sdCard after the registers were reset by sdResetCard.
ResetDescriptor ==
    [init |-> FALSE, type |-> "Unknown", rca |-> 0, ocr |-> NoOcr,
     status |-> NoStatus, cid |-> None, csd |-> None, support4 |-> FALSE]

Idle == [at |-> "none", index |-> None, arg |-> None, prefix |-> FALSE,
         mask |-> {}, count |-> 0, ret |-> OK]

HostInit ==
    /\ \E s \in Setups :
         /\ card = [kind |-> s.kind, wide |-> s.wide, volts |-> s.volts,
                    format |-> s.format, state |-> "idle", rca |-> 0,
                    app |-> FALSE, width |-> 1, failed |-> FALSE,
                    faults |-> s.faults]
         /\ emmc = [interrupt |-> {}, inhibit |-> None, resp |-> None,
                    data |-> None, width |-> 1, clk |-> None,
                    version |-> s.version]
    /\ disk = [s \in Sectors |-> Formatted]
    /\ sdCard = ResetDescriptor
    /\ io = [t \in Caller |-> Idle]

-----------------------------------------------------------------------------
\* The routines, as the driver calls them.

\* sdSendCommand, sdSendCommandA: t goes on when io[t].at = "ret".
Send(t, index, arg) ==
    io' = [io EXCEPT ![t] =
             [at |-> "wait_command", index |-> index, arg |-> arg,
              prefix |-> index \in AppCommand, mask |-> {}, count |-> POLLS,
              ret |-> OK]]

\* sdWaitForInterrupt(mask), called by itself.
Await(t, flag) ==
    io' = [io EXCEPT ![t] = [Idle EXCEPT !.at = "wait_interrupt",
                                         !.mask = {flag}, !.count = POLLS]]

\* t has taken the result.
Leave(t) == io' = [io EXCEPT ![t] = Idle]

\* The command that is being sent: APP_CMD first, when one is needed.
Sending(t) ==
    IF ~io[t].prefix THEN io[t].index
    ELSE IF sdCard.rca = 0 THEN "APP_CMD" ELSE "APP_CMD_RCA"

\* The command with its argument, as it is written to the registers.
Command(t) ==
    [index |-> Sending(t),
     arg   |-> IF io[t].prefix THEN sdCard.rca ELSE io[t].arg]

(***************************************************************************)
(* The command that was being sent returned r, with descriptor sc.  After  *)
(* APP_CMD comes the command itself: without an address the answer to      *)
(* APP_CMD is not looked at.  Once the card has an address, the status     *)
(* must say that it took the command for an application command.           *)
(***************************************************************************)
Finished(t, r, sc) ==
    LET refused == r = OK /\ io[t].index \in AppCommand /\ sc.rca # 0
                          /\ ~sc.status.app
    IN  io' = IF io[t].prefix /\ (sc.rca = 0 \/ (r = OK /\ ~refused))
              THEN [io EXCEPT ![t].at = "wait_command", ![t].prefix = FALSE,
                              ![t].count = POLLS]
              ELSE [io EXCEPT ![t].at = "ret",
                              ![t].ret = IF refused THEN ERROR ELSE r]

\* Mutant: the pending flags stay.
KeptFlags == emmc.interrupt

\* sdSendCommandP writes the pending flags back, which clears them.
ClearedFlags == {}

\* sdWaitForCommand polls CMD_INHIBIT until the command line is free or an
\* error is pending: what the next poll of t finds.
CommandLine(t) ==
    IF "ERR" \in emmc.interrupt \/ io[t].count = 0 THEN "aborted"
    ELSE IF emmc.inhibit # None THEN "inhibited" ELSE "free"

\* sdWaitForData, the same for a transfer in progress.
DataLineBusy == emmc.data # None \/ "ERR" \in emmc.interrupt

\* The wait of sdSendCommandP for the command line.
WaitForCommand(t) ==
    /\ io[t].at = "wait_command"
    /\ \/ /\ CommandLine(t) = "inhibited"
          /\ io' = [io EXCEPT ![t].count = @ - 1]
       \/ /\ CommandLine(t) = "aborted"
          /\ Finished(t, BUSY, sdCard)
       \/ /\ CommandLine(t) = "free"
          /\ io' = [io EXCEPT ![t].at = "send"]
    /\ UNCHANGED <<card, disk, emmc, sdCard>>

\* What the controller works on after the command register was written.  When
\* another caller's command is in progress by then, it stays, is replaced, or
\* goes out with the argument that was written over its own.
Issued(c) ==
    IF emmc.inhibit = None THEN {c}
    ELSE {c, emmc.inhibit, [emmc.inhibit EXCEPT !.arg = c.arg]}

\* sdSendCommandP clears the flags and writes argument and command.
SendCommand(t) ==
    /\ io[t].at = "send"
    /\ \E c \in Issued(Command(t)) :
         emmc' = [emmc EXCEPT !.interrupt = ClearedFlags, !.inhibit = c]
    /\ io' = [io EXCEPT ![t].at = "wait_done", ![t].mask = {"CMD_DONE"},
                        ![t].count = POLLS]
    /\ UNCHANGED <<card, disk, sdCard>>

\* What sdWaitForInterrupt returns once its loop is over.
WaitResult(count, ival) ==
    IF count = 0 \/ "TIMED_OUT" \in ival THEN TIMEOUT
    ELSE IF "ERR" \in ival THEN ERROR ELSE OK

\* The flag that t waits for is still to come: the card is just too slow when
\* t stops waiting for it.
Coming(t) ==
    IF io[t].at = "wait_done" THEN emmc.inhibit # None
    ELSE emmc.data # None /\ emmc.data.stage # "ready"

\* A fault of the card or of the line leaves the card as after.
Faulty(after) ==
    /\ card.faults > 0
    /\ card' = [after EXCEPT !.faults = @ - 1]

\* sdWaitForInterrupt, by itself or for the end of a command.
WaitForInterrupt(t) ==
    LET pending == emmc.interrupt \cap (io[t].mask \cup {"ERR"}) # {}
        r       == WaitResult(io[t].count, emmc.interrupt)
    IN  /\ io[t].at \in {"wait_done", "wait_interrupt"}
        /\ \/ /\ ~pending /\ io[t].count > 0
              /\ io' = [io EXCEPT ![t].count = @ - 1]
              /\ IF io[t].count = 1 /\ Coming(t) THEN Faulty(card)
                 ELSE UNCHANGED card
              /\ UNCHANGED emmc
           \/ /\ pending \/ io[t].count = 0
              /\ emmc' = [emmc EXCEPT !.interrupt =
                            IF r = OK THEN @ \ io[t].mask ELSE {}]
              /\ IF io[t].at = "wait_interrupt"
                 THEN io' = [io EXCEPT ![t].at = "ret", ![t].ret = r]
                 ELSE IF r = OK THEN io' = [io EXCEPT ![t].at = "respond"]
                 ELSE Finished(t, r, sdCard)
              /\ card' = [card EXCEPT !.failed =
                            @ \/ (io'[t].at = "ret" /\ io[t].count = 0)]
        /\ UNCHANGED <<disk, sdCard>>

\* The descriptor after the response, by its type.
Responded(t) ==
    LET type == ResponseType[Sending(t)]
        r    == emmc.resp
    IN  CASE type = "NO" -> sdCard
          [] type = "R1" -> [sdCard EXCEPT !.status = r.status]
          [] type = "R2I" -> [sdCard EXCEPT !.status = NoStatus, !.cid = r.cid]
          [] type = "R2S" -> [sdCard EXCEPT !.status = NoStatus, !.csd = r.csd]
          [] type = "R3" -> [sdCard EXCEPT !.status = NoStatus, !.ocr = r.ocr]
          [] type = "R6" -> [sdCard EXCEPT !.status = r.status, !.rca = r.rca]
          [] type = "R7" -> [sdCard EXCEPT !.status = NoStatus]

\* The second half of sdSendCommandP: the response is taken apart.  Unless
\* another caller waits for one, nobody looks at the registers again.
Respond(t) ==
    /\ io[t].at = "respond"
    /\ sdCard' = Responded(t)
    /\ LET type == ResponseType[Sending(t)]
       IN  Finished(t, IF \/ type \in {"R1", "R6"} /\ emmc.resp.status.error
                          \/ type = "R7" /\ emmc.resp.echo # io[t].arg
                       THEN ERROR ELSE OK, Responded(t))
    /\ emmc' = [emmc EXCEPT !.resp =
                  IF \E u \in Caller \ {t} :
                        io[u].at \in {"wait_done", "respond"}
                  THEN @ ELSE None]
    /\ UNCHANGED <<card, disk>>

-----------------------------------------------------------------------------
\* The card and the controller (hardware).

\* The state of the card in which it accepts a command.
AcceptedIn ==
    [SEND_IF_COND |-> "idle", APP_SEND_OP_COND |-> "idle",
     ALL_SEND_CID |-> "ready", SEND_REL_ADDR |-> "ident", SEND_CSD |-> "stby",
     CARD_SELECT |-> "stby", SEND_SCR |-> "tran", SET_BUS_WIDTH |-> "tran",
     SET_BLOCKLEN |-> "tran", READ_SINGLE |-> "tran", WRITE_SINGLE |-> "tran"]

\* The state it is in after the command.
EntersState ==
    [GO_IDLE_STATE |-> "idle", APP_SEND_OP_COND |-> "ready",
     ALL_SEND_CID |-> "ident", SEND_REL_ADDR |-> "stby", CARD_SELECT |-> "tran",
     SEND_SCR |-> "data", READ_SINGLE |-> "data", WRITE_SINGLE |-> "rcv"]

Accepts(c) ==
    /\ c.index \in DOMAIN AcceptedIn => card.state = AcceptedIn[c.index]
    /\ c.index \in AppCommand => card.app
    /\ c.index = "SEND_IF_COND" => card.kind # "SC1"
    /\ c.index \in {"APP_CMD", "APP_CMD_RCA", "SEND_CSD", "CARD_SELECT"}
         => c.arg = card.rca

\* High capacity cards count in sectors, the others in bytes.
SectorOf(arg) == IF card.kind = "HC" THEN arg ELSE arg \div 512

\* An accepted command; complete says whether the power up has ended.
CardAfter(c, complete) ==
    [card EXCEPT
       !.state = IF c.index \in DOMAIN EntersState
                    /\ (c.index = "APP_SEND_OP_COND" => complete)
                    /\ (c.index \in {"READ_SINGLE", "WRITE_SINGLE"}
                         => SectorOf(c.arg) \in Sectors)
                 THEN EntersState[c.index] ELSE @,
       !.rca = IF c.index = "GO_IDLE_STATE" THEN 0
               ELSE IF c.index = "SEND_REL_ADDR" THEN 1 ELSE @,
       !.app = c.index \in {"APP_CMD", "APP_CMD_RCA"},
       !.width = IF c.index = "GO_IDLE_STATE" THEN 1
                 ELSE IF c.index = "SET_BUS_WIDTH" THEN 4 ELSE @]

\* The answer the controller finds in its response registers.
Answer(c, complete) ==
    [index  |-> c.index,
     status |-> [app   |-> c.index \in AppCommand \cup {"APP_CMD_RCA"},
                 error |-> /\ c.index \in {"READ_SINGLE", "WRITE_SINGLE"}
                           /\ SectorOf(c.arg) \notin Sectors],
     echo   |-> c.arg,
     ocr    |-> [complete |-> complete, ccs |-> complete /\ card.kind = "HC",
                 voltage |-> card.volts],
     cid    |-> card.kind,
     csd    |-> card.format,
     rca    |-> 1]

\* The data transfer that an accepted command starts.
TransferOf(c) ==
    IF CardAfter(c, TRUE).state \notin {"data", "rcv"} \/ c.index \notin
         {"SEND_SCR", "READ_SINGLE", "WRITE_SINGLE"}
    THEN emmc.data
    ELSE [op |-> c.index, stage |-> "start",
          sector |-> IF c.index = "SEND_SCR" THEN None ELSE SectorOf(c.arg)]

(***************************************************************************)
(* The command in progress ends.  The command or its answer may be lost,   *)
(* or the answer be corrupted; the controller cannot tell for a command    *)
(* without a response.  A high capacity card completes its power up only   *)
(* for a host that says it supports such cards.                            *)
(***************************************************************************)
CardAnswer ==
    LET c == emmc.inhibit
        timeout == IF ResponseType[c.index] = "NO" THEN {"CMD_DONE"}
                   ELSE {"ERR", "TIMED_OUT"}
        Ends(flags, data) ==
            emmc' = [emmc EXCEPT !.interrupt = @ \cup flags, !.inhibit = None,
                                 !.data = data]
    IN  /\ c # None
        /\ \/ \E complete \in BOOLEAN :
                /\ Accepts(c)
                /\ complete => /\ c.index = "APP_SEND_OP_COND"
                               /\ card.kind # "HC" \/ c.arg = "HCS"
                /\ \/ /\ card' = CardAfter(c, complete)
                      /\ emmc' = [emmc EXCEPT !.interrupt = @ \cup {"CMD_DONE"},
                                             !.inhibit = None,
                                             !.resp = Answer(c, complete),
                                             !.data = TransferOf(c)]
                   \/ /\ Faulty(CardAfter(c, complete))
                      /\ \E flags \in {timeout, {"ERR"}} :
                           Ends(flags, TransferOf(c))
           \/ /\ Accepts(c) /\ Faulty(card)
              /\ Ends(timeout, emmc.data)
           \/ /\ ~Accepts(c)
              /\ Ends(timeout, emmc.data)
              /\ UNCHANGED card
        /\ UNCHANGED <<disk, sdCard, io>>

\* The controller is ready for the words of a transfer, or it failed.
DataReady ==
    /\ emmc.data # None /\ emmc.data.stage = "start"
    /\ \/ /\ emmc' = [emmc EXCEPT !.data.stage = "ready",
             !.interrupt = @ \cup (IF emmc.data.op = "WRITE_SINGLE"
                                  THEN {"WRITE_RDY"} ELSE {"READ_RDY"})]
          /\ UNCHANGED card
       \/ /\ emmc' = [emmc EXCEPT !.data = None,
                                 !.interrupt = @ \cup {"ERR", "TIMED_OUT"}]
          /\ Faulty([card EXCEPT !.state = "tran", !.failed = TRUE])
    /\ UNCHANGED <<disk, sdCard, io>>

\* All words went through: the card ends the transfer, or reports an error.
DataDone ==
    LET d == emmc.data
    IN  /\ d # None /\ d.stage = "words"
        /\ \/ /\ emmc' = [emmc EXCEPT !.data = None,
                                      !.interrupt = @ \cup {"DATA_DONE"}]
              /\ card' = [card EXCEPT !.state = "tran"]
              /\ disk' = IF d.op # "WRITE_SINGLE" THEN disk
                         ELSE [disk EXCEPT ![d.sector] = d.words]
           \/ /\ emmc' = [emmc EXCEPT !.data = None,
                                      !.interrupt = @ \cup {"ERR", "TIMED_OUT"}]
              /\ Faulty([card EXCEPT !.state = "tran", !.failed = TRUE])
              /\ UNCHANGED disk
        /\ UNCHANGED <<sdCard, io>>

HostNext ==
    \/ \E t \in Caller : \/ WaitForCommand(t) \/ SendCommand(t)
                         \/ WaitForInterrupt(t) \/ Respond(t)
    \/ CardAnswer \/ DataReady \/ DataDone

\* What the 128 reads of EMMC_DATA give.
WordsRead ==
    IF emmc.data # None /\ emmc.data.stage = "ready" /\ card.width = emmc.width
    THEN disk[emmc.data.sector] ELSE Garbage

\* The transfer after its words were read, or written.
WordsMoved(w) ==
    IF emmc.data = None \/ emmc.data.stage # "ready" THEN emmc.data
    ELSE [emmc.data EXCEPT !.stage = "words"] @@ [words |-> w]
=============================================================================
