------------------------------- MODULE SdInit -------------------------------
(***************************************************************************)
(* The initialisation of the SD card: sdInit of driver/sddef.h, with the   *)
(* reset of the card, the negotiation of the operating conditions, the     *)
(* clock and the card's configuration register, and sd_init of             *)
(* driver/sd.c, which calls it and reads the master boot record.           *)
(***************************************************************************)
EXTENDS SdHost, Folds

CONSTANT RETRIES   \* repetitions of ACMD41 (6 in the code)

\* The processor that runs sd_init, and takes the interrupts of the card later.
CPU0 == "cpu0"

VARIABLES
    boot,     \* how far sd_init has come
    retries,  \* count of sdAppSendOpCond
    panic     \* PANIC was called: the kernel stops

initVars == <<boot, retries, panic>>

SdInitInit ==
    HostInit /\ boot = "start" /\ retries = RETRIES /\ panic = FALSE

-----------------------------------------------------------------------------
\* The clock.

\* fls_long: the number of the highest bit set, by halving.
FlsLong(x) ==
    IF x = 0 THEN 0
    ELSE MapThenFoldSet(LAMBDA h, r : IF x < 2^(r - h) THEN r - h ELSE r,
                        32, LAMBDA h : h,
                        LAMBDA S : CHOOSE h \in S : \A k \in S : h <= k,
                        {1, 2, 4, 8, 16})

\* Mutant: the shift is one less.
DivisorHalved(freq) ==
    LET closest == BASE_CLOCK \div freq
        raw     == FlsLong(closest - 1)
        shift   == IF raw <= 1 THEN 0 ELSE IF raw > 8 THEN 7 ELSE raw - 2
        divisor == IF emmc.version > HOST_SPEC_V2 THEN closest ELSE 2^shift
    IN  IF divisor <= 2 THEN 2 ELSE divisor

\* sdGetClockDivider: version 2 hosts have powers of two only.
Divisor(freq) ==
    LET closest == BASE_CLOCK \div freq
        raw     == FlsLong(closest - 1)
        shift   == IF raw = 0 THEN 0 ELSE IF raw > 8 THEN 7 ELSE raw - 1
        divisor == IF emmc.version > HOST_SPEC_V2 THEN closest ELSE 2^shift
    IN  IF divisor <= 2 THEN 2 ELSE divisor

\* The divider field of CONTROL1: eight bits, and two more from version 3 on.
ClockBits(freq) ==
    [lo |-> Divisor(freq) % 256,
     hi |-> IF emmc.version > HOST_SPEC_V2 THEN (Divisor(freq) \div 256) % 4
            ELSE 0]

\* sdSetClock: the controller e with the divider set.  Its callers return when
\* the clock then does not get stable.
ClockSet(e, freq) == [e EXCEPT !.clk = ClockBits(freq)]

-----------------------------------------------------------------------------
\* sdInit.

\* It returns; sd_init does not look at the result.
InitReturns ==
    boot' = "mbr" /\ Leave(CPU0)

\* The controller after C1_SRST_HC.
Reset(e) == [e EXCEPT !.interrupt = {}, !.inhibit = None, !.data = None,
                      !.width = 1]

\* sdResetCard up to GO_IDLE_STATE: the reset bit may stay set, and the clock
\* may not get stable.
ResetCard(next) ==
    /\ \/ /\ emmc' \in {Reset(emmc), ClockSet(Reset(emmc), FREQ_SETUP)}
          /\ UNCHANGED sdCard
          /\ InitReturns
       \/ /\ emmc' = ClockSet(Reset(emmc), FREQ_SETUP)
          /\ sdCard' = [ResetDescriptor EXCEPT !.cid = sdCard.cid,
                          !.csd = sdCard.csd, !.support4 = sdCard.support4]
          /\ Send(CPU0, "GO_IDLE_STATE", 0)
          /\ boot' = next

\* The start of sdInit; the mailbox may not tell the base clock.
SdInitStart ==
    /\ boot = "start"
    /\ \/ ResetCard("idle")
       \/ InitReturns /\ UNCHANGED <<emmc, sdCard>>
    /\ UNCHANGED <<card, disk, retries>>

\* The routine called at that point has returned, with result Ret.
Returned(at) == boot = at /\ io[CPU0].at = "ret"
Ret == io[CPU0].ret

\* The card is reset: SEND_IF_COND with the check pattern, or, for a card
\* that was reset once more, the operating conditions.
IdleDone ==
    /\ \/ Returned("idle") /\ Ret = OK
          /\ Send(CPU0, "SEND_IF_COND", "PATTERN") /\ boot' = "if_cond"
       \/ Returned("idle_old") /\ Ret = OK
          /\ Send(CPU0, "APP_SEND_OP_COND", "SC") /\ boot' = "op_sc"
       \/ (Returned("idle") \/ Returned("idle_old")) /\ Ret # OK
          /\ InitReturns
    /\ UNCHANGED <<card, disk, emmc, sdCard, retries>>

\* A card that answers SEND_IF_COND gets the host's support of high capacity;
\* one that does not is treated as an old card.
IfCondDone ==
    /\ Returned("if_cond")
    /\ \/ /\ Ret = OK
          /\ Send(CPU0, "APP_SEND_OP_COND", "HCS") /\ boot' = "op_hc"
          /\ UNCHANGED <<emmc, sdCard>>
       \/ /\ Ret # OK
          /\ IF Ret = BUSY THEN InitReturns /\ UNCHANGED <<emmc, sdCard>>
             ELSE IF emmc.inhibit # None THEN ResetCard("idle_old")
             ELSE /\ Send(CPU0, "APP_SEND_OP_COND", "SC") /\ boot' = "op_sc"
                  /\ UNCHANGED <<emmc, sdCard>>
    /\ UNCHANGED <<card, disk, retries>>

\* The type of the card, from the branch taken and the capacity bit.
CardType ==
    IF boot = "op_sc" THEN "TYPE_1"
    ELSE IF sdCard.ocr.ccs THEN "TYPE_2_HC" ELSE "TYPE_2_SC"

\* sdAppSendOpCond: repeated until the card has powered up.  A timeout is
\* accepted, any other error is not.
OpCondDone ==
    /\ Returned("op_hc") \/ Returned("op_sc")
    /\ \/ /\ Ret \in {OK, TIMEOUT} /\ ~sdCard.ocr.complete /\ retries > 0
          /\ retries' = retries - 1
          /\ Send(CPU0, io[CPU0].index, io[CPU0].arg)
          /\ UNCHANGED <<boot, sdCard>>
       \/ /\ \/ Ret \notin {OK, TIMEOUT}
             \/ ~sdCard.ocr.complete /\ retries = 0
             \/ sdCard.ocr.complete /\ ~sdCard.ocr.voltage
          /\ InitReturns
          /\ retries' = RETRIES
          /\ UNCHANGED sdCard
       \/ /\ Ret \in {OK, TIMEOUT} /\ sdCard.ocr.complete /\ sdCard.ocr.voltage
          /\ sdCard' = [sdCard EXCEPT !.type = CardType]
          /\ Send(CPU0, "ALL_SEND_CID", 0) /\ boot' = "cid"
          /\ retries' = RETRIES
    /\ UNCHANGED <<card, disk, emmc>>

\* ALL_SEND_CID, SEND_REL_ADDR, SEND_CSD, one after the other.
IdentifyDone ==
    /\ \/ /\ Returned("cid") /\ Ret = OK
          /\ Send(CPU0, "SEND_REL_ADDR", 0) /\ boot' = "rel_addr"
       \/ /\ Returned("rel_addr") /\ Ret = OK
          /\ Send(CPU0, "SEND_CSD", sdCard.rca) /\ boot' = "csd"
       \/ /\ Returned("cid") \/ Returned("rel_addr")
          /\ Ret # OK
          /\ InitReturns
    /\ UNCHANGED <<card, disk, emmc, sdCard, retries>>

\* sdParseCSD: of the fields it extracts, sdInit looks at the file format.
FileFormatKnown == sdCard.csd \in {"DOSFAT", "HDD"}

\* The file format has to be one of two.  Then the full clock, which may not
\* get stable, and CARD_SELECT.
CsdDone ==
    /\ Returned("csd")
    /\ \/ /\ Ret # OK \/ ~FileFormatKnown
          /\ InitReturns
          /\ UNCHANGED emmc
       \/ /\ Ret = OK /\ FileFormatKnown
          /\ emmc' = ClockSet(emmc, FREQ_NORMAL)
          /\ \/ InitReturns
             \/ Send(CPU0, "CARD_SELECT", sdCard.rca) /\ boot' = "select"
    /\ UNCHANGED <<card, disk, sdCard, retries>>

\* sdReadSCR: SEND_SCR when no transfer is in progress (sdWaitForData), and
\* the wait for its two words.
SelectDone ==
    /\ \/ /\ Returned("select") /\ Ret = OK /\ ~DataLineBusy
          /\ Send(CPU0, "SEND_SCR", 0) /\ boot' = "scr"
       \/ /\ Returned("scr") /\ Ret = OK
          /\ Await(CPU0, "READ_RDY") /\ boot' = "scr_rdy"
       \/ /\ Returned("select") \/ Returned("scr")
          /\ Ret # OK \/ (boot = "select" /\ DataLineBusy)
          /\ InitReturns
    /\ UNCHANGED <<card, disk, emmc, sdCard, retries>>

\* The two words of the SCR, which may not come in time; then the bus width,
\* where the card supports four bits, or the block length.
ScrDone ==
    /\ Returned("scr_rdy")
    /\ \/ InitReturns /\ UNCHANGED <<emmc, sdCard>>
       \/ /\ Ret = OK
          /\ emmc' = [emmc EXCEPT !.data = WordsMoved(None)]
          /\ sdCard' = [sdCard EXCEPT !.support4 = @ \/ card.wide]
          /\ IF sdCard'.support4
             THEN Send(CPU0, "SET_BUS_WIDTH", sdCard.rca) /\ boot' = "width"
             ELSE Send(CPU0, "SET_BLOCKLEN", 512) /\ boot' = "blocklen"
    /\ UNCHANGED <<card, disk, retries>>

\* Mutant: the answer to SET_BUS_WIDTH is not looked at.
WidthUnchecked ==
    /\ Returned("width")
    /\ emmc' = [emmc EXCEPT !.width = 4]
    /\ Send(CPU0, "SET_BLOCKLEN", 512) /\ boot' = "blocklen"
    /\ UNCHANGED <<card, disk, sdCard, retries>>

\* The card has the new bus width, so the controller gets it as well.
WidthDone ==
    /\ Returned("width")
    /\ IF Ret # OK
       THEN InitReturns /\ UNCHANGED emmc
       ELSE /\ emmc' = [emmc EXCEPT !.width = 4]
            /\ Send(CPU0, "SET_BLOCKLEN", 512) /\ boot' = "blocklen"
    /\ UNCHANGED <<card, disk, sdCard, retries>>

\* The end of sdInit.
BlocklenDone ==
    /\ Returned("blocklen")
    /\ sdCard' = [sdCard EXCEPT !.init = (Ret = OK)]
    /\ InitReturns
    /\ UNCHANGED <<card, disk, emmc, retries>>

-----------------------------------------------------------------------------
\* sd_start: the address of a sector, by the type of the card.
Address(sector) ==
    IF sdCard.type = "TYPE_2_HC" THEN sector ELSE sector * 512

\* sd_init reads the master boot record, and looks at no result but the one of
\* the command.
ReadMBR ==
    /\ boot = "mbr"
    /\ IF emmc.interrupt # {} THEN panic' = TRUE /\ UNCHANGED <<boot, io>>
       ELSE /\ Send(CPU0, "READ_SINGLE", Address(0)) /\ boot' = "mbr_cmd"
            /\ UNCHANGED panic
    /\ UNCHANGED <<card, disk, emmc, sdCard, retries>>

MBRStep ==
    /\ \/ /\ Returned("mbr_cmd") /\ Ret # OK
          /\ panic' = TRUE /\ UNCHANGED <<boot, io, emmc>>
       \/ /\ Returned("mbr_cmd") /\ Ret = OK
          /\ Await(CPU0, "READ_RDY") /\ boot' = "mbr_rdy"
          /\ UNCHANGED <<emmc, panic>>
       \/ /\ Returned("mbr_rdy")
          /\ emmc' = [emmc EXCEPT !.data = WordsMoved(None)]
          /\ Await(CPU0, "DATA_DONE") /\ boot' = "mbr_done" /\ UNCHANGED panic
       \/ /\ Returned("mbr_done")
          /\ Leave(CPU0) /\ boot' = "up" /\ UNCHANGED <<emmc, panic>>
    /\ UNCHANGED <<card, disk, sdCard, retries>>

SdInitNext ==
    \/ /\ \/ SdInitStart \/ IdleDone \/ IfCondDone \/ OpCondDone
          \/ IdentifyDone \/ CsdDone \/ SelectDone \/ ScrDone
          \/ WidthDone \/ BlocklenDone
       /\ UNCHANGED panic
    \/ ReadMBR \/ MBRStep
=============================================================================
