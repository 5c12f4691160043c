---------------------------- MODULE BoardFirmware ----------------------------
(***************************************************************************)
(* The firmware: checkCommand and scan of modularPassiveMatrix/            *)
(* Application.cpp, single-threaded but re-entrant.  checkCommand calls    *)
(* scan, whose loop calls checkCommand again, so the control state is a    *)
(* stack of scan activations; the empty stack is the Arduino loop().       *)
(***************************************************************************)
EXTENDS SerialLink

CONSTANTS
    MAX_X, MAX_Y,     \* sizes that replace a zero in WRITE_CONFIG
    StoredConfigs,    \* what the flash may hold at power-up; NoConfig: nothing
    Windows,          \* values of the filter window parameters
    FIXED_WINDOW,     \* window of the cumulative and the Kalman filter
    TX_POINTS,        \* points that the transmit buffer holds behind a frame's header
    FdsQueue,         \* writes that the flash data storage queues
    ExternalTrigger,  \* whether something drives the external trigger pin
    MaxNesting,       \* bound: activations on the stack
    MaxPackage        \* bound: l_packageId saturates here

ASSUME BoardAssumption ==
    /\ MAX_X \in Dims \ {0} /\ MAX_Y \in Dims \ {0}
    /\ StoredConfigs \subseteq Configs /\ StoredConfigs # {}
    /\ Windows \subseteq Nat /\ Windows # {}
    /\ FIXED_WINDOW \in Nat /\ TX_POINTS \in Nat
    /\ FdsQueue \in Nat
    /\ ExternalTrigger \in BOOLEAN
    /\ MaxNesting \in Nat \ {0}
    /\ MaxPackage \in Nat /\ \A n \in SampleNumbers : n =< MaxPackage

VARIABLES
    scanning,      \* m_scanning
    doStop,        \* m_doStop
    settings,      \* m_scanSettings: the configuration
    window,        \* m_scanSettings: the filter window parameters
    filterWindow,  \* m_filterWindowSize
    filterLive,    \* m_pFilter # nullptr
    powered,       \* analog supply, reference and drive lines are on
    stack,         \* scan activations, the running one last
    flash,         \* <<the record that readPrefs finds>>, <<>> if none
    writing,       \* flash writes accepted and not yet done
    copied,        \* m_data: the copy that writePrefs makes of the settings
    pinLow,        \* the external trigger pin reads LOW
    triggerFlag,   \* m_externalTriggerFlag
    fault          \* what undefined behaviour did to the board

runVars   == <<scanning, doStop, filterWindow, filterLive, powered>>
confVars  == <<settings, window>>
storeVars == <<flash, writing, copied>>
pinVars   == <<pinLow, triggerFlag>>

boardVars == <<runVars, confVars, storeVars, pinVars, stack, fault>>

\* An activation of scan: who started it, the settings its buffer was sized
\* by, its counters, and where it is.
Activations == [starter : {COMM_ID_STOP, COMM_ID_STOP_CAN}, conf : Configs,
                counter : Nat, packageId : 0 .. MaxPackage,
                pc : {"check", "sample", "exit"}, result : BOOLEAN]

Records == [conf : Configs, window : Windows]

BoardTypeOK ==
    /\ scanning \in BOOLEAN /\ doStop \in BOOLEAN
    /\ settings \in Configs /\ window \in Windows /\ filterWindow \in Nat
    /\ filterLive \in BOOLEAN /\ powered \in BOOLEAN
    /\ stack \in Seq(Activations) /\ Len(stack) =< MaxNesting
    /\ flash \in Seq(Records) /\ writing \in 0 .. FdsQueue
    /\ copied \in Seq(Records)
    /\ pinLow \in BOOLEAN /\ triggerFlag \in BOOLEAN
    /\ fault \in {"none", "overrun", "hung"}

\* Power-up: init() loads the settings that the flash holds.
BoardInit ==
    /\ scanning = FALSE /\ doStop = FALSE /\ filterLive = FALSE /\ powered = FALSE
    /\ window \in Windows /\ filterWindow = 0
    /\ stack = <<>>
    /\ settings \in StoredConfigs
    /\ flash = IF settings = NoConfig THEN <<>>
               ELSE <<[conf |-> settings, window |-> window]>>
    /\ writing = 0 /\ copied = <<>>
    /\ pinLow = FALSE /\ triggerFlag = FALSE
    /\ fault = "none"

-----------------------------------------------------------------------------
(* Control.                                                                *)

Top == stack[Len(stack)]

\* checkCommand is about to be called, by loop() or by the running scan.
AtCheck == fault # "hung" /\ (stack # <<>> => Top.pc = "check")

\* The stack once checkCommand has returned to its caller.
Returned == IF stack = <<>> THEN stack ELSE [stack EXCEPT ![Len(stack)].pc = "sample"]

\* The running scan is at pc.
RunningAt(pc) == fault # "hung" /\ stack # <<>> /\ Top.pc = pc

FILTER_MOV_AVERAGE            == 1
FILTER_MOV_AVERAGE_CUMULATIVE == 2
FILTER_MOV_AVERAGE_WEIGHTED   == 3
FILTER_MEDIAN                 == 4
FILTER_KALMAN                 == 5

\* The filters whose window the client sets; the other two have a fixed one.
WindowFilters == {FILTER_MOV_AVERAGE, FILTER_MOV_AVERAGE_WEIGHTED, FILTER_MEDIAN}
FixedFilters  == {FILTER_MOV_AVERAGE_CUMULATIVE, FILTER_KALMAN}
KnownFilters  == {FILTER_NONE} \cup WindowFilters \cup FixedFilters

\* m_filterWindowSize as the filter switch of scan sets it; the switch has no
\* default case.
WindowFor(f) ==
    CASE f = FILTER_NONE       -> 0
      [] f \in WindowFilters   -> window
      [] f \in FixedFilters    -> FIXED_WINDOW
      [] OTHER                 -> filterWindow

\* The start answers always report filter type 0.
StartAnswer(code, conf, status) ==
    [code |-> code, conf |-> [conf EXCEPT !.filter = FILTER_NONE], status |-> status]

\* scan up to its loop: buffer, power and filter; it gives up on an empty matrix.
BeginScan(starter, conf) ==
    /\ doStop' = FALSE
    /\ IF Points(conf) = 0
       THEN /\ scanning' = FALSE /\ powered' = FALSE /\ filterLive' = FALSE
            /\ stack' = Returned
            /\ UNCHANGED filterWindow
       ELSE /\ Len(stack) < MaxNesting
            /\ scanning' = TRUE /\ powered' = TRUE
            /\ filterLive' = (filterLive \/ conf.filter \in KnownFilters)
            /\ filterWindow' = WindowFor(conf.filter)
            /\ stack' = Append(Returned,
                 [starter |-> starter, conf |-> conf, counter |-> 0, packageId |-> 0,
                  pc |-> "check", result |-> TRUE])

-----------------------------------------------------------------------------
(* checkCommand, one action per case.                                      *)

\* A START or START_NO_PARAMS while scanning stops the scan instead.
Toggle(conf) ==
    /\ scanning
    /\ doStop' = TRUE
    /\ WriteToHost(StartAnswer(COMM_ID_START_NO_PARAMS, conf, "SESSION_STOPED"))
    /\ stack' = Returned
    /\ UNCHANGED <<scanning, filterWindow, filterLive, powered>>

HandleStart(m) ==
    /\ m.code = COMM_ID_START
    /\ settings' = [settings EXCEPT !.samples = m.conf.samples]
    /\ \/ /\ ~scanning
          /\ WriteToHost(StartAnswer(COMM_ID_START, settings', "SESSION_STARTED"))
          /\ BeginScan(COMM_ID_STOP, settings')
       \/ Toggle(settings')
    /\ UNCHANGED <<window, storeVars, losses>>

\* Mutant of HandleStartNoParams: m_scanning is not looked at.
HandleStartAlways(m) ==
    /\ m.code = COMM_ID_START_NO_PARAMS
    /\ WriteToHost(StartAnswer(COMM_ID_START_NO_PARAMS, settings, "SESSION_STARTED"))
    /\ BeginScan(COMM_ID_STOP, settings)
    /\ UNCHANGED <<confVars, storeVars, losses>>

HandleStartNoParams(m) ==
    /\ m.code = COMM_ID_START_NO_PARAMS
    /\ \/ /\ ~scanning
          /\ WriteToHost(StartAnswer(COMM_ID_START_NO_PARAMS, settings, "SESSION_STARTED"))
          /\ BeginScan(COMM_ID_STOP, settings)
       \/ Toggle(settings)
    /\ UNCHANGED <<confVars, storeVars, losses>>

\* Mutant of HandleStop: the answer has the code of the other stop command.
HandleStopMisnamed(m) ==
    /\ m.code = COMM_ID_STOP
    /\ scanning' = FALSE
    /\ WriteToHost(Plain(COMM_ID_STOP_CAN))
    /\ stack' = Returned
    /\ UNCHANGED <<doStop, filterWindow, filterLive, powered, confVars,
                   storeVars, losses>>

\* STOP is answered at once; the running scan ends at its next loop test.
HandleStop(m) ==
    /\ m.code = COMM_ID_STOP
    /\ scanning' = FALSE
    /\ WriteToHost(Plain(COMM_ID_STOP))
    /\ stack' = Returned
    /\ UNCHANGED <<doStop, filterWindow, filterLive, powered, confVars,
                   storeVars, losses>>

HandleStopCan(m) ==
    /\ m.code = COMM_ID_STOP_CAN
    /\ scanning' = FALSE
    /\ stack' = Returned
    /\ UNCHANGED <<doStop, filterWindow, filterLive, powered, confVars,
                   storeVars, toHost, losses>>

\* START_CAN, from the trigger or from the line, does not look at m_scanning.
HandleStartCan(m) ==
    /\ m.code = COMM_ID_START_CAN
    /\ WriteToHost(StartAnswer(COMM_ID_START_CAN, settings, "SESSION_STARTED"))
    /\ BeginScan(COMM_ID_STOP_CAN, settings)
    /\ UNCHANGED <<confVars, storeVars, losses>>

\* readSettings: the record found replaces the settings in memory.
StoredConf   == IF flash = <<>> THEN settings ELSE flash[1].conf
StoredWindow == IF flash = <<>> THEN window ELSE flash[1].window

\* Mutant of WriteSettings: the queue of the flash storage has no end.
WriteSettingsUnqueued(code) ==
    /\ copied' = <<[conf |-> settings', window |-> window']>>
    /\ writing' = writing + 1
    /\ WriteToHost(Plain(code))
    /\ UNCHANGED losses

\* writeSettings is accepted and answered, or fails without an answer: the
\* queue of the flash storage is full, or it refuses for want of space.
WriteSettings(code) ==
    /\ copied' = <<[conf |-> settings', window |-> window']>>
    /\ \/ /\ writing < FdsQueue
          /\ writing' = writing + 1
          /\ WriteToHost(Plain(code))
          /\ UNCHANGED losses
       \/ /\ writing = FdsQueue
          /\ UNCHANGED <<writing, toHost, losses>>
       \/ /\ CountLoss
          /\ UNCHANGED <<writing, toHost>>

HandleWriteConfig(m) ==
    /\ m.code = COMM_ID_WRITE_CONFIG
    /\ settings' = [m.conf EXCEPT !.x = IF @ = 0 THEN MAX_X ELSE @,
                                  !.y = IF @ = 0 THEN MAX_Y ELSE @]
    /\ window' = StoredWindow
    /\ WriteSettings(COMM_ID_WRITE_CONFIG)
    /\ stack' = Returned
    /\ UNCHANGED <<runVars, flash>>

HandleWriteFilter(m) ==
    /\ m.code = COMM_ID_WRITE_FLTR_CONF
    /\ settings' = StoredConf
    /\ window' \in Windows
    /\ WriteSettings(COMM_ID_WRITE_FLTR_CONF)
    /\ stack' = Returned
    /\ UNCHANGED <<runVars, flash>>

HandleReadFilter(m) ==
    /\ m.code = COMM_ID_READ_FLTR_CONF
    /\ settings' = StoredConf
    /\ window' = StoredWindow
    /\ WriteToHost(Plain(COMM_ID_READ_FLTR_CONF))
    /\ stack' = Returned
    /\ UNCHANGED <<runVars, storeVars, losses>>

HandleRead(m) ==
    /\ m.code \in {COMM_ID_READ_CONFIG, COMM_ID_READ_FIRMWARE_VERSION}
    /\ WriteToHost(IF m.code = COMM_ID_READ_CONFIG THEN Carrying(m.code, settings)
                   ELSE Plain(m.code))
    /\ stack' = Returned
    /\ UNCHANGED <<runVars, confVars, storeVars, losses>>

Handle(m) ==
    \/ HandleStart(m)       \/ HandleStartNoParams(m)
    \/ HandleStop(m)        \/ HandleStopCan(m)
    \/ HandleStartCan(m)    \/ HandleWriteConfig(m)
    \/ HandleWriteFilter(m) \/ HandleReadFilter(m)
    \/ HandleRead(m)

\* The commands that getCommand knows; behind any other one it is stuck.
LineCommands == Codes \ {COMM_ID_START_CAN, COMM_ID_STOP_CAN, COMM_ID_FRAME}

\* getCommand empties the serial buffer and recognises the first command in
\* it: commands that arrived together with it are dropped.
ReceiveCommand ==
    /\ AtCheck
    /\ \E arrived \in 1 .. Len(toBoard) :
         /\ Head(toBoard).code \in LineCommands
         /\ toBoard' = SubSeq(toBoard, arrived + 1, Len(toBoard))
         /\ Handle(Head(toBoard))
    /\ UNCHANGED <<pinVars, fault>>

\* Nothing has arrived: the trigger pin is looked at.
TriggerStart ==
    /\ AtCheck
    /\ ~triggerFlag /\ pinLow
    /\ triggerFlag' = TRUE
    /\ HandleStartCan(Plain(COMM_ID_START_CAN))
    /\ UNCHANGED <<pinLow, fault, toBoard>>

TriggerStop ==
    /\ AtCheck
    /\ triggerFlag /\ ~pinLow
    /\ triggerFlag' = FALSE
    /\ HandleStopCan(Plain(COMM_ID_STOP_CAN))
    /\ UNCHANGED <<pinLow, fault, toBoard>>

NoCommand ==
    /\ RunningAt("check")
    /\ stack' = Returned
    /\ UNCHANGED <<runVars, confVars, storeVars, pinVars, fault, linkVars>>

-----------------------------------------------------------------------------
(* The rest of an iteration of the scan loop.                              *)

\* Mutant of AbortScan: the flag is cleared and the loop goes round again.
AbortForgotten ==
    /\ RunningAt("sample") /\ doStop
    /\ doStop' = FALSE
    /\ stack' = [stack EXCEPT ![Len(stack)].pc = "check"]
    /\ UNCHANGED <<scanning, filterWindow, filterLive, powered, confVars,
                   storeVars, pinVars, fault, linkVars>>

\* checkCommand has asked for a stop.
AbortScan ==
    /\ RunningAt("sample") /\ doStop
    /\ doStop' = FALSE
    /\ stack' = [stack EXCEPT ![Len(stack)].pc = "exit", ![Len(stack)].result = FALSE]
    /\ UNCHANGED <<scanning, filterWindow, filterLive, powered, confVars,
                   storeVars, pinVars, fault, linkVars>>

\* Memory is written out of bounds: the samples of all columns no longer fit
\* the buffer of this scan, the moving average has no row to insert into, or
\* the weighted one cleared more rows than it has.
Overruns ==
    \/ Points(settings) > Points(Top.conf)
    \/ Top.conf.filter = FILTER_MOV_AVERAGE /\ filterWindow = 0
    \/ Top.conf.filter = FILTER_MOV_AVERAGE_WEIGHTED /\ filterWindow > Points(Top.conf)

\* insertData of the median filter refuses an empty window.
Refuses == Top.conf.filter = FILTER_MEDIAN /\ filterWindow = 0

\* A frame is due once the filter has seen filterWindow samples.
FrameDue == Top.counter >= filterWindow

\* Mutants of Continued: one frame too many; m_scanning is not tested.
ContinuedOnce(a) ==
    [a EXCEPT !.pc = IF \/ settings.samples # 0 /\ a.packageId > settings.samples
                        \/ ~scanning
                     THEN "exit" ELSE "check"]

ContinuedAlways(a) ==
    [a EXCEPT !.pc = IF settings.samples # 0 /\ a.packageId >= settings.samples
                     THEN "exit" ELSE "check"]

\* The loop goes round again, or it ends with result TRUE.
Continued(a) ==
    [a EXCEPT !.pc = IF \/ settings.samples # 0 /\ a.packageId >= settings.samples
                        \/ ~scanning
                     THEN "exit" ELSE "check"]

Min2(a, b) == IF a < b THEN a ELSE b

\* sendFrame: pushToAnswer drops what the transmit buffer has no room for, so the
\* frame of a larger matrix is sent with the length of the buffer.
FrameOf(conf) ==
    [Carrying(COMM_ID_FRAME, conf) EXCEPT
       !.status = IF Points(conf) =< TX_POINTS THEN "NONE" ELSE "TRUNCATED"]

\* One pass over the matrix, and the filter.  getData refuses only for what makes
\* insertData refuse just before it.
SampleAndFilter ==
    /\ RunningAt("sample") /\ ~doStop /\ filterLive
    /\ fault' = IF Overruns THEN "overrun" ELSE fault
    /\ \/ /\ Refuses
          /\ stack' = [stack EXCEPT ![Len(stack)].pc = "exit",
                                   ![Len(stack)].result = FALSE]
          /\ UNCHANGED toHost
       \/ /\ ~Refuses /\ FrameDue
          /\ WriteToHost(FrameOf(Top.conf))
          /\ stack' = [stack EXCEPT ![Len(stack)] =
                         Continued([Top EXCEPT !.packageId = Min2(@ + 1, MaxPackage)])]
       \/ /\ ~Refuses /\ ~FrameDue
          /\ stack' = [stack EXCEPT ![Len(stack)] = Continued([Top EXCEPT !.counter = @ + 1])]
          /\ UNCHANGED toHost
    /\ UNCHANGED <<runVars, confVars, storeVars, pinVars, toBoard, losses>>

\* The filter is called through a null pointer, or the overrun hits something
\* that the processor faults on.
Crash ==
    /\ RunningAt("sample") /\ ~doStop
    /\ ~filterLive \/ Overruns
    /\ fault' = "hung"
    /\ UNCHANGED <<runVars, confVars, stack, storeVars, pinVars, linkVars>>

\* Mutant of EndScan: the caller leaves m_scanning set.
EndScanScanning ==
    /\ RunningAt("exit")
    /\ IF Top.result THEN WriteToHost(Plain(Top.starter)) ELSE UNCHANGED toHost
    /\ stack' = SubSeq(stack, 1, Len(stack) - 1)
    /\ filterLive' = FALSE /\ powered' = FALSE
    /\ UNCHANGED <<scanning, doStop, filterWindow, confVars, storeVars, pinVars,
                   fault, toBoard, losses>>

\* Mutant of EndScan: the caller does not answer.
EndScanSilent ==
    /\ RunningAt("exit")
    /\ stack' = SubSeq(stack, 1, Len(stack) - 1)
    /\ scanning' = FALSE /\ filterLive' = FALSE /\ powered' = FALSE
    /\ UNCHANGED <<doStop, filterWindow, confVars, storeVars, pinVars,
                   fault, linkVars>>

\* The exit label of scan and the end of the case that called it.
EndScan ==
    /\ RunningAt("exit")
    /\ IF Top.result THEN WriteToHost(Plain(Top.starter)) ELSE UNCHANGED toHost
    /\ stack' = SubSeq(stack, 1, Len(stack) - 1)
    /\ scanning' = FALSE /\ filterLive' = FALSE /\ powered' = FALSE
    /\ UNCHANGED <<doStop, filterWindow, confVars, storeVars, pinVars,
                   fault, toBoard, losses>>

\* The flash storage finishes a write: writePrefs handed it a pointer to the
\* live settings, so it stores what they are by now.
FlashDone ==
    /\ writing > 0
    /\ writing' = writing - 1
    /\ flash' = <<[conf |-> settings, window |-> window]>>
    /\ UNCHANGED <<runVars, confVars, stack, copied, pinVars, fault,
                   linkVars>>

PinChange ==
    /\ ExternalTrigger
    /\ pinLow' = ~pinLow
    /\ UNCHANGED <<runVars, confVars, stack, storeVars, triggerFlag, fault,
                   linkVars>>

\* What the board does on its own inside scan.
ScanStep == NoCommand \/ AbortScan \/ SampleAndFilter \/ Crash \/ EndScan

BoardNext ==
    \/ ReceiveCommand \/ TriggerStart \/ TriggerStop
    \/ ScanStep
    \/ FlashDone \/ PinChange

-----------------------------------------------------------------------------
(* The board beside any client and a line that may lose messages.          *)

CONSTANT AnyCommand            \* the commands that this client may write

ASSUME CommandAssumption ==
    \A m \in AnyCommand : m \in Messages /\ m.code \in LineCommands

ClientReads ==
    /\ toHost # <<>>
    /\ toHost' = Tail(toHost)
    /\ UNCHANGED <<boardVars, toBoard, losses>>

ClientActs ==
    /\ \/ UNCHANGED toBoard
       \/ toBoard # <<>> /\ toBoard' = Tail(toBoard)
       \/ \E m \in AnyCommand : WriteToBoard(m)
    /\ \E read \in 0 .. Len(toHost) : toHost' = SubSeq(toHost, read + 1, Len(toHost))
    /\ UNCHANGED losses \/ CountLoss
    /\ UNCHANGED boardVars

BoardOpenInit == BoardInit /\ LinkInit

BoardOpenNext == BoardNext \/ ClientActs

BoardSpec == BoardOpenInit /\ [][BoardOpenNext]_<<boardVars, linkVars>>

\* The firmware keeps running its loop and the client keeps reading the port.
BoardFairSpec ==
    /\ BoardSpec
    /\ WF_<<boardVars, linkVars>>(ScanStep)
    /\ WF_<<boardVars, linkVars>>(ClientReads)

-----------------------------------------------------------------------------
(* Properties.                                                             *)

BoardTypeInvariant == BoardTypeOK /\ LinkTypeOK

\* Back in loop() everything that a scan switched on is off, whichever way it
\* ended: no flag is left that would end or toggle the next scan.
IdleIsOff ==
    stack = <<>> => ~scanning /\ ~doStop /\ ~filterLive /\ ~powered

\* A scan that goes on to sample has the analog supply on, and a filter to give
\* the samples to if the configuration names one.  The filter byte that a client
\* writes is not checked and the switch has no default case: with a byte that
\* names none, m_pFilter is null when the first samples are given to it (Crash).
ScanReady ==
    stack # <<>> /\ Top.pc # "exit" =>
        powered /\ (filterLive <=> Top.conf.filter \in KnownFilters)

\* A scan never begins an iteration with its sample count already reached,
\* whatever reconfigured the count while it ran; the iteration in which the count
\* is lowered still sends its frame.
CountKept ==
    stack # <<>> /\ Top.pc = "check" =>
        settings.samples = 0 \/ Top.packageId < settings.samples

\* A scan that was told to stop ends and the board returns to loop(), unless
\* the scan was overrun and crashed.
StopEnds ==
    (stack # <<>> /\ (doStop \/ ~scanning)) ~> (stack = <<>> \/ fault = "hung")

\* What the flash stores is the copy that writePrefs made of the settings when
\* the write was accepted (and answered).
FlashStoresCopy == [][flash' # flash => flash' = copied]_boardVars

-----------------------------------------------------------------------------
(* The inductive invariants of the safety proofs.                          *)

\* A scan that another one interrupted has taken its command and goes on to
\* sample once it runs again.
Suspended == \A i \in 1 .. Len(stack) - 1 : stack[i].pc = "sample"

\* A stop asked for is taken by the scan that runs, before anything else.
StopPending == doStop => stack # <<>> /\ Top.pc = "sample"

\* A scan that looks for commands has m_scanning set, so that the two commands
\* that test it stop this scan and do not begin another one inside it.
CheckScans == stack # <<>> /\ Top.pc = "check" => scanning

BoardInv ==
    /\ BoardTypeInvariant
    /\ Suspended /\ StopPending /\ CheckScans
    /\ IdleIsOff
    /\ CountKept

\* Without the trigger nothing begins a scan inside a scan.
UntriggeredInv ==
    /\ BoardInv
    /\ ~pinLow /\ ~triggerFlag
    /\ Len(stack) =< 1
    /\ ScanReady
=============================================================================
