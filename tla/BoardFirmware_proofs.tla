------------------------- MODULE BoardFirmware_proofs -------------------------
(***************************************************************************)
(* Safety of the firmware for every client, every matrix, any number of    *)
(* losses and of scans inside scans.                                       *)
(***************************************************************************)
EXTENDS BoardFirmware, SequenceTheorems, TLAPS

-----------------------------------------------------------------------------
(* Data: what a handler leaves in the settings, the flash and the line.    *)

\* The types of everything that the control of a scan does not touch.
DataOK ==
    /\ settings \in Configs /\ window \in Windows
    /\ flash \in Seq(Records) /\ writing \in 0 .. FdsQueue /\ copied \in Seq(Records)
    /\ toHost \in Seq(Messages) /\ losses \in Nat

\* Every answer that the board writes is a message.
LEMMA AnswersTyped ==
    ASSUME NEW c \in Codes, NEW conf \in Configs, NEW s \in Status
    PROVE  /\ Plain(c) \in Messages
           /\ Carrying(c, conf) \in Messages
           /\ StartAnswer(c, conf, s) \in Messages
<1>1. NoConfig \in Configs
  BY LinkAssumption DEF NoConfig, Configs, FILTER_NONE
<1>2. [conf EXCEPT !.filter = FILTER_NONE] \in Configs
  BY LinkAssumption DEF Configs, FILTER_NONE
<1>3. "NONE" \in Status
  BY DEF Status
<1> QED
  BY <1>1, <1>2, <1>3 DEF Plain, Carrying, StartAnswer, Messages

\* So is a frame, truncated or not.
LEMMA FrameTyped ==
    ASSUME NEW conf \in Configs
    PROVE  FrameOf(conf) \in Messages /\ FrameOf(conf).code = COMM_ID_FRAME
<1>1. Carrying(COMM_ID_FRAME, conf) \in Messages
  BY AnswersTyped DEF Codes, Status
<1> QED
  BY <1>1 DEF FrameOf, Carrying, Messages, Status

\* Writing a message keeps the line's type.
LEMMA WriteTyped ==
    ASSUME toHost \in Seq(Messages), NEW m \in Messages, WriteToHost(m)
    PROVE  toHost' \in Seq(Messages)
BY DEF WriteToHost

\* A record of the settings, in the sequence that the flash and the copy are.
LEMMA RecordTyped ==
    ASSUME NEW c \in Configs, NEW w \in Windows
    PROVE  <<[conf |-> c, window |-> w]>> \in Seq(Records)
BY DEF Records

\* What readSettings leaves is what the flash holds or what there was.
LEMMA StoredTyped ==
    ASSUME DataOK
    PROVE  StoredConf \in Configs /\ StoredWindow \in Windows
<1>1. CASE flash = <<>>
  BY <1>1 DEF StoredConf, StoredWindow, DataOK
<1>2. CASE flash # <<>>
  <2>1. flash[1] \in Records
    BY <1>2 DEF DataOK
  <2> QED
    BY <1>2, <2>1 DEF StoredConf, StoredWindow, Records
<1> QED
  BY <1>1, <1>2

\* writeSettings, accepted or not.
LEMMA WriteSettingsTyped ==
    ASSUME DataOK, settings' \in Configs, window' \in Windows, NEW c \in Codes,
           WriteSettings(c), UNCHANGED flash
    PROVE  DataOK'
<1>1. copied' \in Seq(Records)
  BY RecordTyped DEF WriteSettings
<1>2. writing' \in 0 .. FdsQueue
  BY BoardAssumption DEF WriteSettings, DataOK
<1>3. losses' \in Nat
  BY DEF WriteSettings, DataOK, CountLoss
<1>4. Plain(c) \in Messages
  <2>1. NoConfig \in Configs
    BY LinkAssumption DEF NoConfig, Configs, FILTER_NONE
  <2> QED
    BY <2>1 DEF Plain, Messages, Status
<1>5. toHost' \in Seq(Messages)
  BY <1>4, WriteTyped DEF WriteSettings, DataOK
<1> QED
  BY <1>1, <1>2, <1>3, <1>5 DEF DataOK

-----------------------------------------------------------------------------
(* Control: a handler either leaves the scan that called it to go on to    *)
(* sample, or it begins a scan on top of it.                               *)

\* checkCommand returns to its caller; the only thing it may do to a scan is
\* to end it, through m_scanning or through m_doStop.
Settle ==
    /\ stack' = Returned
    /\ UNCHANGED <<filterWindow, filterLive, powered>>
    /\ \/ doStop' = doStop /\ scanning' \in {scanning, FALSE}
       \/ scanning /\ doStop' = TRUE /\ scanning' = scanning

\* The lemma of the case analysis: every case of checkCommand keeps the data
\* typed, and either returns or, when nothing is being scanned, begins a scan
\* by the settings it leaves.  Only the external start does not look.
LEMMA HandleCases ==
    ASSUME DataOK, scanning \in BOOLEAN, NEW m \in Messages, Handle(m)
    PROVE  /\ DataOK'
           /\ \/ Settle
              \/ /\ ~scanning \/ m.code = COMM_ID_START_CAN
                 /\ \E s \in {COMM_ID_STOP, COMM_ID_STOP_CAN} : BeginScan(s, settings')
<1> USE DEF Status
<1>0. m.conf \in Configs /\ m.code \in Codes
  BY DEF Messages
<1>1. CASE HandleStart(m)
  <2>1. settings' \in Configs
    BY <1>0, <1>1 DEF HandleStart, DataOK, Configs
  <2>2. toHost' \in Seq(Messages)
    BY <1>1, <2>1, AnswersTyped, WriteTyped
       DEF HandleStart, Toggle, DataOK, Codes, Status
  <2>3. DataOK'
    BY <1>1, <2>1, <2>2 DEF HandleStart, DataOK, storeVars
  <2>4. Settle \/ (~scanning /\ BeginScan(COMM_ID_STOP, settings'))
    BY <1>1 DEF HandleStart, Toggle, Settle
  <2> QED
    BY <2>3, <2>4
<1>2. CASE HandleStartNoParams(m)
  <2>1. settings' = settings /\ settings \in Configs
    BY <1>2 DEF HandleStartNoParams, DataOK, confVars
  <2>2. toHost' \in Seq(Messages)
    BY <1>2, <2>1, AnswersTyped, WriteTyped
       DEF HandleStartNoParams, Toggle, DataOK, Codes, Status
  <2>3. DataOK'
    BY <1>2, <2>1, <2>2 DEF HandleStartNoParams, DataOK, storeVars, confVars
  <2>4. Settle \/ (~scanning /\ BeginScan(COMM_ID_STOP, settings'))
    BY <1>2, <2>1 DEF HandleStartNoParams, Toggle, Settle
  <2> QED
    BY <2>3, <2>4
<1>3. CASE HandleStop(m)
  <2>1. toHost' \in Seq(Messages)
    <3>1. Plain(COMM_ID_STOP) \in Messages
      BY <1>0, AnswersTyped, BoardAssumption DEF DataOK, Codes, Status
    <3> QED
      BY <1>3, <3>1, WriteTyped DEF HandleStop, DataOK
  <2>2. DataOK'
    BY <1>3, <2>1 DEF HandleStop, DataOK, storeVars, confVars
  <2>3. Settle
    BY <1>3 DEF HandleStop, Settle
  <2> QED
    BY <2>2, <2>3
<1>4. CASE HandleStopCan(m)
  <2>1. DataOK'
    BY <1>4 DEF HandleStopCan, DataOK, storeVars, confVars
  <2>2. Settle
    BY <1>4 DEF HandleStopCan, Settle
  <2> QED
    BY <2>1, <2>2
<1>5. CASE HandleStartCan(m)
  <2>1. settings' = settings /\ settings \in Configs
    BY <1>5 DEF HandleStartCan, DataOK, confVars
  <2>2. toHost' \in Seq(Messages)
    BY <1>5, <2>1, AnswersTyped, WriteTyped DEF HandleStartCan, DataOK, Codes, Status
  <2>3. DataOK'
    BY <1>5, <2>1, <2>2 DEF HandleStartCan, DataOK, storeVars, confVars
  <2>4. m.code = COMM_ID_START_CAN /\ BeginScan(COMM_ID_STOP_CAN, settings')
    BY <1>5, <2>1 DEF HandleStartCan
  <2> QED
    BY <2>3, <2>4
<1>6. CASE HandleWriteConfig(m)
  <2>1. settings' \in Configs
    BY <1>0, <1>6, BoardAssumption DEF HandleWriteConfig, Configs
  <2>2. DataOK'
    BY <1>6, <2>1, StoredTyped, WriteSettingsTyped DEF HandleWriteConfig, Codes
  <2>3. Settle
    BY <1>6 DEF HandleWriteConfig, Settle, runVars
  <2> QED
    BY <2>2, <2>3
<1>7. CASE HandleWriteFilter(m)
  <2>1. DataOK'
    BY <1>7, StoredTyped, WriteSettingsTyped DEF HandleWriteFilter, Codes
  <2>2. Settle
    BY <1>7 DEF HandleWriteFilter, Settle, runVars
  <2> QED
    BY <2>1, <2>2
<1>8. CASE HandleReadFilter(m)
  <2>1. toHost' \in Seq(Messages)
    <3>1. Plain(COMM_ID_READ_FLTR_CONF) \in Messages
      BY <1>0, AnswersTyped DEF Codes, Status
    <3> QED
      BY <1>8, <3>1, WriteTyped DEF HandleReadFilter, DataOK
  <2>2. DataOK'
    BY <1>8, <2>1, StoredTyped DEF HandleReadFilter, DataOK, storeVars
  <2>3. Settle
    BY <1>8 DEF HandleReadFilter, Settle, runVars
  <2> QED
    BY <2>2, <2>3
<1>9. CASE HandleRead(m)
  <2>1. toHost' \in Seq(Messages)
    <3>1. Plain(m.code) \in Messages /\ Carrying(m.code, settings) \in Messages
      BY <1>0, AnswersTyped DEF DataOK, Status
    <3> QED
      BY <1>9, <3>1, WriteTyped DEF HandleRead, DataOK
  <2>2. DataOK'
    BY <1>9, <2>1 DEF HandleRead, DataOK, storeVars, confVars
  <2>3. Settle
    BY <1>9 DEF HandleRead, Settle, runVars
  <2> QED
    BY <2>2, <2>3
<1> QED
  BY <1>1, <1>2, <1>3, <1>4, <1>5, <1>6, <1>7, <1>8, <1>9 DEF Handle

-----------------------------------------------------------------------------
(* The control state, which the steps of a scan and the handlers share.    *)

ControlOK ==
    /\ scanning \in BOOLEAN /\ doStop \in BOOLEAN /\ filterWindow \in Nat
    /\ filterLive \in BOOLEAN /\ powered \in BOOLEAN
    /\ stack \in Seq(Activations) /\ Len(stack) =< MaxNesting
    /\ Suspended /\ StopPending /\ CheckScans
    /\ IdleIsOff
    /\ CountKept

\* The stack at the moment checkCommand returns: the scan that called it, if
\* any, goes on to sample, and nothing else of it has changed.
LEMMA ReturnedOK ==
    ASSUME stack \in Seq(Activations), Suspended, AtCheck
    PROVE  /\ Returned \in Seq(Activations)
           /\ Len(Returned) = Len(stack)
           /\ \A i \in 1 .. Len(stack) : Returned[i].pc = "sample"
<1>1. CASE stack = <<>>
  BY <1>1 DEF Returned
<1>2. CASE stack # <<>>
  <2>1. Len(stack) \in 1 .. Len(stack) /\ stack[Len(stack)] \in Activations
    BY <1>2
  <2>2. [stack[Len(stack)] EXCEPT !.pc = "sample"] \in Activations
    BY <2>1 DEF Activations
  <2>3. Returned = [stack EXCEPT ![Len(stack)] = [stack[Len(stack)] EXCEPT !.pc = "sample"]]
    BY <1>2 DEF Returned
  <2>4. Returned \in Seq(Activations) /\ Len(Returned) = Len(stack)
    BY <2>1, <2>2, <2>3
  <2>5. [stack[Len(stack)] EXCEPT !.pc = "sample"].pc = "sample"
    BY <2>1 DEF Activations
  <2>6. \A i \in 1 .. Len(stack) : Returned[i].pc = "sample"
    BY <2>1, <2>3, <2>5 DEF Suspended
  <2> QED
    BY <2>4, <2>6
<1> QED
  BY <1>1, <1>2

\* Returning keeps the control state: the scan is past its check, where it
\* takes a pending stop first.
LEMMA SettleOK ==
    ASSUME ControlOK, AtCheck, Settle
    PROVE  ControlOK'
<1>1. /\ stack' \in Seq(Activations) /\ Len(stack') = Len(stack)
      /\ \A i \in 1 .. Len(stack') : stack'[i].pc = "sample"
  BY ReturnedOK DEF ControlOK, Settle
<1>2. scanning' \in BOOLEAN /\ doStop' \in BOOLEAN
  BY DEF ControlOK, Settle
<1>3. stack' = <<>> <=> stack = <<>>
  BY <1>1 DEF ControlOK
<1>4. stack' # <<>> => Top'.pc = "sample"
  BY <1>1 DEF Top
<1>5. Suspended'
  BY <1>1 DEF Suspended
<1>6. StopPending'
  <2>1. doStop' => stack # <<>>
    BY DEF Settle, ControlOK, StopPending, IdleIsOff
  <2> QED
    BY <1>3, <1>4, <2>1 DEF StopPending
<1>7. IdleIsOff'
  BY <1>3, <1>2 DEF IdleIsOff, Settle, ControlOK
<1>8. CheckScans' /\ CountKept'
  BY <1>4 DEF CheckScans, CountKept
<1> QED
  BY <1>1, <1>2, <1>5, <1>6, <1>7, <1>8 DEF ControlOK, Settle

\* A scan that begins is on top of scans that are past their check; it finds
\* no stop pending and has sent no frame.
LEMMA BeginOK ==
    ASSUME ControlOK, AtCheck, settings' \in Configs, window \in Windows,
           NEW s \in {COMM_ID_STOP, COMM_ID_STOP_CAN}, BeginScan(s, settings')
    PROVE  ControlOK'
<1>1. /\ Returned \in Seq(Activations) /\ Len(Returned) = Len(stack)
      /\ \A i \in 1 .. Len(stack) : Returned[i].pc = "sample"
  BY ReturnedOK DEF ControlOK
<1>2. CASE Points(settings') = 0
  <2>1. /\ stack' = Returned /\ doStop' = FALSE /\ scanning' = FALSE
        /\ powered' = FALSE /\ filterLive' = FALSE /\ filterWindow' = filterWindow
    BY <1>2 DEF BeginScan
  <2>2. stack' # <<>> => Top'.pc = "sample"
    BY <1>1, <2>1 DEF Top
  <2>3. Suspended'
    BY <1>1, <2>1 DEF Suspended
  <2>4. StopPending' /\ CheckScans' /\ IdleIsOff' /\ CountKept'
    BY <2>1, <2>2 DEF StopPending, CheckScans, IdleIsOff, CountKept
  <2> QED
    BY <1>1, <2>1, <2>3, <2>4 DEF ControlOK
<1>3. CASE Points(settings') # 0
  <2> DEFINE a == [starter |-> s, conf |-> settings', counter |-> 0, packageId |-> 0,
                   pc |-> "check", result |-> TRUE]
  <2>1. /\ stack' = Append(Returned, a) /\ doStop' = FALSE /\ scanning' = TRUE
        /\ powered' = TRUE /\ filterWindow' = WindowFor(settings'.filter)
        /\ filterLive' = (filterLive \/ settings'.filter \in KnownFilters)
        /\ Len(stack) < MaxNesting
    BY <1>3 DEF BeginScan
  <2>2. a \in Activations
    BY BoardAssumption DEF Activations
  <2>3. /\ stack' \in Seq(Activations) /\ Len(stack') = Len(stack) + 1
        /\ stack'[Len(stack')] = a
        /\ \A i \in 1 .. Len(stack) : stack'[i].pc = "sample"
    BY <1>1, <2>1, <2>2
  <2>4. stack' # <<>> /\ Top' = a
    BY <2>3 DEF Top
  <2>5. filterWindow' \in Nat
    BY <2>1, BoardAssumption DEF WindowFor, ControlOK
  <2>6. Suspended'
    BY <2>3 DEF Suspended
  <2>7. StopPending' /\ CheckScans' /\ IdleIsOff'
    BY <2>1, <2>4 DEF StopPending, CheckScans, IdleIsOff
  <2>8. CountKept'
    <3>1. settings'.samples \in Nat
      BY LinkAssumption DEF Configs
    <3>2. Top'.packageId = 0
      BY <2>4
    <3> HIDE DEF a
    <3> QED
      BY <3>1, <3>2 DEF CountKept
  <2>9. Len(stack') =< MaxNesting
    BY <2>1, <2>3, BoardAssumption DEF ControlOK
  <2>10. powered' \in BOOLEAN /\ filterLive' \in BOOLEAN
    BY <2>1
  <2> HIDE DEF a
  <2> QED
    BY <2>1, <2>3, <2>5, <2>6, <2>7, <2>8, <2>9, <2>10 DEF ControlOK
<1> QED
  BY <1>2, <1>3

\* A step of the running scan that only rewrites its activation, and does not
\* touch the flags, keeps the control state if what it leaves is one of a scan
\* that ends, or of one that goes round and has reason to.
LEMMA RewriteOK ==
    ASSUME ControlOK, stack # <<>>, NEW a \in Activations,
           stack' = [stack EXCEPT ![Len(stack)] = a],
           UNCHANGED <<scanning, filterWindow, filterLive, powered, settings>>,
           doStop' = FALSE,
           a.pc = "check" => scanning /\ (settings.samples = 0 \/ a.packageId < settings.samples)
    PROVE  ControlOK'
<1>1. /\ stack' \in Seq(Activations) /\ Len(stack') = Len(stack) /\ stack' # <<>>
      /\ stack'[Len(stack')] = a
      /\ \A i \in 1 .. Len(stack) - 1 : stack'[i] = stack[i]
  BY DEF ControlOK
<1>2. Top' = a
  BY <1>1 DEF Top
<1>3. Suspended'
  BY <1>1 DEF Suspended, ControlOK
<1>4. StopPending' /\ CheckScans' /\ IdleIsOff' /\ CountKept'
  BY <1>1, <1>2 DEF StopPending, CheckScans, IdleIsOff, CountKept
<1> QED
  BY <1>1, <1>3, <1>4 DEF ControlOK

\* The rest of the type invariant: the commands on the line, the trigger pin,
\* and what undefined behaviour did.
OtherOK ==
    /\ toBoard \in Seq(Messages)
    /\ pinLow \in BOOLEAN /\ triggerFlag \in BOOLEAN
    /\ fault \in {"none", "overrun", "hung"}

LEMMA InvParts == BoardInv <=> DataOK /\ ControlOK /\ OtherOK
BY DEF BoardInv, BoardTypeInvariant, BoardTypeOK, LinkTypeOK, DataOK, ControlOK, OtherOK

\* A handler called by loop() or by the running scan.
LEMMA HandledOK ==
    ASSUME DataOK, ControlOK, AtCheck, NEW m \in Messages, Handle(m)
    PROVE  DataOK' /\ ControlOK'
<1>1. /\ DataOK'
      /\ \/ Settle
         \/ \E s \in {COMM_ID_STOP, COMM_ID_STOP_CAN} : BeginScan(s, settings')
  BY HandleCases DEF ControlOK
<1>2. settings' \in Configs /\ window \in Windows
  BY <1>1 DEF DataOK
<1> QED
  BY <1>1, <1>2, SettleOK, BeginOK

\* What waits on the line after some commands were taken from it.
LEMMA TakenTyped ==
    ASSUME NEW q \in Seq(Messages), NEW n \in 0 .. Len(q)
    PROVE  SubSeq(q, n + 1, Len(q)) \in Seq(Messages)
<1>1. n + 1 \in 1 .. Len(q) + 1 /\ Len(q) \in Nat
  OBVIOUS
<1> QED
  BY <1>1, SubSeqProperties

\* Power-up is a proper state.
LEMMA BoardInvInit == BoardOpenInit => BoardInv
<1> SUFFICES ASSUME BoardOpenInit
             PROVE  DataOK /\ ControlOK /\ OtherOK
  BY InvParts
<1> USE DEF BoardOpenInit, BoardInit, LinkInit
<1>1. settings \in Configs /\ window \in Windows
  BY BoardAssumption
<1>2. flash \in Seq(Records)
  BY <1>1, RecordTyped
<1>3. DataOK
  BY <1>1, <1>2, BoardAssumption DEF DataOK
<1>4. ControlOK
  <2>1. stack \in Seq(Activations) /\ Len(stack) = 0 /\ 0 =< MaxNesting
    BY BoardAssumption
  <2>2. StopPending /\ CheckScans /\ IdleIsOff /\ CountKept
    BY DEF StopPending, CheckScans, IdleIsOff, CountKept
  <2>3. Suspended
    BY <2>1 DEF Suspended
  <2>4. scanning \in BOOLEAN /\ doStop \in BOOLEAN /\ filterLive \in BOOLEAN /\ powered \in BOOLEAN
    OBVIOUS
  <2>5. filterWindow \in Nat
    OBVIOUS
  <2> QED
    BY <2>1, <2>2, <2>3, <2>4, <2>5 DEF ControlOK
<1>5. OtherOK
  <2>1. toBoard \in Seq(Messages)
    OBVIOUS
  <2> QED
    BY <2>1 DEF OtherOK
<1> QED
  BY <1>3, <1>4, <1>5

\* What the scan loop leaves of an activation that it may go round with.
LEMMA ContinuedOK ==
    ASSUME DataOK, NEW a \in Activations
    PROVE  /\ Continued(a) \in Activations
           /\ Continued(a).pc = "check" =>
                scanning /\ (settings.samples = 0 \/ Continued(a).packageId < settings.samples)
<1> DEFINE p == IF \/ settings.samples # 0 /\ a.packageId >= settings.samples
                   \/ ~scanning
                THEN "exit" ELSE "check"
<1>1. settings.samples \in Nat /\ a.packageId \in Nat
  <2>1. settings.samples \in Nat
    BY LinkAssumption DEF DataOK, Configs
  <2>2. a.packageId \in Nat
    BY BoardAssumption DEF Activations
  <2> QED
    BY <2>1, <2>2
<1>2. Continued(a) = [a EXCEPT !.pc = p]
  BY DEF Continued
<1>3. p \in {"exit", "check"}
  OBVIOUS
<1>4. p = "check" => scanning /\ (settings.samples = 0 \/ a.packageId < settings.samples)
  BY <1>1
<1> HIDE DEF p
<1> QED
  BY <1>2, <1>3, <1>4 DEF Activations

\* The board's own steps, one by one.
LEMMA BoardNextOK ==
    ASSUME BoardInv, BoardNext
    PROVE  BoardInv'
<1> SUFFICES DataOK' /\ ControlOK' /\ OtherOK'
  BY InvParts DEF BoardInv, DataOK, ControlOK, OtherOK, BoardTypeInvariant, BoardTypeOK, LinkTypeOK
<1>0. DataOK /\ ControlOK /\ OtherOK
  BY InvParts
<1>1. CASE ReceiveCommand
  <2>1. PICK arrived \in 1 .. Len(toBoard) :
          /\ toBoard' = SubSeq(toBoard, arrived + 1, Len(toBoard))
          /\ Handle(Head(toBoard))
    BY <1>1 DEF ReceiveCommand
  <2>2. Head(toBoard) \in Messages
    BY <1>0, <2>1 DEF OtherOK
  <2>3. toBoard' \in Seq(Messages)
    BY <1>0, <2>1, TakenTyped DEF OtherOK
  <2>4. DataOK' /\ ControlOK'
    BY <1>0, <1>1, <2>1, <2>2, HandledOK DEF ReceiveCommand
  <2> QED
    BY <1>0, <1>1, <2>3, <2>4 DEF ReceiveCommand, OtherOK, pinVars
<1>2. CASE TriggerStart
  <2>1. Plain(COMM_ID_START_CAN) \in Messages
    BY <1>0, AnswersTyped DEF Codes, Status, DataOK
  <2>2. DataOK' /\ ControlOK'
    BY <1>0, <1>2, <2>1, HandledOK DEF TriggerStart, Handle
  <2> QED
    BY <1>0, <1>2, <2>2 DEF TriggerStart, OtherOK
<1>3. CASE TriggerStop
  <2>1. Plain(COMM_ID_STOP_CAN) \in Messages
    BY <1>0, AnswersTyped DEF Codes, Status, DataOK
  <2>2. DataOK' /\ ControlOK'
    BY <1>0, <1>3, <2>1, HandledOK DEF TriggerStop, Handle
  <2> QED
    BY <1>0, <1>3, <2>2 DEF TriggerStop, OtherOK
<1>4. CASE NoCommand
  <2>1. AtCheck /\ Settle
    BY <1>0, <1>4 DEF NoCommand, RunningAt, AtCheck, Settle, runVars, ControlOK
  <2>2. ControlOK'
    BY <1>0, <2>1, SettleOK
  <2> QED
    BY <1>0, <1>4, <2>2 DEF NoCommand, DataOK, OtherOK, confVars, storeVars, pinVars, linkVars
<1>5. CASE AbortScan
  <2> DEFINE a == [Top EXCEPT !.pc = "exit", !.result = FALSE]
  <2>1. Top \in Activations /\ stack # <<>>
    BY <1>0, <1>5 DEF AbortScan, RunningAt, Top, ControlOK
  <2>2. a \in Activations /\ a.pc = "exit"
    BY <2>1 DEF Activations
  <2>3. stack' = [stack EXCEPT ![Len(stack)] = a]
    BY <1>0, <1>5, <2>1 DEF AbortScan, Top, ControlOK
  <2>4. ControlOK'
    <3> HIDE DEF a
    <3> QED
      BY <1>0, <1>5, <2>1, <2>2, <2>3, RewriteOK DEF AbortScan, confVars
  <2> QED
    BY <1>0, <1>5, <2>4 DEF AbortScan, DataOK, OtherOK, confVars, storeVars, pinVars, linkVars
<1>6. CASE SampleAndFilter
  <2>1. Top \in Activations /\ stack # <<>> /\ Top = stack[Len(stack)]
    BY <1>0, <1>6 DEF SampleAndFilter, RunningAt, Top, ControlOK
  <2>2. UNCHANGED <<scanning, filterWindow, filterLive, powered, settings>> /\ doStop' = FALSE
    BY <1>0, <1>6 DEF SampleAndFilter, runVars, confVars, ControlOK
  <2>3. fault' \in {"none", "overrun", "hung"}
    BY <1>0, <1>6 DEF SampleAndFilter, OtherOK
  <2>4. OtherOK'
    BY <1>0, <1>6, <2>3 DEF SampleAndFilter, OtherOK, pinVars
  <2>5. CASE stack' = [stack EXCEPT ![Len(stack)].pc = "exit", ![Len(stack)].result = FALSE]
             /\ UNCHANGED toHost
    <3> DEFINE a == [Top EXCEPT !.pc = "exit", !.result = FALSE]
    <3>1. a \in Activations /\ a.pc = "exit"
      BY <2>1 DEF Activations
    <3>2. stack' = [stack EXCEPT ![Len(stack)] = a]
      BY <1>0, <2>1, <2>5 DEF Top, ControlOK
    <3>3. ControlOK'
      <4> HIDE DEF a
      <4> QED
        BY <1>0, <2>1, <2>2, <3>1, <3>2, RewriteOK
    <3>4. DataOK'
      BY <1>0, <1>6, <2>5 DEF SampleAndFilter, DataOK, confVars, storeVars
    <3> QED
      BY <2>4, <3>3, <3>4
  <2>6. CASE /\ WriteToHost(FrameOf(Top.conf))
             /\ stack' = [stack EXCEPT ![Len(stack)] =
                            Continued([Top EXCEPT !.packageId = Min2(@ + 1, MaxPackage)])]
    <3> DEFINE b == [Top EXCEPT !.packageId = Min2(Top.packageId + 1, MaxPackage)]
    <3>1. b \in Activations
      <4>1. Min2(Top.packageId + 1, MaxPackage) \in 0 .. MaxPackage
        BY <2>1, BoardAssumption DEF Min2, Activations
      <4> QED
        BY <2>1, <4>1 DEF Activations
    <3>2. stack' = [stack EXCEPT ![Len(stack)] = Continued(b)]
      BY <2>6
    <3>3. ControlOK'
      <4> HIDE DEF b
      <4>1. /\ Continued(b) \in Activations
            /\ Continued(b).pc = "check" =>
                 scanning /\ (settings.samples = 0 \/ Continued(b).packageId < settings.samples)
        BY <1>0, <3>1, ContinuedOK
      <4> QED
        BY <1>0, <2>1, <2>2, <3>2, <4>1, RewriteOK
    <3>4. toHost' \in Seq(Messages)
      <4>1. FrameOf(Top.conf) \in Messages
        BY <2>1, FrameTyped DEF Activations
      <4> QED
        BY <1>0, <2>6, <4>1, WriteTyped DEF DataOK
    <3>5. DataOK'
      BY <1>0, <1>6, <3>4 DEF SampleAndFilter, DataOK, confVars, storeVars
    <3> QED
      BY <2>4, <3>3, <3>5
  <2>7. CASE stack' = [stack EXCEPT ![Len(stack)] = Continued([Top EXCEPT !.counter = @ + 1])]
             /\ UNCHANGED toHost
    <3> DEFINE b == [Top EXCEPT !.counter = Top.counter + 1]
    <3>1. b \in Activations
      BY <2>1 DEF Activations
    <3>2. stack' = [stack EXCEPT ![Len(stack)] = Continued(b)]
      BY <2>7
    <3>3. ControlOK'
      <4> HIDE DEF b
      <4>1. /\ Continued(b) \in Activations
            /\ Continued(b).pc = "check" =>
                 scanning /\ (settings.samples = 0 \/ Continued(b).packageId < settings.samples)
        BY <1>0, <3>1, ContinuedOK
      <4> QED
        BY <1>0, <2>1, <2>2, <3>2, <4>1, RewriteOK
    <3>4. DataOK'
      BY <1>0, <1>6, <2>7 DEF SampleAndFilter, DataOK, confVars, storeVars
    <3> QED
      BY <2>4, <3>3, <3>4
  <2> QED
    BY <1>6, <2>5, <2>6, <2>7 DEF SampleAndFilter
<1>7. CASE Crash
  BY <1>0, <1>7
     DEF Crash, DataOK, ControlOK, OtherOK, Suspended, StopPending, CheckScans, IdleIsOff,
         CountKept, Top, runVars, confVars, storeVars, pinVars, linkVars
<1>8. CASE EndScan
  <2>1. /\ stack # <<>> /\ Top.pc = "exit" /\ stack \in Seq(Activations)
        /\ stack' = SubSeq(stack, 1, Len(stack) - 1)
        /\ scanning' = FALSE /\ filterLive' = FALSE /\ powered' = FALSE
        /\ UNCHANGED <<doStop, filterWindow, settings>>
    BY <1>0, <1>8 DEF EndScan, RunningAt, ControlOK, confVars
  <2>2. /\ stack' \in Seq(Activations) /\ Len(stack') = Len(stack) - 1
        /\ \A i \in 1 .. Len(stack') : stack'[i] = stack[i]
    <3> DEFINE n == Len(stack) - 1
    <3>1. n \in Nat /\ \A i \in 1 .. n : stack[i] \in Activations
      BY <2>1
    <3> HIDE DEF n
    <3>2. /\ SubSeq(stack, 1, n) \in Seq(Activations)
          /\ Len(SubSeq(stack, 1, n)) = IF 1 <= n THEN n - 1 + 1 ELSE 0
          /\ \A i \in 1 .. n - 1 + 1 : SubSeq(stack, 1, n)[i] = stack[1 + i - 1]
      BY <3>1, SubSeqProperties
    <3>3. Len(SubSeq(stack, 1, n)) = n /\ \A i \in 1 .. n : SubSeq(stack, 1, n)[i] = stack[i]
      BY <3>1, <3>2
    <3> QED
      BY <2>1, <3>2, <3>3 DEF n
  <2>3. stack' # <<>> => Top' = stack[Len(stack) - 1] /\ Len(stack) > 1
    BY <2>1, <2>2 DEF Top
  <2>4. stack' # <<>> => Top'.pc = "sample"
    BY <1>0, <2>1, <2>3 DEF ControlOK, Suspended
  <2>5. ~doStop /\ ~doStop'
    BY <1>0, <2>1 DEF ControlOK, StopPending
  <2>6. Suspended'
    BY <1>0, <2>1, <2>2 DEF ControlOK, Suspended
  <2>7. StopPending' /\ CheckScans' /\ IdleIsOff' /\ CountKept'
    BY <2>1, <2>4, <2>5 DEF StopPending, CheckScans, IdleIsOff, CountKept
  <2>8. ControlOK'
    <3>1. Len(stack') =< MaxNesting
      BY <1>0, <2>1, <2>2, BoardAssumption DEF ControlOK
    <3> QED
      BY <1>0, <2>1, <2>2, <2>6, <2>7, <3>1 DEF ControlOK
  <2>9. toHost' \in Seq(Messages)
    <3>1. Top.starter \in Codes
      <4>1. Top \in Activations
        BY <2>1 DEF Top
      <4> QED
        BY <4>1 DEF Activations, Codes
    <3>2. Plain(Top.starter) \in Messages
      BY <1>0, <3>1, AnswersTyped DEF DataOK, Status
    <3> QED
      BY <1>0, <1>8, <3>2, WriteTyped DEF EndScan, DataOK
  <2> QED
    BY <1>0, <1>8, <2>8, <2>9 DEF EndScan, DataOK, OtherOK, confVars, storeVars, pinVars
<1>9. CASE FlashDone
  <2>1. flash' \in Seq(Records)
    BY <1>0, <1>9, RecordTyped DEF FlashDone, DataOK
  <2>2. writing' \in 0 .. FdsQueue
    BY <1>0, <1>9, BoardAssumption DEF FlashDone, DataOK
  <2>3. DataOK'
    BY <1>0, <1>9, <2>1, <2>2 DEF FlashDone, DataOK, confVars, linkVars
  <2> QED
    BY <1>0, <1>9, <2>3
       DEF FlashDone, ControlOK, OtherOK, Suspended, StopPending, CheckScans, IdleIsOff,
           CountKept, Top, runVars, confVars, pinVars, linkVars
<1>10. CASE PinChange
  BY <1>0, <1>10
     DEF PinChange, DataOK, ControlOK, OtherOK, Suspended, StopPending, CheckScans,
         IdleIsOff, CountKept, Top, runVars, confVars, storeVars, linkVars
<1> QED
  BY <1>1, <1>2, <1>3, <1>4, <1>5, <1>6, <1>7, <1>8, <1>9, <1>10 DEF BoardNext, ScanStep

\* The client writes only commands that are messages, and what it reads or the
\* line loses shortens the queues.
LEMMA ClientActsOK ==
    ASSUME BoardInv, ClientActs
    PROVE  BoardInv'
<1>0. DataOK /\ ControlOK /\ OtherOK
  BY InvParts
<1>1. toHost' \in Seq(Messages)
  <2>1. PICK read \in 0 .. Len(toHost) : toHost' = SubSeq(toHost, read + 1, Len(toHost))
    BY DEF ClientActs
  <2> QED
    BY <1>0, <2>1, TakenTyped DEF DataOK
<1>2. toBoard' \in Seq(Messages)
  <2>1. CASE UNCHANGED toBoard
    BY <1>0, <2>1 DEF OtherOK
  <2>2. CASE toBoard # <<>> /\ toBoard' = Tail(toBoard)
    BY <1>0, <2>2 DEF OtherOK
  <2>3. CASE \E m \in AnyCommand : WriteToBoard(m)
    BY <1>0, <2>3, CommandAssumption DEF OtherOK, WriteToBoard
  <2> QED
    BY <2>1, <2>2, <2>3 DEF ClientActs
<1>3. losses' \in Nat
  BY <1>0 DEF ClientActs, CountLoss, DataOK
<1>4. UNCHANGED boardVars
  BY DEF ClientActs
<1>5. DataOK'
  BY <1>0, <1>1, <1>3, <1>4 DEF DataOK, boardVars, confVars, storeVars
<1>6. OtherOK'
  BY <1>0, <1>2, <1>4 DEF OtherOK, boardVars, pinVars
<1>7. ControlOK'
  BY <1>0, <1>4
     DEF ControlOK, boardVars, runVars, confVars, Suspended, StopPending, CheckScans,
         IdleIsOff, CountKept, Top
<1> QED
  BY <1>5, <1>6, <1>7
     DEF BoardInv, BoardTypeInvariant, BoardTypeOK, LinkTypeOK, DataOK, ControlOK, OtherOK

LEMMA BoardInvNext ==
    ASSUME BoardInv, [BoardOpenNext]_<<boardVars, linkVars>>
    PROVE  BoardInv'
<1>1. CASE BoardNext
  BY <1>1, BoardNextOK
<1>2. CASE ClientActs
  BY <1>2, ClientActsOK
<1>3. CASE UNCHANGED <<boardVars, linkVars>>
  BY <1>3
     DEF BoardInv, BoardTypeInvariant, BoardTypeOK, LinkTypeOK, Suspended, StopPending,
         CheckScans, IdleIsOff, CountKept, Top, boardVars, runVars, confVars, storeVars,
         pinVars, linkVars
<1> QED
  BY <1>1, <1>2, <1>3 DEF BoardOpenNext

\* Every state of the firmware and its line is in the invariant.
LEMMA BoardInvAlways == BoardSpec => []BoardInv
BY BoardInvInit, BoardInvNext, PTL DEF BoardSpec

\* The firmware's state and the line's are of their types: matrices, windows,
\* flash records, the stack of scans with at most MaxNesting of them.
THEOREM BoardTypeCorrect == BoardSpec => []BoardTypeInvariant
<1>1. BoardInv => BoardTypeInvariant
  BY DEF BoardInv
<1> QED
  BY <1>1, BoardInvAlways, PTL

\* Back in loop(), whichever way its scans ended and however deep they were
\* inside each other, everything a scan switched on is off.
THEOREM BoardIdleIsOff == BoardSpec => []IdleIsOff
<1>1. BoardInv => IdleIsOff
  BY DEF BoardInv
<1> QED
  BY <1>1, BoardInvAlways, PTL

\* A scan never begins an iteration with its sample count reached, whatever
\* commands and scans inside it did to the count.
THEOREM BoardCountKept == BoardSpec => []CountKept
<1>1. BoardInv => CountKept
  BY DEF BoardInv
<1> QED
  BY <1>1, BoardInvAlways, PTL

-----------------------------------------------------------------------------
(* Without the trigger.                                                    *)

\* The running scan goes on: its supply, its filter and its settings stay.
LEMMA ReadyKept ==
    ASSUME ScanReady, stack # <<>>, Top.pc # "exit", UNCHANGED <<powered, filterLive>>,
           stack' # <<>> => Top'.conf = Top.conf
    PROVE  ScanReady'
BY DEF ScanReady

LEMMA ReturnedConf ==
    ASSUME stack \in Seq(Activations), stack # <<>>, stack' = Returned
    PROVE  Len(stack') = Len(stack) /\ Top'.conf = Top.conf
<1>1. Len(stack) \in 1 .. Len(stack) /\ Top \in Activations
  BY DEF Top
<1>2. stack' = [stack EXCEPT ![Len(stack)] = [Top EXCEPT !.pc = "sample"]]
  BY DEF Returned, Top
<1>3. Len(stack') = Len(stack) /\ stack'[Len(stack)] = [Top EXCEPT !.pc = "sample"]
  BY <1>1, <1>2
<1>4. Top' = [Top EXCEPT !.pc = "sample"]
  BY <1>3 DEF Top
<1> QED
  BY <1>1, <1>3, <1>4 DEF Activations

\* Neither do the rest of an iteration and its end touch the scan's settings.
LEMMA RewrittenConf ==
    ASSUME stack \in Seq(Activations), stack # <<>>, NEW a, a.conf = Top.conf,
           stack' = [stack EXCEPT ![Len(stack)] = a]
    PROVE  Len(stack') = Len(stack) /\ Top'.conf = Top.conf
<1>1. Len(stack) \in 1 .. Len(stack)
  OBVIOUS
<1>2. Len(stack') = Len(stack) /\ stack'[Len(stack)] = a
  BY <1>1
<1>3. Top' = a
  BY <1>2 DEF Top
<1> QED
  BY <1>2, <1>3

LEMMA IterationConf ==
    ASSUME stack \in Seq(Activations), AbortScan \/ SampleAndFilter
    PROVE  Len(stack') = Len(stack) /\ Top'.conf = Top.conf
<1>1. stack # <<>> /\ Top \in Activations /\ Len(stack) \in 1 .. Len(stack)
  BY EmptySeq DEF AbortScan, SampleAndFilter, RunningAt, Top
<1>2. \E a : a.conf = Top.conf /\ stack' = [stack EXCEPT ![Len(stack)] = a]
  <2>1. CASE stack' = [stack EXCEPT ![Len(stack)].pc = "exit", ![Len(stack)].result = FALSE]
    <3> DEFINE a == [Top EXCEPT !.pc = "exit", !.result = FALSE]
    <3>1. a.conf = Top.conf
      BY <1>1 DEF Activations
    <3>2. stack' = [stack EXCEPT ![Len(stack)] = a]
      BY <1>1, <2>1 DEF Top
    <3> QED
      BY <3>1, <3>2
  <2>2. CASE stack' = [stack EXCEPT ![Len(stack)] =
                         Continued([Top EXCEPT !.packageId = Min2(@ + 1, MaxPackage)])]
    <3> DEFINE a == Continued([Top EXCEPT !.packageId = Min2(@ + 1, MaxPackage)])
    <3>1. a.conf = Top.conf
      BY <1>1 DEF Activations, Continued
    <3> QED
      BY <2>2, <3>1
  <2>3. CASE stack' = [stack EXCEPT ![Len(stack)] = Continued([Top EXCEPT !.counter = @ + 1])]
    <3> DEFINE a == Continued([Top EXCEPT !.counter = @ + 1])
    <3>1. a.conf = Top.conf
      BY <1>1 DEF Activations, Continued
    <3> QED
      BY <2>3, <3>1
  <2> QED
    BY <2>1, <2>2, <2>3 DEF AbortScan, SampleAndFilter
<1>3. PICK a : a.conf = Top.conf /\ stack' = [stack EXCEPT ![Len(stack)] = a]
  BY <1>2
<1> QED
  BY <1>1, <1>3, RewrittenConf

\* A handler does not begin a scan inside a scan, as the scan that looks for
\* commands has m_scanning set and the commands on the line test it.
LEMMA UntriggeredHandled ==
    ASSUME UntriggeredInv, AtCheck,
           NEW m \in Messages, m.code # COMM_ID_START_CAN, Handle(m),
           stack' \in Seq(Activations)
    PROVE  Len(stack') =< 1 /\ ScanReady'
<1>0. DataOK /\ ControlOK
  BY InvParts DEF UntriggeredInv
<1>1. /\ DataOK'
      /\ \/ Settle
         \/ ~scanning /\ \E s \in {COMM_ID_STOP, COMM_ID_STOP_CAN} : BeginScan(s, settings')
  <2>1. scanning \in BOOLEAN
    BY <1>0 DEF ControlOK
  <2>2. /\ DataOK'
        /\ \/ Settle
           \/ /\ ~scanning \/ m.code = COMM_ID_START_CAN
              /\ \E s \in {COMM_ID_STOP, COMM_ID_STOP_CAN} : BeginScan(s, settings')
    BY <1>0, <2>1, HandleCases
  <2> QED
    BY <2>2
<1>2. /\ Returned \in Seq(Activations) /\ Len(Returned) = Len(stack)
      /\ \A i \in 1 .. Len(stack) : Returned[i].pc = "sample"
  BY <1>0, ReturnedOK DEF ControlOK
<1>3. CASE Settle
  <2>1. stack' # <<>> => stack # <<>> /\ Top.pc # "exit"
    BY <1>0, <1>2, <1>3 DEF Settle, AtCheck, ControlOK
  <2>2. stack' # <<>> => Top'.conf = Top.conf
    BY <1>0, <1>3, <2>1, ReturnedConf DEF Settle, ControlOK
  <2>3. CASE stack' = <<>>
    BY <2>3, EmptySeq DEF ScanReady
  <2>4. CASE stack' # <<>>
    <3>1. ScanReady'
      BY <1>3, <2>1, <2>2, <2>4, ReadyKept DEF Settle, UntriggeredInv
    <3> QED
      BY <1>2, <1>3, <3>1 DEF Settle, UntriggeredInv
  <2> QED
    BY <2>3, <2>4
<1>4. CASE ~scanning /\ \E s \in {COMM_ID_STOP, COMM_ID_STOP_CAN} : BeginScan(s, settings')
  <2>1. stack = <<>>
    BY <1>0, <1>4 DEF ControlOK, CheckScans, AtCheck
  <2>2. Returned = <<>>
    BY <2>1 DEF Returned
  <2>3. filterLive = FALSE
    BY <2>1 DEF UntriggeredInv, BoardInv, IdleIsOff
  <2>4. CASE Points(settings') = 0
    BY <1>4, <2>2, <2>4 DEF BeginScan, ScanReady
  <2>5. CASE Points(settings') # 0
    <3>1. /\ powered' /\ filterLive' = (settings'.filter \in KnownFilters)
          /\ \E a : a.conf = settings' /\ stack' = Append(<<>>, a)
      <4>1. PICK s : BeginScan(s, settings')
        BY <1>4
      <4> DEFINE a == [starter |-> s, conf |-> settings', counter |-> 0, packageId |-> 0,
                       pc |-> "check", result |-> TRUE]
      <4>2. a.conf = settings' /\ stack' = Append(<<>>, a)
        BY <2>2, <2>5, <4>1 DEF BeginScan
      <4>3. powered' /\ filterLive' = (settings'.filter \in KnownFilters)
        BY <2>3, <2>5, <4>1 DEF BeginScan
      <4> QED
        BY <4>2, <4>3
    <3>2. PICK a : a.conf = settings' /\ stack' = Append(<<>>, a)
      BY <3>1
    <3>3. stack' = <<a>>
      BY <3>2
    <3>4. Len(stack') = 1 /\ stack'[1] = a
      BY <3>3
    <3>5. stack'[Len(stack')] = a
      BY <3>4
    <3>6. Top' = a
      BY <3>5 DEF Top
    <3> QED
      <4>1. Top'.conf.filter = settings'.filter
        BY <3>2, <3>6
      <4>2. powered' /\ (filterLive' <=> Top'.conf.filter \in KnownFilters)
        BY <3>1, <4>1
      <4>3. KnownFilters' = KnownFilters
        BY DEF KnownFilters, WindowFilters, FixedFilters
      <4>4. Len(stack') =< 1
        BY <3>4
      <4> QED
        BY <4>2, <4>3, <4>4 DEF ScanReady
  <2> QED
    BY <2>4, <2>5
<1> QED
  BY <1>1, <1>3, <1>4

LEMMA UntriggeredNext ==
    ASSUME ExternalTrigger = FALSE, UntriggeredInv,
           [BoardOpenNext]_<<boardVars, linkVars>>
    PROVE  UntriggeredInv'
<1>1. BoardInv /\ BoardInv'
  BY BoardInvNext DEF UntriggeredInv
<1>2. stack \in Seq(Activations) /\ stack' \in Seq(Activations)
  BY <1>1 DEF BoardInv, BoardTypeInvariant, BoardTypeOK
<1>3. ~pinLow /\ ~triggerFlag /\ ScanReady
  BY DEF UntriggeredInv
<1>0. Len(stack) =< 1
  BY DEF UntriggeredInv
<1> SUFFICES ~pinLow' /\ ~triggerFlag' /\ Len(stack') =< 1 /\ ScanReady'
  BY <1>1 DEF UntriggeredInv
<1>4. CASE ReceiveCommand
  <2>1. PICK arrived \in 1 .. Len(toBoard) :
          Head(toBoard).code \in LineCommands /\ Handle(Head(toBoard))
    BY <1>4 DEF ReceiveCommand
  <2>2. Head(toBoard) \in Messages
    BY <1>1, <2>1 DEF BoardInv, BoardTypeInvariant, LinkTypeOK
  <2>3. Head(toBoard).code # COMM_ID_START_CAN
    BY <2>1 DEF LineCommands
  <2>4. Len(stack') =< 1 /\ ScanReady'
    BY <1>2, <1>4, <2>1, <2>2, <2>3, UntriggeredHandled DEF ReceiveCommand
  <2> QED
    BY <1>3, <1>4, <2>4 DEF ReceiveCommand, pinVars
<1>5. CASE TriggerStart
  BY <1>3, <1>0, <1>5 DEF TriggerStart
<1>6. CASE TriggerStop
  BY <1>3, <1>0, <1>6 DEF TriggerStop
<1>7. CASE PinChange
  BY <1>7 DEF PinChange
<1>8. CASE NoCommand
  <2>1. stack # <<>> /\ Top.pc = "check" /\ Len(stack') = Len(stack)
    BY <1>2, <1>8 DEF NoCommand, RunningAt, Returned
  <2> QED
    BY <1>2, <1>3, <1>0, <1>8, <2>1, ReturnedConf, ReadyKept DEF NoCommand, runVars, pinVars
<1>9. CASE AbortScan \/ SampleAndFilter
  <2>1. /\ stack # <<>> /\ Top.pc = "sample"
        /\ UNCHANGED <<powered, filterLive, pinLow, triggerFlag>>
    BY <1>9 DEF AbortScan, SampleAndFilter, RunningAt, runVars, pinVars
  <2>2. Len(stack') = Len(stack) /\ Top'.conf = Top.conf
    BY <1>2, <1>9, IterationConf
  <2> QED
    BY <1>3, <1>0, <2>1, <2>2, ReadyKept
<1>10. CASE Crash
  BY <1>3, <1>0, <1>10 DEF Crash, ScanReady, Top, runVars, pinVars
<1>11. CASE EndScan
  <2>1. Len(stack) = 1
    <3>1. stack # <<>>
      BY <1>11 DEF EndScan, RunningAt
    <3> QED
      <4>1. Len(stack) \in Nat \ {0}
        BY <1>2, <3>1, EmptySeq
      <4>2. \A n \in Nat \ {0} : n =< 1 => n = 1
        OBVIOUS
      <4> QED
        BY <1>0, <4>1, <4>2
  <2>2. stack' = <<>>
    <3>1. stack' = SubSeq(stack, 1, Len(stack) - 1)
      BY <1>11 DEF EndScan
    <3>2. Len(stack) - 1 = 0
      BY <2>1
    <3>3. stack' = SubSeq(stack, 1, 0)
      BY <3>1, <3>2
    <3> QED
      BY <3>3, SubSeqEmpty
  <2> QED
    BY <1>3, <1>11, <2>2, EmptySeq DEF EndScan, ScanReady, pinVars
<1>12. CASE FlashDone
  BY <1>3, <1>0, <1>12 DEF FlashDone, ScanReady, Top, runVars, pinVars
<1>13. CASE ClientActs
  BY <1>3, <1>0, <1>13 DEF ClientActs, ScanReady, Top, boardVars, runVars, pinVars
<1>14. CASE UNCHANGED <<boardVars, linkVars>>
  BY <1>3, <1>0, <1>14 DEF ScanReady, Top, boardVars, runVars, pinVars
<1> QED
  BY <1>4, <1>5, <1>6, <1>7, <1>8, <1>9, <1>10, <1>11, <1>12, <1>13, <1>14
     DEF BoardOpenNext, BoardNext, ScanStep

LEMMA UntriggeredInit == BoardOpenInit => UntriggeredInv
<1> SUFFICES ASSUME BoardOpenInit
             PROVE  ~pinLow /\ ~triggerFlag /\ Len(stack) =< 1 /\ ScanReady
  BY BoardInvInit DEF UntriggeredInv
<1>1. stack = <<>> /\ pinLow = FALSE /\ triggerFlag = FALSE
  BY DEF BoardOpenInit, BoardInit
<1> QED
  BY <1>1 DEF ScanReady

\* With the trigger pin unused, a scan that goes on to sample has the analog
\* supply on and, if its filter byte names one, a filter: no command begins a
\* scan inside another, whose end would switch both off.  With the trigger this
\* is false.
THEOREM BoardScanReady ==
    ASSUME ExternalTrigger = FALSE
    PROVE  BoardSpec => []ScanReady
<1>1. UntriggeredInv => ScanReady
  BY DEF UntriggeredInv
<1>2. UntriggeredInv /\ [BoardOpenNext]_<<boardVars, linkVars>> => UntriggeredInv'
  BY UntriggeredNext
<1> QED
  BY <1>1, <1>2, UntriggeredInit, PTL DEF BoardSpec

\* With the trigger pin unused, scans do not nest, so the stack of the firmware
\* does not grow with the commands it is sent.
THEOREM BoardNoNesting ==
    ASSUME ExternalTrigger = FALSE
    PROVE  BoardSpec => [](Len(stack) =< 1)
<1>1. UntriggeredInv => Len(stack) =< 1
  BY DEF UntriggeredInv
<1>2. UntriggeredInv /\ [BoardOpenNext]_<<boardVars, linkVars>> => UntriggeredInv'
  BY UntriggeredNext
<1> QED
  BY <1>1, <1>2, UntriggeredInit, PTL DEF BoardSpec
=============================================================================
