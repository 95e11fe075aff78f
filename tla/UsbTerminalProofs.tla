------------------------- MODULE UsbTerminalProofs -------------------------
(***************************************************************************)
(* Theorems about UsbTerminal, for every size of the packets, every range  *)
(* of the positions and every length of text: a connection has its         *)
(* endpoints, and a read that is not disturbed takes the first key of the  *)
(* packet.                                                                 *)
(***************************************************************************)
EXTENDS UsbTerminal, TLAPS

\* Positions stay natural numbers.
LEMMA PositionInRange ==
  ASSUME NEW i \in Int
  PROVE  i % PositionRange \in Nat
<1>1. PositionRange \in Nat /\ PositionRange > 0
  BY UsbAssumption
<1>2. \A a \in Int, b \in Nat : b > 0 => a % b \in Nat
  OBVIOUS
<1>. QED  BY <1>1, <1>2

\* What the endpoint functions do to a handle.
LEMMA HandleKept ==
  ASSUME NEW x \in Handles
  PROVE  /\ Sent(x) \in Handles /\ Sent(x).on = x.on /\ Sent(x).pos = 0
         /\ Sent(x).complete = FALSE
         /\ Released(x) \in Handles /\ Released(x).on = x.on /\ Released(x).pos = x.pos
         /\ Released(x).complete = FALSE
         /\ Advanced(x) \in Handles /\ Advanced(x).on = x.on
         /\ Advanced(x).complete = x.complete
<1>1. (x.pos + 1) % PositionRange \in Nat
  BY PositionInRange DEF Handles
<1>. QED  BY <1>1 DEF Handles, Sent, Released, Advanced

\* The handles after a reset.
LEMMA HandlesReset ==
  Off \in Handles /\ Off.pos = 0 /\ ~Off.complete /\ Control \in Handles
BY DEF Handles, Off, Control

\* What a request and a configuration do to a handle.
LEMMA HandleWritten ==
  ASSUME NEW x \in Handles, NEW t
  PROVE  /\ ClearSETUP(x) \in Handles /\ ClearSETUP(x).on = x.on
         /\ Emptied(x, t) \in Handles /\ Emptied(x, t).on = x.on
         /\ Emptied(x, t).pos = 0 /\ Emptied(x, t).complete = x.complete
<1>1. Size \in Nat
  BY UsbAssumption
<1>. QED  BY <1>1 DEF Handles, ClearSETUP, Released, Emptied

\* One handle changes and stays configured or not.
LEMMA HandleChanged ==
  ASSUME TypeOK, NEW x \in Endpoints, NEW h \in Handles, h.on = ep[x].on,
         ep' = [ep EXCEPT ![x] = h]
  PROVE  /\ ep' \in [Endpoints -> Handles] /\ ep'[x] = h
         /\ \A y \in Endpoints : y # x => ep'[y] = ep[y]
         /\ \A y \in Endpoints : ep'[y].on = ep[y].on
BY DEF TypeOK

LEMMA InitIInv == Init => IInv
<1>. SUFFICES ASSUME Init PROVE IInv
  OBVIOUS
<1>1. TypeOK
  <2>1. data \in [0 .. Size - 1 -> Int]
    BY DEF Init, FOREIGN
  <2>2. ep \in [Endpoints -> Handles]
    BY HandlesReset DEF Init
  <2>. QED  BY <2>1, <2>2 DEF Init, TypeOK, Endpoints
<1>2. /\ ConfiguredHasEndpoints /\ AnswersControl
      /\ PacketHeld /\ WaitsForText /\ PositionAtStart
  BY DEF Init, ConfiguredHasEndpoints, AnswersControl, PacketHeld, WaitsForText,
         PositionAtStart, Masked, Answering, Endpoints, Off
<1>. QED  BY <1>1, <1>2 DEF IInv

-----------------------------------------------------------------------------
LEMMA CallKeeps ==
  ASSUME IInv, NEW c, NEW s \in {"poll", "drain"}, Call(c, s) PROVE IInv'
BY
   DEF IInv, TypeOK, ConfiguredHasEndpoints, AnswersControl, PacketHeld, WaitsForText,
       PositionAtStart, Masked, Answering, Configuring, Open, Call, device, endpoints,
       timer, line, keys

LEMMA SelectKeeps == ASSUME IInv, Select PROVE IInv'
BY
   DEF IInv, TypeOK, ConfiguredHasEndpoints, AnswersControl, PacketHeld, WaitsForText,
       PositionAtStart, Masked, Answering, Configuring, Open, Select, Reading, GoTo, Finish,
       Follow, Over, Then, Unread, Endpoints, device, endpoints, timer, line, keys

LEMMA DirectionKeeps == ASSUME IInv, Direction PROVE IInv'
BY
   DEF IInv, TypeOK, ConfiguredHasEndpoints, AnswersControl, PacketHeld, WaitsForText,
       PositionAtStart, Masked, Answering, Configuring, Open, Direction, Reading, GoTo,
       Finish, Follow, Over, Then, Unread, Endpoints, device, endpoints, timer, line, keys

LEMMA TestKeeps == ASSUME IInv, Test PROVE IInv'
BY
   DEF IInv, TypeOK, ConfiguredHasEndpoints, AnswersControl, PacketHeld, WaitsForText,
       PositionAtStart, Masked, Answering, Configuring, Open, Test, Reading, GoTo, Finish,
       Follow, Over, Then, Unread, Endpoints, device, endpoints, timer, line, keys

LEMMA TakeLengthKeeps == ASSUME IInv, TakeLength PROVE IInv'
<1>. USE DEF IInv
<1>. DEFINE h == [ep[selected] EXCEPT !.len = ep[selected].cnt]
<1>1. ep[selected] \in Handles
  BY DEF TypeOK
<1>2. /\ h \in Handles /\ h.on = ep[selected].on /\ h.pos = ep[selected].pos
      /\ h.complete = ep[selected].complete
  BY <1>1 DEF Handles
<1>3. ep' = [ep EXCEPT ![selected] = h]
  BY DEF TakeLength
<1>. HIDE DEF h
<1>4. /\ ep' \in [Endpoints -> Handles]
      /\ \A y \in Endpoints : /\ ep'[y].on = ep[y].on /\ ep'[y].pos = ep[y].pos
                              /\ ep'[y].complete = ep[y].complete
  BY <1>2, <1>3, HandleChanged DEF TypeOK
<1>5. /\ pc = "call" /\ isr = "idle" /\ at = "length" /\ at' = "bytes"
      /\ UNCHANGED <<pc, stage, device, selected, timer, line, keys, hits>>
  BY DEF TakeLength, Reading, GoTo, Unread
<1>6. TypeOK'
  BY <1>4, <1>5 DEF TypeOK, device, timer, keys
<1>7. ConfiguredHasEndpoints' /\ AnswersControl'
  BY <1>4, <1>5
     DEF ConfiguredHasEndpoints, AnswersControl, Masked, Answering, Configuring, Endpoints,
         device, timer
<1>8. PacketHeld' /\ WaitsForText'
  BY <1>4, <1>5 DEF PacketHeld, WaitsForText, Endpoints, keys
<1>9. PositionAtStart'
  BY <1>4, <1>5 DEF PositionAtStart, Open, Endpoints, device, timer
<1>. QED  BY <1>6, <1>7, <1>8, <1>9

LEMMA BytesKeeps == ASSUME IInv, Bytes PROVE IInv'
BY
   DEF IInv, TypeOK, ConfiguredHasEndpoints, AnswersControl, PacketHeld, WaitsForText,
       PositionAtStart, Masked, Answering, Configuring, Open, Bytes, Reading, GoTo, Finish,
       Follow, Over, Then, Unread, Endpoints, device, endpoints, timer, line, keys

LEMMA ReadKeeps == ASSUME IInv, Read PROVE IInv'
<1>. USE DEF IInv
<1>1. ep[selected] \in Handles
  BY DEF TypeOK, Endpoints
<1>2. /\ ep' \in [Endpoints -> Handles] /\ ep'[selected] = Advanced(ep[selected])
      /\ \A y \in Endpoints : y # selected => ep'[y] = ep[y]
      /\ \A y \in Endpoints : ep'[y].on = ep[y].on
  BY <1>1, HandleKept, HandleChanged DEF TypeOK, Endpoints, Read
<1>3. ep[selected].complete = ep'[selected].complete
  BY <1>1, <1>2, HandleKept
<1>. DEFINE Others == <<selected, pc, stage, device, timer, keys, hits>>
<1>. HIDE DEF Others
<1>4. TypeOK'
  <2>1. UNCHANGED Others /\ at' = "rest"
    BY DEF Read, GoTo, Others
  <2>. QED  BY <1>2, <2>1 DEF TypeOK, Others, device, timer, keys
<1>5. ConfiguredHasEndpoints' /\ AnswersControl'
  BY <1>1, <1>2, <1>3
     DEF TypeOK, ConfiguredHasEndpoints, AnswersControl, Masked, Answering, Configuring,
         Read, Reading, GoTo, Byte, Endpoints, Handles, device, timer, line, keys
<1>6. PacketHeld' /\ WaitsForText'
  BY <1>1, <1>2, <1>3
     DEF TypeOK, PacketHeld, WaitsForText, Read, Reading, GoTo, Byte, Endpoints, Handles,
         device, timer, line, keys
<1>7. PositionAtStart'
  BY <1>1, <1>2, <1>3
     DEF TypeOK, PositionAtStart, WaitsForText, Open, Read, Reading, GoTo, Byte, Endpoints,
         Handles, device, timer, line, keys
<1>. QED  BY <1>4, <1>5, <1>6, <1>7

LEMMA RestKeeps == ASSUME IInv, Rest PROVE IInv'
BY
   DEF IInv, TypeOK, ConfiguredHasEndpoints, AnswersControl, PacketHeld, WaitsForText,
       PositionAtStart, Masked, Answering, Configuring, Open, Rest, Reading, GoTo, Finish,
       Follow, Over, Then, Unread, Endpoints, device, endpoints, timer, line, keys

LEMMA ClearKeeps == ASSUME IInv, Clear PROVE IInv'
<1>. USE DEF IInv
<1>1. ep[selected] \in Handles
  BY DEF TypeOK, Endpoints
<1>2. /\ ep' \in [Endpoints -> Handles] /\ ep'[selected] = Released(ep[selected])
      /\ \A y \in Endpoints : y # selected => ep'[y] = ep[y]
      /\ \A y \in Endpoints : ep'[y].on = ep[y].on
  BY <1>1, HandleKept, HandleChanged DEF TypeOK, Endpoints, Clear
<1>3. ep'[selected].complete = FALSE /\ ep'[selected].pos = ep[selected].pos
  BY <1>1, <1>2, HandleKept
<1>4. TypeOK'
  BY <1>1, <1>2, <1>3
     DEF TypeOK, Clear, Reading, GoTo, Unread, Endpoints, device, timer, line, keys
<1>5. ConfiguredHasEndpoints' /\ AnswersControl'
  BY <1>1, <1>2, <1>3
     DEF TypeOK, ConfiguredHasEndpoints, AnswersControl, Masked, Answering, Configuring,
         Clear, Reading, GoTo, Unread, Endpoints, device, timer, line, keys
<1>6. PacketHeld' /\ WaitsForText'
  BY <1>1, <1>2, <1>3
     DEF TypeOK, PacketHeld, WaitsForText, Clear, Reading, GoTo, Unread, Endpoints, device,
         timer, line, keys
<1>7. PositionAtStart'
  BY <1>1, <1>2, <1>3
     DEF TypeOK, PositionAtStart, WaitsForText, Open, Clear, Reading, GoTo, Unread,
         Endpoints, device, timer, line, keys
<1>. QED  BY <1>4, <1>5, <1>6, <1>7

LEMMA RewindKeeps == ASSUME IInv, Rewind PROVE IInv'
<1>. USE DEF IInv
<1>1. ep[selected] \in Handles
  BY DEF TypeOK, Endpoints
<1>2. /\ ep' \in [Endpoints -> Handles] /\ ep'[selected] = [ep[selected] EXCEPT !.pos = 0]
      /\ \A y \in Endpoints : y # selected => ep'[y] = ep[y]
      /\ \A y \in Endpoints : ep'[y].on = ep[y].on
  BY <1>1, HandleKept, HandleChanged DEF TypeOK, Endpoints, Rewind, Handles
<1>3. ep'[selected].pos = 0 /\ ep'[selected].complete = ep[selected].complete
  BY <1>1, <1>2 DEF Handles
<1>4. TypeOK'
  BY <1>1, <1>2, <1>3
     DEF TypeOK, Rewind, Reading, Finish, Follow, Over, Then, Unread, Endpoints, device,
         timer, line, keys
<1>5. ConfiguredHasEndpoints' /\ AnswersControl'
  BY <1>1, <1>2, <1>3
     DEF TypeOK, ConfiguredHasEndpoints, AnswersControl, Masked, Answering, Configuring,
         Rewind, Reading, Finish, Follow, Over, Then, Unread, Endpoints, device, timer,
         line, keys
<1>6. PacketHeld' /\ WaitsForText'
  BY <1>1, <1>2, <1>3
     DEF TypeOK, PacketHeld, WaitsForText, Rewind, Reading, Finish, Follow, Over, Then,
         Unread, Endpoints, device, timer, line, keys
<1>7. PositionAtStart'
  BY <1>1, <1>2, <1>3
     DEF TypeOK, PositionAtStart, WaitsForText, Open, Rewind, Reading, Finish, Follow, Over,
         Then, Unread, Endpoints, device, timer, line, keys
<1>. QED  BY <1>4, <1>5, <1>6, <1>7

LEMMA ActKeeps == ASSUME IInv, Act PROVE IInv'
BY
   DEF IInv, TypeOK, ConfiguredHasEndpoints, AnswersControl, PacketHeld, WaitsForText,
       PositionAtStart, Masked, Answering, Configuring, Open, Act, device, endpoints, timer,
       line, keys

LEMMA PrintKeeps == ASSUME IInv, PrintText PROVE IInv'
BY
   DEF IInv, TypeOK, ConfiguredHasEndpoints, AnswersControl, PacketHeld, WaitsForText,
       PositionAtStart, Masked, Answering, Configuring, Open, PrintText, Printing, device,
       endpoints, timer, line, keys

LEMMA SendByteKeeps == ASSUME IInv, SendByte PROVE IInv'
<1>. USE DEF IInv
<1>1. /\ ep' \in [Endpoints -> Handles]
      /\ \A y \in Endpoints : y # "tx" => ep'[y] = ep[y]
      /\ \A y \in Endpoints : ep'[y].on = ep[y].on
  <2>1. "tx" \in Endpoints /\ ep["tx"] \in Handles
    BY DEF TypeOK, Endpoints
  <2>2. CASE UNCHANGED ep
    BY <2>2 DEF TypeOK
  <2>3. CASE ep' = [ep EXCEPT !["tx"] = Advanced(ep["tx"])]
    BY <2>1, <2>3, HandleKept, HandleChanged
  <2>4. CASE ep' = [ep EXCEPT !["tx"] = Sent(ep["tx"])]
    BY <2>1, <2>4, HandleKept, HandleChanged
  <2>. QED  BY <2>2, <2>3, <2>4 DEF SendByte, endpoints
<1>2. UNCHANGED <<device, timer, line, keys, stage, at, hits>>
  BY DEF SendByte, Printing
<1>3. /\ pc = "print" /\ pc' \in {"loop", "print", "wait"} /\ selected' \in {selected, "tx"}
      /\ pc' = "wait" => selected' = "tx"
  BY DEF SendByte, Printed, endpoints
<1>4. TypeOK'
  BY <1>1, <1>2, <1>3 DEF TypeOK, Endpoints, device, timer, keys
<1>5. ConfiguredHasEndpoints' /\ AnswersControl'
  BY <1>1, <1>2, <1>3
     DEF ConfiguredHasEndpoints, AnswersControl, Masked, Answering, Configuring, Endpoints,
         device, timer
<1>6. PacketHeld' /\ WaitsForText'
  BY <1>1, <1>2, <1>3 DEF PacketHeld, WaitsForText, Endpoints, keys
<1>7. PositionAtStart'
  BY <1>1, <1>2, <1>3 DEF PositionAtStart, Endpoints
<1>. QED  BY <1>4, <1>5, <1>6, <1>7

LEMMA ReadyKeeps == ASSUME IInv, Ready PROVE IInv'
<1>. USE DEF IInv
<1>1. ep[selected] \in Handles
  BY DEF TypeOK, Endpoints
<1>2. /\ ep' \in [Endpoints -> Handles] /\ ep'[selected] = Advanced(ep[selected])
      /\ \A y \in Endpoints : y # selected => ep'[y] = ep[y]
      /\ \A y \in Endpoints : ep'[y].on = ep[y].on
  BY <1>1, HandleKept, HandleChanged DEF TypeOK, Endpoints, Ready
<1>3. ep[selected].complete = ep'[selected].complete
  BY <1>1, <1>2, HandleKept
<1>4. TypeOK'
  BY <1>1, <1>2, <1>3
     DEF TypeOK, Ready, Printed, Printing, Endpoints, device, timer, line, keys
<1>5. ConfiguredHasEndpoints' /\ AnswersControl'
  BY <1>1, <1>2, <1>3
     DEF TypeOK, ConfiguredHasEndpoints, AnswersControl, Masked, Answering, Configuring,
         Ready, Printed, Printing, Endpoints, device, timer, line, keys
<1>6. PacketHeld' /\ WaitsForText'
  BY <1>1, <1>2, <1>3
     DEF TypeOK, PacketHeld, WaitsForText, Ready, Printed, Printing, Endpoints, device,
         timer, line, keys
<1>7. PositionAtStart'
  BY <1>1, <1>2, <1>3
     DEF TypeOK, PositionAtStart, WaitsForText, Open, Ready, Printed, Printing, Endpoints,
         device, timer, line, keys
<1>. QED  BY <1>4, <1>5, <1>6, <1>7

LEMMA FrameKeeps == ASSUME IInv, Frame PROVE IInv'
BY
   DEF IInv, TypeOK, ConfiguredHasEndpoints, AnswersControl, PacketHeld, WaitsForText,
       PositionAtStart, Masked, Answering, Configuring, Open, Frame, Printed, Printing,
       Endpoints, device, endpoints, timer, line, keys

LEMMA TCD0_CCAKeeps == ASSUME IInv, TCD0_CCA PROVE IInv'
<1>. USE DEF IInv
<1>1. /\ ep' \in [Endpoints -> Handles]
      /\ \A y \in Endpoints : y # "tx" => ep'[y] = ep[y]
      /\ \A y \in Endpoints : ep'[y].on = ep[y].on
  <2>1. "tx" \in Endpoints /\ ep["tx"] \in Handles
    BY DEF TypeOK, Endpoints
  <2>2. CASE UNCHANGED ep
    BY <2>2 DEF TypeOK
  <2>3. CASE ep' = [ep EXCEPT !["tx"] = Sent(ep["tx"])]
    BY <2>1, <2>3, HandleKept, HandleChanged
  <2>. QED  BY <2>2, <2>3 DEF TCD0_CCA
<1>2. UNCHANGED <<device, prev, target, main, line, keys>> /\ selected' \in {selected, "tx"}
  BY DEF TCD0_CCA, Serving
<1>3. isr = "idle" /\ isr' \in {"wait", "task"} /\ pc \in {"loop", "call"}
  BY DEF TCD0_CCA, Serving
<1>4. IF pc = "call" THEN hits' = hits + 1 ELSE hits' = hits
  BY DEF TCD0_CCA, Hit
<1>5. TypeOK'
  BY <1>1, <1>2, <1>3, <1>4 DEF TypeOK, Endpoints, device, main, keys
<1>6. ConfiguredHasEndpoints' /\ AnswersControl'
  BY <1>1, <1>2, <1>3
     DEF ConfiguredHasEndpoints, AnswersControl, Masked, Answering, Configuring, Endpoints,
         device, main
<1>7. PacketHeld' /\ WaitsForText'
  BY <1>1, <1>2, <1>3 DEF PacketHeld, WaitsForText, Endpoints, keys, main
<1>8. PositionAtStart'
  BY <1>1, <1>2, <1>3, <1>4 DEF TypeOK, PositionAtStart, Endpoints, main
<1>. QED  BY <1>5, <1>6, <1>7, <1>8

LEMMA FlushReadyKeeps == ASSUME IInv, FlushReady PROVE IInv'
<1>. USE DEF IInv
<1>1. ep[selected] \in Handles
  BY DEF TypeOK, Endpoints
<1>2. /\ ep' \in [Endpoints -> Handles] /\ ep'[selected] = Sent(ep[selected])
      /\ \A y \in Endpoints : y # selected => ep'[y] = ep[y]
      /\ \A y \in Endpoints : ep'[y].on = ep[y].on
  BY <1>1, HandleKept, HandleChanged DEF TypeOK, Endpoints, FlushReady
<1>3. ep'[selected].pos = 0 /\ ep'[selected].complete = FALSE
  <2>1. Sent(ep[selected]).pos = 0 /\ Sent(ep[selected]).complete = FALSE
    BY <1>1, HandleKept
  <2>. QED  BY <1>2, <2>1
<1>4. UNCHANGED <<selected, prev, target, device, main, keys, hits>>
  BY DEF FlushReady, Serving
<1>5. pc # "wait" /\ isr = "wait" /\ isr' = "task" /\ ~Masked
  BY DEF FlushReady, Serving, Masked
<1>6. TypeOK'
  BY <1>2, <1>4, <1>5 DEF TypeOK, device, main, keys
<1>7. ConfiguredHasEndpoints' /\ AnswersControl'
  BY <1>2, <1>4, <1>5
     DEF ConfiguredHasEndpoints, AnswersControl, Masked, Answering, Configuring, Endpoints,
         device, main
<1>8. PacketHeld' /\ WaitsForText'
  BY <1>2, <1>3, <1>4, <1>5 DEF PacketHeld, WaitsForText, Endpoints, main, keys
<1>9. PositionAtStart'
  BY <1>2, <1>3, <1>4, <1>5 DEF PositionAtStart, Endpoints, main
<1>. QED  BY <1>6, <1>7, <1>8, <1>9

LEMMA FlushFailsKeeps == ASSUME IInv, FlushFails PROVE IInv'
BY
   DEF IInv, TypeOK, ConfiguredHasEndpoints, AnswersControl, PacketHeld, WaitsForText,
       PositionAtStart, Masked, Answering, Configuring, Open, FlushFails, Serving, Masked,
       Endpoints, device, endpoints, main, line, keys

\* Steps of the interrupt that leave the endpoints alone.
LEMMA RequestKeeps ==
  ASSUME IInv, DeviceTask \/ SetLineEncoding \/ SetConfiguration \/ ConfigurationChanged
               \/ SelectTarget \/ Restore
  PROVE  IInv'
<1>. USE DEF IInv
<1>1. UNCHANGED <<ep, main, keys, hits>> /\ ~Masked
  BY DEF DeviceTask, SetLineEncoding, SetConfiguration, ConfigurationChanged, SelectTarget,
         Restore, Serving, endpoints
<1>2. CASE DeviceTask
  <2>1. /\ UNCHANGED <<device, target>> /\ isr' \in {"idle", "restore", "setup"}
        /\ isr = "task"
        /\ isr' = "setup" => selected' = "ctl"
        /\ selected' \in {selected, "ctl"} /\ prev' \in {prev, selected}
    BY <1>2 DEF DeviceTask, Serving
  <2>. QED  BY <1>1, <2>1 DEF TypeOK, ConfiguredHasEndpoints, AnswersControl, PacketHeld,
       WaitsForText, PositionAtStart, Masked, Answering, Configuring, Endpoints, device, main,
       keys
<1>3. CASE SetLineEncoding \/ Restore
  <2>1. /\ UNCHANGED <<number, state, target>> /\ isr' \in {"idle", "restore"}
        /\ isr \in {"restore", "encoding"}
        /\ selected' \in {selected, prev} /\ prev' \in {prev, "ctl"}
    BY <1>3 DEF SetLineEncoding, Restore, Serving, endpoints, device
  <2>2. baud' \in BOOLEAN
    <3>1. baud' = baud \/ baud' = TRUE
      BY <1>3 DEF SetLineEncoding, Restore, device
    <3>. QED  BY <3>1 DEF TypeOK
  <2>3. TypeOK'
    BY <1>1, <2>1, <2>2 DEF TypeOK, Endpoints, main, keys
  <2>. QED  BY <1>1, <2>1, <2>3 DEF ConfiguredHasEndpoints, AnswersControl, PacketHeld,
       WaitsForText, PositionAtStart, Masked, Answering, Configuring, main, keys
<1>4. CASE SetConfiguration \/ ConfigurationChanged \/ SelectTarget
  <2>1. CASE SetConfiguration
    BY <1>1, <2>1 DEF SetConfiguration, Serving, TypeOK, ConfiguredHasEndpoints,
       AnswersControl, PacketHeld, WaitsForText, PositionAtStart, Masked, Answering,
       Configuring, endpoints, main, keys
  <2>2. CASE ConfigurationChanged
    <3>1. /\ UNCHANGED <<number, selected, prev>> /\ baud' = FALSE
          /\ isr' = "select" /\ target' = "tx" /\ isr = "status"
      BY <2>2 DEF ConfigurationChanged, Serving, endpoints
    <3>2. TypeOK'
      BY <1>1, <3>1 DEF TypeOK, Configuring, main, keys
    <3>. QED  BY <1>1, <3>1, <3>2 DEF ConfiguredHasEndpoints, Progress, AnswersControl,
         PacketHeld, WaitsForText, PositionAtStart, Masked, Answering, Configuring, main, keys
  <2>3. CASE SelectTarget
    BY <1>1, <2>3 DEF SelectTarget, Serving, TypeOK, ConfiguredHasEndpoints,
       Progress, AnswersControl, PacketHeld, WaitsForText, PositionAtStart, Masked,
       Answering, Configuring, Endpoints, device, main, keys
  <2>. QED  BY <1>4, <2>1, <2>2, <2>3
<1>. QED  BY <1>2, <1>3, <1>4

\* The header and its end: the control endpoint is selected.
LEMMA HeaderKeeps ==
  ASSUME IInv, IsSETUPReceived \/ ReadHeader \/ ProcessControlRequest PROVE IInv'
<1>. USE DEF IInv
<1>1. /\ UNCHANGED <<device, prev, target, selected, main, keys, hits>> /\ ~Masked
      /\ isr \in {"setup", "header", "handle", "garbled"}
  BY DEF IsSETUPReceived, ReadHeader, ProcessControlRequest, Serving, endpoints
<1>2. selected = "ctl"
  BY <1>1 DEF AnswersControl, Answering
<1>3. isr' \in {"restore", "header", "handle", "garbled", "encoding", "configuration"}
  BY DEF IsSETUPReceived, ReadHeader, ProcessControlRequest, Serving
<1>4. /\ ep' \in [Endpoints -> Handles]
      /\ \A y \in Endpoints : y # "ctl" => ep'[y] = ep[y]
      /\ \A y \in Endpoints : ep'[y].on = ep[y].on
  <2>1. "ctl" \in Endpoints /\ ep["ctl"] \in Handles
    BY DEF TypeOK, Endpoints
  <2>2. CASE UNCHANGED ep
    BY <2>2 DEF TypeOK
  <2>3. CASE ReadHeader
    <3>. DEFINE h == [ep["ctl"] EXCEPT !.pos = (@ + Header) % PositionRange]
    <3>1. (ep["ctl"].pos + Header) % PositionRange \in Nat
      BY <2>1, PositionInRange, UsbAssumption DEF Handles
    <3>2. h \in Handles /\ h.on = ep["ctl"].on
      BY <2>1, <3>1 DEF Handles
    <3>3. ep' = [ep EXCEPT !["ctl"] = h]
      BY <1>2, <2>3 DEF ReadHeader
    <3>. QED  BY <2>1, <3>2, <3>3, HandleChanged
  <2>4. CASE ep' = [ep EXCEPT !["ctl"] = ClearSETUP(ep["ctl"])]
    BY <2>1, <2>4, HandleWritten, HandleChanged
  <2>5. CASE ep' = [ep EXCEPT !["ctl"].len = ep["ctl"].cnt]
    <3>. DEFINE h == [ep["ctl"] EXCEPT !.len = ep["ctl"].cnt]
    <3>1. h \in Handles /\ h.on = ep["ctl"].on
      BY <2>1 DEF Handles
    <3>2. ep' = [ep EXCEPT !["ctl"] = h]
      BY <2>5
    <3>. QED  BY <2>1, <3>1, <3>2, HandleChanged
  <2>. QED  BY <1>2, <2>2, <2>3, <2>4, <2>5 DEF IsSETUPReceived, ProcessControlRequest
<1>5. TypeOK'
  BY <1>1, <1>3, <1>4 DEF TypeOK, Answering, device, main, keys
<1>6. ConfiguredHasEndpoints' /\ AnswersControl'
  BY <1>1, <1>2, <1>3, <1>4 DEF ConfiguredHasEndpoints, AnswersControl, Answering,
     Configuring, Masked, Endpoints, device, main
<1>7. PacketHeld' /\ WaitsForText'
  BY <1>1, <1>4 DEF PacketHeld, WaitsForText, Endpoints, main, keys
<1>8. PositionAtStart'
  BY <1>1, <1>4 DEF PositionAtStart, Open, Endpoints, device, main
<1>. QED  BY <1>5, <1>6, <1>7, <1>8

\* The steps of a configuration: without a reset they write to the target, with
\* one to the control endpoint, and then nothing is promised.
LEMMA WriteKeeps == ASSUME IInv, WriteType \/ WriteFIFO PROVE IInv'
<1>. USE DEF IInv
<1>1. /\ UNCHANGED <<device, prev, selected, main, keys, hits>> /\ ~Masked
      /\ isr \in {"type", "fifo"}
  BY DEF WriteType, WriteFIFO, Serving
<1>2. selected \in Endpoints /\ ep[selected] \in Handles /\ target \in {"tx", "rx", "note"}
  BY DEF TypeOK
<1>. DEFINE h == ep[selected]
<1>3. /\ ep' \in [Endpoints -> Handles]
      /\ \A y \in Endpoints : y # selected => ep'[y] = ep[y]
      /\ \A y \in Endpoints : ep'[y].pos \in {0, ep[y].pos}
      /\ \A y \in Endpoints : ep'[y].complete => ep[y].complete
      /\ WriteType => ep'[selected].on = (selected # "ctl")
      /\ WriteFIFO => ep'[selected].on = ep[selected].on
  <2>1. CASE WriteType
    <3>1. ep' = [ep EXCEPT ![selected] = Retyped(ep[selected], target)]
      BY <2>1 DEF WriteType
    <3>2. ~WriteFIFO
      BY <2>1 DEF WriteType, WriteFIFO, Serving
    <3>3. /\ Retyped(h, target) \in Handles /\ Retyped(h, target).on = (selected # "ctl")
          /\ Retyped(h, target).pos = h.pos /\ Retyped(h, target).complete = FALSE
      <4>1. h \in Handles
        BY <1>2
      <4>. HIDE DEF h
      <4>. QED  BY <4>1 DEF Handles, Retyped
    <3>. QED  BY <1>2, <3>1, <3>2, <3>3 DEF TypeOK
  <2>2. CASE WriteFIFO
    <3>1. ep' = [ep EXCEPT ![selected] = Emptied(ep[selected], target)]
      BY <2>2 DEF WriteFIFO
    <3>2. ~WriteType
      BY <2>2 DEF WriteType, WriteFIFO, Serving
    <3>3. /\ Emptied(h, target) \in Handles /\ Emptied(h, target).on = h.on
          /\ Emptied(h, target).pos = 0 /\ Emptied(h, target).complete = h.complete
      <4>1. h \in Handles
        BY <1>2
      <4>. HIDE DEF h
      <4>. QED  BY <4>1, HandleWritten
    <3>. QED  BY <1>2, <3>1, <3>2, <3>3 DEF TypeOK
  <2>. QED  BY <2>1, <2>2
<1>4. \/ isr = "type" /\ isr' = "fifo" /\ target' = target /\ WriteType
      \/ isr = "fifo" /\ WriteFIFO /\ target = "tx" /\ isr' = "select" /\ target' = "rx"
      \/ isr = "fifo" /\ WriteFIFO /\ target = "rx" /\ isr' = "select" /\ target' = "note"
      \/ isr = "fifo" /\ WriteFIFO /\ target = "note" /\ isr' = "restore" /\ target' = "tx"
  BY <1>2 DEF WriteType, WriteFIFO, Serving
<1>5. TypeOK'
  BY <1>1, <1>3, <1>4 DEF TypeOK, Configuring, device, main, keys
<1>6. ConfiguredHasEndpoints'
  <2>. SUFFICES ASSUME number \/ state = "Configured" PROVE ConfiguredHasEndpoints'
    BY <1>1 DEF ConfiguredHasEndpoints, device
  <2>1. Progress \/ (ep["tx"].on /\ ep["rx"].on)
    BY <1>1 DEF ConfiguredHasEndpoints
  <2>2. CASE Progress
    BY <1>1, <1>2, <1>3, <1>4, <2>2 DEF ConfiguredHasEndpoints, Progress, Configuring,
       Endpoints
  <2>3. CASE ep["tx"].on /\ ep["rx"].on
    BY <1>1, <1>2, <1>3, <1>4, <2>3 DEF ConfiguredHasEndpoints, Endpoints
  <2>. QED  BY <2>1, <2>2, <2>3
<1>7. AnswersControl'
  BY <1>1, <1>4 DEF AnswersControl, Answering, Masked, main
<1>8. PacketHeld' /\ WaitsForText'
  BY <1>1, <1>3 DEF PacketHeld, WaitsForText, Endpoints, main, keys
<1>9. PositionAtStart'
  BY <1>1, <1>3 DEF PositionAtStart, Endpoints, main
<1>. QED  BY <1>5, <1>6, <1>7, <1>8, <1>9

LEMMA BUSEVENTKeeps == ASSUME IInv, BUSEVENT PROVE IInv'
<1>. USE DEF IInv
<1>1. /\ ep' \in [Endpoints -> Handles]
      /\ ep'["rx"].pos = ep["rx"].pos /\ ep'["rx"].complete = ep["rx"].complete
  <2>1. ep["rx"] \in Handles /\ DOMAIN ep = Endpoints
    BY DEF TypeOK, Endpoints
  <2>2. /\ ClearEndpoints(ep) \in [Endpoints -> Handles]
        /\ ClearEndpoints(ep)["rx"].pos = ep["rx"].pos
        /\ ClearEndpoints(ep)["rx"].complete = ep["rx"].complete
    BY <2>1 DEF TypeOK, ClearEndpoints, Endpoints, Handles
  <2>3. CASE UNCHANGED ep
    BY <2>3 DEF TypeOK
  <2>4. CASE ep' = [ClearEndpoints(ep) EXCEPT !["ctl"] = Control]
    BY <2>2, <2>4, HandlesReset DEF Endpoints
  <2>. QED  BY <2>3, <2>4 DEF BUSEVENT, endpoints
<1>2. UNCHANGED <<baud, timer, main, keys>> /\ selected' \in {selected, "ctl"} /\ pc # "wait"
  BY DEF BUSEVENT, endpoints, Masked
<1>3. IF "reset" \in flags THEN number' = FALSE /\ state' = "Default"
      ELSE /\ number' = number /\ ep' = ep /\ selected' = selected
           /\ state' \in {state, "Unattached", "Default"} \/ (state' = "Configured" /\ number)
  BY DEF BUSEVENT, endpoints, Resumed
<1>4. IF isr = "idle" /\ pc = "call" THEN hits' = hits + 1 ELSE hits' = hits
  BY DEF BUSEVENT, Hit
<1>5. TypeOK'
  <2>1. number' \in BOOLEAN
    BY <1>3 DEF TypeOK
  <2>2. hits' \in Nat /\ selected' \in Endpoints
    BY <1>2, <1>4 DEF TypeOK, Endpoints
  <2>. QED  BY <1>1, <1>2, <2>1, <2>2 DEF TypeOK, timer, main, keys
<1>6. ConfiguredHasEndpoints' /\ AnswersControl'
  BY <1>2, <1>3 DEF ConfiguredHasEndpoints, Progress, AnswersControl, Masked, timer, main
<1>7. PacketHeld' /\ WaitsForText'
  BY <1>1, <1>2 DEF PacketHeld, WaitsForText, keys, main
<1>8. PositionAtStart'
  BY <1>1, <1>2, <1>4 DEF TypeOK, PositionAtStart, main, timer
<1>. QED  BY <1>5, <1>6, <1>7, <1>8

LEMMA RequestSentKeeps == ASSUME IInv, Request PROVE IInv'
<1>. USE DEF IInv
<1>. DEFINE h == [ep["ctl"] EXCEPT !.cnt = Header]
<1>1. h \in Handles /\ h.on = ep["ctl"].on
  BY UsbAssumption DEF TypeOK, Endpoints, Handles
<1>2. ep' = [ep EXCEPT !["ctl"] = h]
  BY DEF Request
<1>. HIDE DEF h
<1>3. /\ ep' \in [Endpoints -> Handles]
      /\ \A y \in Endpoints : y # "ctl" => ep'[y] = ep[y]
      /\ \A y \in Endpoints : ep'[y].on = ep[y].on
  BY <1>1, <1>2, HandleChanged DEF Endpoints
<1>4. UNCHANGED <<device, selected, timer, main, keys, hits>>
  BY DEF Request, Outside
<1>5. TypeOK'
  BY <1>3, <1>4 DEF TypeOK, device, timer, main, keys
<1>6. ConfiguredHasEndpoints' /\ AnswersControl'
  BY <1>3, <1>4 DEF TypeOK, ConfiguredHasEndpoints, Progress, AnswersControl, Masked,
     Endpoints, device, timer, main
<1>7. PacketHeld' /\ WaitsForText'
  BY <1>3, <1>4 DEF PacketHeld, WaitsForText, Endpoints, main, keys
<1>8. PositionAtStart'
  BY <1>3, <1>4 DEF PositionAtStart, Open, Endpoints, device, timer, main
<1>. QED  BY <1>5, <1>6, <1>7, <1>8

LEMMA LineKeeps == ASSUME IInv, BusReset \/ Suspend \/ Resume \/ GiveUp PROVE IInv'
<1>. USE DEF IInv
<1>1. UNCHANGED <<device, endpoints, timer, main, keys, hits>>
  BY DEF BusReset, Suspend, Resume, GiveUp, Outside
<1>2. TypeOK'
  BY <1>1 DEF TypeOK, device, endpoints, timer, main, keys
<1>3. ConfiguredHasEndpoints' /\ AnswersControl'
  BY <1>1
     DEF ConfiguredHasEndpoints, Progress, AnswersControl, Masked, Answering, Configuring,
         device, endpoints, timer, main, keys
<1>4. PacketHeld' /\ WaitsForText'
  BY <1>1 DEF TypeOK, PacketHeld, WaitsForText, device, endpoints, timer, main, keys
<1>5. PositionAtStart'
  BY <1>1
     DEF TypeOK, PositionAtStart, WaitsForText, Open, device, endpoints, timer, main, keys
<1>. QED  BY <1>2, <1>3, <1>4, <1>5

LEMMA TakenKeeps == ASSUME IInv, Taken PROVE IInv'
<1>. USE DEF IInv
<1>1. ep["tx"] \in Handles
  BY DEF TypeOK, Endpoints
<1>2. /\ ep' \in [Endpoints -> Handles]
      /\ ep'["tx"] = [ep["tx"] EXCEPT !.nack = TRUE, !.complete = TRUE]
      /\ \A y \in Endpoints : y # "tx" => ep'[y] = ep[y]
      /\ \A y \in Endpoints : ep'[y].on = ep[y].on
  BY <1>1, HandleKept, HandleChanged DEF TypeOK, Endpoints, Taken, Handles
<1>3. TypeOK'
  BY <1>1, <1>2 DEF TypeOK, Taken, Outside, Endpoints, device, timer, main, line, keys
<1>4. ConfiguredHasEndpoints' /\ AnswersControl'
  BY <1>1, <1>2
     DEF TypeOK, ConfiguredHasEndpoints, Progress, AnswersControl, Masked, Answering,
         Configuring, Taken, Outside, Endpoints, device, timer, main, line, keys
<1>5. PacketHeld' /\ WaitsForText'
  BY <1>1, <1>2
     DEF TypeOK, PacketHeld, WaitsForText, Taken, Outside, Endpoints, device, timer, main,
         line, keys
<1>6. PositionAtStart'
  BY <1>1, <1>2
     DEF TypeOK, PositionAtStart, WaitsForText, Open, Taken, Outside, Endpoints, device,
         timer, main, line, keys
<1>. QED  BY <1>3, <1>4, <1>5, <1>6

LEMMA TypedKeeps == ASSUME IInv, NEW n \in 1 .. Size, Typed(n) PROVE IInv'
<1>. USE DEF IInv
<1>. DEFINE h == [ep["rx"] EXCEPT !.complete = TRUE, !.cnt = n]
<1>1. h \in Handles /\ h.on = ep["rx"].on /\ h.pos = ep["rx"].pos /\ h.complete
  <2>1. n \in Nat
    BY UsbAssumption
  <2>2. ep["rx"] \in Handles
    BY DEF TypeOK, Endpoints
  <2>. QED  BY <2>1, <2>2 DEF Handles
<1>2. ep' = [ep EXCEPT !["rx"] = h]
  BY DEF Typed
<1>. HIDE DEF h
<1>3. /\ ep' \in [Endpoints -> Handles] /\ ep'["rx"] = h
      /\ \A y \in Endpoints : ep'[y].on = ep[y].on
  BY <1>1, <1>2, HandleChanged DEF Endpoints
<1>4. data' \in [0 .. Size - 1 -> Int] /\ data'[0] = head' /\ head' \in Nat /\ typed' \in Nat
  <2>1. typed \in Nat /\ n \in Nat /\ n > 0 /\ 0 \in 0 .. Size - 1
    BY UsbAssumption DEF TypeOK
  <2>2. data \in [0 .. Size - 1 -> Int] /\ DOMAIN data = 0 .. Size - 1
    BY DEF TypeOK
  <2>3. /\ data' = [i \in DOMAIN data |-> IF i < n THEN typed + i + 1 ELSE data[i]]
        /\ head' = typed + 1 /\ typed' = typed + n
    BY DEF Typed
  <2>. QED  BY <2>1, <2>2, <2>3
<1>5. UNCHANGED <<selected, device, timer, main, hits>>
  BY DEF Typed, Outside
<1>6. TypeOK'
  BY <1>3, <1>4, <1>5 DEF TypeOK, device, timer, main
<1>7. ConfiguredHasEndpoints' /\ AnswersControl'
  BY <1>3, <1>5
     DEF TypeOK, ConfiguredHasEndpoints, Progress, AnswersControl, Masked, Endpoints, device, timer,
         main
<1>8. PacketHeld' /\ WaitsForText'
  BY <1>4, <1>5 DEF PacketHeld, WaitsForText, main
<1>9. PositionAtStart'
  BY <1>1, <1>3, <1>5 DEF PositionAtStart, Open, device, timer, main
<1>. QED  BY <1>6, <1>7, <1>8, <1>9

LEMMA WatchdogResetKeeps == ASSUME IInv, WatchdogReset PROVE IInv'
<1>. USE DEF IInv
<1>1. /\ ep' \in [Endpoints -> Handles] /\ ep'["rx"] = Off /\ ~Off.complete /\ Off.pos = 0
  BY HandlesReset DEF WatchdogReset, Endpoints, Off
<1>2. TypeOK'
  BY <1>1 DEF TypeOK, WatchdogReset, Endpoints, device, timer, main, line, keys
<1>3. ConfiguredHasEndpoints' /\ AnswersControl'
  BY <1>1
     DEF TypeOK, ConfiguredHasEndpoints, AnswersControl, Masked, Answering, Configuring,
         WatchdogReset, Endpoints, device, timer, main, line, keys
<1>4. PacketHeld' /\ WaitsForText'
  BY <1>1
     DEF TypeOK, PacketHeld, WaitsForText, WatchdogReset, Endpoints, device, timer, main,
         line, keys
<1>5. PositionAtStart'
  BY <1>1
     DEF TypeOK, PositionAtStart, WaitsForText, Open, WatchdogReset, Endpoints, device,
         timer, main, line, keys
<1>. QED  BY <1>2, <1>3, <1>4, <1>5


-----------------------------------------------------------------------------
LEMMA StepKeepsIInv == ASSUME IInv, [Next]_vars PROVE IInv'
<1>1. CASE Main
  BY <1>1, SelectKeeps, DirectionKeeps, TestKeeps, TakeLengthKeeps, BytesKeeps, ReadKeeps,
     RestKeeps, ClearKeeps, RewindKeeps, ActKeeps, SendByteKeeps, ReadyKeeps, FrameKeeps
     DEF Main, Access
<1>2. CASE Interrupt
  BY <1>2, FlushReadyKeeps, FlushFailsKeeps, RequestKeeps, HeaderKeeps, WriteKeeps
     DEF Interrupt
<1>3. CASE roomKeys \/ roomClean \/ PrintText \/ TCD0_CCA \/ BUSEVENT
  BY <1>3, CallKeeps, PrintKeeps, TCD0_CCAKeeps, BUSEVENTKeeps DEF roomKeys, roomClean
<1>4. CASE BusReset \/ Suspend \/ Resume \/ GiveUp \/ Request \/ Taken \/ WatchdogReset
  BY <1>4, LineKeeps, RequestSentKeeps, TakenKeeps, WatchdogResetKeeps
<1>5. CASE \E n \in 1 .. Size : Typed(n)
  BY <1>5, TypedKeeps
<1>6. CASE UNCHANGED vars
  BY <1>6
     DEF IInv, TypeOK, ConfiguredHasEndpoints, Progress, AnswersControl, Masked, PacketHeld,
         WaitsForText, PositionAtStart, Open, vars, device, endpoints, timer, main, keys
<1>. QED  BY <1>1, <1>2, <1>3, <1>4, <1>5, <1>6 DEF Next

\* The inductive invariant, for every size of the packets.
THEOREM TerminalInvariant == Spec => []IInv
<1>1. IInv /\ [Next]_vars => IInv'
  BY StepKeepsIInv
<1>. QED  BY InitIInv, <1>1, PTL DEF Spec

\* A connection that the program may use has both of its endpoints, through any
\* order of resets, suspends, resumes and configurations.
THEOREM ConnectionHasEndpoints == Spec => []DataEndpointReady
<1>1. IInv => DataEndpointReady
  BY DEF IInv, ConfiguredHasEndpoints, DataEndpointReady, Open
<1>. QED  BY TerminalInvariant, <1>1, PTL

\* The only step of a call that changes the key reads the first byte.
LEMMA ReadsHead ==
  ASSUME IInv, [Next]_vars, hits = 0, key' # key, pc' = "call"
  PROVE  key' \in {head, NONE}
<1>1. CASE Read
  <2>1. stage = "key" /\ selected = "rx" /\ key' = Byte("rx") /\ ep["rx"].complete
    BY <1>1 DEF IInv, PositionAtStart, Read, Reading
  <2>2. ep["rx"].pos = 0
    BY <1>1, <2>1 DEF IInv, PositionAtStart, Read, Reading
  <2>. QED  BY <2>1, <2>2, UsbAssumption DEF IInv, PacketHeld, Byte
<1>2. CASE roomKeys \/ roomClean
  BY <1>2 DEF roomKeys, roomClean, Call
<1>3. CASE Act \/ PrintText
  BY <1>3 DEF Act, PrintText, Printing
<1>4. CASE (Access /\ ~Read) \/ SendByte \/ Ready \/ Frame
  BY <1>4
     DEF Access, Select, Direction, Test, TakeLength, Bytes, Rest, Clear, Rewind, Unread,
         SendByte, Ready, Frame, Printing
<1>5. CASE TCD0_CCA \/ Interrupt
  BY <1>5
     DEF TCD0_CCA, Interrupt, FlushReady, FlushFails, DeviceTask, IsSETUPReceived,
         ReadHeader, ProcessControlRequest, SetLineEncoding, SetConfiguration,
         ConfigurationChanged, SelectTarget, WriteType, WriteFIFO, Restore, Serving, main
<1>6. CASE BUSEVENT \/ BusReset \/ Suspend \/ Resume \/ GiveUp \/ Request \/ Taken
           \/ WatchdogReset \/ \E n \in 1 .. Size : Typed(n)
  BY <1>6
     DEF BUSEVENT, BusReset, Suspend, Resume, GiveUp, Request, Taken, WatchdogReset, Typed, Outside,
         main
<1>7. CASE UNCHANGED vars
  BY <1>7 DEF vars, main
<1>. QED  BY <1>1, <1>2, <1>3, <1>4, <1>5, <1>6, <1>7 DEF Next, Main

\* As long as no interrupt has come into a read, the key is the first of the
\* packet.
THEOREM KeyIsTheFirst == Spec => KeyIsFirst
<1>1. IInv /\ [Next]_vars =>
        [hits = 0 /\ key' # key /\ pc' = "call" => key' \in {head, NONE}]_vars
  BY ReadsHead
<1>. QED  BY TerminalInvariant, <1>1, PTL DEF Spec, KeyIsFirst
=============================================================================
