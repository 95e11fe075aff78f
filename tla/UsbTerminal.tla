---------------------------- MODULE UsbTerminal ----------------------------
(***************************************************************************)
(* The terminal on the USB port: roomKeys and roomClean (menu.c) read the  *)
(* keys and the screen functions (appUI.c) print, through the CDC class of *)
(* LUFA (CDCClassDevice.c) and its endpoint functions (Endpoint_XMEGA.c),  *)
(* which work on one selected endpoint, a global variable.                 *)
(*                                                                         *)
(* There are three levels.  The main program prints with all interrupts    *)
(* masked (ATOMIC_BLOCK), but reads without: between any two accesses of a *)
(* read may come the timer interrupt TCD0_CCA (timeEvent.c), which flushes *)
(* the text and serves the control endpoint, and USB_BUSEVENT, which also  *)
(* comes into the timer interrupt, between any two accesses of a request.  *)
(*                                                                         *)
(* Abstractions.  The address stage and the descriptor requests of the     *)
(* enumeration are left out, so that "Default" stands for the states       *)
(* Default, Addressed and Powered, and so are the packets of the control   *)
(* endpoint after SETUP (a request is answered in the step that ends its   *)
(* status stage); SelectEndpoint, which writes an address and two          *)
(* pointers, is one step, and so are the eight reads of a header; the      *)
(* bytes of the text are not kept.                                         *)
(***************************************************************************)
EXTENDS Integers, FiniteSets

CONSTANTS
  Size,          \* CDC_TXRX_EPSIZE, 64 in the firmware
  Header,        \* sizeof(USB_Request_Header_t), 8
  PositionRange, \* values of Position and Length (uint8_t), 256
  Texts,         \* lengths of what is printed in one ATOMIC_BLOCK
  MaxTyped,      \* bound: keys typed by the user
  MaxHits,       \* bound: interrupts in the middle of a read
  MaxEvents      \* bound: these, and suspends and resets of the bus

ASSUME UsbAssumption ==
  /\ Size \in Nat \ {0} /\ Header \in Nat \ {0} /\ PositionRange \in Nat /\ PositionRange > Size
  /\ Texts \subseteq Nat \ {0}
  /\ MaxTyped \in Nat /\ MaxHits \in Nat /\ MaxEvents \in Nat

VARIABLES
  state, number,     \* USB_DeviceState; USB_Device_ConfigurationNumber is not 0
  baud,              \* LineEncoding.BaudRateBPS is not 0
  selected, ep,      \* the selected endpoint; handle and FIFO of each endpoint
  data,              \* the bytes in the FIFO of the OUT endpoint
  isr, prev, spent,  \* timer interrupt: where it is, PrevEndpoint, frames waited
  target,            \* the endpoint it is to configure
  pc, caller,        \* main program: "loop", "call", "act", "print", "wait"; for whom
  stage, at,         \* in a read: which call of the CDC class, and where in it
  key,               \* the local variable of roomKeys
  left, waited,      \* in a print: bytes to go, frames waited
  bus, flags,        \* "active", "idle"; bus events not handled yet
  host, request,     \* host: "none", "new", "configured", "open"; its request
  typed, head,       \* keys typed so far; history: first key of the last packet
  hits, events       \* counters of the bounds

device    == <<state, number, baud>>
endpoints == <<selected, ep>>
timer     == <<isr, prev, spent, target>>
main      == <<pc, caller, stage, at, key, left, waited>>
line      == <<bus, flags, host, request>>
keys      == <<data, typed, head>>
vars == <<device, endpoints, timer, main, line, keys, hits, events>>

\* What a read may yield that is not a key: nothing, and a byte that the host
\* has not sent (of another endpoint, or from beyond the FIFO).
NONE    == -1
FOREIGN == -2

\* The data endpoints, the one for notifications, the OUT direction of the
\* endpoint for IN (which is never configured), and the control endpoint.
Endpoints == {"tx", "rx", "note", "txOut", "ctl"}

-----------------------------------------------------------------------------
(* Endpoint_XMEGA.c: CTRL has the type the endpoint is for (on), STATUS    *)
(* has BUSNACK0 (nack) and TRNCOMPL0 (complete), CNT; Position and Length  *)
(* of the FIFO.  SETUP of the control endpoint is request # "none".        *)

Off == [on |-> FALSE, nack |-> FALSE, complete |-> FALSE, cnt |-> 0, pos |-> 0, len |-> 0]

\* Endpoint_ConfigureEndpoint_PRV after SelectEndpoint: what is written to the
\* handle, and to its counter and FIFO, for the endpoint t.
Retyped(x, t) == [x EXCEPT !.on = selected # "ctl", !.nack = t # "rx", !.complete = FALSE]
Emptied(x, t)     == [x EXCEPT !.cnt = 0, !.pos = 0, !.len = IF t = "rx" THEN 0 ELSE Size]

Control           == [Off EXCEPT !.on = TRUE]
ClearEndpoints(e) == [x \in Endpoints |-> [e[x] EXCEPT !.on = FALSE]]

BytesInEndpoint(e) == IF e = "tx" THEN ep[e].pos
                      ELSE (ep[e].len - ep[e].pos) % PositionRange

ReadWriteAllowed(e) == ep[e].pos < ep[e].len

Sent(x)     == [x EXCEPT !.cnt = x.pos, !.nack = FALSE, !.complete = FALSE, !.pos = 0]

\* Mutant of Released: only the acknowledgement is let go again.
NackCleared(x) == [x EXCEPT !.nack = FALSE]

Released(x) == [x EXCEPT !.nack = FALSE, !.complete = FALSE]

Advanced(x) == [x EXCEPT !.pos = (@ + 1) % PositionRange]

\* Mutant of ClearSETUP: the position stays behind the header.
ClearSETUPFlag(x) == Released(x)

ClearSETUP(x) == [Released(x) EXCEPT !.pos = 0]

Byte(e) == IF e = "rx" /\ ep[e].pos < Size THEN data[ep[e].pos] ELSE FOREIGN

Open == state = "Configured" /\ baud

-----------------------------------------------------------------------------
Init ==
  /\ state = "Unattached" /\ number = FALSE /\ baud = FALSE
  /\ selected = "ctl" /\ ep = [e \in Endpoints |-> Off]
  /\ isr = "idle" /\ prev = "ctl" /\ spent = 0 /\ target = "tx"
  /\ pc = "loop" /\ caller = "roomKeys" /\ stage = "poll" /\ at = "select"
  /\ key = NONE /\ left = 0 /\ waited = 0
  /\ bus = "idle" /\ flags = {} /\ host = "none" /\ request = "none"
  /\ data = [i \in 0 .. Size - 1 |-> FOREIGN] /\ typed = 0 /\ head = 0
  /\ hits = 0 /\ events = 0

-----------------------------------------------------------------------------
(* The main program, reading: roomKeys and roomClean are made of calls of  *)
(* BytesReceived and ReceiveByte, and a step is one access.                *)

Call(c, s) ==
  /\ pc = "loop" /\ isr = "idle"
  /\ pc' = "call" /\ caller' = c /\ stage' = s /\ at' = "select" /\ key' = NONE
  /\ UNCHANGED <<device, endpoints, timer, left, waited, line, keys, hits, events>>

roomKeys  == Call("roomKeys", "poll")
roomClean == Call("roomClean", "drain")

\* The calls of a read in their order: is there a byte, take it, then (this is
\* all of roomClean) as long as there is one, take it.
Then(s) == [poll |-> "key", key |-> "drain", drain |-> "discard", discard |-> "drain"][s]

\* Mutant of Over: what follows the key in its packet is not taken.
OverWithKey(some) == IF stage = "poll" THEN ~some ELSE stage = "key"

\* A call of BytesReceived that yields 0 ends the read.
Over(some) == stage \in {"poll", "drain"} /\ ~some

\* What follows a call of BytesReceived that yields "some" (or 0), and one of
\* ReceiveByte.  A caller is remembered for as long as it reads.
Follow(some) ==
  IF ~Over(some) THEN stage' = Then(stage) /\ UNCHANGED <<pc, caller, left>>
  ELSE /\ stage' = "poll" /\ caller' = "roomKeys"
       /\ \/ stage = "poll" /\ pc' = "loop" /\ left' = 0
          \/ stage # "poll" /\ caller = "roomKeys" /\ pc' = "act" /\ left' = 0
          \/ stage # "poll" /\ caller = "roomClean" /\ pc' = "print" /\ left' \in Texts

Finish(some) == Follow(some) /\ at' = "select"

GoTo(a) == at' = a /\ UNCHANGED <<pc, caller, stage, left>>

Reading(a) == pc = "call" /\ isr = "idle" /\ at = a

Unread == UNCHANGED <<key, waited, device, timer, line, keys, hits, events>>

\* SelectEndpoint for the OUT endpoint, if there is a connection.
Select ==
  /\ Reading("select")
  /\ IF Open THEN selected' = "rx" /\ GoTo("direction")
             ELSE UNCHANGED selected /\ Finish(FALSE)
  /\ UNCHANGED ep /\ Unread

\* Endpoint_IsOUTReceived, in three accesses.
Direction ==
  /\ Reading("direction")
  /\ selected' = IF selected = "tx" THEN "txOut" ELSE selected
  /\ GoTo("test")
  /\ UNCHANGED ep /\ Unread

Test ==
  /\ Reading("test")
  /\ IF ep[selected].complete THEN GoTo("length") ELSE Finish(FALSE)
  /\ UNCHANGED endpoints /\ Unread

TakeLength ==
  /\ Reading("length")
  /\ ep' = [ep EXCEPT ![selected].len = ep[selected].cnt]
  /\ GoTo("bytes")
  /\ UNCHANGED selected /\ Unread

\* BytesReceived returns the number of bytes, or clears an empty packet.
Bytes ==
  /\ Reading("bytes")
  /\ IF stage \in {"poll", "drain"}
     THEN IF BytesInEndpoint(selected) > 0 THEN Finish(TRUE) ELSE GoTo("clear")
     ELSE IF BytesInEndpoint(selected) > 0 THEN GoTo("read") ELSE GoTo("rest")
  /\ UNCHANGED endpoints /\ Unread

Read ==
  /\ Reading("read")
  /\ ep' = [ep EXCEPT ![selected] = Advanced(@)]
  /\ key' = IF stage = "key" THEN Byte(selected) ELSE key
  /\ GoTo("rest")
  /\ UNCHANGED <<selected, waited, device, timer, line, keys, hits, events>>

Rest ==
  /\ Reading("rest")
  /\ IF BytesInEndpoint(selected) = 0 THEN GoTo("clear") ELSE Finish(TRUE)
  /\ UNCHANGED endpoints /\ Unread

\* Endpoint_ClearOUT, in two accesses.
Clear ==
  /\ Reading("clear")
  /\ ep' = [ep EXCEPT ![selected] = Released(@)]
  /\ GoTo("rewind")
  /\ UNCHANGED selected /\ Unread

Rewind ==
  /\ Reading("rewind")
  /\ ep' = [ep EXCEPT ![selected].pos = 0]
  /\ Finish(FALSE)
  /\ UNCHANGED selected /\ Unread

\* The key goes to the room.
Act ==
  /\ pc = "act" /\ isr = "idle" /\ pc' = "loop" /\ key' = NONE
  /\ UNCHANGED <<device, endpoints, timer, caller, stage, at, left, waited, line,
                 keys, hits, events>>

-----------------------------------------------------------------------------
(* The main program, printing: vfprintf calls SendByte for every byte and  *)
(* goes on after an error.  No interrupt comes before the end.             *)

Masked == pc \in {"print", "wait"}

Printing == UNCHANGED <<caller, stage, at, key, device, timer, line, keys, hits, events>>

PrintText ==
  /\ pc = "loop" /\ isr = "idle"
  /\ pc' = "print" /\ left' \in Texts
  /\ UNCHANGED <<endpoints, waited>> /\ Printing

Printed == left' = left - 1 /\ pc' = IF left = 1 THEN "loop" ELSE "print"

\* CDC_Device_SendByte up to the wait for a full packet to be taken.
SendByte ==
  /\ pc = "print"
  /\ IF ~Open THEN UNCHANGED endpoints /\ Printed
     ELSE /\ selected' = "tx"
          /\ IF ReadWriteAllowed("tx")
             THEN ep' = [ep EXCEPT !["tx"] = Advanced(@)] /\ Printed
             ELSE ep' = [ep EXCEPT !["tx"] = Sent(@)] /\ pc' = "wait" /\ UNCHANGED left
  /\ waited' = 0
  /\ Printing

\* Mutant of TimeoutMSRem: WaitUntilReady waits for ever.
NoTimeout(w) == FALSE

\* USB_STREAM_TIMEOUT_MS is 1: the second frame that begins ends the wait.
TimeoutMSRem(w) == w = 1

\* Endpoint_WaitUntilReady: the packet is taken, or frames go by.
Ready ==
  /\ pc = "wait" /\ ep[selected].nack
  /\ ep' = [ep EXCEPT ![selected] = Advanced(@)]
  /\ Printed
  /\ UNCHANGED <<selected, waited>> /\ Printing

Frame ==
  /\ pc = "wait" /\ ~ep[selected].nack /\ bus = "active"
  /\ IF TimeoutMSRem(waited) THEN Printed /\ waited' = 0
     ELSE waited' = 1 /\ UNCHANGED <<pc, left>>
  /\ UNCHANGED endpoints /\ Printing

-----------------------------------------------------------------------------
(* The timer interrupt: CDC_Device_USBTask and USB_USBTask.  In the middle *)
(* of a read it counts as a hit.                                           *)

Hit == IF pc = "call" THEN hits < MaxHits /\ hits + events < MaxEvents /\ hits' = hits + 1
                       ELSE UNCHANGED hits

Serving(i) == isr = i /\ ~Masked /\ UNCHANGED <<main, keys, events>>

\* CDC_Device_Flush up to its wait, if IN is ready and there is text.
TCD0_CCA ==
  /\ Serving("idle") /\ pc \in {"loop", "call"} /\ Hit
  /\ IF Open /\ ep["tx"].nack /\ BytesInEndpoint("tx") > 0
     THEN /\ ep' = [ep EXCEPT !["tx"] = Sent(@)]
          /\ isr' = IF ReadWriteAllowed("tx") THEN "task" ELSE "wait"
     ELSE isr' = "task" /\ UNCHANGED ep
  /\ selected' = IF Open THEN "tx" ELSE selected
  /\ UNCHANGED <<device, prev, spent, target, line>>

\* A packet that was full is followed by an empty one.
FlushReady ==
  /\ Serving("wait")
  /\ IF selected = "tx" THEN ep[selected].nack ELSE ep[selected].complete
  /\ ep' = [ep EXCEPT ![selected] = Sent(@)] /\ isr' = "task" /\ spent' = 0
  /\ UNCHANGED <<selected, prev, target, device, line, hits>>

FlushFails ==
  /\ Serving("wait")
  /\ IF selected = "tx" THEN ~ep[selected].nack ELSE ~ep[selected].complete
  /\ \/ state = "Unattached" /\ isr' = "task" /\ spent' = 0
     \/ /\ state # "Unattached" /\ bus = "active"
        /\ IF TimeoutMSRem(spent) THEN isr' = "task" /\ spent' = 0
           ELSE spent' = 1 /\ UNCHANGED isr
  /\ UNCHANGED <<endpoints, prev, target, device, line, hits>>

\* USB_DeviceTask, and USB_Device_ProcessControlRequest up to the answer.
DeviceTask ==
  /\ Serving("task")
  /\ IF state = "Unattached" THEN isr' = "idle" /\ UNCHANGED <<selected, prev>>
     ELSE isr' = "setup" /\ prev' = selected /\ selected' = "ctl"
  /\ UNCHANGED <<ep, spent, target, device, line, hits>>

IsSETUPReceived ==
  /\ Serving("setup")
  /\ IF request = "none" THEN isr' = "restore" /\ UNCHANGED ep
     ELSE isr' = "header" /\ ep' = [ep EXCEPT ![selected].len = ep[selected].cnt]
  /\ UNCHANGED <<selected, prev, spent, target, device, line, hits>>

\* The header is read from wherever the position is.
ReadHeader ==
  /\ Serving("header")
  /\ isr' = IF ep[selected].pos = 0 THEN "handle" ELSE "garbled"
  /\ ep' = [ep EXCEPT ![selected].pos = (@ + Header) % PositionRange]
  /\ UNCHANGED <<selected, prev, spent, target, device, line, hits>>

\* If SETUP still stands: a request that is not understood is stalled, and the
\* host is told so.
ProcessControlRequest ==
  /\ (Serving("handle") \/ Serving("garbled"))
  /\ IF request = "none" THEN isr' = "restore" /\ UNCHANGED <<ep, request>>
     ELSE /\ ep' = [ep EXCEPT ![selected] = ClearSETUP(@)]
          /\ \/ isr = "garbled" /\ isr' = "restore" /\ request' = "none"
             \/ /\ isr = "handle" /\ UNCHANGED request
                /\ isr' = IF request = "encoding" THEN "encoding" ELSE "configuration"
  /\ UNCHANGED <<selected, prev, spent, target, device, bus, flags, host, hits>>

\* CDC_REQ_SetLineEncoding waits for the packet that the host sends, unless it
\* has been reset since, or for the bus to be suspended.
SetLineEncoding ==
  /\ Serving("encoding") /\ isr' = "restore"
  /\ \/ request = "encoding" /\ request' = "none" /\ host' = "open" /\ baud' = TRUE
     \/ state = "Unattached" /\ UNCHANGED <<request, host, baud>>
  /\ UNCHANGED <<state, number, endpoints, prev, spent, target, bus, flags, hits>>

\* USB_Device_SetConfiguration, up to its status stage and after it, with the
\* memset of CDC_Device_ConfigureEndpoints.
SetConfiguration ==
  /\ Serving("configuration") /\ isr' = "status" /\ number' = TRUE
  /\ UNCHANGED <<state, baud, endpoints, prev, spent, target, line, hits>>

ConfigurationChanged ==
  /\ Serving("status") /\ isr' = "select" /\ target' = "tx"
  /\ state' = "Configured" /\ baud' = FALSE
  /\ IF request = "configuration" THEN request' = "none" /\ host' = "configured"
     ELSE UNCHANGED <<request, host>>
  /\ UNCHANGED <<number, endpoints, prev, spent, bus, flags, hits>>

\* Endpoint_ConfigureEndpoint_PRV for each endpoint in turn.  After SelectEndpoint
\* it writes to the endpoint that is selected.
SelectTarget ==
  /\ Serving("select") /\ isr' = "type" /\ selected' = target
  /\ UNCHANGED <<ep, prev, spent, target, device, line, hits>>

WriteType ==
  /\ Serving("type") /\ isr' = "fifo"
  /\ ep' = [ep EXCEPT ![selected] = Retyped(@, target)]
  /\ UNCHANGED <<selected, prev, spent, target, device, line, hits>>

WriteFIFO ==
  /\ Serving("fifo")
  /\ ep' = [ep EXCEPT ![selected] = Emptied(@, target)]
  /\ isr' = IF target = "note" THEN "restore" ELSE "select"
  /\ target' = [tx |-> "rx", rx |-> "note", note |-> "tx"][target]
  /\ UNCHANGED <<selected, prev, spent, device, line, hits>>

\* USB_DeviceTask ends.
Restore ==
  /\ Serving("restore") /\ isr' = "idle"
  /\ selected' = prev /\ prev' = "ctl"
  /\ UNCHANGED <<ep, spent, target, device, line, hits>>

-----------------------------------------------------------------------------
(* USB_BUSEVENT: suspend, resume and reset, in this order.                 *)

\* Mutant of Resumed: the configuration is taken to have survived.
ResumedAlways == "Configured"

Resumed == IF number THEN "Configured" ELSE "Default"

BUSEVENT ==
  /\ flags # {} /\ ~Masked /\ flags' = {}
  /\ LET s == IF "resume" \in flags THEN Resumed
              ELSE IF "suspend" \in flags THEN "Unattached" ELSE state
     IN  state' = IF "reset" \in flags THEN "Default" ELSE s
  /\ IF "reset" \in flags
     THEN /\ number' = FALSE
          /\ ep' = [ClearEndpoints(ep) EXCEPT !["ctl"] = Control]
          /\ selected' = "ctl"
     ELSE UNCHANGED <<number, endpoints>>
  /\ IF isr = "idle" THEN Hit ELSE UNCHANGED hits
  /\ UNCHANGED <<baud, timer, main, bus, host, request, keys, events>>

-----------------------------------------------------------------------------
(* The host, the user at its terminal and the bus.                         *)

Connected == bus = "active" /\ host = "open" /\ "reset" \notin flags

Outside == UNCHANGED <<device, timer, main, hits>>

\* A host that finds the bus in use resets it to start anew, now and then; one
\* that is plugged in always does.
BusReset ==
  /\ bus = "idle" \/ hits + events < MaxEvents
  /\ events' = IF bus = "idle" THEN events ELSE events + 1
  /\ bus' = "active" /\ flags' = flags \cup {"reset"} /\ host' = "new" /\ request' = "none"
  /\ UNCHANGED <<endpoints, keys>> /\ Outside

\* The host sleeps, or is unplugged.
Suspend ==
  /\ bus = "active" /\ hits + events < MaxEvents /\ events' = events + 1
  /\ bus' = "idle" /\ flags' = flags \cup {"suspend"}
  /\ UNCHANGED <<host, request, endpoints, keys>> /\ Outside

\* A host that wakes up, and was not in the middle of a request.
Resume ==
  /\ bus = "idle" /\ host # "none" /\ request = "none"
  /\ bus' = "active" /\ flags' = flags \cup {"resume"}
  /\ UNCHANGED <<host, request, endpoints, keys, events>> /\ Outside

\* It waits for the device to recover from a reset, which takes longer than to
\* serve a request, and asks again after a stall.
Request ==
  /\ bus = "active" /\ flags = {} /\ request = "none"
  /\ ep["ctl"].on /\ isr \in {"idle", "wait", "task", "setup", "encoding", "restore"}
  /\ \/ host = "new" /\ request' = "configuration"
     \/ host = "configured" /\ request' = "encoding"
  /\ ep' = [ep EXCEPT !["ctl"].cnt = Header]
  /\ UNCHANGED <<bus, flags, host, selected, keys, events>> /\ Outside

\* A host that gets no answer, as the control endpoint has lost its type, resets
\* the bus to try again.
GiveUp ==
  /\ bus = "active" /\ flags = {} /\ ~ep["ctl"].on
  /\ flags' = {"reset"} /\ host' = "new" /\ request' = "none"
  /\ UNCHANGED <<bus, endpoints, keys, events>> /\ Outside

\* The host takes the packet that is ready.
Taken ==
  /\ Connected /\ ep["tx"].on /\ ~ep["tx"].nack
  /\ ep' = [ep EXCEPT !["tx"].nack = TRUE, !["tx"].complete = TRUE]
  /\ UNCHANGED <<selected, line, keys, events>> /\ Outside

\* The host sends n keys as one packet.
Typed(n) ==
  /\ Connected /\ ep["rx"].on /\ ~ep["rx"].complete /\ typed + n <= MaxTyped
  /\ data' = [i \in DOMAIN data |-> IF i < n THEN typed + i + 1 ELSE data[i]]
  /\ head' = typed + 1 /\ typed' = typed + n
  /\ ep' = [ep EXCEPT !["rx"].complete = TRUE, !["rx"].cnt = n]
  /\ UNCHANGED <<selected, line, events>> /\ Outside

\* The main program is caught in a wait for frames that do not come, with the
\* interrupt masked that would tell it so, or in an interrupt that waits for a
\* packet that the host, reset since, does not send: the watchdog resets the
\* board, and the host finds it gone.
WatchdogReset ==
  /\ \/ pc = "wait" /\ bus = "idle" /\ ~ep[selected].nack
     \/ isr = "encoding" /\ request # "encoding" /\ state # "Unattached"
  /\ state' = "Unattached" /\ number' = FALSE /\ baud' = FALSE
  /\ selected' = "ctl" /\ ep' = [e \in Endpoints |-> Off]
  /\ isr' = "idle" /\ prev' = "ctl" /\ spent' = 0 /\ target' = "tx"
  /\ pc' = "loop" /\ caller' = "roomKeys" /\ stage' = "poll" /\ at' = "select"
  /\ key' = NONE /\ left' = 0 /\ waited' = 0
  /\ bus' = "idle" /\ flags' = {} /\ host' = "none" /\ request' = "none"
  /\ UNCHANGED <<keys, hits, events>>

-----------------------------------------------------------------------------
Access == Select \/ Direction \/ Test \/ TakeLength \/ Bytes \/ Read \/ Rest \/ Clear \/ Rewind

Main      == Access \/ Act \/ SendByte \/ Ready \/ Frame
Interrupt ==
  \/ FlushReady \/ FlushFails \/ DeviceTask
  \/ IsSETUPReceived \/ ReadHeader \/ ProcessControlRequest \/ SetLineEncoding
  \/ SetConfiguration \/ ConfigurationChanged \/ SelectTarget \/ WriteType \/ WriteFIFO
  \/ Restore

Next ==
  \/ roomKeys \/ roomClean \/ PrintText \/ Main
  \/ TCD0_CCA \/ Interrupt
  \/ BUSEVENT
  \/ BusReset \/ Suspend \/ Resume \/ Request \/ GiveUp \/ Taken \/ (\E n \in 1 .. Size : Typed(n))
  \/ WatchdogReset

Spec == Init /\ [][Next]_vars

\* The processor goes on and frames come while the bus is active; an interrupt
\* is kept until it is let in; the scheduler calls roomKeys again and again,
\* whatever is printed in between; a host that is there goes on with what it
\* has begun, but need not take the text; the watchdog is always on.
FairSpec ==
  /\ Spec
  /\ WF_vars(Main) /\ WF_vars(Interrupt) /\ WF_vars(Request) /\ WF_vars(GiveUp)
  /\ WF_vars(WatchdogReset)
  /\ SF_vars(roomKeys) /\ SF_vars(TCD0_CCA) /\ SF_vars(BUSEVENT)

-----------------------------------------------------------------------------
(* Properties                                                              *)

\* A connection that the program may use has both of its endpoints, through
\* any order of resets, suspends, resumes and configurations, a reset between the
\* accesses of a configuration included; or they are being configured in the
\* interrupt that is under way (USBInterrupt_XMEGA.c:55-103,
\* DeviceStandardReq.c:187-205, Endpoint_XMEGA.c:167-185).
Configuring == {"select", "type", "fifo"}

DataEndpointReady ==
  Open /\ isr \notin {"status"} \cup Configuring => ep["tx"].on /\ ep["rx"].on

\* As long as no interrupt has come into a read, the key that roomKeys acts on
\* is the first of the packet: nothing is left over of the packets before,
\* drained, empty or cut off by a reset (menu.c:131-150, CDCClassDevice.c).
KeyIsFirst == [][hits = 0 /\ key' # key /\ pc' = "call" => key' \in {head, NONE}]_vars

\* The inductive invariant.  A configuration, also one that a resume goes back
\* to, has its endpoints, or they are being written; a request is answered on the
\* control endpoint; a packet that is complete begins with the last head;
\* and as long as no interrupt has come into a read, a read finds the position
\* of the OUT endpoint at 0 and leaves it there.
Handles == [on : BOOLEAN, nack : BOOLEAN, complete : BOOLEAN, cnt : Nat, pos : Nat, len : Nat]

Answering ==
  {"setup", "header", "handle", "garbled", "encoding", "configuration", "status"}

TypeOK ==
  /\ ep \in [Endpoints -> Handles] /\ selected \in Endpoints /\ prev \in Endpoints
  /\ isr \in {"idle", "wait", "task", "restore"} \cup Answering \cup Configuring
  /\ target \in {"tx", "rx", "note"}
  /\ pc \in {"loop", "call", "act", "print", "wait"}
  /\ stage \in {"poll", "key", "drain", "discard"}
  /\ at \in {"select", "direction", "test", "length", "bytes", "read", "rest", "clear", "rewind"}
  /\ number \in BOOLEAN /\ baud \in BOOLEAN
  /\ data \in [0 .. Size - 1 -> Int] /\ typed \in Nat /\ head \in Nat /\ hits \in Nat

\* Without a reset, what a configuration has written so far stands.
Progress ==
  /\ target # "tx" => ep["tx"].on
  /\ target = "note" => ep["rx"].on
  /\ isr \in {"type", "fifo"} => selected = target
  /\ isr = "fifo" => ep[target].on

ConfiguredHasEndpoints ==
  number \/ state = "Configured" =>
    \/ isr = "status" \/ (isr \in Configuring /\ Progress)
    \/ ep["tx"].on /\ ep["rx"].on

AnswersControl ==
  /\ isr \in Answering => selected = "ctl"
  /\ Masked => isr = "idle"

PacketHeld == ep["rx"].complete => data[0] = head

WaitsForText == pc = "wait" => selected = "tx"

PositionAtStart ==
  hits = 0 =>
    IF pc = "call"
    THEN /\ isr = "idle"
         /\ at # "select" => selected = "rx" /\ Open
         /\ at \in {"length", "bytes", "read"} => ep["rx"].complete
         /\ at = "read" => stage # "poll"
         /\ ep["rx"].pos # 0 =>
              /\ Open /\ stage # "poll" /\ (ep["rx"].complete \/ at = "rewind")
              /\ stage = "key" => at \in {"rest", "clear", "rewind"}
    ELSE ep["rx"].pos = 0

IInv ==
  /\ TypeOK /\ ConfiguredHasEndpoints /\ AnswersControl
  /\ PacketHeld /\ WaitsForText /\ PositionAtStart

\* While the bus is active the main program comes back from every print and
\* every read, whether the host takes the text or not.
MainReturns == []<>(pc = "loop" \/ bus = "idle")

\* A packet of keys is taken off the endpoint, so that the host may send the
\* next, unless the connection ends.
PacketReleased == ep["rx"].complete ~> ~ep["rx"].complete \/ host # "open" \/ bus = "idle"

\* A host that stays gets its terminal, even if a reset has come into a read, so
\* that the next header is misread, into a configuration, so that the control
\* endpoint is made a bulk endpoint, or into a wait for the line encoding
\* (Endpoint_XMEGA.c:172, DeviceStandardReq.c:58, CDCClassDevice.c:72).
Enumerates == []<>(bus = "idle" \/ (host = "open" /\ Open))

\* CDCClassDevice.h: ReceiveByte returns the next byte that was received from
\* the host, or a negative value.
KeysAreTyped == pc = "act" => key # FOREIGN
=============================================================================
