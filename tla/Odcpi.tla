-------------------------------- MODULE Odcpi --------------------------------
(***************************************************************************)
(* On demand positions from the framework (ODCPI): the modem starts and    *)
(* stops to ask for positions, and GnssAdapter passes the request on and   *)
(* repeats it by a timer as long as the modem asks                         *)
(* (gps/gnss/GnssAdapter.cpp, OdcpiTimer in GnssAdapter.h).                *)
(*                                                                         *)
(* The adapter's MsgTask handles one message after the other.  The timer's *)
(* own thread stops it and calls back in two steps, between which the      *)
(* adapter may stop or start it: OdcpiTimer keeps its own flag next to     *)
(* LocTimer's state, and the adapter sees the expiration as a message that *)
(* may be old when it is handled.                                          *)
(*                                                                         *)
(* Left out: the positions injected, which change no state, the length of  *)
(* the period and the contents of a request other than its emergency mode. *)
(***************************************************************************)
EXTENDS Naturals, Sequences

CONSTANT MaxOdcpiQueue \* bound on the messages that wait when one is posted or
                       \* the timer fires

ASSUME OdcpiAssumption == MaxOdcpiQueue \in Nat

VARIABLES
  odcpiCb,     \* mOdcpiRequestCb is set
  reqActive,   \* mOdcpiRequestActive
  forEmergency, \* mOdcpiRequest.isEmergencyMode
  timerActive, \* mOdcpiTimer.mActive
  timerOn,     \* LocTimer's mTimer of mOdcpiTimer: it is running
  firing,      \* what the timer's thread is about to do
  odcpiQueue,  \* the adapter's messages
  asked         \* the emergency mode of what the framework was asked last

adapterState == <<odcpiCb, reqActive, forEmergency, timerActive>>
odcpiVars == <<adapterState, timerOn, firing, odcpiQueue, asked>>

OdcpiMessages ==
  [kind : {"init", "stop", "expire", "restart"}]
  \cup [kind : {"start"}, emergency : BOOLEAN]

OdcpiInit ==
  /\ odcpiCb = FALSE /\ reqActive = FALSE /\ forEmergency = FALSE
  /\ timerActive = FALSE /\ timerOn = FALSE /\ firing = "no"
  /\ odcpiQueue = <<>> /\ asked = "nothing"

-----------------------------------------------------------------------------
(* The modem and the client of the interface, and the engine's restart.    *)

Posts(m) ==
  /\ m.kind # "expire" /\ Len(odcpiQueue) < MaxOdcpiQueue
  /\ odcpiQueue' = Append(odcpiQueue, m)
  /\ UNCHANGED <<adapterState, timerOn, firing, asked>>

-----------------------------------------------------------------------------
(* LocTimerDelegate::expire on the thread of the timers.                   *)

TimerFires ==
  /\ timerOn /\ firing = "no" /\ Len(odcpiQueue) < MaxOdcpiQueue
  /\ firing' = "stop"
  /\ UNCHANGED <<adapterState, timerOn, odcpiQueue, asked>>

(* client->stop() stops whatever is running now.  Without anything to stop *)
(* there is no callback.                                                   *)
TimerStops ==
  /\ firing = "stop"
  /\ firing' = IF timerOn THEN "call" ELSE "no"
  /\ timerOn' = FALSE
  /\ UNCHANGED <<adapterState, odcpiQueue, asked>>

(* timeOutCallback and odcpiTimerExpireEvent.                              *)
TimerCalls ==
  /\ firing = "call"
  /\ firing' = "no"
  /\ odcpiQueue' = Append(odcpiQueue, [kind |-> "expire"])
  /\ UNCHANGED <<adapterState, timerOn, asked>>

TimerStep == TimerFires \/ TimerStops \/ TimerCalls

-----------------------------------------------------------------------------
(* The adapter's messages.                                                 *)

OdcpiMsg == Head(odcpiQueue)
Takes(kind) ==
  /\ odcpiQueue # <<>> /\ OdcpiMsg.kind = kind
  /\ odcpiQueue' = Tail(odcpiQueue)
  /\ UNCHANGED firing

Asks(mode) == asked' = IF mode THEN "emergency" ELSE "normal"

(* OdcpiTimer::start and restart: LocTimer::start, after a stop.           *)
TimerStarts == timerActive' = TRUE /\ timerOn' = TRUE
TimerStays == UNCHANGED <<timerActive, timerOn>>

InitOdcpi ==
  /\ Takes("init")
  /\ odcpiCb' = TRUE
  /\ TimerStays /\ UNCHANGED <<reqActive, forEmergency, asked>>

(* reportOdcpiRequest of a start.  A stop leaves the timer running, so     *)
(* that the next start waits for its end instead of asking at once.        *)
OdcpiStarts ==
  LET new == OdcpiMsg.emergency IN
  /\ Takes("start")
  /\ \/ ~odcpiCb /\ TimerStays /\ UNCHANGED <<reqActive, forEmergency, asked>>
     \/ /\ odcpiCb /\ reqActive' = TRUE /\ forEmergency' = new
        /\ IF (~reqActive /\ ~timerActive) \/ (~forEmergency /\ new)
           THEN Asks(new) /\ TimerStarts
           ELSE TimerStays /\ UNCHANGED asked
  /\ UNCHANGED odcpiCb

(* Mutant of OdcpiStops: the timer is stopped with the request, and not    *)
(* its flag.                                                               *)
OdcpiStopsTimer ==
  /\ Takes("stop")
  /\ reqActive' = (reqActive /\ ~odcpiCb)
  /\ timerOn' = (timerOn /\ ~odcpiCb)
  /\ UNCHANGED <<odcpiCb, forEmergency, timerActive, asked>>

OdcpiStops ==
  /\ Takes("stop")
  /\ reqActive' = (reqActive /\ ~odcpiCb)
  /\ TimerStays /\ UNCHANGED <<odcpiCb, forEmergency, asked>>

OdcpiTimerExpire ==
  /\ Takes("expire")
  /\ \/ reqActive /\ Asks(forEmergency) /\ TimerStarts
     \/ ~reqActive /\ timerActive' = FALSE /\ timerOn' = FALSE /\ UNCHANGED asked
  /\ UNCHANGED <<odcpiCb, reqActive, forEmergency>>

(* restartSessions, as far as it is about these requests.                  *)
OdcpiRestarts ==
  /\ Takes("restart")
  /\ reqActive' = FALSE
  /\ TimerStays /\ UNCHANGED <<odcpiCb, forEmergency, asked>>

OdcpiStep ==
  \/ InitOdcpi
  \/ OdcpiStarts
  \/ OdcpiStops
  \/ OdcpiTimerExpire
  \/ OdcpiRestarts

OdcpiNext ==
  \/ \E m \in OdcpiMessages : Posts(m)
  \/ TimerStep
  \/ OdcpiStep

OdcpiSpec == OdcpiInit /\ [][OdcpiNext]_odcpiVars

-----------------------------------------------------------------------------
(* Properties.                                                             *)

OdcpiTypeOK ==
  /\ {odcpiCb, reqActive, forEmergency, timerActive, timerOn} \subseteq BOOLEAN
  /\ firing \in {"no", "stop", "call"}
  /\ odcpiQueue \in Seq(OdcpiMessages)
  /\ asked \in {"nothing", "normal", "emergency"}

ExpireComes ==
  firing = "call" \/ \E i \in 1..Len(odcpiQueue) : odcpiQueue[i].kind = "expire"

(* While the modem asks, the framework will be asked again: a timer runs,  *)
(* or its expiration is on its way, although an old expiration may stop a  *)
(* timer that was started since; and the timer's flag says so.  A request  *)
(* that became an emergency has been passed on as one.                     *)
OdcpiIsRepeated ==
  /\ reqActive => odcpiCb /\ timerActive
  /\ timerActive => asked # "nothing" /\ (timerOn \/ ExpireComes)
  /\ timerOn => timerActive
  /\ forEmergency => asked = "emergency"
=============================================================================
