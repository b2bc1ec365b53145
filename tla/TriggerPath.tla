---------------------------- MODULE TriggerPath -----------------------------
(***************************************************************************)
(* The server's end of the sensors (internal/timing): the receive loop,    *)
(* the channel to the dispatcher, and the dispatcher itself, which         *)
(* records each trigger in the sensor_events ledger, pairs the ones that   *)
(* are new, keeps what it knows of each sensor's health, reports it, and   *)
(* forgets a sensor when an administrator asks.                            *)
(*                                                                         *)
(* The dispatcher is one goroutine: hand is what it is busy with.  A       *)
(* request to forget is a channel send with a timeout, an answer on a      *)
(* channel of the request's own, and another timeout.  What SensorStart    *)
(* and SensorGoal do is in Course; here they only succeed, find no car, or *)
(* fail.                                                                   *)
(***************************************************************************)
EXTENDS Datagrams

CONSTANTS
  WorkSlots,          \* capacity of the channel to the dispatcher
  HbWindow,           \* hbWindow: heartbeats kept per sensor
  UnresponsiveAfter,  \* age from which a sensor may be forgotten
  Callers,            \* requests to forget a sensor, one call each
  ForgetSlots,        \* capacity of Control.forget
  FallbackLockout,    \* what is sent when no event is active
  Faults              \* the ledger's insert, or a pairing, may fail

ASSUME ServerConstants ==
  /\ WorkSlots \in Nat \ {0} /\ HbWindow \in Nat \ {0} /\ ForgetSlots \in Nat
  /\ UnresponsiveAfter \in Nat
  /\ FallbackLockout \in Lockouts

VARIABLES
  eventActive,    \* there is an active event
  lockoutSec,     \* its sensor_lockout_sec
  ledger,         \* the sensor_events table
  listening,      \* the socket is open
  work,           \* the channel to the dispatcher
  hand,           \* what the dispatcher is doing
  sensors,        \* dispatcher.sensors: what is known of each sensor's health
  status,         \* the last sensor_status reported
  forget,         \* Control.forget: requests not taken yet
  caller,         \* how far each request to forget has come
  answer,         \* the reply channel of each request
  dropped,        \* the requests that a sensor was dropped for (history)
  settled,        \* what became of triggers (history), in order
  restarts        \* how often the server has restarted (history)

health  == <<sensors, status>>
control == <<forget, caller, answer, dropped>>
server  == <<eventActive, lockoutSec, ledger, listening, work, hand, health, control,
             settled, restarts>>

Unknown == [ boot |-> 0 ]
Idle    == [ at |-> "idle" ]
Verdicts == {"ok", "alive", "unknown"}

Ends == {"paired", "orphan", "failed", "no_event"}

SensorState == [ boot : Nat \ {0}, lastSeen : Nat, seqs : Seq(Nat) ]

Hands == {Idle} \cup [ at : {"event_read"}, packet : Packets, active : BOOLEAN ]
                \cup [ at : {"recorded"}, packet : Packets ]
                \cup [ at : {"forgot"}, caller : Callers, verdict : Verdicts ]

ServerTypeOK ==
  /\ eventActive \in BOOLEAN /\ listening \in BOOLEAN /\ lockoutSec \in Nat
  /\ \A row \in ledger : row.key \in Keys /\ row.active \in BOOLEAN
  /\ work \in Seq(Packets) /\ Len(work) <= WorkSlots
  /\ hand \in Hands
  /\ sensors \in [ Sensors -> {Unknown} \cup SensorState ]
  /\ \A s \in Sensors : sensors[s] # Unknown => Len(sensors[s].seqs) <= HbWindow
  /\ DOMAIN status \subseteq Sensors
  /\ forget \in Seq([ caller : Callers, sensor : Sensors ]) /\ Len(forget) <= ForgetSlots
  /\ caller \in [ Callers -> {"idle", "asking", "waiting", "unavailable", "gone"} \cup Verdicts ]
  /\ answer \in [ Callers -> {"none"} \cup Verdicts ]
  /\ dropped \subseteq Callers
  /\ restarts \in Nat
  /\ settled \in Seq([ key : Keys, crossing : Nat, how : Ends ])

InitServer ==
  /\ eventActive \in BOOLEAN
  /\ lockoutSec = FallbackLockout
  /\ ledger = {}
  /\ listening = TRUE
  /\ work = <<>> /\ hand = Idle
  /\ sensors = [ s \in Sensors |-> Unknown ]
  /\ status = [ s \in {} |-> 0 ]
  /\ forget = <<>>
  /\ caller = [ c \in Callers |-> "idle" ]
  /\ answer = [ c \in Callers |-> "none" ]
  /\ dropped = {}
  /\ settled = <<>>
  /\ restarts = 0

Settle(p, how) ==
  settled' = Append(settled, [ key |-> p.key, crossing |-> p.crossing, how |-> how ])

-----------------------------------------------------------------------------
(* The receive loop.  It reads the next datagram only when the channel has *)
(* room for the one before, which waits in the socket meanwhile.           *)

Receive ==
  \E p \in BagToSet(net) :
    /\ listening
    /\ Len(work) < WorkSlots
    /\ net' = net (-) SetToBag({p})
    /\ work' = Append(work, p)
    /\ UNCHANGED <<now, stimuli, replies, eventActive, lockoutSec, ledger, listening, hand, health,
                   control, settled, restarts>>

(* The process is told to stop: the socket is closed, and the dispatcher   *)
(* works off what has been received.                                       *)
CloseSocket ==
  /\ Stimulus
  /\ listening
  /\ listening' = FALSE
  /\ UNCHANGED <<now, links, eventActive, lockoutSec, ledger, work, hand, health, control,
                 settled, restarts>>

(* run returns when the channel is closed and empty.                       *)
Returned == ~listening /\ work = <<>> /\ hand = Idle

-----------------------------------------------------------------------------
(* The dispatcher: one case of run's select at a time.                     *)

(* Whether an event is active, as the dispatcher is told: a read that      *)
(* fails counts as no event.                                               *)
ActiveAsRead == {eventActive} \cup (IF Faults THEN {FALSE} ELSE {})

(* handleTrigger: which event is active is read first, ...                 *)
TakeTrigger ==
  /\ hand = Idle
  /\ work # <<>> /\ Head(work).type = "trigger"
  /\ work' = Tail(work)
  /\ \E active \in ActiveAsRead :
       hand' = [ at |-> "event_read", packet |-> Head(work), active |-> active ]
  /\ UNCHANGED <<now, stimuli, links, eventActive, lockoutSec, ledger, listening, health, control,
                 settled, restarts>>

(* A plausible slip: the constraint holds within an event only.            *)
RecordedInEvent(key) == \E row \in ledger : row.key = key /\ row.active = hand.active

(* InsertSensorEvent: the UNIQUE constraint tells whether it is new.       *)
Recorded(key) == \E row \in ledger : row.key = key

(* ... then the trigger enters the ledger.  Without an event that is all;  *)
(* a repeat is dropped.                                                    *)
RecordTrigger ==
  LET p == hand.packet
  IN /\ hand.at = "event_read"
     /\ IF Recorded(p.key)
        THEN hand' = Idle /\ UNCHANGED <<ledger, settled>>
        ELSE /\ ledger' = ledger \cup {[ key |-> p.key, active |-> hand.active ]}
             /\ IF hand.active
                THEN hand' = [ at |-> "recorded", packet |-> p ] /\ UNCHANGED settled
                ELSE hand' = Idle /\ Settle(p, "no_event")
     /\ UNCHANGED <<now, stimuli, links, eventActive, lockoutSec, listening, work, health, control, restarts>>

(* The insert fails: this copy is dropped, another may still be recorded.  *)
RecordFails ==
  /\ Faults
  /\ hand.at = "event_read"
  /\ hand' = Idle
  /\ UNCHANGED <<now, stimuli, links, eventActive, lockoutSec, ledger, listening, work, health, control,
                 settled, restarts>>

(* SensorStart or SensorGoal: done, no car to pair with (a warning), or an *)
(* error, which is logged and forgotten.                                   *)
PairTrigger ==
  /\ hand.at = "recorded"
  /\ \E how \in {"paired", "orphan"} \cup (IF Faults THEN {"failed"} ELSE {}) :
        Settle(hand.packet, how)
  /\ hand' = Idle
  /\ UNCHANGED <<now, stimuli, links, eventActive, lockoutSec, ledger, listening, work, health, control,
                 restarts>>

(* A plausible slip: the window goes on over a reboot.                     *)
RecordAnyBoot(st, key) ==
  LET all == Append(IF st = Unknown THEN <<>> ELSE st.seqs, key.seq)
  IN [ boot |-> key.boot, lastSeen |-> now,
       seqs |-> IF Len(all) > HbWindow THEN Tail(all) ELSE all ]

(* recordHeartbeat: a boot id other than the last one empties the window.  *)
RecordHeartbeat(st, key) ==
  LET seqs == IF st = Unknown \/ st.boot # key.boot THEN <<>> ELSE st.seqs
      all  == Append(seqs, key.seq)
  IN [ boot |-> key.boot, lastSeen |-> now,
       seqs |-> IF Len(all) > HbWindow THEN Tail(all) ELSE all ]

(* handleHeartbeat; the reply carries the lockout in force.                *)
TakeHeartbeat ==
  LET key == Head(work).key
  IN /\ hand = Idle
     /\ work # <<>> /\ Head(work).type = "hb"
     /\ work' = Tail(work)
     /\ sensors' = [ sensors EXCEPT ![key.sensor] = RecordHeartbeat(@, key) ]
     /\ \E active \in ActiveAsRead :
          replies' = replies (+) SetToBag({[ sensor  |-> key.sensor,
                                             lockout |-> IF active THEN lockoutSec
                                                         ELSE FallbackLockout ]})
     /\ UNCHANGED <<now, stimuli, net, eventActive, lockoutSec, ledger, listening, hand, status, control,
                    settled, restarts>>

(* lossRate, as the number of heartbeats missing from the window.          *)
Missing(seqs) ==
  LET got      == ToSet(seqs)
      expected == Max(got) - Min(got) + 1
  IN IF seqs = <<>> \/ Len(seqs) >= expected THEN 0 ELSE expected - Len(seqs)

(* A plausible slip: the report is made before the deletion.               *)
StatusBefore(known) ==
  [ s \in { x \in Sensors : sensors[x] # Unknown } |-> Missing(sensors[s].seqs) ]

StatusOf(known) ==
  [ s \in { x \in Sensors : known[x] # Unknown } |-> Missing(known[s].seqs) ]

(* The ticker.                                                             *)
EmitStatus ==
  /\ hand = Idle /\ ~Returned
  /\ status' = StatusOf(sensors)
  /\ UNCHANGED <<now, stimuli, links, eventActive, lockoutSec, ledger, listening, work, hand, sensors,
                 control, settled, restarts>>

(* forgetSensor.                                                           *)
ForgetVerdict(s) ==
  IF sensors[s] = Unknown THEN "unknown"
  ELSE IF now - sensors[s].lastSeen < UnresponsiveAfter THEN "alive" ELSE "ok"

TakeForget ==
  LET req     == Head(forget)
      verdict == ForgetVerdict(req.sensor)
      known   == [ sensors EXCEPT ![req.sensor] = Unknown ]
  IN /\ hand = Idle /\ ~Returned
     /\ forget # <<>>
     /\ forget' = Tail(forget)
     /\ IF verdict = "ok"
        THEN /\ sensors' = known /\ status' = StatusOf(known)
             /\ dropped' = dropped \cup {req.caller}
        ELSE UNCHANGED <<health, dropped>>
     /\ hand' = [ at |-> "forgot", caller |-> req.caller, verdict |-> verdict ]
     /\ UNCHANGED <<now, stimuli, links, eventActive, lockoutSec, ledger, listening, work, caller, answer,
                    settled, restarts>>

(* A plausible slip: an unbuffered channel.                                *)
ReplyIsAwaited(c) == caller[c] = "waiting"

(* The reply channel holds one answer, so the send never waits.            *)
ReplyHasRoom(c) == answer[c] = "none"

SendReply ==
  /\ hand.at = "forgot"
  /\ ReplyHasRoom(hand.caller)
  /\ answer' = [ answer EXCEPT ![hand.caller] = hand.verdict ]
  /\ hand' = Idle
  /\ UNCHANGED <<now, stimuli, links, eventActive, lockoutSec, ledger, listening, work, health, forget,
                 caller, dropped, settled, restarts>>

Dispatch == \/ TakeTrigger \/ RecordTrigger \/ RecordFails \/ PairTrigger \/ TakeHeartbeat
            \/ EmitStatus \/ TakeForget \/ SendReply

-----------------------------------------------------------------------------
(* ForgetSensor, in the administrator's handler.                           *)

AskToForget(c) ==
  /\ Stimulus
  /\ caller[c] = "idle"
  /\ caller' = [ caller EXCEPT ![c] = "asking" ]
  /\ UNCHANGED <<now, links, eventActive, lockoutSec, ledger, listening, work, hand, health,
                 forget, answer, dropped, settled, restarts>>

SendForget(c, s) ==
  /\ caller[c] = "asking"
  /\ Len(forget) < ForgetSlots
  /\ forget' = Append(forget, [ caller |-> c, sensor |-> s ])
  /\ caller' = [ caller EXCEPT ![c] = "waiting" ]
  /\ UNCHANGED <<now, stimuli, links, eventActive, lockoutSec, ledger, listening, work, hand, health,
                 answer, dropped, settled, restarts>>

(* Two seconds with no room in the channel, or with no answer.             *)
GiveUp(c) ==
  /\ caller[c] \in {"asking", "waiting"}
  /\ caller' = [ caller EXCEPT ![c] = "unavailable" ]
  /\ UNCHANGED <<now, stimuli, links, eventActive, lockoutSec, ledger, listening, work, hand, health,
                 forget, answer, dropped, settled, restarts>>

(* A plausible slip: one reply channel for all who ask.                    *)
TakeAnyAnswer(c) ==
  /\ caller[c] = "waiting"
  /\ \E d \in Callers :
       /\ answer[d] # "none"
       /\ caller' = [ caller EXCEPT ![c] = answer[d] ]
       /\ answer' = [ answer EXCEPT ![d] = "none" ]
  /\ UNCHANGED <<now, stimuli, links, eventActive, lockoutSec, ledger, listening, work, hand, health,
                 forget, dropped, settled, restarts>>

(* The answer to the caller's own request; what is sent after it gave up   *)
(* stays in that request's channel.                                        *)
TakeAnswer(c) ==
  /\ caller[c] = "waiting" /\ answer[c] # "none"
  /\ caller' = [ caller EXCEPT ![c] = answer[c] ]
  /\ answer' = [ answer EXCEPT ![c] = "none" ]
  /\ UNCHANGED <<now, stimuli, links, eventActive, lockoutSec, ledger, listening, work, hand, health,
                 forget, dropped, settled, restarts>>

-----------------------------------------------------------------------------
(* An event is opened or closed; an operator changes the lockout.          *)
SwitchEvent ==
  /\ Stimulus
  /\ eventActive' = ~eventActive
  /\ UNCHANGED <<now, links, lockoutSec, ledger, listening, work, hand, health, control,
                 settled, restarts>>

SetLockout ==
  /\ eventActive
  /\ Stimulus
  /\ lockoutSec' \in Lockouts \ {lockoutSec}
  /\ UNCHANGED <<now, links, eventActive, ledger, listening, work, hand, health, control,
                 settled, restarts>>

(* The process ends, whether told to or not, and comes up again: the       *)
(* tables stay.  main does not wait for the dispatcher.                    *)
Restart ==
  /\ Stimulus
  /\ restarts' = restarts + 1
  /\ listening' = TRUE
  /\ work' = <<>> /\ hand' = Idle
  /\ sensors' = [ s \in Sensors |-> Unknown ]
  /\ status' = [ s \in {} |-> 0 ]
  /\ forget' = <<>>
  /\ caller' = [ c \in Callers |->
                   IF caller[c] \in {"asking", "waiting"} THEN "gone" ELSE caller[c] ]
  /\ answer' = [ c \in Callers |-> "none" ]
  /\ UNCHANGED <<now, links, eventActive, lockoutSec, ledger, dropped, settled>>

ServerStep == \/ Receive \/ CloseSocket \/ Dispatch
              \/ \E c \in Callers : AskToForget(c) \/ GiveUp(c) \/ TakeAnswer(c)
                                    \/ \E s \in Sensors : SendForget(c, s)
              \/ SwitchEvent \/ SetLockout \/ Restart
==============================================================================
