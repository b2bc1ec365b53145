------------------------------ MODULE Datagrams ------------------------------
(***************************************************************************)
(* What the sensor boards and the server share: time, and the UDP          *)
(* datagrams between them.  A datagram may arrive late, never, or twice,   *)
(* and may arrive after one that was sent later; a trigger is sent three   *)
(* times besides.                                                          *)
(***************************************************************************)
EXTENDS Integers, SequencesExt, FiniteSetsExt, Bags

CONSTANTS
  Sensors,        \* the sensor ids in use, of "start" and "goal"
  Lockouts,       \* the values an operator gives sensor_lockout_sec
  MaxTime,        \* bound on the clock
  MaxStimuli      \* bound on what happens to the system from outside

ASSUME DatagramConstants ==
  /\ Sensors \subseteq {"start", "goal"}
  /\ Lockouts \subseteq Nat
  /\ MaxTime \in Nat /\ MaxStimuli \in Nat

VARIABLES
  now,            \* the time, in units of which a car and its echoes take one
  net,            \* datagrams on their way to the server: a bag of packets
  replies,        \* config replies on their way to the boards: a bag
  stimuli         \* cars, heartbeats, restarts, duplicates, ... so far

links == <<net, replies>>

(* The dedup key of a trigger, and what else a packet carries.  crossing   *)
(* stands for the timestamp: which crossing of the beam this is (0 in a    *)
(* heartbeat).                                                             *)
Keys    == [ sensor : Sensors, boot : Nat, seq : Nat ]
Packets == [ type : {"trigger", "hb"}, key : Keys, crossing : Nat ]

Trigger(key, crossing) == [ type |-> "trigger", key |-> key, crossing |-> crossing ]
Heartbeat(key)         == [ type |-> "hb", key |-> key, crossing |-> 0 ]

InitDatagrams == /\ now = 0
                 /\ net = EmptyBag
                 /\ replies = EmptyBag
                 /\ stimuli = 0

(* Something happens from outside; every stimulus counts for the bound.    *)
Stimulus == stimuli < MaxStimuli /\ stimuli' = stimuli + 1

(* The network delivers a datagram once more than it was sent.             *)
Duplicate ==
  /\ Stimulus
  /\ \/ \E p \in BagToSet(net) : net' = net (+) SetToBag({p}) /\ UNCHANGED replies
     \/ \E c \in BagToSet(replies) : replies' = replies (+) SetToBag({c}) /\ UNCHANGED net
  /\ UNCHANGED now

Tick == /\ now < MaxTime
        /\ now' = now + 1
        /\ UNCHANGED <<links, stimuli>>
==============================================================================
