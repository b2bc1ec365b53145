----------------------------- MODULE SensorNode -----------------------------
(***************************************************************************)
(* A sensor board (firmware/, WiFi uplink): the interrupt that stamps an   *)
(* edge of the light beam into a ring, and the main loop that drains the   *)
(* ring through the lockout, numbers what it accepts, sends each trigger   *)
(* three times and a heartbeat now and then, keeps its clock in step, and  *)
(* takes the lockout from the server's replies.                            *)
(*                                                                         *)
(* One action is one interrupt, one edge popped by the loop, or one call   *)
(* the loop makes.  The loop's calls are taken in any order, which has     *)
(* more behaviours than the loop.                                          *)
(***************************************************************************)
EXTENDS Datagrams

CONSTANTS
  Slots,          \* slots of the ring; it holds one edge less
  Echo,           \* how long after a car the beam may still bounce
  DefaultLockout, \* the lockout of a board that has not been told one
  Copies,         \* how often a trigger is sent
  EarlierBeats    \* heartbeats sent before the server came up

ASSUME NodeConstants ==
  /\ Slots \in Nat \ {0} /\ Echo \in Nat /\ Copies \in Nat \ {0}
  /\ DefaultLockout \in Nat /\ EarlierBeats \in Nat
  /\ \A w \in Lockouts \cup {DefaultLockout} : w > Echo

VARIABLES
  ring,           \* EdgeQueue: the edges stamped and not drained
  lockout,        \* Lockout: window, and the last edge accepted
  identity,       \* Identity: boot id and the two sequence counters
  burst,          \* UplinkWifi.burst_: the trigger being repeated
  synced,         \* TimeBase.synced
  fetched,        \* UplinkWifi.fetchedConfigOnce_
  car,            \* the car in the beam (not known to the program)
  crossings       \* how many cars have crossed so far

node == <<ring, lockout, identity, burst, synced, fetched, car, crossings>>

Never   == -1
NoBurst == [ left |-> 0 ]
NoCar   == [ id |-> 0, at |-> 0 ]

Edges == [ at : Nat, crossing : Nat ]

NodeTypeOK ==
  /\ ring \in [ Sensors -> Seq(Edges) ] /\ \A s \in Sensors : Len(ring[s]) < Slots
  /\ lockout \in [ Sensors -> [ window : Nat, last : Nat \cup {Never} ] ]
  /\ identity \in [ Sensors -> [ boot : Nat, trigger : Nat, hb : Nat ] ]
  /\ burst \in [ Sensors -> {NoBurst} \cup [ left : 1 .. Copies - 1, packet : Packets ] ]
  /\ synced \in [ Sensors -> BOOLEAN ] /\ fetched \in [ Sensors -> BOOLEAN ]
  /\ car \in [ Sensors -> [ id : Nat, at : Nat ] ]
  /\ crossings \in Nat

InitNode ==
  /\ ring = [ s \in Sensors |-> <<>> ]
  /\ lockout = [ s \in Sensors |-> [ window |-> DefaultLockout, last |-> Never ] ]
  /\ identity = [ s \in Sensors |-> [ boot |-> 1, trigger |-> 0, hb |-> EarlierBeats ] ]
  /\ burst = [ s \in Sensors |-> NoBurst ]
  /\ synced = [ s \in Sensors |-> TRUE ]
  /\ fetched = [ s \in Sensors |-> TRUE ]
  /\ car = [ s \in Sensors |-> NoCar ]
  /\ crossings = 0

Key(s, seq) == [ sensor |-> s, boot |-> identity[s].boot, seq |-> seq ]

(* A plausible slip: no look at how full the ring is.                      *)
PushAlways(s, edge) == ring' = [ ring EXCEPT ![s] = Append(@, edge) ]

(* The interrupt: the edge is dropped when the ring is full.               *)
PushFromIsr(s, edge) ==
  ring' = [ ring EXCEPT ![s] = IF Len(@) = Slots - 1 THEN @ ELSE Append(@, edge) ]

(* A car breaks the beam, ... *)
Cross(s) ==
  /\ Stimulus
  /\ crossings' = crossings + 1
  /\ car' = [ car EXCEPT ![s] = [ id |-> crossings + 1, at |-> now ] ]
  /\ PushFromIsr(s, [ at |-> now, crossing |-> crossings + 1 ])
  /\ UNCHANGED <<now, links, lockout, identity, burst, synced, fetched>>

(* ... and the beam bounces after it, or a wheel breaks it again.          *)
Bounce(s) ==
  /\ car[s] # NoCar
  /\ now - car[s].at <= Echo
  /\ Len(ring[s]) < Slots - 1
  /\ PushFromIsr(s, [ at |-> now, crossing |-> car[s].id ])
  /\ UNCHANGED <<now, stimuli, links, lockout, identity, burst, synced, fetched, car, crossings>>

(* A plausible slip: microseconds against milliseconds.                    *)
AcceptsUnscaled(l, at) == l.last = Never \/ at - l.last >= l.window \div 1000

(* Lockout.accept: the first edge ever, or one a window after the last.    *)
Accepts(l, at) == l.last = Never \/ at - l.last >= l.window

(* sendToServer: what is left to send of a burst after its first packet.   *)
Repeats(p) == IF Copies = 1 THEN NoBurst ELSE [ left |-> Copies - 1, packet |-> p ]

(* drainEdges, one edge: without a clock it is dropped and the lockout     *)
(* untouched; accepted, it is numbered, sent once, and the burst that      *)
(* repeats it takes the place of any burst still going.                    *)
DrainEdge(s) ==
  LET edge == Head(ring[s])
      seq  == identity[s].trigger + 1
      p    == Trigger(Key(s, seq), edge.crossing)
      take == synced[s] /\ Accepts(lockout[s], edge.at)
  IN /\ ring[s] # <<>>
     /\ ring' = [ ring EXCEPT ![s] = Tail(@) ]
     /\ IF take
        THEN /\ lockout' = [ lockout EXCEPT ![s].last = edge.at ]
             /\ identity' = [ identity EXCEPT ![s].trigger = seq ]
             /\ burst' = [ burst EXCEPT ![s] = Repeats(p) ]
             /\ net' = net (+) SetToBag({p})
        ELSE UNCHANGED <<lockout, identity, burst, net>>
     /\ UNCHANGED <<now, stimuli, replies, synced, fetched, car, crossings>>

PollBurst(s) ==
  /\ burst[s] # NoBurst
  /\ net' = net (+) SetToBag({burst[s].packet})
  /\ burst' = [ burst EXCEPT ![s] = IF @.left = 1 THEN NoBurst
                                    ELSE [ left |-> @.left - 1, packet |-> @.packet ] ]
  /\ UNCHANGED <<now, stimuli, replies, ring, lockout, identity, synced, fetched, car, crossings>>

(* maybeHeartbeat: a board without a clock does not claim to be alive.     *)
SendHeartbeat(s) ==
  /\ synced[s]
  /\ Stimulus
  /\ identity' = [ identity EXCEPT ![s].hb = @ + 1 ]
  /\ net' = net (+) SetToBag({Heartbeat(Key(s, identity[s].hb + 1))})
  /\ UNCHANGED <<now, replies, ring, lockout, burst, synced, fetched, car, crossings>>

PollConfigReply(s) ==
  \E c \in BagToSet(replies) :
    /\ c.sensor = s
    /\ replies' = replies (-) SetToBag({c})
    /\ lockout' = [ lockout EXCEPT ![s].window = c.lockout ]
    /\ UNCHANGED <<now, stimuli, net, ring, identity, burst, synced, fetched, car, crossings>>

(* The clock is set anew after every reconnect and once an hour; until     *)
(* that is done there is none.                                             *)
StartSync(s) ==
  /\ synced[s] /\ Stimulus
  /\ synced' = [ synced EXCEPT ![s] = FALSE ]
  /\ UNCHANGED <<now, links, ring, lockout, identity, burst, fetched, car, crossings>>

(* fetchConfigOnce: once in a boot, when a first attempt to set the clock  *)
(* is over, the lockout is asked of the server, which may not answer.      *)
FetchConfigOnce(s) ==
  /\ fetched' = [ fetched EXCEPT ![s] = TRUE ]
  /\ \E window \in {lockout[s].window} \cup (IF fetched[s] THEN {} ELSE Lockouts) :
       lockout' = [ lockout EXCEPT ![s].window = window ]

FinishSync(s) ==
  /\ ~synced[s]
  /\ synced' = [ synced EXCEPT ![s] = TRUE ]
  /\ FetchConfigOnce(s)
  /\ UNCHANGED <<now, stimuli, links, ring, identity, burst, car, crossings>>

(* Eight seconds without an answer: it is tried again later.               *)
SyncFails(s) ==
  /\ ~synced[s] /\ ~fetched[s]
  /\ FetchConfigOnce(s)
  /\ UNCHANGED <<now, stimuli, links, ring, identity, burst, synced, car, crossings>>

(* The board restarts: a new boot id, counters from zero, no lockout, and  *)
(* the burst forgotten.  Booting takes longer than a car.                  *)
Reboot(s) ==
  /\ Stimulus
  /\ ring' = [ ring EXCEPT ![s] = <<>> ]
  /\ lockout' = [ lockout EXCEPT ![s] = [ window |-> DefaultLockout, last |-> Never ] ]
  /\ identity' = [ identity EXCEPT ![s] = [ boot |-> @.boot + 1, trigger |-> 0, hb |-> 0 ] ]
  /\ burst' = [ burst EXCEPT ![s] = NoBurst ]
  /\ synced' = [ synced EXCEPT ![s] = FALSE ]
  /\ fetched' = [ fetched EXCEPT ![s] = FALSE ]
  /\ car' = [ car EXCEPT ![s] = NoCar ]
  /\ UNCHANGED <<now, links, crossings>>

NodeStep(s) == \/ Cross(s) \/ Bounce(s) \/ DrainEdge(s) \/ PollBurst(s) \/ SendHeartbeat(s)
               \/ PollConfigReply(s) \/ StartSync(s) \/ FinishSync(s) \/ SyncFails(s) \/ Reboot(s)
==============================================================================
