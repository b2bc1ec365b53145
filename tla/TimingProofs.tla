----------------------------- MODULE TimingProofs -----------------------------
(***************************************************************************)
(* Of the timing chain, for any windows, copies, slots, faults, reboots    *)
(* and restarts: a trigger is settled at most once, and a car told at most *)
(* once (CrossingPromise); what the server knows of its sensors is of one  *)
(* boot each, what it reports is of sensors that it knows, and who asks it *)
(* to forget one is told what became of that request.                      *)
(***************************************************************************)
EXTENDS TimingChain, TLAPS, FiniteSetTheorems

(* A sequence, of whatever it holds.                                       *)
IsSequence(s) == s \in Seq({ s[i] : i \in DOMAIN s })

(* What Append does, without a set for the elements to be of.              *)
LEMMA AppendToSequence ==
  ASSUME NEW s, IsSequence(s), NEW e
  PROVE  /\ IsSequence(Append(s, e))
         /\ DOMAIN Append(s, e) = DOMAIN s \cup {Len(s) + 1}
         /\ Len(s) + 1 \notin DOMAIN s
         /\ Append(s, e)[Len(s) + 1] = e
         /\ \A i \in DOMAIN s : Append(s, e)[i] = s[i]
<1> DEFINE T == { s[i] : i \in DOMAIN s } \cup {e}
<1>1. s \in Seq(T) /\ e \in T
  BY DEF IsSequence
<1>2. /\ Append(s, e) \in Seq(T)
      /\ Len(Append(s, e)) = Len(s) + 1
      /\ Len(s) \in Nat
      /\ DOMAIN s = 1 .. Len(s) /\ DOMAIN Append(s, e) = 1 .. Len(s) + 1
      /\ Append(s, e)[Len(s) + 1] = e
      /\ \A i \in DOMAIN s : Append(s, e)[i] = s[i]
  BY <1>1
<1>3. /\ DOMAIN Append(s, e) = DOMAIN s \cup {Len(s) + 1}
      /\ Len(s) + 1 \notin DOMAIN s
  BY <1>2
<1>4. Append(s, e) \in Seq({ Append(s, e)[i] : i \in DOMAIN Append(s, e) })
  <2> DEFINE a == Append(s, e)
             n == Len(s) + 1
  <2>0. a \in Seq(T) /\ Len(a) = n /\ n \in Nat
    BY <1>2
  <2> HIDE DEF a, n, T
  <2>1. a \in [ 1 .. n -> T ] /\ DOMAIN a = 1 .. n /\ n \in Nat
    BY <2>0
  <2>2. a \in [ 1 .. n -> { a[i] : i \in DOMAIN a } ]
    BY <2>1
  <2>3. a \in Seq({ a[i] : i \in DOMAIN a })
    BY <2>1, <2>2
  <2> QED BY <2>3 DEF a
<1> QED BY <1>2, <1>3, <1>4 DEF IsSequence

-----------------------------------------------------------------------------
(* What is settled, and what is about to be, is in the ledger, which never *)
(* forgets; a trigger that the ledger holds is not taken up again.         *)
SettledKeys == { settled[i].key : i \in DOMAIN settled }

SettledInv ==
  /\ IsSequence(settled)
  /\ TriggerSettledOnce
  /\ hand.at = "recorded" => Recorded(hand.packet.key) /\ hand.packet.key \notin SettledKeys

LEMMA InitSettled == Init => SettledInv
<1> SUFFICES ASSUME Init PROVE SettledInv
  OBVIOUS
<1>1. settled = <<>> /\ hand = Idle
  BY DEF Init, InitServer
<1>2. IsSequence(<<>>) /\ DOMAIN << >> = {}
  BY DEF IsSequence
<1> QED BY <1>1, <1>2 DEF SettledInv, TriggerSettledOnce, Idle

(* A step that settles nothing and takes nothing out of the ledger.        *)
LEMMA NothingSettled ==
  ASSUME SettledInv, settled' = settled, ledger \subseteq ledger',
         hand' = hand \/ hand'.at # "recorded"
  PROVE  SettledInv'
BY DEF SettledInv, TriggerSettledOnce, Recorded, SettledKeys

(* A step that settles one trigger, which the ledger holds afterwards.     *)
LEMMA OneSettled ==
  ASSUME SettledInv, NEW p, NEW how, Settle(p, how), ledger \subseteq ledger',
         \E row \in ledger' : row.key = p.key,
         p.key \notin SettledKeys, hand' = Idle
  PROVE  SettledInv'
<1> DEFINE e == [ key |-> p.key, crossing |-> p.crossing, how |-> how ]
<1>1. settled' = Append(settled, e) /\ IsSequence(settled)
  BY DEF Settle, SettledInv
<1>2. /\ IsSequence(settled')
      /\ DOMAIN settled' = DOMAIN settled \cup {Len(settled) + 1}
      /\ Len(settled) + 1 \notin DOMAIN settled
      /\ settled'[Len(settled) + 1] = e
      /\ \A i \in DOMAIN settled : settled'[i] = settled[i]
  BY <1>1, AppendToSequence
<1>3. ASSUME NEW i \in DOMAIN settled'
      PROVE  \E row \in ledger' : row.key = settled'[i].key
  BY <1>2, <1>3 DEF SettledInv, TriggerSettledOnce
<1>4. ASSUME NEW i \in DOMAIN settled', NEW j \in DOMAIN settled', settled'[j].key = settled'[i].key
      PROVE  j = i
  <2>1. \A k \in DOMAIN settled : settled'[k].key # e.key
    BY <1>2 DEF SettledKeys
  <2> QED BY <1>2, <1>4, <2>1 DEF SettledInv, TriggerSettledOnce
<1> QED BY <1>2, <1>3, <1>4 DEF SettledInv, TriggerSettledOnce, Idle

(* One step of the chain: see which of them settle, and which record.      *)
LEMMA NextSettled == SettledInv /\ [Next]_vars => SettledInv'
<1> SUFFICES ASSUME SettledInv, [Next]_vars PROVE SettledInv'
  OBVIOUS
<1>1. CASE UNCHANGED server
  BY <1>1, NothingSettled DEF server
<1>2. CASE TakeTrigger
  BY <1>2, NothingSettled DEF TakeTrigger
<1>3. CASE RecordTrigger
  <2> DEFINE p == hand.packet
  <2>1. CASE Recorded(p.key)
    <3>1. hand' = Idle /\ UNCHANGED <<ledger, settled>>
      BY <1>3, <2>1 DEF RecordTrigger
    <3> QED BY <3>1, NothingSettled DEF Idle
  <2>2. CASE ~Recorded(p.key)
    <3>1. ledger' = ledger \cup {[ key |-> p.key, active |-> hand.active ]}
      BY <1>3, <2>2 DEF RecordTrigger
    <3>2. p.key \notin SettledKeys
      BY <2>2 DEF SettledInv, TriggerSettledOnce, SettledKeys, Recorded
    <3>3. \E row \in ledger' : row.key = p.key
      <4> DEFINE new == [ key |-> p.key, active |-> hand.active ]
      <4>1. new \in ledger'
        BY <3>1
      <4>2. new.key = p.key
        OBVIOUS
      <4> HIDE DEF new
      <4> QED BY <4>1, <4>2
    <3>4. CASE hand.active
      <4>1. hand' = [ at |-> "recorded", packet |-> p ] /\ UNCHANGED settled
        BY <1>3, <2>2, <3>4 DEF RecordTrigger
      <4> QED BY <3>1, <3>2, <3>3, <4>1
              DEF SettledInv, TriggerSettledOnce, Recorded, SettledKeys
    <3>5. CASE ~hand.active
      <4>1. hand' = Idle /\ Settle(p, "no_event")
        BY <1>3, <2>2, <3>5 DEF RecordTrigger
      <4> QED BY <3>1, <3>2, <3>3, <4>1, OneSettled
    <3> QED BY <3>4, <3>5
  <2> QED BY <2>1, <2>2
<1>4. CASE RecordFails
  BY <1>4, NothingSettled DEF RecordFails, Idle
<1>5. CASE PairTrigger
  <2>1. PICK how : Settle(hand.packet, how)
    BY <1>5 DEF PairTrigger
  <2>2. hand' = Idle /\ ledger' = ledger /\ hand.at = "recorded"
    BY <1>5 DEF PairTrigger
  <2>3. (\E row \in ledger' : row.key = hand.packet.key) /\ hand.packet.key \notin SettledKeys
    BY <2>2 DEF SettledInv, Recorded
  <2> QED BY <2>1, <2>2, <2>3, OneSettled
<1>6. CASE TakeHeartbeat \/ EmitStatus
  BY <1>6, NothingSettled DEF TakeHeartbeat, EmitStatus
<1>7. CASE TakeForget \/ SendReply
  BY <1>7, NothingSettled DEF TakeForget, SendReply, Idle
<1>8. CASE Receive \/ CloseSocket \/ SwitchEvent \/ SetLockout
  BY <1>8, NothingSettled DEF Receive, CloseSocket, SwitchEvent, SetLockout
<1>9. CASE \E c \in Callers : AskToForget(c) \/ GiveUp(c) \/ TakeAnswer(c)
                               \/ \E s \in Sensors : SendForget(c, s)
  BY <1>9, NothingSettled DEF AskToForget, GiveUp, TakeAnswer, SendForget
<1>10. CASE Restart
  BY <1>10, NothingSettled DEF Restart, Idle
<1> QED BY <1>1, <1>2, <1>3, <1>4, <1>5, <1>6, <1>7, <1>8, <1>9, <1>10
        DEF Next, ServerStep, Dispatch, vars

(* However often the datagrams of a trigger arrive, whatever fails and     *)
(* however often the server restarts: it is settled at most once.          *)
THEOREM TriggersSettledOnce == Spec => []TriggerSettledOnce
<1>1. SettledInv => TriggerSettledOnce
  BY DEF SettledInv
<1> QED BY InitSettled, NextSettled, <1>1, PTL DEF Spec

-----------------------------------------------------------------------------
(* Bags of datagrams.                                                      *)
LEMMA OneMore ==
  ASSUME NEW B, IsABag(B), NEW e
  PROVE  /\ IsABag(B (+) SetToBag({e}))
         /\ BagToSet(B (+) SetToBag({e})) = BagToSet(B) \cup {e}
BY DEF IsABag, BagToSet, SetToBag, (+)

(* ... and one that is taken out.                                          *)
LEMMA OneLess ==
  ASSUME NEW B, IsABag(B), NEW e \in BagToSet(B)
  PROVE  /\ IsABag(B (-) SetToBag({e}))
         /\ BagToSet(B (-) SetToBag({e})) \subseteq BagToSet(B)
BY DEF IsABag, BagToSet, SetToBag, (-)

LEMMA NoDatagrams == IsABag(EmptyBag) /\ BagToSet(EmptyBag) = {}
BY DEF IsABag, BagToSet, SetToBag, EmptyBag

(* The dispatcher is busy with a trigger.                                  *)
HasPacket == hand.at \in {"event_read", "recorded"}

(* The datagrams that exist somewhere: on their way, received, in the      *)
(* dispatcher's hand, or about to be repeated by a board.                  *)
Bursts      == { burst[s].packet : s \in { x \in Sensors : burst[x] # NoBurst } }
Circulating == BagToSet(net) \cup ToSet(work) \cup Bursts
                 \cup (IF HasPacket THEN {hand.packet} ELSE {})

(* A datagram is one that its board has sent, in this boot or an earlier   *)
(* one; and a trigger is of a car that crossed.                            *)
Genuine(p) ==
  /\ p \in Packets
  /\ p.key.boot \in 1 .. identity[p.key.sensor].boot
  /\ p.type = "hb" =>
       /\ p.crossing = 0
       /\ p.key.boot = identity[p.key.sensor].boot => p.key.seq <= identity[p.key.sensor].hb
  /\ p.type = "trigger" => p.crossing \in 1 .. crossings

PacketsInv == \A p \in Circulating : Genuine(p)

(* What a board is about to do: let the first edge pass, number it, send a *)
(* heartbeat.                                                              *)
Taken(s)    == synced[s] /\ Accepts(lockout[s], Head(ring[s]).at)
Numbered(s) == Trigger(Key(s, identity[s].trigger + 1), Head(ring[s]).crossing)
Beat(s)     == Heartbeat(Key(s, identity[s].hb + 1))

(* A step makes a datagram only where a board numbers one.                 *)
Flow ==
  \/ Circulating' \subseteq Circulating
  \/ \E s \in Sensors : DrainEdge(s) /\ Taken(s) /\ Circulating' \subseteq Circulating \cup {Numbered(s)}
  \/ \E s \in Sensors : SendHeartbeat(s) /\ Circulating' \subseteq Circulating \cup {Beat(s)}

LEMMA SameCirculation ==
  ASSUME UNCHANGED <<net, work, burst>>,
         HasPacket' => HasPacket /\ hand'.packet = hand.packet
  PROVE  Circulating' \subseteq Circulating
BY DEF Circulating, Bursts

(* A board numbers an edge or a heartbeat, or repeats a datagram           *)
(* (drainEdges, poll).                                                     *)
LEMMA NodeFlow ==
  ASSUME NEW s \in Sensors, NodeStep(s), UNCHANGED server, IsABag(net),
         burst \in [ Sensors -> {NoBurst} \cup [ left : 1 .. Copies - 1, packet : Packets ] ]
  PROVE  Flow
<1> USE DEF server
<1>1. CASE Cross(s) \/ Bounce(s) \/ PollConfigReply(s) \/ StartSync(s) \/ FinishSync(s) \/ SyncFails(s)
  BY <1>1, SameCirculation
     DEF Cross, Bounce, PollConfigReply, StartSync, FinishSync, SyncFails, links, Flow, HasPacket
<1>2. CASE DrainEdge(s)
  <2>1. CASE Taken(s)
    <3>1. /\ net' = net (+) SetToBag({Numbered(s)})
          /\ burst' = [ burst EXCEPT ![s] = Repeats(Numbered(s)) ]
      BY <1>2, <2>1 DEF DrainEdge, Taken, Numbered
    <3>2. BagToSet(net') = BagToSet(net) \cup {Numbered(s)}
      BY <3>1, OneMore
    <3>3. Bursts' \subseteq Bursts \cup {Numbered(s)}
      <4>1. \A x \in Sensors : burst'[x] # NoBurst =>
              burst'[x] = burst[x] \/ burst'[x].packet = Numbered(s)
        BY <3>1 DEF Repeats
      <4> QED BY <4>1 DEF Bursts
    <3> QED BY <1>2, <2>1, <3>2, <3>3 DEF Flow, Circulating, HasPacket
  <2>2. CASE ~Taken(s)
    <3>1. UNCHANGED <<net, burst>>
      BY <1>2, <2>2 DEF DrainEdge, Taken
    <3> QED BY <3>1, SameCirculation DEF Flow, HasPacket
  <2> QED BY <2>1, <2>2
<1>3. CASE PollBurst(s)
  <2>1. /\ burst[s] # NoBurst
        /\ net' = net (+) SetToBag({burst[s].packet})
    BY <1>3 DEF PollBurst
  <2>2. BagToSet(net') = BagToSet(net) \cup {burst[s].packet}
    BY <2>1, OneMore
  <2>3. Bursts' \subseteq Bursts
    <3>1. \A x \in Sensors : burst'[x] # NoBurst =>
            burst[x] # NoBurst /\ burst'[x].packet = burst[x].packet
      BY <1>3 DEF PollBurst
    <3> QED BY <3>1 DEF Bursts
  <2>4. burst[s].packet \in Bursts
    BY <2>1 DEF Bursts
  <2>5. Circulating' \subseteq Circulating
    BY <2>2, <2>3, <2>4 DEF Circulating, HasPacket
  <2> QED BY <2>5 DEF Flow
<1>4. CASE SendHeartbeat(s)
  <2>1. net' = net (+) SetToBag({Beat(s)}) /\ UNCHANGED burst
    BY <1>4 DEF SendHeartbeat, Beat
  <2>2. BagToSet(net') = BagToSet(net) \cup {Beat(s)}
    BY <2>1, OneMore
  <2>3. Bursts' = Bursts
    BY <2>1 DEF Bursts
  <2>4. Circulating' \subseteq Circulating \cup {Beat(s)}
    BY <2>2, <2>3 DEF Circulating, HasPacket
  <2> QED BY <1>4, <2>4 DEF Flow
<1>5. CASE Reboot(s)
  <2>1. UNCHANGED net /\ burst' = [ burst EXCEPT ![s] = NoBurst ]
    BY <1>5 DEF Reboot, links
  <2>2. Bursts' \subseteq Bursts
    BY <2>1 DEF Bursts
  <2> QED BY <2>1, <2>2 DEF Flow, Circulating, HasPacket
<1> QED BY <1>1, <1>2, <1>3, <1>4, <1>5 DEF NodeStep

(* The server makes no datagram of its own: it receives, takes up, drops.  *)
LEMMA ServerFlow ==
  ASSUME ServerStep, UNCHANGED node, IsABag(net), NEW S, work \in Seq(S)
  PROVE  Circulating' \subseteq Circulating
<1> USE DEF node, Bursts
<1>1. CASE Receive
  <2>1. PICK p \in BagToSet(net) : net' = net (-) SetToBag({p}) /\ work' = Append(work, p) /\ UNCHANGED hand
    BY <1>1 DEF Receive
  <2>2. BagToSet(net') \subseteq BagToSet(net)
    BY <2>1, OneLess
  <2>3. ToSet(work') \subseteq ToSet(work) \cup {p}
    BY <2>1 DEF ToSet
  <2> QED BY <2>1, <2>2, <2>3 DEF Circulating, HasPacket
<1>2. CASE TakeTrigger \/ TakeHeartbeat
  <2>1. /\ UNCHANGED net /\ work # <<>> /\ work' = Tail(work)
        /\ HasPacket' => (HasPacket /\ hand'.packet = hand.packet) \/ hand'.packet = Head(work)
    BY <1>2 DEF TakeTrigger, TakeHeartbeat, HasPacket, Idle, links
  <2>2. ToSet(work') \subseteq ToSet(work) /\ Head(work) \in ToSet(work)
    BY <2>1 DEF ToSet
  <2> QED BY <2>1, <2>2 DEF Circulating
<1>3. CASE RecordTrigger \/ RecordFails \/ PairTrigger \/ EmitStatus \/ TakeForget \/ SendReply
  BY <1>3, SameCirculation
     DEF RecordTrigger, RecordFails, PairTrigger, EmitStatus, TakeForget, SendReply, HasPacket, Idle, links
<1>4. CASE CloseSocket \/ SwitchEvent \/ SetLockout
  BY <1>4, SameCirculation DEF CloseSocket, SwitchEvent, SetLockout, links, HasPacket
<1>5. CASE \E c \in Callers : AskToForget(c) \/ GiveUp(c) \/ TakeAnswer(c)
                               \/ \E s \in Sensors : SendForget(c, s)
  BY <1>5, SameCirculation DEF AskToForget, GiveUp, TakeAnswer, SendForget, links, HasPacket
<1>6. CASE Restart
  <2>1. UNCHANGED net /\ ToSet(work') = {} /\ ~HasPacket'
    BY <1>6 DEF Restart, links, HasPacket, Idle, ToSet
  <2> QED BY <2>1 DEF Circulating
<1> QED BY <1>1, <1>2, <1>3, <1>4, <1>5, <1>6 DEF ServerStep, Dispatch

(* The network delivers once more what is on its way already.              *)
LEMMA DuplicateFlow ==
  ASSUME Duplicate, UNCHANGED <<node, server>>, IsABag(net)
  PROVE  Circulating' \subseteq Circulating
<1>1. CASE UNCHANGED net
  BY <1>1 DEF Circulating, Bursts, HasPacket, node, server
<1>2. ASSUME NEW p \in BagToSet(net), net' = net (+) SetToBag({p})
      PROVE  Circulating' \subseteq Circulating
  <2>1. BagToSet(net') = BagToSet(net) \cup {p}
    BY <1>2, OneMore
  <2> QED BY <2>1 DEF Circulating, Bursts, HasPacket, node, server
<1> QED BY <1>1, <1>2 DEF Duplicate

-----------------------------------------------------------------------------
(* What holds of every board: it has a boot id, its burst is of a trigger, *)
(* and its lockout is one that was configured.                             *)
BoardsInv ==
  \A s \in Sensors : /\ identity[s].boot > 0
                     /\ burst[s] # NoBurst => burst[s].packet.type = "trigger"
                     /\ lockout[s].window \in Lockouts \cup {DefaultLockout}

BagsInv == /\ IsABag(net) /\ IsABag(replies)
           /\ BagToSet(replies) \subseteq [ sensor : Sensors, lockout : Lockouts ]

Shared == now \in 0 .. MaxTime /\ stimuli \in 0 .. MaxStimuli

(* The interrupt never fills the last slot (EdgeQueue.pushFromIsr).        *)
LEMMA PushKeepsRings ==
  ASSUME NodeTypeOK, NEW s \in Sensors, NEW edge \in Edges, PushFromIsr(s, edge)
  PROVE  ring' \in [ Sensors -> Seq(Edges) ] /\ \A t \in Sensors : Len(ring'[t]) < Slots
<1>1. /\ Append(ring[s], edge) \in Seq(Edges)
      /\ Len(Append(ring[s], edge)) = Len(ring[s]) + 1
      /\ Len(ring[s]) \in Nat /\ Len(ring[s]) < Slots /\ Slots \in Nat
  BY NodeConstants DEF NodeTypeOK
<1> QED BY <1>1, SMTT(30) DEF NodeTypeOK, PushFromIsr

(* The types of a board, and of the links, over a step of a board.         *)
LEMMA NodeStepTypes ==
  ASSUME NodeTypeOK, BoardsInv, BagsInv, Shared, NEW s \in Sensors, NodeStep(s)
  PROVE  NodeTypeOK' /\ BoardsInv' /\ BagsInv' /\ Shared'
<1> USE DatagramConstants, NodeConstants
<1>a. identity \in [ Sensors -> [ boot : Nat, trigger : Nat, hb : Nat ] ]
  BY DEF NodeTypeOK
<1>b. lockout \in [ Sensors -> [ window : Nat, last : Nat \cup {Never} ] ]
  BY DEF NodeTypeOK
<1>c. \A t \in Sensors : identity[t].boot > 0 /\ lockout[t].window \in Lockouts \cup {DefaultLockout}
  BY DEF BoardsInv
<1>d. \A t \in Sensors : burst[t] # NoBurst => burst[t].packet.type = "trigger"
  BY DEF BoardsInv
<1>1. CASE Cross(s)
  <2>1. Shared' /\ BoardsInv' /\ BagsInv'
    BY <1>1 DEF Cross, Stimulus, Shared, BoardsInv, BagsInv, links
  <2>2. [ at |-> now, crossing |-> crossings + 1 ] \in Edges
    BY DEF Shared, NodeTypeOK, Edges
  <2>3. ring' \in [ Sensors -> Seq(Edges) ] /\ \A t \in Sensors : Len(ring'[t]) < Slots
    BY <1>1, <2>2, PushKeepsRings DEF Cross
  <2>4. car' \in [ Sensors -> [ id : Nat, at : Nat ] ] /\ crossings' \in Nat
    BY <1>1 DEF Cross, Shared, NodeTypeOK
  <2> QED BY <1>1, <2>1, <2>3, <2>4 DEF Cross, NodeTypeOK
<1>2. CASE Bounce(s)
  <2>1. Shared' /\ BoardsInv' /\ BagsInv'
    BY <1>2 DEF Bounce, Shared, BoardsInv, BagsInv, links
  <2>2. [ at |-> now, crossing |-> car[s].id ] \in Edges
    BY DEF Shared, NodeTypeOK, Edges
  <2>3. ring' \in [ Sensors -> Seq(Edges) ] /\ \A t \in Sensors : Len(ring'[t]) < Slots
    BY <1>2, <2>2, PushKeepsRings DEF Bounce
  <2> QED BY <1>2, <2>1, <2>3 DEF Bounce, NodeTypeOK
<1>3. CASE DrainEdge(s)
  <2>1. /\ ring[s] # <<>> /\ ring[s] \in Seq(Edges)
        /\ ring' = [ ring EXCEPT ![s] = Tail(@) ]
        /\ UNCHANGED <<now, stimuli, replies, synced, fetched, car, crossings>>
    BY <1>3 DEF DrainEdge, NodeTypeOK
  <2>2. Tail(ring[s]) \in Seq(Edges) /\ Len(Tail(ring[s])) < Slots /\ Head(ring[s]) \in Edges
    BY <2>1 DEF NodeTypeOK
  <2>3. ring' \in [ Sensors -> Seq(Edges) ] /\ \A t \in Sensors : Len(ring'[t]) < Slots
    BY <2>1, <2>2 DEF NodeTypeOK
  <2>4. CASE Taken(s)
    <3>1. /\ lockout' = [ lockout EXCEPT ![s].last = Head(ring[s]).at ]
          /\ identity' = [ identity EXCEPT ![s].trigger = identity[s].trigger + 1 ]
          /\ burst' = [ burst EXCEPT ![s] = Repeats(Numbered(s)) ]
          /\ net' = net (+) SetToBag({Numbered(s)})
      BY <1>3, <2>4 DEF DrainEdge, Taken, Numbered
    <3>2. Numbered(s) \in Packets /\ Numbered(s).type = "trigger"
      <4>1. Key(s, identity[s].trigger + 1) \in Keys /\ Head(ring[s]).crossing \in Nat
        BY <1>a, <2>2, SMTT(30) DEF Key, Keys, Edges
      <4> QED BY <4>1 DEF Numbered, Trigger, Packets
    <3>3. Repeats(Numbered(s)) \in {NoBurst} \cup [ left : 1 .. Copies - 1, packet : { p \in Packets : p.type = "trigger" } ]
      BY <3>2 DEF Repeats
    <3>4. burst' \in [ Sensors -> {NoBurst} \cup [ left : 1 .. Copies - 1, packet : Packets ] ]
      BY <3>1, <3>3 DEF NodeTypeOK
    <3>5. lockout' \in [ Sensors -> [ window : Nat, last : Nat \cup {Never} ] ]
      BY <1>b, <3>1, <2>2 DEF Edges
    <3>6. identity' \in [ Sensors -> [ boot : Nat, trigger : Nat, hb : Nat ] ]
      BY <1>a, <3>1
    <3>7. \A t \in Sensors : burst'[t] # NoBurst => burst'[t].packet.type = "trigger"
      BY <1>d, <3>1, <3>3 DEF NodeTypeOK
    <3>8. BoardsInv'
      BY <1>a, <1>b, <1>c, <3>1, <3>7 DEF BoardsInv
    <3>9. BagsInv'
      BY <3>1, <2>1, OneMore DEF BagsInv
    <3> QED BY <2>1, <2>3, <3>4, <3>5, <3>6, <3>8, <3>9 DEF NodeTypeOK, Shared
  <2>5. CASE ~Taken(s)
    <3>1. UNCHANGED <<lockout, identity, burst, net>>
      BY <1>3, <2>5 DEF DrainEdge, Taken
    <3> QED BY <2>1, <2>3, <3>1 DEF NodeTypeOK, BoardsInv, BagsInv, Shared
  <2> QED BY <2>4, <2>5
<1>4. CASE PollBurst(s)
  <2>1. /\ burst[s] # NoBurst
        /\ net' = net (+) SetToBag({burst[s].packet})
        /\ burst' = [ burst EXCEPT ![s] = IF @.left = 1 THEN NoBurst
                                          ELSE [ left |-> @.left - 1, packet |-> @.packet ] ]
        /\ UNCHANGED <<now, stimuli, replies, ring, lockout, identity, synced, fetched, car, crossings>>
    BY <1>4 DEF PollBurst
  <2>2. burst[s] \in [ left : 1 .. Copies - 1, packet : Packets ]
    BY <2>1 DEF NodeTypeOK
  <2>3. burst' \in [ Sensors -> {NoBurst} \cup [ left : 1 .. Copies - 1, packet : Packets ] ]
    BY <2>1, <2>2, SMTT(30) DEF NodeTypeOK
  <2>4. BoardsInv'
    BY <2>1, <2>2 DEF NodeTypeOK, BoardsInv
  <2>5. BagsInv'
    BY <2>1, OneMore DEF BagsInv
  <2> QED BY <2>1, <2>3, <2>4, <2>5 DEF NodeTypeOK, Shared
<1>5. CASE SendHeartbeat(s)
  <2>1. /\ identity' = [ identity EXCEPT ![s].hb = @ + 1 ]
        /\ net' = net (+) SetToBag({Beat(s)})
        /\ UNCHANGED <<now, replies, ring, lockout, burst, synced, fetched, car, crossings>>
        /\ Stimulus
    BY <1>5 DEF SendHeartbeat, Beat
  <2>2. Shared'
    BY <2>1 DEF Stimulus, Shared
  <2>3. BagsInv'
    BY <2>1, OneMore DEF BagsInv
  <2>4. identity' \in [ Sensors -> [ boot : Nat, trigger : Nat, hb : Nat ] ]
    BY <1>a, <2>1
  <2>5. \A t \in Sensors : identity'[t].boot = identity[t].boot
    BY <1>a, <2>1
  <2>6. NodeTypeOK'
    BY <2>1, <2>4 DEF NodeTypeOK
  <2>7. BoardsInv'
    BY <2>1, <2>5 DEF BoardsInv
  <2> QED BY <2>2, <2>3, <2>6, <2>7
<1>6. CASE PollConfigReply(s)
  <2>1. PICK c \in BagToSet(replies) :
          /\ replies' = replies (-) SetToBag({c})
          /\ lockout' = [ lockout EXCEPT ![s].window = c.lockout ]
          /\ UNCHANGED <<now, stimuli, net, ring, identity, burst, synced, fetched, car, crossings>>
    BY <1>6 DEF PollConfigReply
  <2>2. BagsInv'
    BY <2>1, OneLess DEF BagsInv
  <2>3. c.lockout \in Lockouts
    BY DEF BagsInv
  <2>4. lockout' \in [ Sensors -> [ window : Nat, last : Nat \cup {Never} ] ]
    BY <1>b, <2>1, <2>3
  <2>5. \A t \in Sensors : lockout'[t].window \in Lockouts \cup {DefaultLockout}
    BY <1>b, <1>c, <2>1, <2>3
  <2> QED BY <2>1, <2>2, <2>4, <2>5 DEF NodeTypeOK, BoardsInv, Shared
<1>7. CASE StartSync(s)
  BY <1>7, SMTT(30) DEF StartSync, Stimulus, NodeTypeOK, BoardsInv, BagsInv, Shared, links
<1>8. ASSUME FetchConfigOnce(s)
      PROVE  /\ fetched' \in [ Sensors -> BOOLEAN ]
             /\ lockout' \in [ Sensors -> [ window : Nat, last : Nat \cup {Never} ] ]
             /\ \A t \in Sensors : lockout'[t].window \in Lockouts \cup {DefaultLockout}
  <2>1. PICK window \in Lockouts \cup {DefaultLockout} : lockout' = [ lockout EXCEPT ![s].window = window ]
    BY <1>8 DEF FetchConfigOnce, BoardsInv
  <2>2. fetched' \in [ Sensors -> BOOLEAN ]
    BY <1>8 DEF FetchConfigOnce, NodeTypeOK
  <2> QED BY <1>b, <1>c, <2>1, <2>2
<1>9. CASE FinishSync(s)
  BY <1>8, <1>9 DEF FinishSync, NodeTypeOK, BoardsInv, BagsInv, Shared, links
<1>10. CASE SyncFails(s)
  BY <1>8, <1>10 DEF SyncFails, NodeTypeOK, BoardsInv, BagsInv, Shared, links
<1>11. CASE Reboot(s)
  <2>1. Shared' /\ BagsInv'
    BY <1>11 DEF Reboot, Stimulus, Shared, BagsInv, links
  <2>2. ring' \in [ Sensors -> Seq(Edges) ] /\ \A t \in Sensors : Len(ring'[t]) < Slots
    BY <1>11, SMTT(30) DEF Reboot, NodeTypeOK
  <2>3. /\ lockout' = [ lockout EXCEPT ![s] = [ window |-> DefaultLockout, last |-> Never ] ]
        /\ identity' = [ identity EXCEPT ![s] = [ boot |-> @.boot + 1, trigger |-> 0, hb |-> 0 ] ]
        /\ burst' = [ burst EXCEPT ![s] = NoBurst ]
    BY <1>11 DEF Reboot
  <2>4. lockout' \in [ Sensors -> [ window : Nat, last : Nat \cup {Never} ] ]
    BY <1>b, <2>3
  <2>5. identity' \in [ Sensors -> [ boot : Nat, trigger : Nat, hb : Nat ] ]
    BY <1>a, <2>3
  <2>6. NodeTypeOK'
    BY <1>11, <2>2, <2>4, <2>5 DEF Reboot, NodeTypeOK, NoCar
  <2>7. \A t \in Sensors : identity'[t].boot > 0 /\ lockout'[t].window \in Lockouts \cup {DefaultLockout}
    BY <1>a, <1>b, <1>c, <2>3
  <2>8. \A t \in Sensors : burst'[t] # NoBurst => burst'[t].packet.type = "trigger"
    BY <1>d, <2>3 DEF NodeTypeOK
  <2> QED BY <2>1, <2>6, <2>7, <2>8 DEF BoardsInv
<1> QED BY <1>1, <1>2, <1>3, <1>4, <1>5, <1>6, <1>7, <1>9, <1>10, <1>11 DEF NodeStep

(* The types of the server, and that the lockout it sends is a configured  *)
(* one and the datagram it works on a trigger.                             *)
ServerInv ==
  /\ ServerTypeOK
  /\ HasPacket => hand.packet.type = "trigger"
  /\ lockoutSec \in Lockouts

(* What one step of the dispatcher's makes of a sensor's health.           *)
LEMMA RecordedHeartbeat ==
  ASSUME NEW st \in {Unknown} \cup SensorState, st # Unknown => Len(st.seqs) <= HbWindow,
         NEW key \in Keys, key.boot > 0, now \in Nat
  PROVE  /\ RecordHeartbeat(st, key) \in SensorState
         /\ RecordHeartbeat(st, key) # Unknown
         /\ RecordHeartbeat(st, key).boot = key.boot
         /\ Len(RecordHeartbeat(st, key).seqs) <= HbWindow
<1> DEFINE seqs == IF st = Unknown \/ st.boot # key.boot THEN <<>> ELSE st.seqs
           all  == Append(seqs, key.seq)
           kept == IF Len(all) > HbWindow THEN Tail(all) ELSE all
<1>1. seqs \in Seq(Nat) /\ Len(seqs) <= HbWindow
  BY ServerConstants DEF SensorState
<1>2. key.seq \in Nat /\ key.boot \in Nat \ {0}
  BY DEF Keys
<1>3. all \in Seq(Nat) /\ Len(all) = Len(seqs) + 1
  BY <1>1, <1>2
<1>4. kept \in Seq(Nat) /\ Len(kept) <= HbWindow
  BY <1>1, <1>3, ServerConstants
<1>5. RecordHeartbeat(st, key) = [ boot |-> key.boot, lastSeen |-> now, seqs |-> kept ]
  BY DEF RecordHeartbeat
<1> HIDE DEF kept
<1>6. RecordHeartbeat(st, key) \in SensorState
  BY <1>2, <1>4, <1>5 DEF SensorState
<1>7. RecordHeartbeat(st, key).boot = key.boot /\ RecordHeartbeat(st, key).seqs = kept
  BY <1>5
<1>8. RecordHeartbeat(st, key) # Unknown
  BY <1>2, <1>7 DEF Unknown
<1> QED BY <1>4, <1>6, <1>7, <1>8

(* The first of a sequence, and the rest.                                  *)
LEMMA HeadAndTail ==
  ASSUME NEW S, NEW q \in Seq(S), q # <<>>
  PROVE  /\ Head(q) \in S /\ Tail(q) \in Seq(S)
         /\ Len(Tail(q)) = Len(q) - 1
         /\ ToSet(Tail(q)) \subseteq ToSet(q) /\ Head(q) \in ToSet(q)
         /\ \A i \in DOMAIN Tail(q) : i + 1 \in DOMAIN q /\ Tail(q)[i] = q[i + 1]
BY DEF ToSet

LEMMA ElementsOf ==
  ASSUME NEW S, NEW q \in Seq(S)
  PROVE  \A i \in DOMAIN q : q[i] \in S
OBVIOUS

(* The types of the server over one case of the dispatcher.                *)
LEMMA DispatchTypes ==
  ASSUME ServerInv, Dispatch, Shared,
         \A p \in ToSet(work) : p.key.boot > 0
  PROVE  ServerInv'
<1> USE DatagramConstants, ServerConstants
<1>a. work \in Seq(Packets) /\ Len(work) <= WorkSlots
  BY DEF ServerInv, ServerTypeOK
<1>b. hand \in Hands
  BY DEF ServerInv, ServerTypeOK
<1>c. sensors \in [ Sensors -> {Unknown} \cup SensorState ]
  BY DEF ServerInv, ServerTypeOK
<1>d. \A s \in Sensors : sensors[s] # Unknown => Len(sensors[s].seqs) <= HbWindow
  BY DEF ServerInv, ServerTypeOK
<1>e. settled \in Seq([ key : Keys, crossing : Nat, how : Ends ])
  BY DEF ServerInv, ServerTypeOK
<1>f. \A row \in ledger : row.key \in Keys /\ row.active \in BOOLEAN
  BY DEF ServerInv, ServerTypeOK
<1>1. ASSUME work # <<>>
      PROVE  /\ Tail(work) \in Seq(Packets) /\ Len(Tail(work)) <= WorkSlots
             /\ Head(work) \in Packets /\ Head(work).key \in Keys /\ Head(work).key.boot > 0
  <2>1. Head(work) \in ToSet(work)
    BY <1>a, <1>1 DEF ToSet
  <2>2. Head(work) \in Packets
    BY <1>a, <1>1
  <2>3. Head(work).key \in Keys
    BY <2>2 DEF Packets
  <2>4. Tail(work) \in Seq(Packets) /\ Len(Tail(work)) <= WorkSlots
    BY <1>a, <1>1
  <2> QED BY <2>1, <2>2, <2>3, <2>4
<1>2. ASSUME NEW how \in Ends, HasPacket, Settle(hand.packet, how)
      PROVE  settled' \in Seq([ key : Keys, crossing : Nat, how : Ends ])
  <2>1. hand.packet \in Packets
    BY <1>b, <1>2 DEF Hands, HasPacket, Idle
  <2>2. [ key |-> hand.packet.key, crossing |-> hand.packet.crossing, how |-> how ]
          \in [ key : Keys, crossing : Nat, how : Ends ]
    BY <2>1 DEF Packets
  <2> QED BY <1>e, <1>2, <2>2 DEF Settle
<1>3. CASE TakeTrigger
  <2>1. PICK active \in ActiveAsRead :
          hand' = [ at |-> "event_read", packet |-> Head(work), active |-> active ]
    BY <1>3 DEF TakeTrigger
  <2>2. active \in BOOLEAN /\ work # <<>> /\ Head(work).type = "trigger"
    BY <1>3 DEF TakeTrigger, ActiveAsRead, ServerInv, ServerTypeOK
  <2>3. hand' \in Hands /\ HasPacket' /\ hand'.packet.type = "trigger"
    BY <1>1, <2>1, <2>2 DEF Hands, HasPacket
  <2> QED BY <1>1, <1>3, <2>3 DEF TakeTrigger, ServerInv, ServerTypeOK, health, control
<1>4. CASE RecordTrigger
  <2>1. /\ hand.at = "event_read"
        /\ UNCHANGED <<now, stimuli, links, eventActive, lockoutSec, listening, work, health, control, restarts>>
    BY <1>4 DEF RecordTrigger
  <2>2. hand.packet \in Packets /\ hand.packet.key \in Keys /\ hand.active \in BOOLEAN
    BY <1>b, <2>1 DEF Hands, Idle, Packets
  <2>3. HasPacket
    BY <2>1 DEF HasPacket
  <2>4. \A row \in ledger' : row.key \in Keys /\ row.active \in BOOLEAN
    BY <1>4, <1>f, <2>2 DEF RecordTrigger
  <2>5. hand' \in Hands /\ (HasPacket' => hand'.packet.type = "trigger")
    BY <1>4, <2>2, <2>3 DEF RecordTrigger, Hands, HasPacket, Idle, ServerInv
  <2>6. settled' \in Seq([ key : Keys, crossing : Nat, how : Ends ])
    BY <1>2, <1>4, <1>e, <2>3 DEF RecordTrigger, Ends
  <2> QED BY <2>1, <2>4, <2>5, <2>6 DEF ServerInv, ServerTypeOK, health, control
<1>5. CASE RecordFails
  BY <1>5 DEF RecordFails, ServerInv, ServerTypeOK, health, control, Hands, HasPacket, Idle
<1>6. CASE PairTrigger
  <2>1. HasPacket
    BY <1>6 DEF PairTrigger, HasPacket
  <2>2. PICK how \in Ends : Settle(hand.packet, how)
    BY <1>6 DEF PairTrigger, Ends
  <2>3. settled' \in Seq([ key : Keys, crossing : Nat, how : Ends ])
    BY <1>2, <2>1, <2>2
  <2> QED BY <1>6, <2>3 DEF PairTrigger, ServerInv, ServerTypeOK, health, control, Hands, HasPacket, Idle
<1>7. CASE TakeHeartbeat
  <2> DEFINE key == Head(work).key
  <2>1. /\ work # <<>> /\ work' = Tail(work)
        /\ sensors' = [ sensors EXCEPT ![key.sensor] = RecordHeartbeat(@, key) ]
        /\ UNCHANGED <<eventActive, lockoutSec, ledger, listening, hand, status, control, settled, restarts>>
    BY <1>7 DEF TakeHeartbeat
  <2>2. key \in Keys /\ key.boot > 0 /\ key.sensor \in Sensors
    BY <1>1, <2>1 DEF Keys
  <2>3. /\ RecordHeartbeat(sensors[key.sensor], key) \in SensorState
        /\ Len(RecordHeartbeat(sensors[key.sensor], key).seqs) <= HbWindow
    <3>1. now \in Nat
      BY DEF Shared
    <3>2. /\ sensors[key.sensor] \in {Unknown} \cup SensorState
          /\ sensors[key.sensor] # Unknown => Len(sensors[key.sensor].seqs) <= HbWindow
      BY <1>c, <1>d, <2>2
    <3> HIDE DEF key
    <3> QED BY <2>2, <3>1, <3>2, RecordedHeartbeat
  <2>4. /\ sensors' \in [ Sensors -> {Unknown} \cup SensorState ]
        /\ \A s \in Sensors : sensors'[s] # Unknown => Len(sensors'[s].seqs) <= HbWindow
    BY <1>c, <1>d, <2>1, <2>2, <2>3
  <2> QED BY <1>1, <2>1, <2>4 DEF ServerInv, ServerTypeOK, control, HasPacket
<1>8. CASE EmitStatus
  BY <1>8 DEF EmitStatus, StatusOf, ServerInv, ServerTypeOK, control, HasPacket
<1>9. CASE TakeForget
  <2> DEFINE req     == Head(forget)
             verdict == ForgetVerdict(req.sensor)
             known   == [ sensors EXCEPT ![req.sensor] = Unknown ]
  <2>1. /\ forget # <<>> /\ forget' = Tail(forget)
        /\ IF verdict = "ok"
           THEN sensors' = known /\ status' = StatusOf(known) /\ dropped' = dropped \cup {req.caller}
           ELSE UNCHANGED <<health, dropped>>
        /\ hand' = [ at |-> "forgot", caller |-> req.caller, verdict |-> verdict ]
        /\ UNCHANGED <<eventActive, lockoutSec, ledger, listening, work, caller, answer, settled, restarts>>
    BY <1>9 DEF TakeForget
  <2>2. forget \in Seq([ caller : Callers, sensor : Sensors ]) /\ Len(forget) <= ForgetSlots
    BY DEF ServerInv, ServerTypeOK
  <2>3. req.caller \in Callers /\ req.sensor \in Sensors
    <3>1. forget # <<>>
      BY <2>1
    <3>2. Head(forget) \in [ caller : Callers, sensor : Sensors ]
      BY <2>2, <3>1, HeadAndTail
    <3> QED BY <3>2
  <2>4. forget' \in Seq([ caller : Callers, sensor : Sensors ]) /\ Len(forget') <= ForgetSlots
    <3>1. forget # <<>> /\ forget' = Tail(forget)
      BY <2>1
    <3> QED BY <2>2, <3>1
  <2>5. verdict \in Verdicts
    BY DEF ForgetVerdict, Verdicts
  <2>6. /\ sensors' \in [ Sensors -> {Unknown} \cup SensorState ]
        /\ \A s \in Sensors : sensors'[s] # Unknown => Len(sensors'[s].seqs) <= HbWindow
        /\ DOMAIN status' \subseteq Sensors
    <3>1. CASE verdict = "ok"
      BY <1>c, <1>d, <2>1, <2>3, <3>1, ZenonT(30) DEF StatusOf
    <3>2. CASE verdict # "ok"
      BY <1>c, <1>d, <2>1, <3>2 DEF health, ServerInv, ServerTypeOK
    <3> QED BY <3>1, <3>2
  <2>7. hand' \in Hands /\ ~HasPacket'
    BY <2>1, <2>3, <2>5 DEF Hands, HasPacket
  <2>8. dropped' \subseteq Callers
    BY <2>1, <2>3 DEF ServerInv, ServerTypeOK
  <2> HIDE DEF req, verdict, known
  <2> QED BY <2>1, <2>4, <2>6, <2>7, <2>8 DEF ServerInv, ServerTypeOK
<1>10. CASE SendReply
  <2>1. hand.caller \in Callers /\ hand.verdict \in Verdicts
    BY <1>10, <1>b DEF SendReply, Hands, Idle
  <2>2. answer' \in [ Callers -> {"none"} \cup Verdicts ]
    BY <1>10, <2>1 DEF SendReply, ServerInv, ServerTypeOK
  <2> QED BY <1>10, <2>2 DEF SendReply, ServerInv, ServerTypeOK, health, Hands, HasPacket, Idle
<1> QED BY <1>3, <1>4, <1>5, <1>6, <1>7, <1>8, <1>9, <1>10 DEF Dispatch

(* The same over a step of the receive loop, a caller, or the operators.   *)
LEMMA ServerStepTypes ==
  ASSUME ServerInv, BagsInv, Shared, ServerStep,
         \A p \in BagToSet(net) \cup ToSet(work) : p \in Packets /\ p.key.boot > 0
  PROVE  ServerInv' /\ BagsInv' /\ Shared'
<1> USE DatagramConstants, ServerConstants
<1>1. CASE Receive
  <2>1. PICK p \in BagToSet(net) :
          /\ Len(work) < WorkSlots
          /\ net' = net (-) SetToBag({p})
          /\ work' = Append(work, p)
          /\ UNCHANGED <<now, stimuli, replies, eventActive, lockoutSec, ledger, listening, hand, health,
                         control, settled, restarts>>
    BY <1>1 DEF Receive
  <2>2. work' \in Seq(Packets) /\ Len(work') <= WorkSlots
    BY <2>1 DEF ServerInv, ServerTypeOK
  <2>3. BagsInv'
    BY <2>1, OneLess DEF BagsInv
  <2> QED BY <2>1, <2>2, <2>3 DEF ServerInv, ServerTypeOK, Shared, HasPacket, health, control
<1>2. CASE Dispatch
  <2>1. ServerInv'
    BY <1>2, DispatchTypes
  <2>2. CASE TakeHeartbeat
    <3>0. PICK active \in ActiveAsRead :
            replies' = replies (+) SetToBag({[ sensor  |-> Head(work).key.sensor,
                                               lockout |-> IF active THEN lockoutSec
                                                           ELSE FallbackLockout ]})
      BY <2>2 DEF TakeHeartbeat
    <3> DEFINE r == [ sensor  |-> Head(work).key.sensor,
                      lockout |-> IF active THEN lockoutSec ELSE FallbackLockout ]
    <3>1. /\ work # <<>>
          /\ replies' = replies (+) SetToBag({r})
          /\ UNCHANGED <<now, stimuli, net>>
      BY <2>2, <3>0 DEF TakeHeartbeat
    <3>2. Head(work) \in Packets
      BY <3>1 DEF ServerInv, ServerTypeOK
    <3>3. r \in [ sensor : Sensors, lockout : Lockouts ]
      <4>1. Head(work).key.sensor \in Sensors
        BY <3>2 DEF Packets, Keys
      <4> QED BY <4>1, ServerConstants DEF ServerInv
    <3> HIDE DEF r
    <3>4. BagsInv'
      <4>1. IsABag(replies') /\ BagToSet(replies') = BagToSet(replies) \cup {r}
        BY <3>1, OneMore DEF BagsInv
      <4> QED BY <3>1, <3>3, <4>1 DEF BagsInv
    <3> QED BY <2>1, <3>1, <3>4 DEF Shared
  <2>3. CASE ~TakeHeartbeat
    <3>1. UNCHANGED <<now, stimuli, links>>
      BY <1>2, <2>3 DEF Dispatch, TakeTrigger, RecordTrigger, RecordFails, PairTrigger, EmitStatus, TakeForget, SendReply
    <3> QED BY <2>1, <3>1 DEF links, BagsInv, Shared
  <2> QED BY <2>2, <2>3
<1>3. CASE \E c \in Callers : AskToForget(c) \/ GiveUp(c) \/ TakeAnswer(c)
                               \/ \E s \in Sensors : SendForget(c, s)
  <2>1. PICK c \in Callers : AskToForget(c) \/ GiveUp(c) \/ TakeAnswer(c) \/ \E s \in Sensors : SendForget(c, s)
    BY <1>3
  <2>2. BagsInv' /\ Shared'
    <3>1. UNCHANGED <<now, links>> /\ (Stimulus \/ stimuli' = stimuli)
      BY <2>1 DEF AskToForget, GiveUp, TakeAnswer, SendForget
    <3> QED BY <3>1 DEF links, BagsInv, Shared, Stimulus
  <2>3. /\ UNCHANGED <<eventActive, lockoutSec, ledger, listening, work, hand, health, dropped, settled, restarts>>
        /\ forget \in Seq([ caller : Callers, sensor : Sensors ])
        /\ caller \in [ Callers -> {"idle", "asking", "waiting", "unavailable", "gone"} \cup Verdicts ]
        /\ answer \in [ Callers -> {"none"} \cup Verdicts ]
    BY <2>1 DEF AskToForget, GiveUp, TakeAnswer, SendForget, ServerInv, ServerTypeOK
  <2>4. /\ caller' \in [ Callers -> {"idle", "asking", "waiting", "unavailable", "gone"} \cup Verdicts ]
        /\ answer' \in [ Callers -> {"none"} \cup Verdicts ]
    BY <2>1, <2>3 DEF AskToForget, GiveUp, TakeAnswer, SendForget
  <2>5. /\ forget' \in Seq([ caller : Callers, sensor : Sensors ])
        /\ Len(forget') <= ForgetSlots
    <3>1. CASE \E s \in Sensors : SendForget(c, s)
      <4>1. PICK s \in Sensors : /\ Len(forget) < ForgetSlots
                                 /\ forget' = Append(forget, [ caller |-> c, sensor |-> s ])
        BY <3>1 DEF SendForget
      <4>2. [ caller |-> c, sensor |-> s ] \in [ caller : Callers, sensor : Sensors ]
        OBVIOUS
      <4> QED BY <2>3, <4>1, <4>2
    <3>2. CASE AskToForget(c) \/ GiveUp(c) \/ TakeAnswer(c)
      <4>1. forget' = forget
        BY <3>2 DEF AskToForget, GiveUp, TakeAnswer
      <4> QED BY <2>3, <4>1 DEF ServerInv, ServerTypeOK
    <3> QED BY <2>1, <3>1, <3>2
  <2> QED BY <2>2, <2>3, <2>4, <2>5 DEF ServerInv, ServerTypeOK, HasPacket, health
<1>4. CASE CloseSocket
  <2>1. BagsInv' /\ Shared'
    BY <1>4 DEF CloseSocket, Stimulus, links, BagsInv, Shared
  <2> QED BY <1>4, <2>1 DEF CloseSocket, health, control, ServerInv, ServerTypeOK, HasPacket
<1>5. CASE SwitchEvent
  BY <1>5 DEF SwitchEvent, Stimulus, links, health, control, ServerInv, ServerTypeOK, BagsInv, Shared, HasPacket
<1>6. CASE SetLockout
  BY <1>6 DEF SetLockout, Stimulus, links, health, control, ServerInv, ServerTypeOK, BagsInv, Shared, HasPacket
<1>7. CASE Restart
  <2>1. /\ BagsInv' /\ Shared'
    BY <1>7 DEF Restart, Stimulus, links, BagsInv, Shared
  <2>2. caller' \in [ Callers -> {"idle", "asking", "waiting", "unavailable", "gone"} \cup Verdicts ]
    BY <1>7 DEF Restart, ServerInv, ServerTypeOK
  <2> QED BY <1>7, <2>1, <2>2 DEF Restart, ServerInv, ServerTypeOK, Hands, HasPacket, Idle
<1> QED BY <1>1, <1>2, <1>3, <1>4, <1>5, <1>6, <1>7 DEF ServerStep

-----------------------------------------------------------------------------
(* Numbers only grow while a board runs, and a reboot has a new boot id.   *)
Later(s) == \/ identity'[s].boot > identity[s].boot
            \/ identity'[s].boot = identity[s].boot /\ identity'[s].hb >= identity[s].hb

BoardsGrow == (\A s \in Sensors : Later(s)) /\ crossings' >= crossings

(* No step takes a number back (Identity).                                 *)
LEMMA StepsGrow ==
  ASSUME NodeTypeOK, [Next]_vars
  PROVE  BoardsGrow
<1>a. identity \in [ Sensors -> [ boot : Nat, trigger : Nat, hb : Nat ] ] /\ crossings \in Nat
  BY DEF NodeTypeOK
<1>1. CASE UNCHANGED <<identity, crossings>>
  BY <1>1, <1>a DEF BoardsGrow, Later
<1>2. ASSUME NEW s \in Sensors, NodeStep(s), ~UNCHANGED <<identity, crossings>>
      PROVE  BoardsGrow
  <2>1. CASE Cross(s)
    BY <1>a, <2>1 DEF Cross, BoardsGrow, Later
  <2>2. CASE DrainEdge(s)
    <3>1. identity' = [ identity EXCEPT ![s].trigger = identity[s].trigger + 1 ] /\ crossings' = crossings
      BY <1>2, <2>2 DEF DrainEdge
    <3> QED BY <1>a, <3>1 DEF BoardsGrow, Later
  <2>3. CASE SendHeartbeat(s)
    BY <1>a, <2>3 DEF SendHeartbeat, BoardsGrow, Later
  <2>4. CASE Reboot(s)
    BY <1>a, <2>4 DEF Reboot, BoardsGrow, Later
  <2> QED BY <1>2, <2>1, <2>2, <2>3, <2>4
          DEF NodeStep, Bounce, PollBurst, PollConfigReply, StartSync, FinishSync, SyncFails
<1> QED BY <1>1, <1>2 DEF Next, vars, node

(* What is genuine once is so for good.                                    *)
LEMMA GenuineStays ==
  ASSUME NodeTypeOK, BoardsGrow, NodeTypeOK', NEW p, Genuine(p)
  PROVE  Genuine(p)'
<1>1. /\ p.key.sensor \in Sensors /\ p.key.boot \in Nat /\ p.key.seq \in Nat /\ p.crossing \in Nat
  BY DEF Genuine, Packets, Keys
<1>2. /\ identity[p.key.sensor] \in [ boot : Nat, trigger : Nat, hb : Nat ]
      /\ identity'[p.key.sensor] \in [ boot : Nat, trigger : Nat, hb : Nat ]
      /\ crossings \in Nat /\ crossings' \in Nat
  BY <1>1 DEF NodeTypeOK
<1>3. Later(p.key.sensor) /\ crossings' >= crossings
  BY <1>1 DEF BoardsGrow
<1>4. p.key.boot \in 1 .. identity'[p.key.sensor].boot
  BY <1>1, <1>2, <1>3 DEF Genuine, Later
<1>5. p.key.boot = identity'[p.key.sensor].boot =>
        /\ p.key.boot = identity[p.key.sensor].boot
        /\ identity'[p.key.sensor].hb >= identity[p.key.sensor].hb
  BY <1>1, <1>2, <1>3 DEF Genuine, Later
<1>6. ASSUME p.type = "hb"
      PROVE  /\ p.crossing = 0
             /\ p.key.boot = identity'[p.key.sensor].boot => p.key.seq <= identity'[p.key.sensor].hb
  BY <1>1, <1>2, <1>5, <1>6 DEF Genuine
<1>7. p.type = "trigger" => p.crossing \in 1 .. crossings'
  BY <1>2, <1>3 DEF Genuine
<1> QED BY <1>4, <1>6, <1>7 DEF Genuine

(* The next number of a board is one that no datagram carries.             *)
LEMMA NextTriggerIsGenuine ==
  ASSUME NodeTypeOK, BoardsInv, NEW s \in Sensors, Head(ring[s]).crossing \in 1 .. crossings
  PROVE  Genuine(Numbered(s)) /\ Numbered(s).type = "trigger"
         /\ Numbered(s).crossing = Head(ring[s]).crossing /\ Numbered(s).key.sensor = s
<1>1. identity[s] \in [ boot : Nat, trigger : Nat, hb : Nat ] /\ identity[s].boot > 0 /\ crossings \in Nat
  BY DEF NodeTypeOK, BoardsInv
<1>2. Key(s, identity[s].trigger + 1) \in Keys
  BY <1>1 DEF Key, Keys
<1>3. Numbered(s) \in Packets
  BY <1>1, <1>2 DEF Numbered, Trigger, Packets
<1> QED BY <1>1, <1>3 DEF Numbered, Trigger, Key, Genuine

LEMMA NextBeatIsGenuine ==
  ASSUME NodeTypeOK, BoardsInv, NEW s \in Sensors, SendHeartbeat(s), NEW p, p = Beat(s)
  PROVE  /\ Genuine(p)'
         /\ p.type = "hb" /\ p.key.sensor = s /\ p.key.boot = identity[s].boot
         /\ p.key.seq = identity[s].hb + 1
<1>1. identity[s] \in [ boot : Nat, trigger : Nat, hb : Nat ] /\ identity[s].boot > 0
  BY DEF NodeTypeOK, BoardsInv
<1>2. Key(s, identity[s].hb + 1) \in Keys
  BY <1>1 DEF Key, Keys
<1>3. /\ p \in Packets /\ p.type = "hb" /\ p.crossing = 0
      /\ p.key = [ sensor |-> s, boot |-> identity[s].boot, seq |-> identity[s].hb + 1 ]
  BY <1>1, <1>2 DEF Beat, Heartbeat, Key, Packets
<1>4. p.key.sensor = s /\ p.key.boot = identity[s].boot /\ p.key.seq = identity[s].hb + 1
  BY <1>3
<1>5. identity' = [ identity EXCEPT ![s].hb = @ + 1 ]
  BY DEF SendHeartbeat
<1>6. identity'[s].boot = identity[s].boot /\ identity'[s].hb = identity[s].hb + 1
  BY <1>5 DEF NodeTypeOK
<1> QED BY <1>1, <1>3, <1>4, <1>6 DEF Genuine

(* Every edge in a ring, and every car in a beam, is of a car that         *)
(* crossed.                                                                *)
CrossingsInv ==
  \A s \in Sensors : /\ \A i \in DOMAIN ring[s] : ring[s][i].crossing \in 1 .. crossings
                     /\ car[s] # NoCar => car[s].id \in 1 .. crossings

(* A ring after the interrupt: at most one edge more, at its end.          *)
LEMMA PushedEdges ==
  ASSUME NodeTypeOK, NEW s \in Sensors, NEW edge \in Edges, PushFromIsr(s, edge)
  PROVE  /\ \A t \in Sensors : t # s => ring'[t] = ring[t]
         /\ \/ ring'[s] = ring[s]
            \/ /\ DOMAIN ring'[s] = DOMAIN ring[s] \cup {Len(ring[s]) + 1}
               /\ ring'[s][Len(ring[s]) + 1] = edge
               /\ \A i \in DOMAIN ring[s] : ring'[s][i] = ring[s][i] /\ i < Len(ring[s]) + 1
<1>1. ring[s] \in Seq(Edges)
  BY DEF NodeTypeOK
<1>2. /\ DOMAIN Append(ring[s], edge) = DOMAIN ring[s] \cup {Len(ring[s]) + 1}
      /\ Append(ring[s], edge)[Len(ring[s]) + 1] = edge
      /\ \A i \in DOMAIN ring[s] : Append(ring[s], edge)[i] = ring[s][i] /\ i < Len(ring[s]) + 1
  BY <1>1
<1>3. ring' = [ ring EXCEPT ![s] = IF Len(@) = Slots - 1 THEN @ ELSE Append(@, edge) ]
  BY DEF PushFromIsr
<1> QED BY <1>2, <1>3 DEF NodeTypeOK

(* A ring after an edge was popped.                                        *)
LEMMA DrainedEdges ==
  ASSUME NodeTypeOK, NEW s \in Sensors, ring[s] # <<>>, ring' = [ ring EXCEPT ![s] = Tail(@) ]
  PROVE  /\ \A t \in Sensors : t # s => ring'[t] = ring[t]
         /\ \A i \in DOMAIN ring'[s] : i + 1 \in DOMAIN ring[s] /\ ring'[s][i] = ring[s][i + 1]
         /\ 1 \in DOMAIN ring[s] /\ Head(ring[s]) = ring[s][1] /\ Head(ring[s]) \in Edges
         /\ DOMAIN ring[s] \subseteq Nat /\ DOMAIN ring'[s] \subseteq Nat \ {0}
<1>1. ring[s] \in Seq(Edges)
  BY DEF NodeTypeOK
<1>2. ring'[s] = Tail(ring[s]) /\ \A t \in Sensors : t # s => ring'[t] = ring[t]
  BY DEF NodeTypeOK
<1>3. /\ 1 \in DOMAIN ring[s] /\ Head(ring[s]) = ring[s][1] /\ Head(ring[s]) \in Edges
      /\ DOMAIN ring[s] \subseteq Nat /\ DOMAIN Tail(ring[s]) \subseteq Nat \ {0}
  BY <1>1
<1>4. \A i \in DOMAIN Tail(ring[s]) : i + 1 \in DOMAIN ring[s] /\ Tail(ring[s])[i] = ring[s][i + 1]
  BY <1>1, HeadAndTail
<1> QED BY <1>2, <1>3, <1>4

LEMMA CrossingsStay ==
  ASSUME NodeTypeOK, CrossingsInv, Shared, NEW s \in Sensors, NodeStep(s)
  PROVE  CrossingsInv'
<1>1. CASE UNCHANGED <<ring, car, crossings>>
  BY <1>1 DEF CrossingsInv
<1>2. CASE Cross(s)
  <2> DEFINE edge == [ at |-> now, crossing |-> crossings + 1 ]
  <2>1. /\ crossings' = crossings + 1 /\ crossings \in Nat
        /\ car' = [ car EXCEPT ![s] = [ id |-> crossings + 1, at |-> now ] ]
        /\ PushFromIsr(s, edge)
    BY <1>2 DEF Cross, NodeTypeOK
  <2>2. edge \in Edges
    BY DEF Edges, Shared, NodeTypeOK
  <2>3. \A t \in Sensors : \A i \in DOMAIN ring'[t] :
          ring'[t][i] = edge \/ (i \in DOMAIN ring[t] /\ ring'[t][i] = ring[t][i])
    BY <2>1, <2>2, PushedEdges
  <2>4. \A t \in Sensors : car'[t] # NoCar => car'[t].id \in 1 .. crossings'
    BY <2>1, SMTT(30) DEF NodeTypeOK, CrossingsInv
  <2> QED BY <2>1, <2>3, <2>4 DEF CrossingsInv
<1>3. CASE Bounce(s)
  <2> DEFINE edge == [ at |-> now, crossing |-> car[s].id ]
  <2>1. UNCHANGED <<car, crossings>> /\ PushFromIsr(s, edge) /\ car[s] # NoCar
    BY <1>3 DEF Bounce
  <2>2. edge \in Edges
    BY DEF Edges, Shared, NodeTypeOK
  <2>3. \A t \in Sensors : \A i \in DOMAIN ring'[t] :
          (t = s /\ ring'[t][i] = edge) \/ (i \in DOMAIN ring[t] /\ ring'[t][i] = ring[t][i])
    BY <2>1, <2>2, PushedEdges
  <2> QED BY <2>1, <2>3 DEF CrossingsInv
<1>4. CASE DrainEdge(s)
  <2>1. ring[s] # <<>> /\ ring' = [ ring EXCEPT ![s] = Tail(@) ] /\ UNCHANGED <<car, crossings>>
    BY <1>4 DEF DrainEdge
  <2>2. \A t \in Sensors : \A i \in DOMAIN ring'[t] :
          \E j \in DOMAIN ring[t] : ring'[t][i] = ring[t][j]
    BY <2>1, DrainedEdges, SMTT(30)
  <2> QED BY <2>1, <2>2 DEF CrossingsInv
<1>5. CASE Reboot(s)
  <2>1. /\ ring' = [ ring EXCEPT ![s] = <<>> ] /\ car' = [ car EXCEPT ![s] = NoCar ]
        /\ crossings' = crossings
    BY <1>5 DEF Reboot
  <2> QED BY <2>1 DEF NodeTypeOK, CrossingsInv
<1> QED BY <1>1, <1>2, <1>3, <1>4, <1>5
        DEF NodeStep, PollBurst, SendHeartbeat, PollConfigReply, StartSync, FinishSync, SyncFails

(* What is known of a sensor is of a boot that there was.                  *)
BootsInv == \A s \in Sensors : sensors[s] # Unknown => sensors[s].boot <= identity[s].boot

(* The inductive invariant of the types.                                   *)
TypeInv == /\ NodeTypeOK /\ BoardsInv /\ ServerInv /\ BagsInv /\ Shared
            /\ CrossingsInv /\ PacketsInv /\ BootsInv

LEMMA InitTypes == Init => TypeInv
<1> SUFFICES ASSUME Init PROVE TypeInv
  OBVIOUS
<1> USE DatagramConstants, NodeConstants, ServerConstants DEF Init, InitDatagrams, InitNode, InitServer
<1>1. NodeTypeOK
  BY DEF NodeTypeOK, NoCar, Never
<1>2. BoardsInv /\ Shared /\ CrossingsInv /\ BootsInv
  BY DEF BoardsInv, Shared, CrossingsInv, BootsInv
<1>3. BagsInv
  BY NoDatagrams DEF BagsInv
<1>4. ServerInv
  BY DEF ServerInv, ServerTypeOK, Hands, HasPacket, Idle
<1>5. Circulating = {}
  BY NoDatagrams DEF Circulating, ToSet, Bursts, HasPacket, Idle
<1> QED BY <1>1, <1>2, <1>3, <1>4, <1>5 DEF TypeInv, PacketsInv

(* Every step makes datagrams only there.                                  *)
LEMMA NextFlow ==
  ASSUME NodeTypeOK, BagsInv, ServerInv, [Next]_vars
  PROVE  Flow
<1>1. IsABag(net) /\ work \in Seq(Packets)
      /\ burst \in [ Sensors -> {NoBurst} \cup [ left : 1 .. Copies - 1, packet : Packets ] ]
  BY DEF BagsInv, ServerInv, ServerTypeOK, NodeTypeOK
<1>2. CASE \E s \in Sensors : NodeStep(s) /\ UNCHANGED server
  BY <1>1, <1>2, NodeFlow
<1>3. CASE ServerStep /\ UNCHANGED node
  BY <1>1, <1>3, ServerFlow DEF Flow
<1>4. CASE UNCHANGED <<links, node, server>>
  BY <1>4, SameCirculation DEF links, node, server, Flow, HasPacket
<1>5. CASE Duplicate /\ UNCHANGED <<node, server>>
  BY <1>1, <1>5, DuplicateFlow DEF Flow
<1> QED BY <1>2, <1>3, <1>4, <1>5 DEF Next, Tick, vars

(* Whatever goes round is genuine: the only new datagrams are the boards'  *)
(* next ones.                                                              *)
LEMMA PacketsStay ==
  ASSUME NodeTypeOK, BoardsInv, BagsInv, Shared, CrossingsInv, PacketsInv, ServerInv,
         NodeTypeOK', [Next]_vars
  PROVE  PacketsInv'
<1>1. BoardsGrow
  BY StepsGrow
<1>2. CASE Circulating' \subseteq Circulating
  BY <1>1, <1>2, GenuineStays DEF PacketsInv
<1>3. ASSUME NEW s \in Sensors, DrainEdge(s), Circulating' \subseteq Circulating \cup {Numbered(s)}
      PROVE  PacketsInv'
  <2>1. ring[s] # <<>> /\ ring[s] \in Seq(Edges)
    BY <1>3 DEF DrainEdge, NodeTypeOK
  <2>2. Head(ring[s]).crossing \in 1 .. crossings
    BY <2>1 DEF CrossingsInv
  <2>3. Genuine(Numbered(s))
    BY <2>2, NextTriggerIsGenuine
  <2>4. \A p \in Circulating' : Genuine(p)
    BY <1>3, <2>3 DEF PacketsInv
  <2> QED BY <1>1, <2>4, GenuineStays DEF PacketsInv
<1>4. ASSUME NEW s \in Sensors, SendHeartbeat(s), Circulating' \subseteq Circulating \cup {Beat(s)}
      PROVE  PacketsInv'
  <2> SUFFICES ASSUME NEW p \in Circulating' PROVE Genuine(p)'
    BY DEF PacketsInv
  <2>1. CASE p = Beat(s)
    BY <1>4, <2>1, NextBeatIsGenuine
  <2>2. CASE p # Beat(s)
    BY <1>1, <1>4, <2>2, GenuineStays DEF PacketsInv
  <2> QED BY <2>1, <2>2
<1>5. Flow
  BY NextFlow
<1> QED BY <1>2, <1>3, <1>4, <1>5 DEF Flow

LEMMA NextTypes == TypeInv /\ [Next]_vars => TypeInv'
<1> SUFFICES ASSUME TypeInv, [Next]_vars PROVE TypeInv'
  OBVIOUS
<1> USE DEF TypeInv
<1>1. CASE BagsInv' /\ Shared' /\ UNCHANGED <<node, server>>
  <2>1. NodeTypeOK' /\ BoardsInv' /\ CrossingsInv'
    BY <1>1 DEF node, NodeTypeOK, BoardsInv, CrossingsInv
  <2>3. ServerInv'
    BY <1>1 DEF server, health, control, ServerInv, ServerTypeOK, HasPacket
  <2>4. PacketsInv'
    BY <2>1, PacketsStay
  <2>5. BootsInv'
    BY <1>1 DEF server, health, node, BootsInv
  <2> QED BY <1>1, <2>1, <2>3, <2>4, <2>5
<1>2. CASE UNCHANGED vars \/ ((Tick \/ Duplicate) /\ UNCHANGED <<node, server>>)
  <2>1. CASE UNCHANGED vars \/ (Tick /\ UNCHANGED <<node, server>>)
    BY <1>1, <2>1, DatagramConstants DEF vars, Tick, links, BagsInv, Shared
  <2>2. CASE Duplicate /\ UNCHANGED <<node, server>>
    <3>1. Shared' /\ UNCHANGED <<node, server>>
      BY <2>2, DatagramConstants DEF Duplicate, Stimulus, Shared
    <3>2. BagsInv'
      <4>1. ASSUME NEW p \in BagToSet(net), net' = net (+) SetToBag({p}), UNCHANGED replies
            PROVE  BagsInv'
        <5>1. IsABag(net') /\ BagToSet(net') = BagToSet(net) \cup {p}
          BY <4>1, OneMore DEF BagsInv
        <5> QED BY <4>1, <5>1 DEF BagsInv
      <4>2. ASSUME NEW c \in BagToSet(replies), replies' = replies (+) SetToBag({c}), UNCHANGED net
            PROVE  BagsInv'
        <5>1. IsABag(replies') /\ BagToSet(replies') = BagToSet(replies) \cup {c}
          BY <4>2, OneMore DEF BagsInv
        <5> QED BY <4>2, <5>1 DEF BagsInv
      <4> QED BY <2>2, <4>1, <4>2 DEF Duplicate
    <3> QED BY <1>1, <3>1, <3>2
  <2> QED BY <1>2, <2>1, <2>2
<1>3. ASSUME NEW s \in Sensors, NodeStep(s), UNCHANGED server
      PROVE  TypeInv'
  <2>1. NodeTypeOK' /\ BoardsInv' /\ BagsInv' /\ Shared'
    BY <1>3, NodeStepTypes
  <2>2. CrossingsInv'
    BY <1>3, CrossingsStay
  <2>3. PacketsInv'
    BY <2>1, PacketsStay
  <2>4. ServerInv'
    BY <1>3 DEF server, health, control, ServerInv, ServerTypeOK, HasPacket
  <2>5. BootsInv'
    <3>1. BoardsGrow /\ UNCHANGED sensors
      BY <1>3, StepsGrow DEF server, health
    <3>2. \A t \in Sensors : /\ sensors[t] # Unknown => sensors[t].boot \in Nat
                             /\ identity[t].boot \in Nat /\ identity'[t].boot \in Nat
      BY <2>1 DEF ServerInv, ServerTypeOK, SensorState, NodeTypeOK
    <3> QED BY <3>1, <3>2 DEF BootsInv, BoardsGrow, Later
  <2> QED BY <2>1, <2>2, <2>3, <2>4, <2>5
<1>4. CASE ServerStep /\ UNCHANGED node
  <2>1. NodeTypeOK' /\ BoardsInv' /\ CrossingsInv'
    BY <1>4 DEF node, NodeTypeOK, BoardsInv, CrossingsInv
  <2>2. \A p \in BagToSet(net) \cup ToSet(work) : p \in Packets /\ p.key.boot > 0
    BY DEF PacketsInv, Circulating, Genuine, Packets, Keys
  <2>3. ServerInv' /\ BagsInv' /\ Shared'
    BY <1>4, <2>2, ServerStepTypes
  <2>4. PacketsInv'
    BY <2>1, PacketsStay
  <2>5. BootsInv'
    <3>1. CASE TakeHeartbeat
      <4> DEFINE key == Head(work).key
      <4>1. work # <<>> /\ sensors' = [ sensors EXCEPT ![key.sensor] = RecordHeartbeat(@, key) ]
        BY <3>1 DEF TakeHeartbeat
      <4>2. Head(work) \in ToSet(work)
        BY <4>1, HeadAndTail DEF ServerInv, ServerTypeOK
      <4>3. Genuine(Head(work))
        BY <4>2 DEF PacketsInv, Circulating
      <4>4. key.boot <= identity[key.sensor].boot
        BY <4>3 DEF Genuine
      <4>5. RecordHeartbeat(sensors[key.sensor], key).boot = key.boot
        BY DEF RecordHeartbeat
      <4>6. sensors \in [ Sensors -> {Unknown} \cup SensorState ] /\ UNCHANGED identity
        BY <1>4 DEF ServerInv, ServerTypeOK, node
      <4> HIDE DEF key
      <4> QED BY <4>1, <4>4, <4>5, <4>6 DEF BootsInv
    <3>2. CASE \A s \in Sensors : sensors'[s] = sensors[s] \/ sensors'[s] = Unknown
      BY <1>4, <3>2 DEF BootsInv, node
    <3>3. CASE TakeForget
      BY <3>2, <3>3 DEF TakeForget, health, ServerInv, ServerTypeOK
    <3>4. CASE Restart
      BY <3>2, <3>4 DEF Restart
    <3>5. CASE ~(TakeHeartbeat \/ TakeForget \/ Restart)
      <4>1. UNCHANGED sensors
        BY <1>4, <3>5 DEF ServerStep, Dispatch, health, Receive, CloseSocket, TakeTrigger, RecordTrigger, RecordFails,
           PairTrigger, EmitStatus, SendReply, AskToForget, GiveUp, TakeAnswer, SendForget, SwitchEvent, SetLockout
      <4> QED BY <3>2, <4>1
    <3> QED BY <3>1, <3>3, <3>4, <3>5
  <2> QED BY <2>1, <2>3, <2>4, <2>5
<1> QED BY <1>1, <1>2, <1>3, <1>4 DEF Next

(* Every variable of the chain stays within its type: among others, the    *)
(* rings stay below their slots, the channels within their capacity and    *)
(* the windows within HbWindow.                                            *)
THEOREM TypesAreCorrect == Spec => []TypeOK
<1>1. TypeInv => TypeOK
  BY DEF TypeInv, TypeOK, ServerInv, Shared, BagsInv
<1> QED BY InitTypes, NextTypes, <1>1, PTL DEF Spec

-----------------------------------------------------------------------------
(* A sensor just heard of is not one that is unknown.                      *)
LEMMA HeartbeatIsOfKnown ==
  ASSUME PacketsInv, work \in Seq(Packets), work # <<>>,
         NEW st
  PROVE  RecordHeartbeat(st, Head(work).key) # Unknown
<1>1. Head(work) \in ToSet(work)
  BY HeadAndTail
<1>2. Head(work).key.boot # 0
  BY <1>1 DEF PacketsInv, Circulating, Genuine
<1> QED BY <1>2 DEF RecordHeartbeat, Unknown

(* The report is of sensors that are known, after every step.              *)
LEMMA NextStatus == TypeInv /\ StatusListsKnown /\ [Next]_vars => StatusListsKnown'
<1> SUFFICES ASSUME TypeInv, StatusListsKnown, [Next]_vars PROVE StatusListsKnown'
  OBVIOUS
<1>a. /\ PacketsInv /\ work \in Seq(Packets)
      /\ sensors \in [ Sensors -> {Unknown} \cup SensorState ] /\ DOMAIN status \subseteq Sensors
  BY DEF TypeInv, ServerInv, ServerTypeOK
<1>1. CASE UNCHANGED health
  BY <1>1 DEF health, StatusListsKnown
<1>2. CASE TakeHeartbeat
  <2> DEFINE rb(st) == RecordHeartbeat(st, Head(work).key)
  <2>1. /\ work # <<>> /\ status' = status
        /\ sensors' = [ sensors EXCEPT ![Head(work).key.sensor] = rb(@) ]
    BY <1>2 DEF TakeHeartbeat
  <2>2. \A st : rb(st) # Unknown
    BY <1>a, <2>1, HeartbeatIsOfKnown
  <2> HIDE DEF rb
  <2> QED BY <1>a, <2>1, <2>2 DEF StatusListsKnown
<1>3. CASE EmitStatus
  BY <1>3 DEF EmitStatus, StatusOf, StatusListsKnown
<1>4. CASE TakeForget
  <2>1. UNCHANGED health \/ status' = StatusOf(sensors')
    BY <1>4 DEF TakeForget
  <2> QED BY <1>1, <2>1 DEF StatusOf, StatusListsKnown
<1>5. CASE Restart
  BY <1>5 DEF Restart, StatusListsKnown
<1>6. CASE ServerStep /\ ~(TakeHeartbeat \/ EmitStatus \/ TakeForget \/ Restart)
  BY <1>1, <1>6 DEF ServerStep, Dispatch, Receive, CloseSocket, TakeTrigger, RecordTrigger, RecordFails, PairTrigger,
     SendReply, AskToForget, GiveUp, TakeAnswer, SendForget, SwitchEvent, SetLockout
<1> QED BY <1>1, <1>2, <1>3, <1>4, <1>5, <1>6 DEF Next, server, vars

(* The report on display lists no sensor that the dispatcher has           *)
(* forgotten, whenever the request to forget is carried out and whatever   *)
(* restarts (emitStatus, forgetSensor).                                    *)
THEOREM StatusIsOfKnown == Spec => []StatusListsKnown
<1>1. Init => StatusListsKnown
  BY DEF Init, InitServer, StatusListsKnown
<1> QED BY InitTypes, NextTypes, <1>1, NextStatus, PTL DEF Spec

-----------------------------------------------------------------------------
(* What a heartbeat leaves in the window: its number, and those before it  *)
(* of the same boot.                                                       *)
LEMMA RecordedWindow ==
  ASSUME NEW st \in {Unknown} \cup SensorState, NEW key \in Keys
  PROVE  \A q \in ToSet(RecordHeartbeat(st, key).seqs) :
           q = key.seq \/ (st # Unknown /\ st.boot = key.boot /\ q \in ToSet(st.seqs))
<1> DEFINE seqs == IF st = Unknown \/ st.boot # key.boot THEN <<>> ELSE st.seqs
           all  == Append(seqs, key.seq)
           kept == IF Len(all) > HbWindow THEN Tail(all) ELSE all
<1>1. seqs \in Seq(Nat) /\ key.seq \in Nat
  BY DEF SensorState, Keys
<1> HIDE DEF seqs
<1>2. all \in Seq(Nat) /\ all # <<>> /\ ToSet(all) \subseteq ToSet(seqs) \cup {key.seq}
  BY <1>1, SMTT(30) DEF ToSet
<1>3. ToSet(kept) \subseteq ToSet(all)
  BY <1>2, HeadAndTail
<1>4. RecordHeartbeat(st, key).seqs = kept
  BY DEF RecordHeartbeat, seqs
<1>5. \A q \in ToSet(seqs) : st # Unknown /\ st.boot = key.boot /\ q \in ToSet(st.seqs)
  BY DEF seqs, ToSet
<1> HIDE DEF kept, all
<1> QED BY <1>2, <1>3, <1>4, <1>5

LEMMA NextWindows == TypeInv /\ WindowIsOfOneBoot /\ [Next]_vars => WindowIsOfOneBoot'
<1> SUFFICES ASSUME TypeInv, WindowIsOfOneBoot, [Next]_vars PROVE WindowIsOfOneBoot'
  OBVIOUS
<1>a. /\ sensors \in [ Sensors -> {Unknown} \cup SensorState ] /\ work \in Seq(Packets)
      /\ identity \in [ Sensors -> [ boot : Nat, trigger : Nat, hb : Nat ] ]
  BY DEF TypeInv, ServerInv, ServerTypeOK, NodeTypeOK
<1>b. identity' \in [ Sensors -> [ boot : Nat, trigger : Nat, hb : Nat ] ]
  BY NextTypes DEF TypeInv, NodeTypeOK
<1>1. CASE \A s \in Sensors : sensors'[s] = sensors[s] \/ sensors'[s] = Unknown
  <2> SUFFICES ASSUME NEW s \in Sensors, sensors'[s] # Unknown, sensors'[s].boot = identity'[s].boot,
                      NEW q \in ToSet(sensors'[s].seqs)
               PROVE  q <= identity'[s].hb
    BY DEF WindowIsOfOneBoot
  <2>1. sensors'[s] = sensors[s] /\ sensors[s] \in SensorState
    BY <1>1, <1>a
  <2>2. q \in Nat /\ sensors[s].boot \in Nat
    BY <2>1 DEF SensorState, ToSet
  <2>3. sensors[s].boot <= identity[s].boot /\ Later(s)
    BY <2>1, StepsGrow DEF TypeInv, BootsInv, BoardsGrow
  <2>4. identity[s].boot \in Nat /\ identity[s].hb \in Nat /\ identity'[s].boot \in Nat /\ identity'[s].hb \in Nat
    BY <1>a, <1>b
  <2>5. sensors[s].boot = identity[s].boot /\ identity'[s].hb >= identity[s].hb
    BY <2>1, <2>2, <2>3, <2>4 DEF Later
  <2>6. q <= identity[s].hb
    BY <2>1, <2>5 DEF WindowIsOfOneBoot
  <2> QED BY <2>2, <2>4, <2>5, <2>6
<1>2. CASE TakeHeartbeat /\ UNCHANGED identity
  <2> DEFINE key == Head(work).key
  <2>1. /\ work # <<>> /\ Head(work).type = "hb"
        /\ sensors' = [ sensors EXCEPT ![key.sensor] = RecordHeartbeat(@, key) ]
    BY <1>2 DEF TakeHeartbeat
  <2>2. Head(work) \in ToSet(work)
    BY <1>a, <2>1, HeadAndTail
  <2>3. Genuine(Head(work))
    BY <2>2 DEF TypeInv, PacketsInv, Circulating
  <2>4. /\ key \in Keys /\ key.sensor \in Sensors
        /\ key.boot = identity[key.sensor].boot => key.seq <= identity[key.sensor].hb
    BY <2>1, <2>3 DEF Genuine, Packets, Keys
  <2>5. /\ \A q \in ToSet(RecordHeartbeat(sensors[key.sensor], key).seqs) :
             q = key.seq \/ (/\ sensors[key.sensor] # Unknown /\ sensors[key.sensor].boot = key.boot
                             /\ q \in ToSet(sensors[key.sensor].seqs))
        /\ RecordHeartbeat(sensors[key.sensor], key).boot = key.boot
    BY <1>a, <2>4, RecordedWindow DEF RecordHeartbeat
  <2> HIDE DEF key
  <2> QED BY <1>2, <1>a, <2>1, <2>4, <2>5 DEF WindowIsOfOneBoot
<1>3. CASE TakeForget \/ Restart
  <2>1. \A s \in Sensors : sensors'[s] = sensors[s] \/ sensors'[s] = Unknown
    BY <1>a, <1>3 DEF TakeForget, Restart, health
  <2> QED BY <1>1, <2>1
<1>4. CASE UNCHANGED sensors
  BY <1>1, <1>4
<1>5. CASE ServerStep /\ ~(TakeHeartbeat \/ TakeForget \/ Restart)
  BY <1>4, <1>5 DEF ServerStep, Dispatch, Receive, CloseSocket, TakeTrigger, RecordTrigger, RecordFails, PairTrigger,
     EmitStatus, SendReply, AskToForget, GiveUp, TakeAnswer, SendForget, SwitchEvent, SetLockout, health
<1> QED BY <1>2, <1>3, <1>4, <1>5 DEF Next, server, vars, health, node

(* The window that the loss rate is computed from is of one boot: of the   *)
(* boot the board is in, it holds no number the board has not reached,     *)
(* whatever comes late, out of order or twice, and whatever reboots or     *)
(* restarts (recordHeartbeat).                                             *)
THEOREM WindowsAreOfOneBoot == Spec => []WindowIsOfOneBoot
<1>1. Init => WindowIsOfOneBoot
  BY DEF Init, InitServer, WindowIsOfOneBoot
<1> QED BY InitTypes, NextTypes, <1>1, NextWindows, PTL DEF Spec

-----------------------------------------------------------------------------
(* A request that was sent is in one place: in the channel, in the         *)
(* dispatcher's hand, answered, or done with; and what is said of it       *)
(* there is true.  Its caller has asked, and has been told nothing yet.    *)
AskedOnly(c) == caller[c] \in {"waiting", "unavailable"}

ForgetInv ==
  /\ \A i \in DOMAIN forget :
       /\ AskedOnly(forget[i].caller) /\ answer[forget[i].caller] = "none"
       /\ forget[i].caller \notin dropped
       /\ hand.at = "forgot" => hand.caller # forget[i].caller
       /\ \A j \in DOMAIN forget : forget[j].caller = forget[i].caller => j = i
  /\ hand.at = "forgot" =>
       /\ AskedOnly(hand.caller) /\ answer[hand.caller] = "none"
       /\ hand.verdict = "ok" <=> hand.caller \in dropped
  /\ \A c \in Callers : answer[c] # "none" =>
       /\ AskedOnly(c)
       /\ answer[c] = "ok" <=> c \in dropped

AnswersInv == ForgetInv /\ AnswersAreTrue

LEMMA InitAnswers == Init => AnswersInv
BY DEF Init, InitServer, AnswersInv, ForgetInv, AnswersAreTrue, Idle

(* Steps of others, that only may take something else into the hand.       *)
LEMMA NothingAnswered ==
  ASSUME AnswersInv, UNCHANGED control, hand' = hand \/ hand'.at # "forgot"
  PROVE  AnswersInv'
BY DEF AnswersInv, ForgetInv, AnswersAreTrue, AskedOnly, control

LEMMA NextAnswers == TypeInv /\ AnswersInv /\ [Next]_vars => AnswersInv'
<1> SUFFICES ASSUME TypeInv, AnswersInv, [Next]_vars PROVE AnswersInv'
  OBVIOUS
<1>a. /\ forget \in Seq([ caller : Callers, sensor : Sensors ]) /\ hand \in Hands
      /\ caller \in [ Callers -> {"idle", "asking", "waiting", "unavailable", "gone"} \cup Verdicts ]
      /\ answer \in [ Callers -> {"none"} \cup Verdicts ] /\ dropped \subseteq Callers
  BY DEF TypeInv, ServerInv, ServerTypeOK
<1>b. \A i \in DOMAIN forget : forget[i].caller \in Callers
  <2>1. forget \in Seq([ caller : Callers, sensor : Sensors ])
    BY <1>a
  <2>2. \A i \in DOMAIN forget : forget[i] \in [ caller : Callers, sensor : Sensors ]
    BY <2>1, ElementsOf
  <2> QED BY <2>2
<1>c. hand.at = "forgot" => hand.caller \in Callers /\ hand.verdict \in Verdicts
  BY <1>a DEF Hands, Idle
<1> USE DEF AnswersInv, AskedOnly
<1>1. CASE TakeForget
  <2> DEFINE c == Head(forget).caller
             v == ForgetVerdict(Head(forget).sensor)
  <2>1. /\ forget # <<>> /\ forget' = Tail(forget)
        /\ dropped' = IF v = "ok" THEN dropped \cup {c} ELSE dropped
        /\ hand' = [ at |-> "forgot", caller |-> c, verdict |-> v ]
        /\ UNCHANGED <<caller, answer>>
    BY <1>1 DEF TakeForget
  <2>2. /\ 1 \in DOMAIN forget /\ Head(forget) = forget[1]
        /\ \A i \in DOMAIN forget' : /\ i + 1 \in DOMAIN forget /\ i + 1 # 1
                                     /\ forget'[i] = forget[i + 1]
        /\ \A i, j \in DOMAIN forget' : i + 1 = j + 1 => i = j
    <3>1. forget # <<>> /\ forget' = Tail(forget)
      BY <2>1
    <3>2. /\ 1 \in DOMAIN forget /\ Head(forget) = forget[1]
          /\ \A i \in DOMAIN Tail(forget) : i \in Nat \ {0}
      BY <1>a, <3>1
    <3> QED BY <1>a, <3>1, <3>2, HeadAndTail
  <2>3. /\ c \in Callers /\ AskedOnly(c) /\ answer[c] = "none" /\ c \notin dropped
        /\ \A i \in DOMAIN forget : i # 1 => forget[i].caller # c
    BY <1>b, <2>2 DEF ForgetInv
  <2>4. hand'.at = "forgot" /\ hand'.caller = c /\ hand'.verdict = v
    BY <2>1
  <2> HIDE DEF c, v
  <2>5. ForgetInv'
    <3>1. \A i \in DOMAIN forget' :
            /\ AskedOnly(forget'[i].caller) /\ answer[forget'[i].caller] = "none"
            /\ forget'[i].caller \notin dropped /\ forget'[i].caller # c
            /\ \A j \in DOMAIN forget' : forget'[j].caller = forget'[i].caller => j = i
      BY <2>2, <2>3 DEF ForgetInv
    <3>2. \A i \in DOMAIN forget' : forget'[i].caller \notin dropped'
      BY <2>1, <3>1
    <3>3. v = "ok" <=> c \in dropped'
      BY <2>1, <2>3
    <3>4. \A d \in Callers : answer[d] # "none" => AskedOnly(d) /\ (answer[d] = "ok" <=> d \in dropped')
      BY <2>1, <2>3 DEF ForgetInv
    <3> QED BY <2>1, <2>3, <2>4, <3>1, <3>2, <3>3, <3>4 DEF ForgetInv
  <2>6. AnswersAreTrue'
    BY <2>1, <2>3 DEF AnswersAreTrue
  <2> QED BY <2>5, <2>6
<1>2. CASE SendReply
  <2>1. /\ hand.at = "forgot" /\ answer' = [ answer EXCEPT ![hand.caller] = hand.verdict ] /\ hand' = Idle
        /\ UNCHANGED <<forget, caller, dropped>>
    BY <1>2 DEF SendReply
  <2>2. Idle.at # "forgot"
    BY DEF Idle
  <2>3. \A d \in Callers : answer'[d] = IF d = hand.caller THEN hand.verdict ELSE answer[d]
    BY <1>a, <2>1
  <2> QED BY <1>b, <1>c, <2>1, <2>2, <2>3 DEF ForgetInv, AnswersAreTrue
<1>3. ASSUME NEW c \in Callers, AskToForget(c) \/ GiveUp(c) PROVE AnswersInv'
  <2>1. UNCHANGED <<forget, answer, dropped, hand>>
    BY <1>3 DEF AskToForget, GiveUp
  <2>2. \/ caller[c] = "idle" /\ caller' = [ caller EXCEPT ![c] = "asking" ]
        \/ caller[c] \in {"asking", "waiting"} /\ caller' = [ caller EXCEPT ![c] = "unavailable" ]
    BY <1>3 DEF AskToForget, GiveUp
  <2>3. /\ caller'[c] \in {"asking", "unavailable"} /\ \A d \in Callers \ {c} : caller'[d] = caller[d]
        /\ AskedOnly(c) => AskedOnly(c)'
        /\ caller'[c] = "asking" => c \notin dropped
    BY <1>a, <2>2 DEF AnswersAreTrue
  <2>4. \A d \in Callers : AskedOnly(d) => AskedOnly(d)'
    BY <2>3
  <2>5. ForgetInv'
    BY <1>b, <1>c, <2>1, <2>4 DEF ForgetInv
  <2>6. AnswersAreTrue'
    BY <2>1, <2>3 DEF AnswersAreTrue
  <2> QED BY <2>5, <2>6
<1>4. ASSUME NEW c \in Callers, NEW s \in Sensors, SendForget(c, s) PROVE AnswersInv'
  <2> DEFINE e == [ caller |-> c, sensor |-> s ]
             n == Len(forget) + 1
  <2>1. /\ caller[c] = "asking" /\ forget' = Append(forget, e)
        /\ caller' = [ caller EXCEPT ![c] = "waiting" ]
        /\ UNCHANGED <<answer, dropped, hand>>
    BY <1>4 DEF SendForget
  <2>2. e \in [ caller : Callers, sensor : Sensors ] /\ e.caller = c
    OBVIOUS
  <2> HIDE DEF e
  <2>3. /\ DOMAIN forget' = DOMAIN forget \cup {n} /\ n \notin DOMAIN forget /\ forget'[n] = e
        /\ \A i \in DOMAIN forget : forget'[i] = forget[i]
    BY <1>a, <2>1, <2>2
  <2> HIDE DEF n
  <2>4. /\ c \notin dropped /\ answer[c] = "none" /\ ~(hand.at = "forgot" /\ hand.caller = c)
        /\ \A i \in DOMAIN forget : forget[i].caller # c
    BY <2>1 DEF ForgetInv, AnswersAreTrue
  <2>5. caller'[c] = "waiting" /\ \A d \in Callers \ {c} : caller'[d] = caller[d]
    BY <1>a, <2>1
  <2>6. ForgetInv'
    <3>1. ASSUME NEW i \in DOMAIN forget'
          PROVE  /\ caller'[forget'[i].caller] \in {"waiting", "unavailable"} /\ answer[forget'[i].caller] = "none"
                 /\ forget'[i].caller \notin dropped
                 /\ hand.at = "forgot" => hand.caller # forget'[i].caller
                 /\ \A j \in DOMAIN forget' : forget'[j].caller = forget'[i].caller => j = i
      <4>1. CASE i = n
        BY <2>2, <2>3, <2>4, <2>5, <4>1
      <4>2. CASE i # n
        <5>1. i \in DOMAIN forget /\ forget'[i] = forget[i]
          BY <2>3, <4>2
        <5> QED BY <1>b, <2>2, <2>3, <2>4, <2>5, <5>1 DEF ForgetInv
      <4> QED BY <4>1, <4>2
    <3>2. hand.at = "forgot" => AskedOnly(hand.caller)'
      BY <1>c, <2>1, <2>4, <2>5 DEF ForgetInv
    <3>3. \A d \in Callers : answer[d] # "none" => AskedOnly(d)'
      BY <2>4, <2>5 DEF ForgetInv
    <3> QED BY <2>1, <3>1, <3>2, <3>3 DEF ForgetInv
  <2>7. AnswersAreTrue'
    BY <2>1, <2>5 DEF AnswersAreTrue
  <2> QED BY <2>6, <2>7
<1>5. ASSUME NEW c \in Callers, TakeAnswer(c) PROVE AnswersInv'
  <2>1. /\ answer[c] # "none"
        /\ caller' = [ caller EXCEPT ![c] = answer[c] ]
        /\ answer' = [ answer EXCEPT ![c] = "none" ]
        /\ UNCHANGED <<forget, dropped, hand>>
    BY <1>5 DEF TakeAnswer
  <2>2. /\ caller'[c] = answer[c] /\ answer'[c] = "none"
        /\ \A d \in Callers \ {c} : caller'[d] = caller[d] /\ answer'[d] = answer[d]
    BY <1>a, <2>1
  <2>3. answer[c] \in {"ok", "alive", "unknown"} /\ (answer[c] = "ok" <=> c \in dropped)
    BY <1>a, <2>1 DEF ForgetInv, Verdicts
  <2>4. ForgetInv'
    <3>1. (\A i \in DOMAIN forget : forget[i].caller # c) /\ (hand.at = "forgot" => hand.caller # c)
      BY <2>1 DEF ForgetInv
    <3> QED BY <1>b, <1>c, <2>1, <2>2, <3>1 DEF ForgetInv
  <2>5. AnswersAreTrue'
    BY <2>1, <2>2, <2>3 DEF AnswersAreTrue
  <2> QED BY <2>4, <2>5
<1>6. CASE Restart
  <2>1. /\ forget' = <<>> /\ hand' = Idle /\ dropped' = dropped
        /\ caller' = [ d \in Callers |-> IF caller[d] \in {"asking", "waiting"} THEN "gone" ELSE caller[d] ]
        /\ answer' = [ d \in Callers |-> "none" ]
    BY <1>6 DEF Restart
  <2>2. ForgetInv'
    BY <2>1 DEF ForgetInv, Idle
  <2>3. AnswersAreTrue'
    BY <2>1 DEF AnswersAreTrue
  <2> QED BY <2>2, <2>3
<1>7. CASE UNCHANGED server
  BY <1>7, NothingAnswered DEF server
<1>8. CASE Receive \/ CloseSocket \/ SwitchEvent \/ SetLockout \/ TakeHeartbeat \/ EmitStatus
  BY <1>8, NothingAnswered DEF Receive, CloseSocket, SwitchEvent, SetLockout, TakeHeartbeat, EmitStatus
<1>10. CASE TakeTrigger
  <2>1. hand'.at = "event_read" /\ UNCHANGED control
    BY <1>10 DEF TakeTrigger
  <2> QED BY <2>1, NothingAnswered
<1>9. CASE RecordTrigger \/ RecordFails \/ PairTrigger
  BY <1>9, NothingAnswered DEF RecordTrigger, RecordFails, PairTrigger, Idle
<1> QED BY <1>1, <1>2, <1>3, <1>4, <1>5, <1>6, <1>7, <1>8, <1>9, <1>10
        DEF Next, ServerStep, Dispatch, vars

(* An answer is to the request of the one who takes it, however many ask,  *)
(* whoever gives up and however late a request is carried out: "ok" is     *)
(* told of a sensor that was dropped for this caller, a refusal when none  *)
(* was (ForgetSensor, run).                                                *)
THEOREM AnswersAreOnesOwn == Spec => []AnswersAreTrue
<1>1. AnswersInv => AnswersAreTrue
  BY DEF AnswersInv
<1> QED BY InitTypes, NextTypes, InitAnswers, NextAnswers, <1>1, PTL DEF Spec

-----------------------------------------------------------------------------

(* Which crossing a trigger stands for: as long as its datagrams go round, *)
(* and when it has been settled.                                           *)
Mark(p) == [ key |-> p.key, crossing |-> p.crossing ]

Marks == { Mark(p) : p \in { q \in Circulating : q.type = "trigger" } }
           \cup { Mark(settled[i]) : i \in DOMAIN settled }

(* The steps that settle something.                                        *)
SettleStep ==
  \E how \in Ends : /\ Settle(hand.packet, how)
                    /\ HasPacket /\ hand.packet.key \notin SettledKeys
                    /\ UNCHANGED node

LEMMA NextSettles == SettledInv /\ [Next]_vars => UNCHANGED settled \/ SettleStep
<1> SUFFICES ASSUME SettledInv, [Next]_vars, settled' # settled PROVE SettleStep
  OBVIOUS
<1>1. UNCHANGED node /\ (RecordTrigger \/ PairTrigger)
  BY DEF Next, vars, server, ServerStep, Dispatch, Receive, CloseSocket, TakeTrigger, RecordFails, TakeHeartbeat,
     EmitStatus, TakeForget, SendReply, AskToForget, GiveUp, TakeAnswer, SendForget, SwitchEvent, SetLockout, Restart
<1>2. CASE RecordTrigger
  <2>1. ~Recorded(hand.packet.key) /\ Settle(hand.packet, "no_event") /\ hand.at = "event_read"
    BY <1>2 DEF RecordTrigger
  <2>2. hand.packet.key \notin SettledKeys
    BY <2>1 DEF SettledInv, TriggerSettledOnce, SettledKeys, Recorded
  <2> QED BY <1>1, <2>1, <2>2 DEF SettleStep, HasPacket, Ends
<1>3. CASE PairTrigger
  <2>1. (\E how \in Ends : Settle(hand.packet, how)) /\ hand.at = "recorded"
    BY <1>3 DEF PairTrigger, Ends
  <2>2. hand.packet.key \notin SettledKeys
    BY <2>1 DEF SettledInv
  <2> QED BY <1>1, <2>1, <2>2 DEF SettleStep, HasPacket
<1> QED BY <1>1, <1>2, <1>3

(* What such a step adds to the history.                                   *)
LEMMA SettledMarks ==
  ASSUME TypeInv, SettleStep
  PROVE  \E how \in Ends :
           /\ settled' = Append(settled, [ key |-> hand.packet.key, crossing |-> hand.packet.crossing, how |-> how ])
           /\ DOMAIN settled' = DOMAIN settled \cup {Len(settled) + 1}
           /\ Len(settled) + 1 \notin DOMAIN settled
           /\ settled'[Len(settled) + 1].key = hand.packet.key
           /\ settled'[Len(settled) + 1].crossing = hand.packet.crossing
           /\ settled'[Len(settled) + 1].how = how
           /\ \A i \in DOMAIN settled : settled'[i] = settled[i]
           /\ hand.packet \in Circulating /\ hand.packet.type = "trigger"
<1>1. PICK how \in Ends : Settle(hand.packet, how) /\ HasPacket
  BY DEF SettleStep
<1> DEFINE e == [ key |-> hand.packet.key, crossing |-> hand.packet.crossing, how |-> how ]
<1>2. settled \in Seq([ key : Keys, crossing : Nat, how : Ends ]) /\ settled' = Append(settled, e)
  BY <1>1 DEF TypeInv, ServerInv, ServerTypeOK, Settle
<1>3. hand.packet \in Circulating /\ hand.packet.type = "trigger"
  BY <1>1 DEF Circulating, TypeInv, ServerInv
<1>4. e.key = hand.packet.key /\ e.crossing = hand.packet.crossing /\ e.how = how
  OBVIOUS
<1> HIDE DEF e
<1>5. /\ DOMAIN settled' = DOMAIN settled \cup {Len(settled) + 1}
      /\ Len(settled) + 1 \notin DOMAIN settled
      /\ settled'[Len(settled) + 1] = e
      /\ \A i \in DOMAIN settled : settled'[i] = settled[i]
  BY <1>2
<1> QED BY <1>1, <1>2, <1>3, <1>4, <1>5 DEF e

(* A new mark is made only where a board takes an edge.                    *)
LEMMA NextMarks ==
  ASSUME TypeInv, SettledInv, [Next]_vars
  PROVE  \/ Marks' \subseteq Marks
         \/ \E s \in Sensors : DrainEdge(s) /\ Taken(s) /\ Marks' \subseteq Marks \cup {Mark(Numbered(s))}
<1>1. \A i \in DOMAIN settled' : Mark(settled'[i]) \in Marks
  <2>1. CASE UNCHANGED settled
    BY <2>1 DEF Marks
  <2>2. CASE SettleStep
    BY <2>2, SettledMarks DEF Marks, Mark
  <2> QED BY <2>1, <2>2, NextSettles
<1>2. Flow
  BY NextFlow DEF TypeInv
<1>3. CASE Circulating' \subseteq Circulating
  BY <1>1, <1>3 DEF Marks
<1>4. CASE \E s \in Sensors : DrainEdge(s) /\ Taken(s) /\ Circulating' \subseteq Circulating \cup {Numbered(s)}
  BY <1>1, <1>4 DEF Marks
<1>5. CASE \E s \in Sensors : Circulating' \subseteq Circulating \cup {Beat(s)}
  BY <1>1, <1>5 DEF Marks, Beat, Heartbeat
<1> QED BY <1>2, <1>3, <1>4, <1>5 DEF Flow

(* A crossing is numbered once: two triggers of one crossing are one.      *)
MarksInv ==
  /\ \A m \in Marks : m.crossing \in 1 .. crossings
  /\ \A m, n \in Marks : m.crossing = n.crossing => m.key = n.key

(* What is left in a ring of a crossing that has been numbered is within   *)
(* an echo of the last edge accepted; the edges of one crossing are in one *)
(* ring, and within an echo of each other.                                 *)
EdgesInv ==
  \A s \in Sensors : \A i \in DOMAIN ring[s] :
    /\ \A m \in Marks : m.crossing = ring[s][i].crossing =>
         lockout[s].last # Never /\ ring[s][i].at - lockout[s].last <= Echo
    /\ \A j \in DOMAIN ring[s] :
         i < j /\ ring[s][i].crossing = ring[s][j].crossing => ring[s][j].at - ring[s][i].at <= Echo
    /\ \A t \in Sensors \ {s} : \A j \in DOMAIN ring[t] : ring[t][j].crossing # ring[s][i].crossing

(* The same for a car that may still bounce.                               *)
BeamInv ==
  \A s \in Sensors : car[s] # NoCar =>
    /\ \A m \in Marks : m.crossing = car[s].id =>
         lockout[s].last # Never /\ lockout[s].last >= car[s].at
    /\ \A i \in DOMAIN ring[s] : ring[s][i].crossing = car[s].id => ring[s][i].at >= car[s].at
    /\ \A t \in Sensors \ {s} : /\ \A i \in DOMAIN ring[t] : ring[t][i].crossing # car[s].id
                                /\ car[t].id # car[s].id
    /\ car[s].at <= now

CarsInv == MarksInv /\ EdgesInv /\ BeamInv /\ crossings <= stimuli

LEMMA InitCars == Init => CarsInv
<1> SUFFICES ASSUME Init PROVE CarsInv
  OBVIOUS
<1>1. Marks = {}
  BY NoDatagrams DEF Init, InitDatagrams, InitNode, InitServer, Marks, Circulating, ToSet, Bursts, HasPacket, Idle
<1> QED BY <1>1 DEF Init, InitDatagrams, InitNode, CarsInv, MarksInv, EdgesInv, BeamInv

(* Nothing happens to the rings, the lockouts and the beam.                *)
LEMMA BoardsRest ==
  ASSUME TypeInv, CarsInv, Marks' \subseteq Marks, UNCHANGED <<ring, car, crossings>>,
         stimuli' \in Nat, stimuli' >= stimuli, now' \in Nat, now' >= now,
         \A s \in Sensors : lockout'[s].last = lockout[s].last
  PROVE  CarsInv'
<1>1. crossings \in Nat /\ stimuli \in Nat
  BY DEF TypeInv, NodeTypeOK, Shared
<1>2. crossings' <= stimuli'
  BY <1>1 DEF CarsInv
<1>3. MarksInv'
  BY DEF CarsInv, MarksInv
<1>4. EdgesInv'
  BY DEF CarsInv, EdgesInv
<1>5. BeamInv'
  <2>1. now \in Nat /\ car \in [ Sensors -> [ id : Nat, at : Nat ] ]
    BY DEF TypeInv, NodeTypeOK, Shared
  <2>2. \A s \in Sensors : car[s] # NoCar => car[s].at <= now'
    BY <2>1 DEF CarsInv, BeamInv
  <2> QED BY <2>2 DEF CarsInv, BeamInv
<1> QED BY <1>2, <1>3, <1>4, <1>5 DEF CarsInv

(* A car crosses: one that nothing is known of yet.                        *)
LEMMA CrossKeepsCars ==
  ASSUME TypeInv, CarsInv, NEW s \in Sensors, Cross(s), Marks' \subseteq Marks
  PROVE  CarsInv'
<1> DEFINE new  == crossings + 1
           edge == [ at |-> now, crossing |-> new ]
<1>a. /\ crossings \in Nat /\ stimuli \in Nat /\ now \in Nat
      /\ lockout' = lockout /\ crossings' = new /\ stimuli' = stimuli + 1 /\ now' = now
      /\ car' = [ car EXCEPT ![s] = [ id |-> new, at |-> now ] ]
      /\ car \in [ Sensors -> [ id : Nat, at : Nat ] ]
      /\ PushFromIsr(s, edge)
  BY DEF TypeInv, NodeTypeOK, Shared, Cross, Stimulus
<1>b. \A t \in Sensors : /\ \A i \in DOMAIN ring[t] : ring[t][i].crossing \in 1 .. crossings
                         /\ car[t] # NoCar => car[t].id \in 1 .. crossings
  BY DEF TypeInv, CrossingsInv
<1>c. \A m \in Marks' : m \in Marks /\ m.crossing \in 1 .. crossings
  BY DEF CarsInv, MarksInv
<1>1. /\ \A t \in Sensors : t # s => ring'[t] = ring[t]
      /\ \/ ring'[s] = ring[s]
         \/ /\ DOMAIN ring'[s] = DOMAIN ring[s] \cup {Len(ring[s]) + 1}
            /\ ring'[s][Len(ring[s]) + 1] = edge
            /\ \A i \in DOMAIN ring[s] : ring'[s][i] = ring[s][i] /\ i < Len(ring[s]) + 1
  <2>1. edge \in Edges /\ NodeTypeOK
    BY <1>a DEF Edges, TypeInv
  <2> QED BY <1>a, <2>1, PushedEdges
<1>2. crossings' <= stimuli'
  BY <1>a DEF CarsInv
<1>3. MarksInv'
  BY <1>a, <1>c DEF CarsInv, MarksInv
<1>4. \A t \in Sensors : \A i \in DOMAIN ring'[t] :
        \/ i \in DOMAIN ring[t] /\ ring'[t][i] = ring[t][i]
        \/ t = s /\ i = Len(ring[s]) + 1 /\ ring'[t][i] = edge
  BY <1>1
<1>d. \A t \in Sensors : Len(ring[t]) \in Nat /\ \A i \in DOMAIN ring[t] : i \in Nat /\ i <= Len(ring[t])
  <2>1. \A t \in Sensors : ring[t] \in Seq(Edges)
    BY DEF TypeInv, NodeTypeOK
  <2> QED BY <2>1
<1>e. edge.crossing = new /\ edge.at = now
  OBVIOUS
<1> HIDE DEF edge
<1>5. EdgesInv'
  <2> SUFFICES ASSUME NEW t \in Sensors, NEW i \in DOMAIN ring'[t]
               PROVE  /\ \A m \in Marks' : m.crossing = ring'[t][i].crossing =>
                           lockout[t].last # Never /\ ring'[t][i].at - lockout[t].last <= Echo
                      /\ \A j \in DOMAIN ring'[t] :
                           i < j /\ ring'[t][i].crossing = ring'[t][j].crossing => ring'[t][j].at - ring'[t][i].at <= Echo
                      /\ \A u \in Sensors \ {t} : \A j \in DOMAIN ring'[u] : ring'[u][j].crossing # ring'[t][i].crossing
    BY <1>a DEF EdgesInv
  <2>1. CASE i \in DOMAIN ring[t] /\ ring'[t][i] = ring[t][i]
    <3>1. ring[t][i].crossing # new
      BY <1>a, <1>b, <2>1
    <3> QED BY <1>c, <1>e, <1>4, <2>1, <3>1 DEF CarsInv, EdgesInv
  <2>2. CASE t = s /\ i = Len(ring[s]) + 1 /\ ring'[t][i] = edge
    <3>1. \A j \in DOMAIN ring'[t] : ~(i < j)
      BY <1>d, <1>4, <2>2
    <3>2. \A u \in Sensors \ {t} : \A j \in DOMAIN ring'[u] : ring'[u][j].crossing \in 1 .. crossings
      BY <1>b, <1>4, <2>2
    <3> QED BY <1>a, <1>c, <1>e, <2>2, <3>1, <3>2
  <2> QED BY <1>4, <2>1, <2>2
<1>6. BeamInv'
  <2> SUFFICES ASSUME NEW t \in Sensors, car'[t] # NoCar
               PROVE  /\ \A m \in Marks' : m.crossing = car'[t].id =>
                           lockout[t].last # Never /\ lockout[t].last >= car'[t].at
                      /\ \A i \in DOMAIN ring'[t] : ring'[t][i].crossing = car'[t].id => ring'[t][i].at >= car'[t].at
                      /\ \A u \in Sensors \ {t} : /\ \A i \in DOMAIN ring'[u] : ring'[u][i].crossing # car'[t].id
                                                  /\ car'[u].id # car'[t].id
                      /\ car'[t].at <= now'
    BY <1>a DEF BeamInv
  <2>c. car'[s].id = new /\ car'[s].at = now /\ \A u \in Sensors : u # s => car'[u] = car[u]
    BY <1>a
  <2>d. \A u \in Sensors : car[u].id # new
    BY <1>a, <1>b DEF NoCar
  <2>1. CASE t = s
    <3>1. \A m \in Marks' : m.crossing # car'[t].id
      BY <1>a, <1>c, <2>c, <2>1
    <3>2. \A i \in DOMAIN ring'[t] : ring'[t][i].crossing = car'[t].id => ring'[t][i].at >= car'[t].at
      <4> SUFFICES ASSUME NEW i \in DOMAIN ring'[s], ring'[s][i].crossing = new PROVE ring'[s][i].at >= now
        BY <2>c, <2>1
      <4>1. CASE i \in DOMAIN ring[s] /\ ring'[s][i] = ring[s][i]
        BY <1>a, <1>b, <4>1
      <4>2. CASE ring'[s][i] = edge
        BY <1>a, <1>e, <4>2
      <4> QED BY <1>4, <4>1, <4>2
    <3>3. \A u \in Sensors \ {t} : \A i \in DOMAIN ring'[u] : ring'[u][i].crossing # car'[t].id
      BY <1>a, <1>b, <1>4, <2>c, <2>1
    <3> QED BY <1>a, <2>c, <2>d, <2>1, <3>1, <3>2, <3>3
  <2>2. CASE t # s
    <3>1. \A u \in Sensors : \A i \in DOMAIN ring'[u] : ring'[u][i].crossing = car[t].id =>
            i \in DOMAIN ring[u] /\ ring'[u][i] = ring[u][i]
      BY <1>e, <1>4, <2>d
    <3> QED BY <1>a, <1>c, <2>c, <2>d, <2>2, <3>1 DEF CarsInv, BeamInv
  <2> QED BY <2>1, <2>2
<1> QED BY <1>2, <1>3, <1>5, <1>6 DEF CarsInv

(* The beam bounces while the car is in it or just after.                  *)
LEMMA BounceKeepsCars ==
  ASSUME TypeInv, CarsInv, NEW s \in Sensors, Bounce(s), Marks' \subseteq Marks
  PROVE  CarsInv'
<1> DEFINE edge == [ at |-> now, crossing |-> car[s].id ]
<1>a. /\ now \in Nat /\ Echo \in Nat
      /\ UNCHANGED <<now, lockout, crossings, stimuli, car>>
      /\ car \in [ Sensors -> [ id : Nat, at : Nat ] ]
      /\ lockout \in [ Sensors -> [ window : Nat, last : Nat \cup {Never} ] ]
      /\ car[s] # NoCar /\ now - car[s].at <= Echo
      /\ PushFromIsr(s, edge)
  BY NodeConstants DEF TypeInv, NodeTypeOK, Shared, Bounce
<1>b. \A t \in Sensors : /\ Len(ring[t]) \in Nat
                         /\ \A i \in DOMAIN ring[t] : i \in Nat /\ i <= Len(ring[t]) /\ ring[t][i] \in Edges
  <2>1. \A t \in Sensors : ring[t] \in Seq(Edges)
    BY DEF TypeInv, NodeTypeOK
  <2> QED BY <2>1
<1>1. /\ \A t \in Sensors : t # s => ring'[t] = ring[t]
      /\ \/ ring'[s] = ring[s]
         \/ /\ DOMAIN ring'[s] = DOMAIN ring[s] \cup {Len(ring[s]) + 1}
            /\ ring'[s][Len(ring[s]) + 1] = edge
            /\ \A i \in DOMAIN ring[s] : ring'[s][i] = ring[s][i] /\ i < Len(ring[s]) + 1
  <2>1. edge \in Edges /\ NodeTypeOK
    BY <1>a DEF Edges, TypeInv
  <2> QED BY <1>a, <2>1, PushedEdges
<1>2. \A t \in Sensors : \A i \in DOMAIN ring'[t] :
        \/ i \in DOMAIN ring[t] /\ ring'[t][i] = ring[t][i]
        \/ t = s /\ i = Len(ring[s]) + 1 /\ ring'[t][i] = edge
  BY <1>1
<1>e. edge.crossing = car[s].id /\ edge.at = now
  OBVIOUS
<1> HIDE DEF edge
<1>3. /\ \A m \in Marks' : m.crossing = car[s].id => lockout[s].last # Never /\ lockout[s].last >= car[s].at
      /\ \A i \in DOMAIN ring[s] : ring[s][i].crossing = car[s].id => ring[s][i].at >= car[s].at
      /\ \A t \in Sensors \ {s} : /\ \A i \in DOMAIN ring[t] : ring[t][i].crossing # car[s].id
                                  /\ car[t].id # car[s].id
  BY <1>a DEF CarsInv, BeamInv
<1>4. crossings' <= stimuli' /\ MarksInv'
  BY <1>a DEF CarsInv, MarksInv
<1>5. EdgesInv'
  <2> SUFFICES ASSUME NEW t \in Sensors, NEW i \in DOMAIN ring'[t]
               PROVE  /\ \A m \in Marks' : m.crossing = ring'[t][i].crossing =>
                           lockout[t].last # Never /\ ring'[t][i].at - lockout[t].last <= Echo
                      /\ \A j \in DOMAIN ring'[t] :
                           i < j /\ ring'[t][i].crossing = ring'[t][j].crossing => ring'[t][j].at - ring'[t][i].at <= Echo
                      /\ \A u \in Sensors \ {t} : \A j \in DOMAIN ring'[u] : ring'[u][j].crossing # ring'[t][i].crossing
    BY <1>a DEF EdgesInv
  <2>1. CASE i \in DOMAIN ring[t] /\ ring'[t][i] = ring[t][i]
    <3>1. \A m \in Marks' : m.crossing = ring'[t][i].crossing =>
            lockout[t].last # Never /\ ring'[t][i].at - lockout[t].last <= Echo
      BY <2>1 DEF CarsInv, EdgesInv
    <3>2. ASSUME NEW j \in DOMAIN ring'[t], i < j, ring'[t][i].crossing = ring'[t][j].crossing
          PROVE  ring'[t][j].at - ring'[t][i].at <= Echo
      <4>1. CASE j \in DOMAIN ring[t] /\ ring'[t][j] = ring[t][j]
        BY <2>1, <3>2, <4>1 DEF CarsInv, EdgesInv
      <4>2. CASE t = s /\ ring'[t][j] = edge
        <5>1. ring[t][i].at >= car[s].at
          BY <1>3, <1>e, <2>1, <3>2, <4>2
        <5>2. ring[t][i].at \in Nat /\ car[s].at \in Nat
          BY <1>a, <1>b, <2>1 DEF Edges
        <5> QED BY <1>a, <1>e, <2>1, <4>2, <5>1, <5>2
      <4> QED BY <1>2, <4>1, <4>2
    <3>3. ASSUME NEW u \in Sensors \ {t}, NEW j \in DOMAIN ring'[u]
          PROVE  ring'[u][j].crossing # ring'[t][i].crossing
      <4>1. CASE j \in DOMAIN ring[u] /\ ring'[u][j] = ring[u][j]
        BY <2>1, <4>1 DEF CarsInv, EdgesInv
      <4>2. CASE u = s /\ ring'[u][j] = edge
        BY <1>3, <1>e, <2>1, <4>2
      <4> QED BY <1>2, <4>1, <4>2
    <3> QED BY <3>1, <3>2, <3>3
  <2>2. CASE t = s /\ i = Len(ring[s]) + 1 /\ ring'[t][i] = edge
    <3>1. \A j \in DOMAIN ring'[t] : ~(i < j)
      BY <1>b, <1>2, <2>2
    <3>2. ASSUME NEW m \in Marks', m.crossing = car[s].id
          PROVE  lockout[s].last # Never /\ now - lockout[s].last <= Echo
      <4>1. lockout[s].last # Never /\ lockout[s].last >= car[s].at
        BY <1>3, <3>2
      <4>2. lockout[s].last \in Nat /\ car[s].at \in Nat
        BY <1>a, <4>1
      <4> QED BY <1>a, <4>1, <4>2
    <3>3. \A u \in Sensors \ {t} : \A j \in DOMAIN ring'[u] : ring'[u][j].crossing # car[s].id
      BY <1>2, <1>3, <2>2
    <3> QED BY <1>e, <2>2, <3>1, <3>2, <3>3
  <2> QED BY <1>2, <2>1, <2>2
<1>6. BeamInv'
  <2> SUFFICES ASSUME NEW t \in Sensors, car[t] # NoCar
               PROVE  /\ \A m \in Marks' : m.crossing = car[t].id =>
                           lockout[t].last # Never /\ lockout[t].last >= car[t].at
                      /\ \A i \in DOMAIN ring'[t] : ring'[t][i].crossing = car[t].id => ring'[t][i].at >= car[t].at
                      /\ \A u \in Sensors \ {t} : /\ \A i \in DOMAIN ring'[u] : ring'[u][i].crossing # car[t].id
                                                  /\ car[u].id # car[t].id
                      /\ car[t].at <= now
    BY <1>a DEF BeamInv
  <2>1. /\ \A m \in Marks' : m.crossing = car[t].id => lockout[t].last # Never /\ lockout[t].last >= car[t].at
        /\ \A i \in DOMAIN ring[t] : ring[t][i].crossing = car[t].id => ring[t][i].at >= car[t].at
        /\ \A u \in Sensors \ {t} : /\ \A i \in DOMAIN ring[u] : ring[u][i].crossing # car[t].id
                                    /\ car[u].id # car[t].id
        /\ car[t].at <= now
    BY DEF CarsInv, BeamInv
  <2>2. ASSUME NEW i \in DOMAIN ring'[t], ring'[t][i].crossing = car[t].id
        PROVE  ring'[t][i].at >= car[t].at
    <3>1. CASE i \in DOMAIN ring[t] /\ ring'[t][i] = ring[t][i]
      BY <2>1, <2>2, <3>1
    <3>2. CASE t = s /\ ring'[t][i] = edge
      <4>1. now \in Nat /\ car[t].at \in Nat
        BY <1>a
      <4> QED BY <1>e, <2>1, <3>2, <4>1
    <3> QED BY <1>2, <3>1, <3>2
  <2>3. ASSUME NEW u \in Sensors \ {t}, NEW i \in DOMAIN ring'[u]
        PROVE  ring'[u][i].crossing # car[t].id
    <3>1. CASE i \in DOMAIN ring[u] /\ ring'[u][i] = ring[u][i]
      BY <2>1, <3>1
    <3>2. CASE u = s /\ ring'[u][i] = edge
      BY <1>e, <2>1, <3>2
    <3> QED BY <1>2, <3>1, <3>2
  <2> QED BY <2>1, <2>2, <2>3
<1> QED BY <1>4, <1>5, <1>6 DEF CarsInv

(* An edge leaves the ring, and the lockout lets it pass or not.           *)
LEMMA DrainKeepsCars ==
  ASSUME TypeInv, CarsInv, NEW s \in Sensors, DrainEdge(s),
         \/ Marks' \subseteq Marks
         \/ Taken(s) /\ Marks' \subseteq Marks \cup {Mark(Numbered(s))}
  PROVE  CarsInv'
<1> DEFINE edge == ring[s][1]
<1>a. /\ UNCHANGED <<now, stimuli, car, crossings>>
      /\ ring[s] # <<>> /\ ring' = [ ring EXCEPT ![s] = Tail(@) ]
      /\ Echo \in Nat /\ NodeTypeOK
      /\ lockout \in [ Sensors -> [ window : Nat, last : Nat \cup {Never} ] ]
      /\ car \in [ Sensors -> [ id : Nat, at : Nat ] ]
  BY NodeConstants DEF DrainEdge, TypeInv, NodeTypeOK
<1>b. \A t \in Sensors : \A i \in DOMAIN ring[t] : ring[t][i].at \in Nat
  <2>1. \A t \in Sensors : ring[t] \in Seq(Edges)
    BY <1>a DEF NodeTypeOK
  <2>2. \A t \in Sensors : \A i \in DOMAIN ring[t] : ring[t][i] \in Edges
    BY <2>1
  <2> QED BY <2>2 DEF Edges
<1>c. car' = car /\ now' = now
  BY <1>a
<1>1. /\ \A t \in Sensors : t # s => ring'[t] = ring[t]
      /\ \A i \in DOMAIN ring'[s] : i + 1 \in DOMAIN ring[s] /\ ring'[s][i] = ring[s][i + 1]
      /\ 1 \in DOMAIN ring[s] /\ Head(ring[s]) = edge
      /\ DOMAIN ring[s] \subseteq Nat /\ DOMAIN ring'[s] \subseteq Nat \ {0}
  BY <1>a, DrainedEdges
<1>2. \A t \in Sensors : \A i \in DOMAIN ring'[t] :
        \E k \in DOMAIN ring[t] : ring'[t][i] = ring[t][k] /\ (t = s => k = i + 1)
  BY <1>1
<1>3. \A t \in Sensors : \A i, j \in DOMAIN ring'[t] :
        i < j /\ ring'[t][i].crossing = ring'[t][j].crossing => ring'[t][j].at - ring'[t][i].at <= Echo
  <2>1. ASSUME NEW i \in DOMAIN ring'[s], NEW j \in DOMAIN ring'[s], i < j, ring'[s][i].crossing = ring'[s][j].crossing
        PROVE  ring'[s][j].at - ring'[s][i].at <= Echo
    <3>1. i + 1 < j + 1 /\ i + 1 \in DOMAIN ring[s] /\ j + 1 \in DOMAIN ring[s]
      BY <1>1, <2>1
    <3> QED BY <1>1, <2>1, <3>1 DEF CarsInv, EdgesInv
  <2> QED BY <1>1, <2>1 DEF CarsInv, EdgesInv
<1>4. \A t \in Sensors : \A i \in DOMAIN ring'[t] :
        \A u \in Sensors \ {t} : \A j \in DOMAIN ring'[u] : ring'[u][j].crossing # ring'[t][i].crossing
  BY <1>2 DEF CarsInv, EdgesInv
<1>5. \A t \in Sensors : car[t] # NoCar =>
        /\ \A i \in DOMAIN ring'[t] : ring'[t][i].crossing = car[t].id => ring'[t][i].at >= car[t].at
        /\ \A u \in Sensors \ {t} : /\ \A i \in DOMAIN ring'[u] : ring'[u][i].crossing # car[t].id
                                    /\ car[u].id # car[t].id
        /\ car[t].at <= now
  BY <1>2 DEF CarsInv, BeamInv
<1>6. crossings' <= stimuli'
  BY <1>a DEF CarsInv
<1>7. CASE ~Taken(s)
  <2>1. lockout' = lockout /\ Marks' \subseteq Marks
    BY <1>7 DEF DrainEdge, Taken
  <2>2. MarksInv'
    BY <1>a, <2>1 DEF CarsInv, MarksInv
  <2>3. \A t \in Sensors : \A i \in DOMAIN ring'[t] :
          \A m \in Marks' : m.crossing = ring'[t][i].crossing =>
            lockout'[t].last # Never /\ ring'[t][i].at - lockout'[t].last <= Echo
    BY <1>2, <2>1 DEF CarsInv, EdgesInv
  <2>4. \A t \in Sensors : car[t] # NoCar =>
          \A m \in Marks' : m.crossing = car[t].id => lockout'[t].last # Never /\ lockout'[t].last >= car[t].at
    BY <2>1 DEF CarsInv, BeamInv
  <2>5. EdgesInv'
    BY <1>3, <1>4, <2>3 DEF EdgesInv
  <2>6. BeamInv'
    BY <1>c, <1>5, <2>4 DEF BeamInv
  <2> QED BY <1>6, <2>2, <2>5, <2>6 DEF CarsInv
<1>8. CASE Taken(s)
  <2> DEFINE old == lockout[s].last
  <2>1. /\ lockout'[s].last = edge.at
        /\ \A t \in Sensors : t # s => lockout'[t] = lockout[t]
    BY <1>a, <1>1, <1>8 DEF DrainEdge, Taken
  <2>2. edge.at \in Nat /\ edge.at # Never
    BY <1>b, <1>1 DEF Never
  <2>3. lockout[s].window \in Nat /\ lockout[s].window > Echo
    BY <1>a, NodeConstants DEF TypeInv, BoardsInv
  <2>4. old # Never => old \in Nat /\ edge.at - old > Echo
    BY <1>a, <1>1, <1>8, <2>2, <2>3 DEF Taken, Accepts
  <2>5. \A m \in Marks : m.crossing # edge.crossing
    <3> SUFFICES ASSUME NEW m \in Marks, m.crossing = edge.crossing PROVE FALSE
      OBVIOUS
    <3>1. old # Never /\ edge.at - old <= Echo
      BY <1>1 DEF CarsInv, EdgesInv
    <3> QED BY <1>a, <2>2, <2>4, <3>1
  <2> DEFINE mark == Mark(Numbered(s))
  <2>6. mark.crossing = edge.crossing /\ Marks' \subseteq Marks \cup {mark}
    BY <1>1 DEF Mark, Numbered, Trigger
  <2> HIDE DEF mark
  <2>7. edge.crossing \in 1 .. crossings
    BY <1>1 DEF TypeInv, CrossingsInv
  <2>8. MarksInv'
    BY <1>a, <2>5, <2>6, <2>7 DEF CarsInv, MarksInv
  <2>9. ASSUME NEW t \in Sensors, NEW i \in DOMAIN ring'[t], NEW m \in Marks', m.crossing = ring'[t][i].crossing
        PROVE  lockout'[t].last # Never /\ ring'[t][i].at - lockout'[t].last <= Echo
    <3>1. PICK k \in DOMAIN ring[t] : ring'[t][i] = ring[t][k] /\ (t = s => k = i + 1)
      BY <1>2
    <3>2. CASE m \in Marks
      <4>1. lockout[t].last # Never /\ ring[t][k].at - lockout[t].last <= Echo
        BY <2>9, <3>1, <3>2 DEF CarsInv, EdgesInv
      <4>2. ring[t][k].at \in Nat
        BY <1>b
      <4>3. CASE t = s
        <5>1. ring[s][k].at - old <= Echo /\ old \in Nat /\ edge.at - old > Echo
          BY <2>4, <4>1, <4>3
        <5> QED BY <1>a, <2>1, <2>2, <3>1, <4>2, <4>3, <5>1, SMTT(30)
      <4>4. CASE t # s
        BY <2>1, <3>1, <4>1, <4>4
      <4> QED BY <4>3, <4>4
    <3>3. CASE m = mark
      <4>1. t = s
        BY <1>1, <2>6, <2>9, <3>1, <3>3 DEF CarsInv, EdgesInv
      <4>2. 1 < k
        BY <1>1, <3>1, <4>1
      <4>3. ring[s][k].at - edge.at <= Echo
        BY <1>1, <2>6, <2>9, <3>1, <3>3, <4>1, <4>2 DEF CarsInv, EdgesInv
      <4> QED BY <2>1, <2>2, <3>1, <4>1, <4>3
    <3> QED BY <2>6, <3>2, <3>3
  <2>10. ASSUME NEW t \in Sensors, car[t] # NoCar, NEW m \in Marks', m.crossing = car[t].id
         PROVE  lockout'[t].last # Never /\ lockout'[t].last >= car[t].at
    <3>1. CASE m \in Marks
      <4>1. lockout[t].last # Never /\ lockout[t].last >= car[t].at
        BY <2>10, <3>1 DEF CarsInv, BeamInv
      <4>2. car[t].at \in Nat
        BY <1>a
      <4>3. CASE t = s
        <5>1. old >= car[s].at /\ old \in Nat /\ edge.at - old > Echo
          BY <2>4, <4>1, <4>3
        <5> QED BY <1>a, <2>1, <2>2, <4>2, <4>3, <5>1
      <4>4. CASE t # s
        BY <2>1, <4>1, <4>4
      <4> QED BY <4>3, <4>4
    <3>2. CASE m = mark
      <4>1. t = s
        BY <1>1, <2>6, <2>10, <3>2 DEF CarsInv, BeamInv
      <4>2. edge.at >= car[s].at
        BY <1>1, <2>6, <2>10, <3>2, <4>1 DEF CarsInv, BeamInv
      <4> QED BY <2>1, <2>2, <4>1, <4>2
    <3> QED BY <2>6, <3>1, <3>2
  <2>11. EdgesInv'
    BY <1>3, <1>4, <2>9 DEF EdgesInv
  <2>12. BeamInv'
    BY <1>c, <1>5, <2>10 DEF BeamInv
  <2> QED BY <1>6, <2>8, <2>11, <2>12 DEF CarsInv
<1> QED BY <1>7, <1>8

(* A reboot empties the ring and forgets the lockout, and a car is gone by *)
(* then.                                                                   *)
LEMMA RebootKeepsCars ==
  ASSUME TypeInv, CarsInv, NEW s \in Sensors, Reboot(s), Marks' \subseteq Marks
  PROVE  CarsInv'
<1>a. /\ UNCHANGED <<now, crossings>> /\ stimuli' = stimuli + 1
      /\ ring'[s] = <<>> /\ car'[s] = NoCar
      /\ \A t \in Sensors : t # s => ring'[t] = ring[t] /\ car'[t] = car[t] /\ lockout'[t] = lockout[t]
      /\ crossings \in Nat /\ stimuli \in Nat
  BY DEF Reboot, Stimulus, TypeInv, NodeTypeOK, Shared
<1>1. crossings' <= stimuli'
  BY <1>a DEF CarsInv
<1>2. MarksInv'
  BY <1>a DEF CarsInv, MarksInv
<1>3. EdgesInv'
  BY <1>a DEF CarsInv, EdgesInv
<1>4. BeamInv'
  <2>1. \A t \in Sensors : car[t] # NoCar => car[t].id # 0
    BY DEF TypeInv, CrossingsInv
  <2>2. \A t \in Sensors : \A i \in DOMAIN ring'[t] : t # s
    BY <1>a
  <2> QED BY <1>a, <2>1, <2>2 DEF CarsInv, BeamInv, NoCar
<1> QED BY <1>1, <1>2, <1>3, <1>4 DEF CarsInv

LEMMA NextCars == TypeInv /\ SettledInv /\ CarsInv /\ [Next]_vars => CarsInv'
<1> SUFFICES ASSUME TypeInv, SettledInv, CarsInv, [Next]_vars PROVE CarsInv'
  OBVIOUS
<1>1. \/ Marks' \subseteq Marks
      \/ \E s \in Sensors : DrainEdge(s) /\ Taken(s) /\ Marks' \subseteq Marks \cup {Mark(Numbered(s))}
  BY NextMarks
<1>2. CASE \E s \in Sensors : DrainEdge(s) /\ Taken(s) /\ Marks' \subseteq Marks \cup {Mark(Numbered(s))}
  BY <1>2, DrainKeepsCars
<1>3. CASE Marks' \subseteq Marks
  <2>a. stimuli \in Nat /\ now \in Nat /\ lockout \in [ Sensors -> [ window : Nat, last : Nat \cup {Never} ] ]
    BY DEF TypeInv, Shared, NodeTypeOK
  <2>1. CASE UNCHANGED <<ring, car, crossings, lockout>>
    <3>1. stimuli' \in {stimuli, stimuli + 1} /\ now' \in {now, now + 1}
      BY DEF Next, vars, Tick, Duplicate, NodeStep, ServerStep, Dispatch, Stimulus, Cross, Bounce, DrainEdge, PollBurst,
         SendHeartbeat, PollConfigReply, StartSync, FinishSync, SyncFails, Reboot, Receive, CloseSocket, TakeTrigger,
         RecordTrigger, RecordFails, PairTrigger, TakeHeartbeat, EmitStatus, TakeForget, SendReply, AskToForget,
         GiveUp, TakeAnswer, SendForget, SwitchEvent, SetLockout, Restart
    <3>2. stimuli' \in Nat /\ stimuli' >= stimuli /\ now' \in Nat /\ now' >= now
      BY <2>a, <3>1
    <3> QED BY <1>3, <2>1, <3>2, BoardsRest
  <2>2. ASSUME NEW s \in Sensors, NodeStep(s)
        PROVE  CarsInv'
    <3>1. CASE Cross(s)
      BY <1>3, <3>1, CrossKeepsCars
    <3>2. CASE Bounce(s)
      BY <1>3, <3>2, BounceKeepsCars
    <3>3. CASE DrainEdge(s)
      BY <1>3, <3>3, DrainKeepsCars
    <3>4. CASE Reboot(s)
      BY <1>3, <3>4, RebootKeepsCars
    <3>5. CASE PollConfigReply(s) \/ FinishSync(s) \/ SyncFails(s)
      <4>1. UNCHANGED <<ring, car, crossings, stimuli, now>>
        BY <3>5 DEF PollConfigReply, FinishSync, SyncFails
      <4>2. \A t \in Sensors : lockout'[t].last = lockout[t].last
        <5>1. \E w : lockout' = [ lockout EXCEPT ![s].window = w ]
          BY <3>5 DEF PollConfigReply, FinishSync, SyncFails, FetchConfigOnce
        <5> QED BY <2>a, <5>1
      <4> QED BY <1>3, <2>a, <4>1, <4>2, BoardsRest
    <3>6. CASE PollBurst(s) \/ SendHeartbeat(s) \/ StartSync(s)
      BY <2>1, <3>6 DEF PollBurst, SendHeartbeat, StartSync
    <3> QED BY <2>2, <3>1, <3>2, <3>3, <3>4, <3>5, <3>6 DEF NodeStep
  <2> QED BY <2>1, <2>2 DEF Next, vars, node
<1> QED BY <1>1, <1>2, <1>3

(* What came of a car in one way: the places in settled.                   *)
Places(c, how) == { i \in DOMAIN settled : settled[i].crossing = c /\ settled[i].how = how }

ToldOf(c) == { [ how |-> h, times |-> Cardinality(Places(c, h)) ] : h \in { x \in Ends : Places(c, x) # {} } }

LEMMA ToldByPlaces == \A c : Told(c) = ToldOf(c) /\ Told(c)' = ToldOf(c)'
BY DEF Told, ToldOf, Places

(* The variables of the promise.                                           *)
told    == [ c \in 1 .. MaxStimuli |-> Told(c) ]
crossed == 1 .. crossings

LEMMA InitPromise == Init => Promise!Init
<1> SUFFICES ASSUME Init PROVE Promise!Init
  OBVIOUS
<1>1. 1 .. crossings = {}
  BY DEF Init, InitNode
<1>2. \A c : Told(c) = {}
  BY ToldByPlaces DEF Init, InitServer, ToldOf, Places
<1> QED BY <1>1, <1>2 DEF Promise!Init

(* A step that settles nothing tells nothing.                              *)
LEMMA NothingTold == UNCHANGED settled => UNCHANGED told
<1> SUFFICES ASSUME UNCHANGED settled PROVE UNCHANGED told
  OBVIOUS
<1>1. \A c : Told(c)' = Told(c)
  BY DEF Told
<1> QED BY <1>1 DEF told

(* A trigger is settled: its car has crossed, and had not been told.       *)
LEMMA OneCarTold ==
  ASSUME TypeInv, CarsInv, SettleStep, NEW c, c = hand.packet.crossing
  PROVE  /\ c \in crossed /\ c \in 1 .. MaxStimuli
         /\ told[c] = {}
         /\ \E how \in Ends : told' = [ told EXCEPT ![c] = {[ how |-> how, times |-> 1 ]} ]
<1>0. PICK n : n = Len(settled) + 1
  OBVIOUS
<1>1. PICK how \in Ends :
         /\ DOMAIN settled' = DOMAIN settled \cup {n} /\ n \notin DOMAIN settled
         /\ settled'[n].key = hand.packet.key /\ settled'[n].crossing = c /\ settled'[n].how = how
         /\ \A i \in DOMAIN settled : settled'[i] = settled[i]
         /\ hand.packet \in Circulating /\ hand.packet.type = "trigger"
  BY <1>0, SettledMarks
<1>2. hand.packet.key \notin SettledKeys
  BY DEF SettleStep
<1>3. Mark(hand.packet) \in Marks /\ Mark(hand.packet).crossing = c
  BY <1>1 DEF Marks, Mark
<1>4. \A i \in DOMAIN settled : settled[i].crossing # c
  <2>1. ASSUME NEW i \in DOMAIN settled, settled[i].crossing = c PROVE FALSE
    <3>1. Mark(settled[i]) \in Marks
      BY DEF Marks
    <3>2. Mark(settled[i]).key = Mark(hand.packet).key
      BY <1>3, <2>1, <3>1 DEF CarsInv, MarksInv, Mark
    <3> QED BY <1>2, <3>2 DEF Mark, SettledKeys
  <2> QED BY <2>1
<1>5. c \in 1 .. crossings /\ c \in 1 .. MaxStimuli
  <2>1. c \in 1 .. crossings
    BY <1>3 DEF CarsInv, MarksInv
  <2>2. crossings \in Nat /\ stimuli \in 0 .. MaxStimuli /\ MaxStimuli \in Nat /\ crossings <= stimuli
    BY DatagramConstants DEF TypeInv, NodeTypeOK, Shared, CarsInv
  <2> QED BY <2>1, <2>2
<1>6. Told(c) = {}
  <2>1. \A x : Places(c, x) = {}
    BY <1>4 DEF Places
  <2> QED BY <2>1, ToldByPlaces DEF ToldOf
<1>7. ToldOf(c)' = {[ how |-> how, times |-> 1 ]}
  <2>1. \A x : Places(c, x)' = IF x = how THEN {n} ELSE {}
    BY <1>1, <1>4 DEF Places
  <2>2. Cardinality({n}) = 1
    BY FS_Singleton
  <2> QED BY <1>1, <2>1, <2>2 DEF ToldOf
<1>8. \A d : d # c => ToldOf(d)' = ToldOf(d)
  <2>1. \A d, x : d # c => Places(d, x)' = Places(d, x)
    BY <1>1 DEF Places
  <2> QED BY <2>1 DEF ToldOf
<1>9. told' = [ told EXCEPT ![c] = {[ how |-> how, times |-> 1 ]} ]
  <2>1. \A d \in 1 .. MaxStimuli : Told(d)' = IF d = c THEN {[ how |-> how, times |-> 1 ]} ELSE Told(d)
    BY <1>7, <1>8, ToldByPlaces
  <2> QED BY <2>1 DEF told
<1> QED BY <1>5, <1>6, <1>9 DEF told, crossed

(* Every step of the chain is a step of the promise, or none.              *)
LEMMA NextPromise ==
  TypeInv /\ SettledInv /\ CarsInv /\ [Next]_vars => [Promise!Next]_<<crossed, told>>
<1> SUFFICES ASSUME TypeInv, SettledInv, CarsInv, [Next]_vars
             PROVE  [Promise!Next]_<<crossed, told>>
  OBVIOUS
<1>1. CASE SettleStep
  <2> DEFINE c == hand.packet.crossing
  <2>1. /\ c \in crossed /\ told[c] = {}
        /\ \E how \in Ends : told' = [ told EXCEPT ![c] = {[ how |-> how, times |-> 1 ]} ]
    BY <1>1, OneCarTold
  <2>2. UNCHANGED crossed
    BY <1>1 DEF SettleStep, node, crossed
  <2>3. Promise!CarIsSettled
    BY <2>1, <2>2 DEF Promise!CarIsSettled, told, crossed
  <2> QED BY <2>3 DEF Promise!Next
<1>2. CASE UNCHANGED settled
  <2>1. UNCHANGED told
    BY <1>2, NothingTold
  <2>2. CASE UNCHANGED crossings
    BY <2>1, <2>2 DEF crossed
  <2>3. CASE \E s \in Sensors : Cross(s)
    <3>1. crossings' = crossings + 1 /\ stimuli < MaxStimuli
      BY <2>3 DEF Cross, Stimulus
    <3>2. crossings \in Nat /\ stimuli \in Nat /\ MaxStimuli \in Nat /\ crossings <= stimuli
      BY DatagramConstants DEF TypeInv, NodeTypeOK, Shared, CarsInv
    <3>3. /\ crossings + 1 \in (1 .. MaxStimuli) \ crossed
          /\ crossed' = crossed \cup {crossings + 1}
      BY <3>1, <3>2 DEF crossed
    <3>4. Promise!CarCrosses
      BY <2>1, <3>3 DEF Promise!CarCrosses, told, crossed
    <3> QED BY <3>4 DEF Promise!Next
  <2>4. CASE ~UNCHANGED crossings
    BY <2>3, <2>4 DEF Next, vars, node, NodeStep, Bounce, DrainEdge, PollBurst, SendHeartbeat,
       PollConfigReply, StartSync, FinishSync, SyncFails, Reboot
  <2> QED BY <2>2, <2>4
<1> QED BY <1>1, <1>2, NextSettles

(* From the beam to the course: a car that crosses is told at most once,   *)
(* and a car that did not cross never, with windows longer than an echo,   *)
(* however the beam bounces, whatever is lost, repeated or late, and       *)
(* whatever reboots or restarts (Lockout, Identity, handleTrigger). The    *)
(* chain implements CrossingPromise.                                       *)
THEOREM CarsAreToldOnce == Spec => CarsToldOnce
BY InitTypes, NextTypes, InitSettled, NextSettled, InitCars, NextCars, InitPromise, NextPromise, PTL
   DEF Spec, CarsToldOnce, Promise!Spec, told, crossed
=============================================================================
