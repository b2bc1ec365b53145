------------------------------ MODULE HubProofs ------------------------------
(***************************************************************************)
(* Of the hub, for any number of connections and publishers and any        *)
(* buffer: no connection misses a publication, none is left behind in      *)
(* silence and none is sent an old time; of the handlers, however many of  *)
(* them overlap: no change is forgotten that a board is due (Due leaves    *)
(* out the drivers and vehicles of LeftOld); and of both, when the         *)
(* handlers take turns: no browser is left with an old document of those.  *)
(***************************************************************************)
EXTENDS Publishing, TLAPS, WellFoundedInduction

(* A sequence, whatever it is of.                                          *)
IsSequence(s) == s \in Seq({ s[i] : i \in DOMAIN s })

HubShape ==
  /\ IsSequence(installed)
  /\ snapshots \in [ Topics -> Nat ]
  /\ subscribers \subseteq Clients
  /\ conn \in [ Clients -> [ at      : {"unborn", "initial", "stream", "gone"},
                             topics  : SUBSET Topics,
                             kicked  : BOOLEAN,
                             initial : SUBSET Nat,
                             since   : Nat ] ]
  /\ channel \in [ Clients -> Seq(Nat) ]
  /\ send \in [ Publishers -> [ payload : Nat, targets : SUBSET Clients ] ]
  /\ received \in [ Clients -> Seq(Nat) ]

(* The clause about silence is what makes the other one inductive: only a  *)
(* connection that is registered is among the targets of a publication.    *)
HubInv == HubShape /\ NobodyLeftInSilence /\ NothingMissed

LEMMA AppendContains ==
  ASSUME NEW T, NEW s \in Seq(T), NEW e \in T
  PROVE  /\ Append(s, e) \in Seq(T)
         /\ Contains(Append(s, e), e)
         /\ \A x : Contains(s, x) => Contains(Append(s, e), x)
BY DEF Contains

LEMMA HeadOrTail ==
  ASSUME NEW T, NEW s \in Seq(T), s # <<>>
  PROVE  /\ Head(s) \in T /\ Tail(s) \in Seq(T)
         /\ \A x : Contains(s, x) => x = Head(s) \/ Contains(Tail(s), x)
<1>1. Head(s) \in T /\ Tail(s) \in Seq(T) /\ Len(Tail(s)) = Len(s) - 1 /\ Len(s) \in Nat
  OBVIOUS
<1>2. ASSUME NEW x, NEW i \in 1 .. Len(s), s[i] = x, x # Head(s)
      PROVE  Contains(Tail(s), x)
  <2>1. i # 1
    BY <1>2
  <2>2. i - 1 \in 1 .. Len(Tail(s)) /\ Tail(s)[i - 1] = s[i]
    BY <1>1, <2>1
  <2> QED BY <1>2, <2>2 DEF Contains
<1> QED BY <1>1, <1>2 DEF Contains

(* A history grows by one.                                                 *)
LEMMA HistoryGrows ==
  ASSUME NEW s, IsSequence(s), NEW e
  PROVE  /\ IsSequence(Append(s, e))
         /\ DOMAIN Append(s, e) = DOMAIN s \cup {Len(s) + 1}
         /\ Len(s) + 1 \notin DOMAIN s
         /\ Append(s, e)[Len(s) + 1] = e
         /\ \A i \in DOMAIN s : Append(s, e)[i] = s[i]
<1> DEFINE T == { s[i] : i \in DOMAIN s } \cup {e}
<1>1. s \in Seq(T) /\ e \in T
  BY DEF IsSequence
<1>2. /\ Append(s, e) \in Seq(T)
      /\ Len(Append(s, e)) = Len(s) + 1
      /\ Len(s) \in Nat
      /\ DOMAIN s = 1 .. Len(s) /\ DOMAIN Append(s, e) = 1 .. Len(s) + 1
      /\ Append(s, e)[Len(s) + 1] = e
      /\ \A i \in DOMAIN s : Append(s, e)[i] = s[i]
  BY <1>1
<1>3. /\ DOMAIN Append(s, e) = DOMAIN s \cup {Len(s) + 1}
      /\ Len(s) + 1 \notin DOMAIN s
  BY <1>2
<1>4. Append(s, e) \in Seq({ Append(s, e)[i] : i \in DOMAIN Append(s, e) })
  <2> DEFINE a == Append(s, e)
             n == Len(s) + 1
  <2>0. a \in Seq(T) /\ Len(a) = n /\ n \in Nat
    BY <1>2
  <2> HIDE DEF a, n, T
  <2>1. a \in [ 1 .. n -> T ] /\ DOMAIN a = 1 .. n /\ n \in Nat
    BY <2>0
  <2>2. a \in [ 1 .. n -> { a[i] : i \in DOMAIN a } ]
    BY <2>1
  <2>3. a \in Seq({ a[i] : i \in DOMAIN a })
    BY <2>1, <2>2
  <2> QED BY <2>3 DEF a
<1> QED BY <1>2, <1>3, <1>4 DEF IsSequence

LEMMA InitHubInv == Init => HubInv
<1> SUFFICES ASSUME Init PROVE HubInv
  OBVIOUS
<1> USE DEF Init, InitHub
<1>1. HubShape
  BY DEF HubShape, IsSequence, NoPayload, Unborn, NoSend
<1>2. \A c \in Clients : ~Connected(c)
  BY DEF Connected, Unborn
<1> QED BY <1>1, <1>2 DEF HubInv, NobodyLeftInSilence, NothingMissed

-----------------------------------------------------------------------------
(* Steps of the publishers.                                                *)

LEMMA InstallKeeps ==
  ASSUME HubInv, NEW p \in Publishers, NEW topic, Sent(p), Install(p, topic)
  PROVE  HubInv'
<1> DEFINE n == Len(installed) + 1
           targets == { c \in subscribers : topic \in conn[c].topics }
<1>1. /\ IsSequence(installed') /\ Len(installed) \in Nat
      /\ Len(installed') = n /\ installed'[n] = topic
      /\ \A i \in 1 .. Len(installed) : installed'[i] = installed[i]
  <2>1. IsSequence(installed) /\ installed' = Append(installed, topic)
    BY DEF HubInv, HubShape, Install
  <2>2. Len(installed) \in Nat /\ DOMAIN installed = 1 .. Len(installed)
    BY <2>1 DEF IsSequence
  <2>3. IsSequence(installed') /\ Len(installed') = n /\ installed'[n] = topic
    BY <2>1, <2>2, HistoryGrows DEF IsSequence
  <2> QED BY <2>1, <2>2, <2>3, HistoryGrows
<1>2. /\ UNCHANGED <<subscribers, conn, channel, received>>
      /\ send' = [ send EXCEPT ![p] = IF targets = {} THEN NoSend
                                      ELSE [ payload |-> n, targets |-> targets ] ]
      /\ snapshots' = [ snapshots EXCEPT ![topic] = n ]
  BY DEF Install
<1>3. HubShape'
  <2>0. n \in Nat
    BY <1>1
  <2> HIDE DEF n
  <2>1. snapshots' \in [ Topics -> Nat ]
    BY <2>0, <1>2 DEF HubInv, HubShape
  <2>2. targets \in SUBSET Clients
    BY DEF HubInv, HubShape
  <2> HIDE DEF targets
  <2>3. NoSend \in [ payload : Nat, targets : SUBSET Clients ]
    BY DEF NoSend, NoPayload
  <2>4. [ payload |-> n, targets |-> targets ] \in [ payload : Nat, targets : SUBSET Clients ]
    BY <2>0, <2>2
  <2>5. send' \in [ Publishers -> [ payload : Nat, targets : SUBSET Clients ] ]
    BY <1>2, <2>3, <2>4 DEF HubInv, HubShape
  <2> QED BY <1>1, <1>2, <2>1, <2>5 DEF HubInv, HubShape
<1>4. NobodyLeftInSilence'
  BY <1>2 DEF HubInv, NobodyLeftInSilence, Connected
<1>5. ASSUME NEW c \in Clients, Connected(c)', ~conn'[c].kicked,
             NEW m \in conn'[c].since + 1 .. Len(installed'), installed'[m] \in conn'[c].topics
      PROVE  OnItsWay(c, m)'
  <2>1. Connected(c) /\ ~conn[c].kicked /\ conn'[c] = conn[c] /\ conn[c].since \in Nat
    BY <1>2, <1>5 DEF Connected, HubInv, HubShape
  <2>2. CASE m = n
    <3>1. c \in targets
      BY <1>1, <1>5, <2>1, <2>2 DEF HubInv, NobodyLeftInSilence
    <3>2. send'[p] = [ payload |-> n, targets |-> targets ]
      BY <1>2, <3>1 DEF HubInv, HubShape
    <3> QED BY <2>2, <3>1, <3>2 DEF OnItsWay
  <2>3. CASE m # n
    <3>1. m \in conn[c].since + 1 .. Len(installed) /\ m \in 1 .. Len(installed)
      BY <1>1, <1>5, <2>1, <2>3
    <3>2. OnItsWay(c, m)
      BY <1>1, <1>5, <2>1, <3>1 DEF HubInv, NothingMissed
    <3>3. ASSUME NEW q \in Publishers, c \in send[q].targets
          PROVE  send'[q] = send[q]
      BY <1>2, <3>3 DEF HubInv, HubShape, Sent, NoSend
    <3> QED BY <1>2, <3>2, <3>3 DEF OnItsWay
  <2> QED BY <2>2, <2>3
<1>6. NothingMissed'
  BY <1>5 DEF NothingMissed
<1> QED BY <1>3, <1>4, <1>6 DEF HubInv

LEMMA SendKeeps ==
  ASSUME HubInv, NEW p \in Publishers, SendTo(p)
  PROVE  HubInv'
<1>1. PICK d \in send[p].targets :
        /\ send' = [ send EXCEPT ![p] = IF send[p].targets = {d} THEN NoSend
                                        ELSE [ payload |-> send[p].payload,
                                               targets |-> send[p].targets \ {d} ] ]
        /\ IF HasRoom(d)
           THEN /\ channel' = [ channel EXCEPT ![d] = Append(@, send[p].payload) ]
                /\ UNCHANGED <<subscribers, conn>>
           ELSE Disconnect(d) /\ UNCHANGED channel
        /\ UNCHANGED <<snapshots, installed, received>>
  BY DEF SendTo
<1>2. d \in Clients /\ send[p].payload \in Nat
  BY <1>1 DEF HubInv, HubShape
<1>3. send' \in [ Publishers -> [ payload : Nat, targets : SUBSET Clients ] ]
  <2>1. NoSend \in [ payload : Nat, targets : SUBSET Clients ]
    BY DEF NoSend, NoPayload
  <2>2. [ payload |-> send[p].payload, targets |-> send[p].targets \ {d} ]
          \in [ payload : Nat, targets : SUBSET Clients ]
    BY DEF HubInv, HubShape
  <2>3. send' = [ send EXCEPT ![p] = IF send[p].targets = {d} THEN NoSend
                                     ELSE [ payload |-> send[p].payload,
                                            targets |-> send[p].targets \ {d} ] ]
    BY <1>1
  <2> QED BY <2>1, <2>2, <2>3 DEF HubInv, HubShape
<1>4. \A q \in Publishers : \A c \in send[q].targets :
        ~(q = p /\ c = d) => send'[q].payload = send[q].payload /\ c \in send'[q].targets
  <2> SUFFICES ASSUME NEW q \in Publishers, NEW c \in send[q].targets, ~(q = p /\ c = d)
               PROVE  send'[q].payload = send[q].payload /\ c \in send'[q].targets
    OBVIOUS
  <2>1. CASE q = p
    <3>1. send[p].targets # {d}
      BY <2>1
    <3>2. send' = [ send EXCEPT ![p] = IF send[p].targets = {d} THEN NoSend
                                       ELSE [ payload |-> send[p].payload,
                                              targets |-> send[p].targets \ {d} ] ]
      BY <1>1
    <3>3. send'[p] = [ payload |-> send[p].payload, targets |-> send[p].targets \ {d} ]
      BY <3>1, <3>2 DEF HubInv, HubShape
    <3> QED BY <2>1, <3>3 DEF HubInv, HubShape
  <2>2. CASE q # p
    BY <1>1, <2>2 DEF HubInv, HubShape
  <2> QED BY <2>1, <2>2
<1>5. CASE HasRoom(d)
  <2>1. /\ channel' = [ channel EXCEPT ![d] = Append(@, send[p].payload) ]
        /\ UNCHANGED <<subscribers, conn, snapshots, installed, received>>
    BY <1>1, <1>5
  <2>2. /\ channel' \in [ Clients -> Seq(Nat) ]
        /\ Contains(channel'[d], send[p].payload)
        /\ \A c \in Clients : \A x : Contains(channel[c], x) => Contains(channel'[c], x)
    BY <1>2, <2>1, AppendContains DEF HubInv, HubShape
  <2>3. HubShape' /\ NobodyLeftInSilence'
    BY <1>3, <2>1, <2>2 DEF HubInv, HubShape, NobodyLeftInSilence, Connected
  <2>4. ASSUME NEW c \in Clients, NEW m, OnItsWay(c, m)
        PROVE  OnItsWay(c, m)'
    BY <1>4, <2>1, <2>2, <2>4 DEF OnItsWay
  <2>5. NothingMissed'
    BY <2>1, <2>4 DEF HubInv, NothingMissed, Connected
  <2> QED BY <2>3, <2>5 DEF HubInv
<1>6. CASE ~HasRoom(d)
  <2>1. /\ subscribers' = subscribers \ {d}
        /\ conn' = [ conn EXCEPT ![d].kicked = TRUE ]
        /\ UNCHANGED <<channel, snapshots, installed, received>>
    BY <1>1, <1>6 DEF Disconnect
  <2>2. HubShape'
    BY <1>3, <2>1, ZenonT(30) DEF HubInv, HubShape
  <2>3. /\ conn'[d] = [ conn[d] EXCEPT !.kicked = TRUE ]
        /\ \A c \in Clients \ {d} : conn'[c] = conn[c]
    BY <1>2, <2>1 DEF HubInv, HubShape
  <2>4. conn'[d].kicked
    BY <1>2, <2>3 DEF HubInv, HubShape
  <2>5. NobodyLeftInSilence'
    BY <2>1, <2>3, <2>4 DEF HubInv, NobodyLeftInSilence, Connected
  <2>6. ASSUME NEW c \in Clients, c # d, NEW m, OnItsWay(c, m)
        PROVE  OnItsWay(c, m)'
    BY <1>4, <2>1, <2>6 DEF OnItsWay
  <2>7. NothingMissed'
    BY <2>1, <2>3, <2>4, <2>6 DEF HubInv, NothingMissed, Connected
  <2> QED BY <2>2, <2>5, <2>7 DEF HubInv
<1> QED BY <1>5, <1>6

-----------------------------------------------------------------------------
(* Steps of the connections.                                               *)

LEMMA SubscribeKeeps ==
  ASSUME HubInv, NEW d \in Clients, Subscribe(d)
  PROVE  HubInv'
<1>1. PICK asked \in Requests :
        /\ subscribers' = subscribers \cup {d}
        /\ conn' = [ conn EXCEPT ![d] = [ at      |-> "initial",
                                          topics  |-> Granted(d, asked),
                                          kicked  |-> FALSE,
                                          initial |-> Initial(Granted(d, asked)),
                                          since   |-> Len(installed) ] ]
        /\ UNCHANGED <<snapshots, channel, send, installed, received>>
  BY DEF Subscribe
<1>2. Granted(d, asked) \in SUBSET Topics
  BY HubConstants DEF Granted
<1>3. Initial(Granted(d, asked)) \in SUBSET Nat
  BY <1>2 DEF Initial, HubInv, HubShape
<1>4. Len(installed) \in Nat
  BY DEF HubInv, HubShape, IsSequence
<1>5. HubShape'
  BY <1>1, <1>2, <1>3, <1>4 DEF HubInv, HubShape
<1>6. /\ conn'[d].kicked = FALSE /\ conn'[d].since = Len(installed)
      /\ \A c \in Clients \ {d} : conn'[c] = conn[c]
  BY <1>1 DEF HubInv, HubShape
<1>7. NobodyLeftInSilence'
  BY <1>1, <1>6 DEF HubInv, NobodyLeftInSilence, Connected
<1>8. NothingMissed'
  <2>1. conn'[d].since + 1 .. Len(installed') = {}
    BY <1>1, <1>4, <1>6
  <2>2. \A m : \A c \in Clients : OnItsWay(c, m) <=> OnItsWay(c, m)'
    BY <1>1 DEF OnItsWay
  <2> QED BY <1>1, <1>6, <2>1, <2>2 DEF HubInv, NothingMissed, Connected
<1> QED BY <1>5, <1>7, <1>8 DEF HubInv

LEMMA WriteInitialKeeps ==
  ASSUME HubInv, NEW d \in Clients, WriteInitial(d)
  PROVE  HubInv'
<1>1. UNCHANGED <<snapshots, subscribers, channel, send, installed>>
  BY DEF WriteInitial
<1>2. conn[d].at = "initial" /\ conn[d].initial \in SUBSET Nat
  BY DEF WriteInitial, HubInv, HubShape
<1>3. /\ conn' \in [ Clients -> [ at      : {"unborn", "initial", "stream", "gone"},
                                  topics  : SUBSET Topics,
                                  kicked  : BOOLEAN,
                                  initial : SUBSET Nat,
                                  since   : Nat ] ]
      /\ \A c \in Clients \ {d} : conn'[c] = conn[c]
      /\ conn'[d].topics = conn[d].topics /\ conn'[d].since = conn[d].since
      /\ conn'[d].kicked = conn[d].kicked /\ conn'[d].at \in {"initial", "stream"}
  <2>1. CASE \E payload \in conn[d].initial :
               conn' = [ conn EXCEPT ![d].initial = @ \ {payload} ]
    <3>1. PICK payload \in conn[d].initial :
            conn' = [ conn EXCEPT ![d].initial = conn[d].initial \ {payload} ]
      BY <2>1
    <3>2. conn'[d] = [ conn[d] EXCEPT !.initial = conn[d].initial \ {payload} ]
      BY <3>1 DEF HubInv, HubShape
    <3>3. conn'[d] \in [ at      : {"unborn", "initial", "stream", "gone"},
                         topics  : SUBSET Topics,
                         kicked  : BOOLEAN,
                         initial : SUBSET Nat,
                         since   : Nat ]
      BY <1>2, <3>2, ZenonT(30) DEF HubInv, HubShape
    <3> QED BY <1>2, <3>1, <3>2, <3>3 DEF HubInv, HubShape
  <2>2. CASE conn' = [ conn EXCEPT ![d].at = "stream" ]
    BY <1>2, <2>2 DEF HubInv, HubShape
  <2> QED BY <2>1, <2>2 DEF WriteInitial
<1>4. \A c \in Clients : Connected(c)' <=> Connected(c)
  BY <1>2, <1>3 DEF Connected
<1>5. /\ received' \in [ Clients -> Seq(Nat) ]
      /\ \A c \in Clients : \A x : Contains(received[c], x) => Contains(received'[c], x)
  <2>1. CASE \E payload \in conn[d].initial :
               received' = [ received EXCEPT ![d] = Append(@, payload) ]
    <3>1. PICK payload \in conn[d].initial :
            received' = [ received EXCEPT ![d] = Append(received[d], payload) ]
      BY <2>1
    <3>2. payload \in Nat /\ received[d] \in Seq(Nat)
      BY <1>2 DEF HubInv, HubShape
    <3>3. /\ Append(received[d], payload) \in Seq(Nat)
          /\ \A x : Contains(received[d], x) => Contains(Append(received[d], payload), x)
      BY <3>2, AppendContains
    <3> QED BY <3>1, <3>3 DEF HubInv, HubShape
  <2>2. CASE UNCHANGED received
    BY <2>2 DEF HubInv, HubShape
  <2> QED BY <2>1, <2>2 DEF WriteInitial
<1>6. HubShape'
  BY <1>1, <1>3, <1>5 DEF HubInv, HubShape
<1>7. NobodyLeftInSilence'
  BY <1>1, <1>3, <1>4 DEF HubInv, NobodyLeftInSilence
<1>8. \A m : \A c \in Clients : OnItsWay(c, m) => OnItsWay(c, m)'
  BY <1>1, <1>5 DEF OnItsWay
<1>9. NothingMissed'
  BY <1>1, <1>3, <1>4, <1>8 DEF HubInv, NothingMissed
<1> QED BY <1>6, <1>7, <1>9 DEF HubInv

LEMMA WriteEventKeeps ==
  ASSUME HubInv, NEW d \in Clients, WriteEvent(d)
  PROVE  HubInv'
<1>1. /\ channel[d] # <<>> /\ channel[d] \in Seq(Nat)
      /\ received' = [ received EXCEPT ![d] = Append(@, Head(channel[d])) ]
      /\ channel' = [ channel EXCEPT ![d] = Tail(@) ]
      /\ UNCHANGED <<snapshots, subscribers, conn, send, installed>>
  BY DEF WriteEvent, HubInv, HubShape
<1>2. /\ Head(channel[d]) \in Nat /\ Tail(channel[d]) \in Seq(Nat)
      /\ \A x : Contains(channel[d], x) => x = Head(channel[d]) \/ Contains(Tail(channel[d]), x)
  BY <1>1, HeadOrTail
<1>3. /\ received' \in [ Clients -> Seq(Nat) ]
      /\ Contains(received'[d], Head(channel[d]))
      /\ \A c \in Clients : \A x : Contains(received[c], x) => Contains(received'[c], x)
  BY <1>1, <1>2, AppendContains DEF HubInv, HubShape
<1>4. /\ channel' \in [ Clients -> Seq(Nat) ]
      /\ channel'[d] = Tail(channel[d])
      /\ \A c \in Clients \ {d} : channel'[c] = channel[c]
  BY <1>1, <1>2 DEF HubInv, HubShape
<1>5. HubShape' /\ NobodyLeftInSilence'
  BY <1>1, <1>3, <1>4 DEF HubInv, HubShape, NobodyLeftInSilence, Connected
<1>6. ASSUME NEW c \in Clients, NEW m, OnItsWay(c, m)
      PROVE  OnItsWay(c, m)'
  <2>1. CASE Contains(channel[c], m)
    <3>1. CASE c = d
      BY <1>2, <1>3, <1>4, <2>1, <3>1 DEF OnItsWay
    <3>2. CASE c # d
      BY <1>4, <2>1, <3>2 DEF OnItsWay
    <3> QED BY <3>1, <3>2
  <2>2. CASE ~Contains(channel[c], m)
    BY <1>1, <1>3, <1>6, <2>2 DEF OnItsWay
  <2> QED BY <2>1, <2>2
<1>7. NothingMissed'
  BY <1>1, <1>6 DEF HubInv, NothingMissed, Connected
<1> QED BY <1>5, <1>7 DEF HubInv

LEMMA LeaveKeeps ==
  ASSUME HubInv, NEW d \in Clients, Leave(d)
  PROVE  HubInv'
<1>1. /\ subscribers' = subscribers \ {d}
      /\ conn' = [ conn EXCEPT ![d].at = "gone", ![d].initial = {} ]
      /\ UNCHANGED <<snapshots, channel, send, installed, received>>
  BY DEF Leave
<1>2. HubShape'
  <2>1. conn' = [ conn EXCEPT ![d] = [ conn[d] EXCEPT !.at = "gone", !.initial = {} ] ]
    BY <1>1
  <2>2. [ conn[d] EXCEPT !.at = "gone", !.initial = {} ]
          \in [ at : {"unborn", "initial", "stream", "gone"}, topics : SUBSET Topics,
                kicked : BOOLEAN, initial : SUBSET Nat, since : Nat ]
    BY ZenonT(30) DEF HubInv, HubShape
  <2> QED BY <1>1, <2>1, <2>2 DEF HubInv, HubShape
<1>3. conn'[d].at = "gone" /\ \A c \in Clients \ {d} : conn'[c] = conn[c]
  BY <1>1 DEF HubInv, HubShape
<1>4. NobodyLeftInSilence'
  BY <1>1, <1>3 DEF HubInv, NobodyLeftInSilence, Connected
<1>5. \A m : \A c \in Clients : OnItsWay(c, m) <=> OnItsWay(c, m)'
  BY <1>1 DEF OnItsWay
<1>6. NothingMissed'
  BY <1>1, <1>3, <1>5 DEF HubInv, NothingMissed, Connected
<1> QED BY <1>2, <1>4, <1>6 DEF HubInv

-----------------------------------------------------------------------------
LEMMA AsideOfHub == HubInv /\ UNCHANGED hub => HubInv'
BY DEF hub, HubInv, HubShape, NobodyLeftInSilence, NothingMissed, Connected, OnItsWay

LEMMA NextHubInv == HubInv /\ [Next]_vars => HubInv'
<1> SUFFICES ASSUME HubInv, [Next]_vars PROVE HubInv'
  OBVIOUS
<1>1. ASSUME NEW p \in Publishers, Begin(p) PROVE HubInv'
  BY <1>1, AsideOfHub DEF Begin
<1>2. ASSUME NEW p \in Publishers, Handle(p) PROVE HubInv'
  <2>1. CASE Write(p)
    BY <2>1, AsideOfHub DEF Write
  <2>2. CASE Read(p)
    BY <2>2, AsideOfHub DEF Read
  <2>3. CASE PublishTopic(p)
    BY <2>3, InstallKeeps DEF PublishTopic, Ready
  <2>4. CASE Deliver(p)
    BY <2>4, SendKeeps DEF Deliver
  <2> QED BY <1>2, <2>1, <2>2, <2>3, <2>4 DEF Handle
<1>3. ASSUME NEW c \in Clients, ClientNext(c) PROVE HubInv'
  BY <1>3, SubscribeKeeps, WriteInitialKeeps, WriteEventKeeps, LeaveKeeps
     DEF ClientNext, ClientStep
<1>4. CASE UNCHANGED vars
  BY <1>4, AsideOfHub DEF vars
<1> QED BY <1>1, <1>2, <1>3, <1>4 DEF Next

(* From the moment it joins, a connection misses no publication of a topic *)
(* it asked for, until the hub disconnects it (Publish, subscribe).        *)
THEOREM NothingIsMissed == Spec => []NothingMissed
<1>1. HubInv => NothingMissed
  BY DEF HubInv
<1> QED BY <1>1, InitHubInv, NextHubInv, PTL DEF Spec

(* A connection that is not registered has been told to go, and one that   *)
(* is registered is served (disconnect, unsubscribe).                      *)
THEOREM NobodyIsLeftInSilence == Spec => []NobodyLeftInSilence
<1>1. HubInv => NobodyLeftInSilence
  BY DEF HubInv
<1> QED BY <1>1, InitHubInv, NextHubInv, PTL DEF Spec

(* A sequence of what there is, when there is more.                        *)
LEMMA SequenceOfMore ==
  ASSUME NEW S, NEW T, S \subseteq T, NEW s \in Seq(S)
  PROVE  s \in Seq(T)
OBVIOUS

(* One publication more.                                                   *)
LEMMA MorePayloads ==
  ASSUME installed \in Seq(Topics), NEW topic \in Topics, installed' = Append(installed, topic)
  PROVE  /\ installed' \in Seq(Topics)
         /\ Len(installed) + 1 \in Payloads' /\ Len(installed) + 1 \notin Payloads
         /\ Payloads' = Payloads \cup {Len(installed) + 1}
         /\ Payloads \subseteq Nat
         /\ installed'[Len(installed) + 1] = topic
         /\ \A n \in Payloads : installed'[n] = installed[n] /\ n <= Len(installed)
         /\ Len(installed) \in Nat /\ Len(installed') = Len(installed) + 1
BY DEF Payloads

-----------------------------------------------------------------------------
(* Types.                                                                  *)

(* What is on its way to someone is a publication.                         *)
HubTypeInv == HubTypeOK /\ \A p \in Publishers : send[p].targets # {} => send[p].payload \in Payloads

(* A Publish call: under the lock, and one send.                           *)
LEMMA InstallTypes ==
  ASSUME HubTypeInv, NEW p \in Publishers, NEW topic \in Topics, Install(p, topic)
  PROVE  HubTypeInv'
<1> USE DEF HubTypeInv
<1> DEFINE n == Len(installed) + 1
           targets == { c \in subscribers : topic \in conn[c].topics }
<1>1. /\ installed' \in Seq(Topics)
      /\ n \in Payloads' /\ Payloads \subseteq Payloads'
  <2>1. installed \in Seq(Topics) /\ installed' = Append(installed, topic)
    BY DEF HubTypeOK, Install
  <2> QED BY <2>1, MorePayloads
<1>2. /\ UNCHANGED <<subscribers, conn, channel, received>>
      /\ send' = [ send EXCEPT ![p] = IF targets = {} THEN NoSend
                                      ELSE [ payload |-> n, targets |-> targets ] ]
      /\ snapshots' = [ snapshots EXCEPT ![topic] = n ]
  BY DEF Install
<1> HIDE DEF n
<1>3. snapshots' \in [ Topics -> {NoPayload} \cup Payloads' ]
  BY <1>1, <1>2 DEF HubTypeOK
<1>4. conn' \in [ Clients -> [ at      : {"unborn", "initial", "stream", "gone"},
                               topics  : SUBSET Topics,
                               kicked  : BOOLEAN,
                               initial : SUBSET Payloads',
                               since   : Nat ] ]
  BY <1>1, <1>2 DEF HubTypeOK
<1>5. channel' \in [ Clients -> Seq(Payloads') ] /\ received' \in [ Clients -> Seq(Payloads') ]
  <2>1. \A c \in Clients : channel[c] \in Seq(Payloads') /\ received[c] \in Seq(Payloads')
    BY <1>1, SequenceOfMore DEF HubTypeOK
  <2> QED BY <1>2, <2>1 DEF HubTypeOK
<1>6. send' \in [ Publishers -> [ payload : {NoPayload} \cup Payloads', targets : SUBSET Clients ] ]
  <2>1. targets \in SUBSET Clients
    BY DEF HubTypeOK
  <2> HIDE DEF targets
  <2> QED BY <1>1, <1>2, <2>1 DEF HubTypeOK, NoSend
<1>7. \A q \in Publishers : send'[q].targets # {} => send'[q].payload \in Payloads'
  BY <1>1, <1>2 DEF HubTypeOK, NoSend
<1> QED BY <1>1, <1>2, <1>3, <1>4, <1>5, <1>6, <1>7 DEF HubTypeOK

LEMMA SendTypes ==
  ASSUME HubTypeInv, NEW p \in Publishers, SendTo(p)
  PROVE  HubTypeInv'
<1> USE DEF HubTypeInv
<1>1. PICK d \in send[p].targets :
        /\ send' = [ send EXCEPT ![p] = IF send[p].targets = {d} THEN NoSend
                                        ELSE [ payload |-> send[p].payload,
                                               targets |-> send[p].targets \ {d} ] ]
        /\ IF HasRoom(d)
           THEN /\ channel' = [ channel EXCEPT ![d] = Append(@, send[p].payload) ]
                /\ UNCHANGED <<subscribers, conn>>
           ELSE Disconnect(d) /\ UNCHANGED channel
        /\ UNCHANGED <<snapshots, installed, received>>
  BY DEF SendTo
<1>2. d \in Clients
  BY <1>1 DEF HubTypeOK
<1>3. send' \in [ Publishers -> [ payload : {NoPayload} \cup Payloads, targets : SUBSET Clients ] ]
  <2>1. NoSend \in [ payload : {NoPayload} \cup Payloads, targets : SUBSET Clients ]
    BY DEF NoSend, NoPayload
  <2>2. [ payload |-> send[p].payload, targets |-> send[p].targets \ {d} ]
          \in [ payload : {NoPayload} \cup Payloads, targets : SUBSET Clients ]
    BY DEF HubTypeOK
  <2> QED BY <1>1, <2>1, <2>2 DEF HubTypeOK
<1>4. subscribers' \subseteq Clients
      /\ conn' \in [ Clients -> [ at      : {"unborn", "initial", "stream", "gone"},
                                  topics  : SUBSET Topics,
                                  kicked  : BOOLEAN,
                                  initial : SUBSET Payloads,
                                  since   : Nat ] ]
  <2>1. CASE UNCHANGED <<subscribers, conn>>
    BY <2>1 DEF HubTypeOK
  <2>2. CASE Disconnect(d)
    BY <1>2, <2>2 DEF HubTypeOK, Disconnect
  <2> QED BY <1>1, <2>1, <2>2
<1>5. channel' \in [ Clients -> Seq(Payloads) ] /\ \A c \in Clients : Len(channel'[c]) <= Buffer
  <2>1. CASE UNCHANGED channel
    BY <2>1 DEF HubTypeOK
  <2>2. CASE HasRoom(d)
    <3>1. send[p].payload \in Payloads
      BY <1>1
    <3>2. channel[d] \in Seq(Payloads) /\ Len(channel[d]) < Buffer /\ Buffer \in Nat
      BY <1>2, <2>2, HubConstants DEF HubTypeOK, HasRoom
    <3>3. Append(channel[d], send[p].payload) \in Seq(Payloads)
          /\ Len(Append(channel[d], send[p].payload)) <= Buffer
      BY <3>1, <3>2
    <3> QED BY <1>1, <2>2, <3>3 DEF HubTypeOK
  <2> QED BY <1>1, <2>1, <2>2
<1>6. \A q \in Publishers : send'[q].targets # {} => send'[q].payload \in Payloads
  BY <1>1 DEF HubTypeOK, NoSend
<1> QED BY <1>1, <1>3, <1>4, <1>5, <1>6 DEF HubTypeOK, Payloads

(* Steps of a connection.                                                  *)
LEMMA ClientTypes ==
  ASSUME HubTypeInv, NEW d \in Clients, ClientStep(d)
  PROVE  HubTypeInv'
<1> USE DEF HubTypeInv
<1> DEFINE Conns == [ at      : {"unborn", "initial", "stream", "gone"},
                      topics  : SUBSET Topics,
                      kicked  : BOOLEAN,
                      initial : SUBSET Payloads,
                      since   : Nat ]
<1>a. /\ conn \in [ Clients -> Conns ] /\ subscribers \subseteq Clients
      /\ channel \in [ Clients -> Seq(Payloads) ] /\ \A c \in Clients : Len(channel[c]) <= Buffer
      /\ received \in [ Clients -> Seq(Payloads) ]
  BY DEF HubTypeOK
<1>b. UNCHANGED <<snapshots, send, installed>>
  BY DEF ClientStep, Subscribe, WriteInitial, WriteEvent, Leave
<1>c. ASSUME conn' \in [ Clients -> Conns ], subscribers' \subseteq Clients,
             channel' \in [ Clients -> Seq(Payloads) ], \A c \in Clients : Len(channel'[c]) <= Buffer,
             received' \in [ Clients -> Seq(Payloads) ]
      PROVE  HubTypeInv'
  BY <1>b, <1>c DEF HubTypeOK, Payloads
<1>1. CASE Subscribe(d)
  <2>1. PICK asked \in Requests :
          /\ subscribers' = subscribers \cup {d}
          /\ conn' = [ conn EXCEPT ![d] = [ at      |-> "initial",
                                            topics  |-> Granted(d, asked),
                                            kicked  |-> FALSE,
                                            initial |-> Initial(Granted(d, asked)),
                                            since   |-> Len(installed) ] ]
          /\ UNCHANGED <<channel, received>>
    BY <1>1 DEF Subscribe
  <2>2. Granted(d, asked) \in SUBSET Topics
    BY HubConstants DEF Granted
  <2>3. Initial(Granted(d, asked)) \in SUBSET Payloads
    BY <2>2 DEF Initial, HubTypeOK
  <2>4. Len(installed) \in Nat
    BY DEF HubTypeOK
  <2>5. conn' \in [ Clients -> Conns ]
    BY <1>a, <2>1, <2>2, <2>3, <2>4
  <2> QED BY <1>a, <1>c, <2>1, <2>5
<1>2. CASE WriteInitial(d)
  <2>1. conn' \in [ Clients -> Conns ]
    <3>1. CASE \E payload \in conn[d].initial : conn' = [ conn EXCEPT ![d].initial = @ \ {payload} ]
      <4>1. PICK payload \in conn[d].initial : conn' = [ conn EXCEPT ![d].initial = @ \ {payload} ]
        BY <3>1
      <4>2. conn[d].initial \ {payload} \in SUBSET Payloads
        BY <1>a
      <4> HIDE DEF Conns
      <4>3. [ conn[d] EXCEPT !.initial = conn[d].initial \ {payload} ] \in Conns
        BY <1>a, <4>2 DEF Conns
      <4> QED BY <1>a, <4>1, <4>3
    <3>2. CASE conn' = [ conn EXCEPT ![d].at = "stream" ]
      BY <1>a, <3>2
    <3> QED BY <1>2, <3>1, <3>2 DEF WriteInitial
  <2>2. received' \in [ Clients -> Seq(Payloads) ]
    <3>1. ASSUME NEW payload \in conn[d].initial, received' = [ received EXCEPT ![d] = Append(@, payload) ]
          PROVE  received' \in [ Clients -> Seq(Payloads) ]
      <4>1. payload \in Payloads /\ received[d] \in Seq(Payloads)
        BY <1>a, <3>1
      <4>2. Append(received[d], payload) \in Seq(Payloads)
        BY <4>1
      <4> QED BY <1>a, <3>1, <4>2
    <3> QED BY <1>a, <1>2, <3>1 DEF WriteInitial
  <2> QED BY <1>a, <1>c, <1>2, <2>1, <2>2 DEF WriteInitial
<1>3. CASE WriteEvent(d)
  <2>1. /\ Head(channel[d]) \in Payloads /\ Tail(channel[d]) \in Seq(Payloads)
        /\ Len(Tail(channel[d])) <= Buffer
    <3>1. channel[d] # <<>> /\ channel[d] \in Seq(Payloads) /\ Len(channel[d]) <= Buffer /\ Buffer \in Nat
      BY <1>a, <1>3, HubConstants DEF WriteEvent
    <3> QED BY <3>1
  <2>2. received' = [ received EXCEPT ![d] = Append(@, Head(channel[d])) ]
        /\ channel' = [ channel EXCEPT ![d] = Tail(@) ] /\ UNCHANGED <<subscribers, conn>>
    BY <1>3 DEF WriteEvent
  <2>3. received' \in [ Clients -> Seq(Payloads) ]
    BY <1>a, <2>1, <2>2
  <2>4. channel' \in [ Clients -> Seq(Payloads) ] /\ \A c \in Clients : Len(channel'[c]) <= Buffer
    BY <1>a, <2>1, <2>2
  <2> QED BY <1>a, <1>c, <2>2, <2>3, <2>4
<1>4. CASE Leave(d)
  <2>1. conn' \in [ Clients -> Conns ]
    BY <1>a, <1>4, ZenonT(30) DEF Leave
  <2> QED BY <1>a, <1>c, <1>4, <2>1 DEF Leave
<1> QED BY <1>1, <1>2, <1>3, <1>4 DEF ClientStep

(* A statement or a publication: of any topic, and of the topics in use.   *)
Names    == { "", "ranking", "queue", "on_course", "settings", "orphan", "directory", "sensor_status", "time" }
AnyStep  == [ tables : SUBSET Tables, topic : Names ]
StepType == [ tables : SUBSET Tables, topic : Topics \cup {""} ]

(* What every handler does is a sequence of such steps,                    *)
LEMMA StepsOfType ==
  ASSUME NEW op \in Operations
  PROVE  StepsOf(op) \in Seq(AnyStep)
<1>1. /\ W({"waiting"}) \in AnyStep /\ W({"on_course"}) \in AnyStep /\ W({"waiting", "on_course"}) \in AnyStep
      /\ W({"logs"}) \in AnyStep /\ W({"pending"}) \in AnyStep /\ W({"warnings"}) \in AnyStep
      /\ W({"scoring"}) \in AnyStep /\ W({"registration"}) \in AnyStep /\ W({"active"}) \in AnyStep
      /\ W({"orphanRuns"}) \in AnyStep /\ W({"drivers"}) \in AnyStep /\ W({"vehicles"}) \in AnyStep
      /\ W({"driverIcons"}) \in AnyStep /\ W({"vehicleIcons"}) \in AnyStep
  BY DEF W, AnyStep, Names, Tables
<1>2. /\ P("ranking") \in AnyStep /\ P("queue") \in AnyStep /\ P("on_course") \in AnyStep
      /\ P("settings") \in AnyStep /\ P("orphan") \in AnyStep /\ P("directory") \in AnyStep
      /\ P("sensor_status") \in AnyStep /\ P("time") \in AnyStep
  BY DEF P, AnyStep, Names
<1>3. PublishAll \in Seq(AnyStep)
  BY <1>2 DEF PublishAll
<1>4. /\ QueueSteps \in Seq(AnyStep) /\ LaunchSteps \in Seq(AnyStep) /\ CourseSteps \in Seq(AnyStep)
      /\ SensorStartSteps \in Seq(AnyStep) /\ FinishSteps \in Seq(AnyStep) /\ ConfirmSteps \in Seq(AnyStep)
  BY <1>1, <1>2 DEF QueueSteps, LaunchSteps, CourseSteps, SensorStartSteps, FinishSteps, ConfirmSteps
<1>5. /\ UndoGoalSteps \in Seq(AnyStep) /\ UndoStartSteps \in Seq(AnyStep) /\ LogSteps \in Seq(AnyStep)
      /\ SettleLogSteps \in Seq(AnyStep) /\ SettingsSteps \in Seq(AnyStep) /\ RegistrationSteps \in Seq(AnyStep)
  BY <1>1, <1>2 DEF UndoGoalSteps, UndoStartSteps, LogSteps, SettleLogSteps, SettingsSteps, RegistrationSteps
<1>6. /\ OrphanRunSteps \in Seq(AnyStep) /\ AdoptSteps \in Seq(AnyStep)
      /\ WarningSteps \in Seq(AnyStep) /\ VehicleSteps \in Seq(AnyStep)
  BY <1>1, <1>2 DEF OrphanRunSteps, AdoptSteps, WarningSteps, VehicleSteps
<1>7. CreateEventSteps \in Seq(AnyStep) /\ CloseEventSteps \in Seq(AnyStep)
  BY <1>1, <1>3 DEF CreateEventSteps, CloseEventSteps
<1>8. <<P("sensor_status")>> \in Seq(AnyStep) /\ <<P("time")>> \in Seq(AnyStep)
  BY <1>2
<1>9. /\ DriverSteps \in Seq(AnyStep) /\ MyVehicleSteps \in Seq(AnyStep) /\ DriverIconSteps \in Seq(AnyStep)
      /\ VehicleIconSteps \in Seq(AnyStep) /\ DirectorySteps \in Seq(AnyStep)
  BY <1>1, <1>2, <1>3 DEF DriverSteps, MyVehicleSteps, DriverIconSteps, VehicleIconSteps, DirectorySteps
<1> QED BY <1>4, <1>5, <1>6, <1>7, <1>8, <1>9, PublishingConstants DEF StepsOf

(* ... of topics that the hub knows.                                       *)
LEMMA StepsAreTyped ==
  ASSUME NEW op \in Operations
  PROVE  StepsOf(op) \in Seq(StepType)
<1>1. PICK s \in Seq(AnyStep) : s = StepsOf(op)
  BY StepsOfType
<1>2. \A i \in DOMAIN s : s[i] \in AnyStep
  BY <1>1
<1>3. \A i \in DOMAIN s : s[i].topic \in Topics \cup {""}
  BY <1>1, PublishingConstants
<1>4. \A i \in DOMAIN s : s[i] \in StepType
  BY <1>2, <1>3 DEF AnyStep, StepType
<1> HIDE DEF StepType
<1>5. s \in Seq(StepType)
  BY <1>1, <1>4
<1> QED BY <1>1, <1>5

(* The queries of the builder are for tables.                              *)
LEMMA ReadsAreTables == \A topic : Reads(topic) \in Seq(SUBSET Tables)
<1>1. /\ {"active", "scoring"} \in SUBSET Tables /\ {"logs"} \in SUBSET Tables /\ {"active"} \in SUBSET Tables
      /\ {"waiting"} \in SUBSET Tables /\ {"on_course"} \in SUBSET Tables /\ {"pending"} \in SUBSET Tables
      /\ {"active", "scoring", "registration"} \in SUBSET Tables /\ {"warnings"} \in SUBSET Tables
      /\ {"orphanRuns"} \in SUBSET Tables /\ {"dirRev"} \in SUBSET Tables /\ {"classes"} \in SUBSET Tables
      /\ Drivers \in SUBSET Tables /\ Vehicles \in SUBSET Tables
  BY DEF Tables, Drivers, Vehicles
<1>2. /\ RankingReads \in Seq(SUBSET Tables) /\ QueueReads \in Seq(SUBSET Tables)
      /\ OnCourseReads \in Seq(SUBSET Tables) /\ SettingsReads \in Seq(SUBSET Tables)
      /\ OrphanReads \in Seq(SUBSET Tables) /\ DirectoryReads \in Seq(SUBSET Tables)
      /\ <<>> \in Seq(SUBSET Tables)
  BY <1>1 DEF RankingReads, QueueReads, OnCourseReads, SettingsReads, OrphanReads, DirectoryReads
<1> QED BY <1>2 DEF Reads

(* What a builder has read so far, and what a goroutine is at.             *)
Versions == UNION { [ tables -> Nat ] : tables \in SUBSET Tables }
Tasks    == [ steps : Seq(StepType), read : Versions ]

TaskInv ==
  /\ version \in [ Tables -> Nat ]
  /\ task \in [ Publishers -> Tasks ]
  /\ \A p \in Publishers : \A t \in DOMAIN task[p].read : task[p].read[t] <= version[t]

(* The type invariant, with what a publication carries.                    *)
TypeInv ==
  /\ HubTypeInv /\ TaskInv
  /\ open \in Nat
  /\ handled \in 0 .. MaxHandlers
  /\ IsSequence(carries) /\ Len(carries) = Len(installed)

LEMMA ReadOf ==
  ASSUME NEW r \in Versions
  PROVE  DOMAIN r \in SUBSET Tables /\ \A t \in DOMAIN r : r[t] \in Nat
BY DEF Versions

(* A statement raises the versions of the tables it changes.               *)
LEMMA ChangedGrows ==
  ASSUME version \in [ Tables -> Nat ], NEW tables
  PROVE  /\ Changed(tables) \in [ Tables -> Nat ]
         /\ \A t \in Tables : /\ version[t] <= Changed(tables)[t]
                              /\ t \notin tables => Changed(tables)[t] = version[t]
                              /\ t \in tables => Changed(tables)[t] = version[t] + 1
BY DEF Changed

(* A step of a handler's, seen from its task and the versions.             *)
LEMMA TaskStep ==
  ASSUME TaskInv, NEW p \in Publishers, NEW new \in Tasks, task' = [ task EXCEPT ![p] = new ],
         version' \in [ Tables -> Nat ], \A t \in Tables : version[t] <= version'[t],
         \A t \in DOMAIN new.read : new.read[t] <= version'[t]
  PROVE  TaskInv'
<1>1. task' \in [ Publishers -> Tasks ]
  BY DEF TaskInv
<1>2. ASSUME NEW q \in Publishers, NEW t \in DOMAIN task'[q].read
      PROVE  task'[q].read[t] <= version'[t]
  <2>1. CASE q = p
    BY <1>2, <2>1 DEF TaskInv
  <2>2. CASE q # p
    <3>1. task'[q] = task[q] /\ task[q].read \in Versions /\ t \in DOMAIN task[q].read
      BY <1>2, <2>2 DEF TaskInv, Tasks
    <3>2. t \in Tables /\ task[q].read[t] \in Nat /\ task[q].read[t] <= version[t]
      BY <3>1, ReadOf DEF TaskInv
    <3>3. version[t] \in Nat /\ version'[t] \in Nat /\ version[t] <= version'[t]
      BY <3>2 DEF TaskInv
    <3> QED BY <3>1, <3>2, <3>3
  <2> QED BY <2>1, <2>2
<1> QED BY <1>1, <1>2 DEF TaskInv

(* The handler goes on to its next step.                                   *)
LEMMA AdvanceTask ==
  ASSUME TaskInv, NEW p \in Publishers, Ready(p), Advance(p)
  PROVE  /\ task' = [ task EXCEPT ![p] = [ steps |-> Tail(task[p].steps), read |-> NoSnapshot ] ]
         /\ [ steps |-> Tail(task[p].steps), read |-> NoSnapshot ] \in Tasks
         /\ Head(task[p].steps) \in StepType
         /\ DOMAIN NoSnapshot = {}
<1>1. task[p].steps \in Seq(StepType) /\ task[p].steps # <<>>
  BY DEF TaskInv, Tasks, Ready
<1>2. Tail(task[p].steps) \in Seq(StepType) /\ Head(task[p].steps) \in StepType
  BY <1>1
<1>3. NoSnapshot \in Versions /\ DOMAIN NoSnapshot = {}
  BY DEF NoSnapshot, Versions
<1> QED BY <1>2, <1>3 DEF Advance, Tasks

(* Nobody has done anything yet.                                           *)
LEMMA InitPubTypes == Init => TypeInv
<1> SUFFICES ASSUME Init PROVE TypeInv
  OBVIOUS
<1>1. HubTypeInv
  <2> USE DEF Init, InitHub
  <2>1. /\ Payloads = {} /\ installed \in Seq(Topics) /\ subscribers \subseteq Clients
        /\ snapshots \in [ Topics -> {NoPayload} \cup Payloads ]
    BY DEF NoPayload, Payloads
  <2>2. Unborn \in [ at      : {"unborn", "initial", "stream", "gone"},
                     topics  : SUBSET Topics,
                     kicked  : BOOLEAN,
                     initial : SUBSET Payloads,
                     since   : Nat ]
    BY DEF Unborn
  <2>3. <<>> \in Seq(Payloads) /\ Len(<<>>) <= Buffer
    BY HubConstants
  <2>4. NoSend \in [ payload : {NoPayload} \cup Payloads, targets : SUBSET Clients ] /\ NoSend.targets = {}
    BY DEF NoSend
  <2>5. /\ channel \in [ Clients -> Seq(Payloads) ] /\ received \in [ Clients -> Seq(Payloads) ]
        /\ \A c \in Clients : Len(channel[c]) <= Buffer
    BY <2>3
  <2>6. send \in [ Publishers -> [ payload : {NoPayload} \cup Payloads, targets : SUBSET Clients ] ]
        /\ \A p \in Publishers : send[p].targets = {}
    BY <2>4
  <2> QED BY <2>1, <2>2, <2>5, <2>6 DEF HubTypeInv, HubTypeOK
<1>2. Idle \in Tasks /\ DOMAIN Idle.read = {}
  BY DEF Idle, Tasks, Versions, NoSnapshot
<1>3. TaskInv
  BY <1>2 DEF Init, TaskInv
<1>4. IsSequence(carries) /\ Len(carries) = Len(installed)
  BY DEF Init, InitHub, IsSequence
<1>5. open \in Nat /\ handled \in 0 .. MaxHandlers
  <2>1. MaxHandlers \in Nat
    BY PublishingConstants
  <2> QED BY <2>1 DEF Init
<1> QED BY <1>1, <1>3, <1>4, <1>5 DEF TypeInv

(* The types, handler by handler and step by step: a handler starts,       *)
LEMMA BeginTypes ==
  ASSUME TypeInv, NEW p \in Publishers, Begin(p)
  PROVE  TypeInv'
<1> USE DEF TypeInv
<1>1. PICK op \in Operations :
        /\ task' = [ task EXCEPT ![p].steps = StepsOf(op) ]
        /\ IF TakesPending(op)
           THEN open > 0 /\ open' = open - 1 /\ version' = Changed({"pending"})
           ELSE UNCHANGED <<open, version>>
        /\ handled < MaxHandlers /\ handled' = handled + 1
        /\ UNCHANGED <<hub, carries>>
  BY DEF Begin
<1>2. open' \in Nat /\ handled' \in 0 .. MaxHandlers
  <2>1. open' \in Nat
    <3>1. open \in Nat
      OBVIOUS
    <3>2. CASE TakesPending(op)
      BY <1>1, <3>1, <3>2
    <3>3. CASE ~TakesPending(op)
      BY <1>1, <3>1, <3>3
    <3> QED BY <3>2, <3>3
  <2>2. handled \in 0 .. MaxHandlers /\ MaxHandlers \in Nat
    BY PublishingConstants
  <2> QED BY <1>1, <2>1, <2>2
<1>3. /\ version' \in [ Tables -> Nat ]
      /\ \A t \in Tables : version[t] <= version'[t]
  BY <1>1, ChangedGrows DEF TaskInv
<1> DEFINE new == [ steps |-> StepsOf(op), read |-> task[p].read ]
<1>4. task' = [ task EXCEPT ![p] = new ] /\ new \in Tasks
  <2>1. task[p] \in Tasks /\ StepsOf(op) \in Seq(StepType) /\ task[p].read \in Versions
    BY StepsAreTyped DEF TaskInv, Tasks
  <2>2. [ task[p] EXCEPT !.steps = StepsOf(op) ] = new
    BY <2>1 DEF Tasks
  <2>3. new \in Tasks
    BY <2>1 DEF Tasks
  <2>4. task' = [ task EXCEPT ![p] = [ task[p] EXCEPT !.steps = StepsOf(op) ] ]
    BY <1>1
  <2> QED BY <2>2, <2>3, <2>4
<1>5. \A t \in DOMAIN task[p].read : task[p].read[t] <= version'[t]
  <2> SUFFICES ASSUME NEW t \in DOMAIN task[p].read PROVE task[p].read[t] <= version'[t]
    OBVIOUS
  <2>1. t \in Tables /\ task[p].read[t] \in Nat /\ task[p].read[t] <= version[t]
    BY ReadOf DEF TaskInv, Tasks
  <2> QED BY <1>3, <2>1 DEF TaskInv
<1>6. \A t \in DOMAIN new.read : new.read[t] <= version'[t]
  BY <1>5
<1> HIDE DEF new
<1>7. TaskInv'
  BY <1>3, <1>4, <1>6, TaskStep
<1>8. HubTypeInv' /\ Len(carries') = Len(installed') /\ IsSequence(carries')
  BY <1>1 DEF hub, HubTypeInv, HubTypeOK, Payloads
<1> QED BY <1>2, <1>7, <1>8

(* ... commits a statement,                                                *)
LEMMA WriteTypes ==
  ASSUME TypeInv, NEW p \in Publishers, Write(p)
  PROVE  TypeInv'
<1> USE DEF TypeInv
<1>1. /\ version' = Changed(Head(task[p].steps).tables)
      /\ open' \in {open, open + 1} /\ Advance(p) /\ Ready(p)
      /\ UNCHANGED <<hub, handled, carries>>
  BY DEF Write
<1>2. /\ version' \in [ Tables -> Nat ]
      /\ \A t \in Tables : version[t] <= version'[t]
  BY <1>1, ChangedGrows DEF TaskInv
<1>3. TaskInv'
  BY <1>1, <1>2, AdvanceTask, TaskStep
<1>4. HubTypeInv' /\ Len(carries') = Len(installed') /\ IsSequence(carries')
  BY <1>1 DEF hub, HubTypeInv, HubTypeOK, Payloads
<1> QED BY <1>1, <1>3, <1>4

(* ... reads for a document,                                               *)
LEMMA ReadTypes ==
  ASSUME TypeInv, NEW p \in Publishers, Read(p)
  PROVE  TypeInv'
<1> USE DEF TypeInv
<1> DEFINE seen     == task[p].read
           query(i) == Reads(Topic(p))[i] \ DOMAIN seen
           read(i)  == [ t \in DOMAIN seen \cup query(i) |-> IF t \in query(i) THEN version'[t] ELSE seen[t] ]
<1>1. PICK i \in DOMAIN Reads(Topic(p)) :
         /\ version' = Changed(query(i) \cap {"dirRev"})
         /\ task' = [ task EXCEPT ![p].read = read(i) ]
  BY DEF Read, Unread
<1>2. /\ version' \in [ Tables -> Nat ]
      /\ \A t \in Tables : version[t] <= version'[t]
  BY <1>1, ChangedGrows DEF TaskInv
<1>3. seen \in Versions /\ task[p].steps \in Seq(StepType) /\ \A t \in DOMAIN seen : seen[t] <= version[t]
  BY DEF TaskInv, Tasks
<1>4. DOMAIN seen \in SUBSET Tables /\ \A t \in DOMAIN seen : seen[t] \in Nat
  BY <1>3, ReadOf
<1>5. query(i) \in SUBSET Tables
  BY ReadsAreTables
<1> HIDE DEF seen, query
<1>6. /\ DOMAIN read(i) = DOMAIN seen \cup query(i)
      /\ \A t \in DOMAIN read(i) : t \in Tables /\ read(i)[t] \in Nat /\ read(i)[t] <= version'[t]
  <2> SUFFICES ASSUME NEW t \in DOMAIN seen \cup query(i)
               PROVE  t \in Tables /\ read(i)[t] \in Nat /\ read(i)[t] <= version'[t]
    OBVIOUS
  <2>1. t \in Tables /\ version[t] \in Nat /\ version'[t] \in Nat /\ version[t] <= version'[t]
    BY <1>2, <1>4, <1>5 DEF TaskInv
  <2>2. CASE t \in query(i)
    BY <2>1, <2>2
  <2>3. CASE t \notin query(i)
    BY <1>3, <1>4, <2>1, <2>3
  <2> QED BY <2>2, <2>3
<1>7. read(i) \in Versions
  <2>1. read(i) \in [ DOMAIN seen \cup query(i) -> Nat ]
    BY <1>6
  <2>2. DOMAIN seen \cup query(i) \in SUBSET Tables
    BY <1>4, <1>5
  <2> HIDE DEF read
  <2> QED BY <2>1, <2>2 DEF Versions
<1> HIDE DEF read
<1> DEFINE new == [ steps |-> task[p].steps, read |-> read(i) ]
<1>8. task' = [ task EXCEPT ![p] = new ] /\ new \in Tasks /\ new.read = read(i)
  <2>1. task[p] \in Tasks
    BY DEF TaskInv
  <2>2. [ task[p] EXCEPT !.read = read(i) ] = new
    BY <2>1 DEF Tasks
  <2>3. new \in Tasks /\ new.read = read(i)
    BY <1>3, <1>7 DEF Tasks
  <2>4. task' = [ task EXCEPT ![p] = [ task[p] EXCEPT !.read = read(i) ] ]
    BY <1>1
  <2> QED BY <2>2, <2>3, <2>4
<1> HIDE DEF new
<1>9. TaskInv'
  BY <1>2, <1>6, <1>8, TaskStep
<1>10. UNCHANGED <<hub, open, handled, carries>>
  BY DEF Read
<1>11. HubTypeInv' /\ Len(carries') = Len(installed') /\ IsSequence(carries')
  BY <1>10 DEF hub, HubTypeInv, HubTypeOK, Payloads
<1> QED BY <1>9, <1>10, <1>11

(* ... and publishes it.                                                   *)
LEMMA PublishTypes ==
  ASSUME TypeInv, NEW p \in Publishers, PublishTopic(p)
  PROVE  TypeInv'
<1> USE DEF TypeInv
<1>1. /\ Ready(p) /\ Topic(p) # "" /\ Install(p, Topic(p)) /\ Advance(p)
      /\ carries' = Append(carries, task[p].read)
      /\ UNCHANGED <<version, open, handled>>
  BY DEF PublishTopic
<1>2. Topic(p) \in Topics
  BY <1>1, AdvanceTask DEF Topic, StepType
<1>3. HubTypeInv' /\ installed' = Append(installed, Topic(p)) /\ installed \in Seq(Topics)
  BY <1>1, <1>2, InstallTypes DEF Install, HubTypeInv, HubTypeOK
<1>4. TaskInv'
  <2>1. version \in [ Tables -> Nat ] /\ version' = version
    BY <1>1 DEF TaskInv
  <2>2. \A t \in Tables : version[t] \in Nat /\ version'[t] = version[t]
    BY <2>1
  <2>3. version' \in [ Tables -> Nat ] /\ \A t \in Tables : version[t] <= version'[t]
    BY <2>1, <2>2
  <2> QED BY <1>1, <2>3, AdvanceTask, TaskStep
<1>5. IsSequence(carries') /\ Len(carries') = Len(carries) + 1
  <2> DEFINE T == { carries[i] : i \in DOMAIN carries } \cup {task[p].read}
  <2>1. carries \in Seq(T) /\ task[p].read \in T
    BY DEF IsSequence
  <2> HIDE DEF T
  <2>2. Len(Append(carries, task[p].read)) = Len(carries) + 1
    BY <2>1
  <2> QED BY <1>1, <2>2, HistoryGrows
<1>6. Len(installed') = Len(installed) + 1
  BY <1>3
<1> QED BY <1>1, <1>3, <1>4, <1>5, <1>6

(* Every step keeps the types.                                             *)
LEMMA NextPubTypes == TypeInv /\ [Next]_vars => TypeInv'
<1> SUFFICES ASSUME TypeInv, [Next]_vars PROVE TypeInv'
  OBVIOUS
<1>1. ASSUME HubTypeInv', Len(installed') = Len(installed), UNCHANGED <<version, task, open, handled, carries>>
      PROVE  TypeInv'
  BY <1>1 DEF TypeInv, TaskInv
<1>2. ASSUME NEW p \in Publishers, Deliver(p) PROVE TypeInv'
  BY <1>1, <1>2, SendTypes DEF Deliver, SendTo, TypeInv
<1>3. ASSUME NEW c \in Clients, ClientNext(c) PROVE TypeInv'
  <2>1. UNCHANGED installed
    BY <1>3 DEF ClientNext, ClientStep, Subscribe, WriteInitial, WriteEvent, Leave
  <2> QED BY <1>1, <1>3, <2>1, ClientTypes DEF ClientNext, TypeInv
<1>4. CASE UNCHANGED vars
  <2>1. HubTypeInv'
    BY <1>4 DEF vars, hub, TypeInv, HubTypeInv, HubTypeOK, Payloads
  <2> QED BY <1>1, <1>4, <2>1 DEF vars, hub
<1> QED BY <1>2, <1>3, <1>4, BeginTypes, WriteTypes, ReadTypes, PublishTypes DEF Next, Handle

(* The hub and the handlers stay within their types: no channel holds more *)
(* than its buffer, no builder has read a version that does not exist yet  *)
(* (Publish, the snapshot builder).                                        *)
THEOREM PublishingTypes == Spec => []TypeOK
<1>1. TypeInv => TypeOK
  <2> SUFFICES ASSUME TypeInv PROVE TypeOK
    OBVIOUS
  <2>1. \A p \in Publishers : /\ task[p].steps \in Seq(StepType)
                              /\ \A t \in DOMAIN task[p].read : t \in Tables /\ task[p].read[t] <= version[t]
    BY ReadOf DEF TypeInv, TaskInv, Tasks
  <2> QED BY <2>1 DEF TypeInv, HubTypeInv, TaskInv, TypeOK, StepType
<1> QED BY <1>1, InitPubTypes, NextPubTypes, PTL DEF Spec

-----------------------------------------------------------------------------
(* Nothing concerns a connection that has not joined.                      *)
Untouched(c) == /\ channel[c] = <<>> /\ received[c] = <<>> /\ conn[c].initial = {}
                /\ c \notin subscribers
                /\ \A p \in Publishers : c \notin send[p].targets

(* What is sent to a connection was published after it joined.             *)
SentAfterJoin(c) ==
  /\ conn[c].since <= Len(installed)
  /\ \A n \in ToSet(channel[c]) : n > conn[c].since
  /\ \A p \in Publishers : c \in send[p].targets => send[p].payload > conn[c].since

(* TimeIsFresh, for one connection.                                        *)
FreshFor(c) == \A n \in ToSet(received[c]) \cup conn[c].initial : installed[n] = "time" => n > conn[c].since

(* Why a browser is never sent an old time: the snapshots are of their own *)
(* topics, so the one of "time" is not among the initial state; and        *)
(* whatever reaches a connection by its channel was published after it     *)
(* joined.                                                                 *)
FreshInv ==
  /\ \A c \in Clients : /\ conn[c].at = "unborn" => Untouched(c)
                        /\ SentAfterJoin(c)
                        /\ FreshFor(c)
  /\ \A t \in Topics : snapshots[t] # NoPayload => installed[snapshots[t]] = t

(* What is in a sequence that grows, or loses its head.                    *)
LEMMA SetOfAppend ==
  ASSUME NEW T, NEW s \in Seq(T), NEW e \in T
  PROVE  ToSet(Append(s, e)) = ToSet(s) \cup {e}
<1>1. /\ DOMAIN Append(s, e) = DOMAIN s \cup {Len(s) + 1} /\ Append(s, e)[Len(s) + 1] = e
      /\ \A i \in DOMAIN s : Append(s, e)[i] = s[i]
  OBVIOUS
<1> QED BY <1>1 DEF ToSet

LEMMA SetOfTail ==
  ASSUME NEW T, NEW s \in Seq(T), s # <<>>
  PROVE  ToSet(Tail(s)) \subseteq ToSet(s) /\ Head(s) \in ToSet(s)
<1>1. /\ \A i \in DOMAIN Tail(s) : i + 1 \in DOMAIN s /\ Tail(s)[i] = s[i + 1]
      /\ 1 \in DOMAIN s /\ Head(s) = s[1]
  OBVIOUS
<1> QED BY <1>1 DEF ToSet

LEMMA SetOfSeq ==
  ASSUME NEW T, NEW s \in Seq(T)
  PROVE  ToSet(s) \subseteq T
BY DEF ToSet

LEMMA InitFresh == Init => FreshInv
<1> SUFFICES ASSUME Init PROVE FreshInv
  OBVIOUS
<1> USE DEF Init, InitHub
<1>1. ToSet(<<>>) = {}
  BY DEF ToSet
<1>2. ASSUME NEW c \in Clients PROVE Untouched(c) /\ SentAfterJoin(c) /\ FreshFor(c)
  <2>1. /\ channel[c] = <<>> /\ received[c] = <<>> /\ conn[c].initial = {} /\ conn[c].since = 0
        /\ Len(installed) = 0 /\ subscribers = {}
        /\ \A p \in Publishers : send[p].targets = {}
    BY <1>2 DEF Unborn, NoSend
  <2> QED BY <1>1, <2>1 DEF Untouched, SentAfterJoin, FreshFor
<1> QED BY <1>2 DEF FreshInv

(* A publication is later than every join so far.                          *)
LEMMA InstallFresh ==
  ASSUME HubTypeInv, FreshInv, NEW p \in Publishers, NEW topic \in Topics, Install(p, topic)
  PROVE  FreshInv'
<1> DEFINE n == Len(installed) + 1
           targets == { c \in subscribers : topic \in conn[c].topics }
<1>1. installed \in Seq(Topics) /\ installed' = Append(installed, topic)
  BY DEF HubTypeInv, HubTypeOK, Install
<1>2. /\ Payloads \subseteq Nat /\ Len(installed) \in Nat /\ Len(installed') = n /\ installed'[n] = topic
      /\ \A m \in Payloads : installed'[m] = installed[m] /\ m <= Len(installed)
  BY <1>1, MorePayloads
<1>3. /\ UNCHANGED <<subscribers, conn, channel, received>>
      /\ send' = [ send EXCEPT ![p] = IF targets = {} THEN NoSend
                                      ELSE [ payload |-> n, targets |-> targets ] ]
      /\ snapshots' = [ snapshots EXCEPT ![topic] = n ]
  BY DEF Install
<1>4. /\ snapshots \in [ Topics -> {NoPayload} \cup Payloads ]
      /\ DOMAIN send = Publishers
      /\ \A c \in Clients : /\ conn[c].since \in Nat /\ conn[c].initial \subseteq Payloads
                            /\ received[c] \in Seq(Payloads) /\ channel[c] \in Seq(Payloads)
  BY DEF HubTypeInv, HubTypeOK
<1>5. /\ targets \subseteq subscribers /\ NoSend.targets = {}
      /\ \A q \in Publishers : /\ q # p => send'[q] = send[q]
                               /\ q = p => /\ send'[q].targets \subseteq targets
                                           /\ send'[q].targets # {} => send'[q].payload = n
  BY <1>3, <1>4 DEF NoSend
<1> HIDE DEF n, targets
<1>6. \A t \in Topics : snapshots'[t] # NoPayload => installed'[snapshots'[t]] = t
  BY <1>2, <1>3, <1>4 DEF FreshInv
<1>7. ASSUME NEW c \in Clients
      PROVE  (conn'[c].at = "unborn" => Untouched(c)') /\ SentAfterJoin(c)' /\ FreshFor(c)'
  <2>1. conn'[c] = conn[c] /\ channel'[c] = channel[c] /\ received'[c] = received[c] /\ subscribers' = subscribers
    BY <1>3
  <2>2. conn'[c].at = "unborn" => Untouched(c)'
    <3> SUFFICES ASSUME conn'[c].at = "unborn" PROVE Untouched(c)'
      OBVIOUS
    <3>1. Untouched(c)
      BY <2>1 DEF FreshInv
    <3>2. \A q \in Publishers : c \notin send'[q].targets
      BY <1>5, <3>1 DEF Untouched
    <3> QED BY <2>1, <3>1, <3>2 DEF Untouched
  <2>3. SentAfterJoin(c)'
    <3>1. SentAfterJoin(c) /\ conn[c].since \in Nat /\ n \in Nat /\ n > conn[c].since
      BY <1>2, <1>4 DEF FreshInv, SentAfterJoin, n
    <3>2. \A q \in Publishers : c \in send'[q].targets => send'[q].payload > conn[c].since
      BY <1>5, <3>1 DEF SentAfterJoin
    <3>3. conn[c].since <= Len(installed')
      BY <1>2, <3>1
    <3> QED BY <2>1, <3>1, <3>2, <3>3 DEF SentAfterJoin
  <2>4. FreshFor(c)'
    <3> SUFFICES ASSUME NEW m \in ToSet(received[c]) \cup conn[c].initial, installed'[m] = "time"
                 PROVE  m > conn[c].since
      BY <2>1 DEF FreshFor
    <3>1. m \in Payloads
      BY <1>4, SetOfSeq
    <3> QED BY <1>2, <3>1 DEF FreshInv, FreshFor
  <2> QED BY <2>2, <2>3, <2>4
<1> QED BY <1>6, <1>7 DEF FreshInv

(* It is sent to those that had joined by then.                            *)
LEMMA SendFresh ==
  ASSUME HubTypeInv, FreshInv, NEW p \in Publishers, SendTo(p)
  PROVE  FreshInv'
<1>1. PICK d \in send[p].targets :
        /\ send' = [ send EXCEPT ![p] = IF send[p].targets = {d} THEN NoSend
                                        ELSE [ payload |-> send[p].payload,
                                               targets |-> send[p].targets \ {d} ] ]
        /\ IF HasRoom(d)
           THEN /\ channel' = [ channel EXCEPT ![d] = Append(@, send[p].payload) ]
                /\ UNCHANGED <<subscribers, conn>>
           ELSE Disconnect(d) /\ UNCHANGED channel
        /\ UNCHANGED <<snapshots, installed, received>>
  BY DEF SendTo
<1>2. /\ d \in Clients /\ send[p].payload \in Payloads
      /\ DOMAIN send = Publishers /\ DOMAIN channel = Clients /\ DOMAIN conn = Clients
      /\ \A c \in Clients : channel[c] \in Seq(Payloads) /\ conn[c].since \in Nat
  BY <1>1 DEF HubTypeInv, HubTypeOK
<1>3. ASSUME NEW q \in Publishers
      PROVE  send'[q].targets \subseteq send[q].targets /\ (send'[q].targets # {} => send'[q].payload = send[q].payload)
  <2>1. CASE q = p
    BY <1>1, <1>2, <2>1 DEF NoSend
  <2>2. CASE q # p
    BY <1>1, <1>2, <2>2
  <2> QED BY <2>1, <2>2
<1>4. subscribers' \subseteq subscribers
      /\ \A c \in Clients : /\ conn'[c].since = conn[c].since /\ conn'[c].initial = conn[c].initial
                            /\ conn'[c].at = conn[c].at
  <2>1. CASE UNCHANGED <<subscribers, conn>>
    BY <2>1
  <2>2. CASE Disconnect(d)
    <3>1. \A c \in Clients : conn[c] \in [ at      : {"unborn", "initial", "stream", "gone"},
                                           topics  : SUBSET Topics,
                                           kicked  : BOOLEAN,
                                           initial : SUBSET Payloads,
                                           since   : Nat ]
      BY DEF HubTypeInv, HubTypeOK
    <3> QED BY <1>2, <2>2, <3>1 DEF Disconnect
  <2> QED BY <1>1, <2>1, <2>2
<1>5. ASSUME NEW c \in Clients
      PROVE  \/ channel'[c] = channel[c]
             \/ c = d /\ channel'[c] = Append(channel[c], send[p].payload)
  BY <1>1, <1>2
<1>6. ASSUME NEW c \in Clients
      PROVE  (conn'[c].at = "unborn" => Untouched(c)') /\ SentAfterJoin(c)' /\ FreshFor(c)'
  <2>1. FreshFor(c)'
    BY <1>1, <1>4 DEF FreshInv, FreshFor
  <2>2. SentAfterJoin(c)'
    <3>1. /\ conn[c].since <= Len(installed)
          /\ \A m \in ToSet(channel[c]) : m > conn[c].since
          /\ \A q \in Publishers : c \in send[q].targets => send[q].payload > conn[c].since
      BY DEF FreshInv, SentAfterJoin
    <3>2. \A m \in ToSet(channel'[c]) : m > conn[c].since
      <4>1. CASE channel'[c] = channel[c]
        BY <3>1, <4>1
      <4>2. CASE c = d /\ channel'[c] = Append(channel[c], send[p].payload)
        <5>1. ToSet(channel'[c]) = ToSet(channel[c]) \cup {send[p].payload}
          BY <1>2, <4>2, SetOfAppend
        <5> QED BY <1>1, <3>1, <4>2, <5>1
      <4> QED BY <1>5, <4>1, <4>2
    <3>3. \A q \in Publishers : c \in send'[q].targets => send'[q].payload > conn[c].since
      BY <1>3, <3>1
    <3> QED BY <1>1, <1>4, <3>1, <3>2, <3>3 DEF SentAfterJoin
  <2>3. conn'[c].at = "unborn" => Untouched(c)'
    <3> SUFFICES ASSUME conn'[c].at = "unborn" PROVE Untouched(c)'
      OBVIOUS
    <3>1. Untouched(c)
      BY <1>4 DEF FreshInv
    <3>2. c # d
      BY <1>1, <3>1 DEF Untouched
    <3>3. channel'[c] = channel[c] /\ received'[c] = received[c]
      BY <1>1, <1>5, <3>2
    <3>4. \A q \in Publishers : c \notin send'[q].targets
      BY <1>3, <3>1 DEF Untouched
    <3> QED BY <1>4, <3>1, <3>3, <3>4 DEF Untouched
  <2> QED BY <2>1, <2>2, <2>3
<1> QED BY <1>1, <1>6 DEF FreshInv

(* A connection joins, is written to and leaves.                           *)
LEMMA ClientFresh ==
  ASSUME HubTypeInv, FreshInv, NEW d \in Clients, ClientStep(d)
  PROVE  FreshInv'
<1>1. UNCHANGED <<snapshots, send, installed>>
  BY DEF ClientStep, Subscribe, WriteInitial, WriteEvent, Leave
<1>2. /\ DOMAIN conn = Clients /\ DOMAIN channel = Clients /\ DOMAIN received = Clients
      /\ snapshots \in [ Topics -> {NoPayload} \cup Payloads ] /\ installed \in Seq(Topics)
      /\ \A c \in Clients : /\ conn[c].since \in Nat /\ conn[c].initial \subseteq Payloads
                            /\ received[c] \in Seq(Payloads) /\ channel[c] \in Seq(Payloads)
  BY DEF HubTypeInv, HubTypeOK
<1>3. \A c \in Clients : conn[c] \in [ at      : {"unborn", "initial", "stream", "gone"},
                                       topics  : SUBSET Topics,
                                       kicked  : BOOLEAN,
                                       initial : SUBSET Payloads,
                                       since   : Nat ]
  BY DEF HubTypeInv, HubTypeOK
<1>4. ASSUME NEW c \in Clients, c # d
      PROVE  /\ conn'[c] = conn[c] /\ channel'[c] = channel[c] /\ received'[c] = received[c]
             /\ c \in subscribers' => c \in subscribers
  BY <1>2, <1>4 DEF ClientStep, Subscribe, WriteInitial, WriteEvent, Leave
<1>5. ASSUME NEW c \in Clients, c # d
      PROVE  (conn'[c].at = "unborn" => Untouched(c)') /\ SentAfterJoin(c)' /\ FreshFor(c)'
  <2>1. (conn[c].at = "unborn" => Untouched(c)) /\ SentAfterJoin(c) /\ FreshFor(c)
    BY DEF FreshInv
  <2>2. SentAfterJoin(c)' /\ FreshFor(c)'
    BY <1>1, <1>4, <1>5, <2>1 DEF SentAfterJoin, FreshFor
  <2>3. conn'[c].at = "unborn" => Untouched(c)'
    BY <1>1, <1>4, <1>5, <2>1 DEF Untouched
  <2> QED BY <2>2, <2>3
<1>6. ASSUME (conn'[d].at = "unborn" => Untouched(d)') /\ SentAfterJoin(d)' /\ FreshFor(d)'
      PROVE  FreshInv'
  BY <1>1, <1>5, <1>6 DEF FreshInv
<1>7. (conn[d].at = "unborn" => Untouched(d)) /\ SentAfterJoin(d) /\ FreshFor(d)
  BY DEF FreshInv
<1>8. CASE Subscribe(d)
  <2>1. PICK asked \in Requests :
          /\ conn[d].at = "unborn"
          /\ conn'[d] = [ at      |-> "initial",
                          topics  |-> Granted(d, asked),
                          kicked  |-> FALSE,
                          initial |-> Initial(Granted(d, asked)),
                          since   |-> Len(installed) ]
          /\ UNCHANGED <<channel, received>>
    BY <1>2, <1>8 DEF Subscribe
  <2>2. Untouched(d)
    BY <1>7, <2>1
  <2>3. ToSet(channel[d]) = {} /\ ToSet(received[d]) = {} /\ \A q \in Publishers : d \notin send[q].targets
    BY <2>2 DEF Untouched, ToSet
  <2>4. SentAfterJoin(d)'
    BY <1>1, <1>2, <2>1, <2>3 DEF SentAfterJoin
  <2>5. FreshFor(d)'
    <3> SUFFICES ASSUME NEW m \in Initial(Granted(d, asked)) PROVE installed[m] # "time"
      BY <1>1, <2>1, <2>3 DEF FreshFor
    <3>1. PICK t \in Granted(d, asked) \ {"time"} : m = snapshots[t] /\ m # NoPayload
      BY DEF Initial
    <3>2. t \in Topics
      BY <3>1, HubConstants DEF Granted
    <3> QED BY <3>1, <3>2 DEF FreshInv
  <2> QED BY <1>6, <2>1, <2>4, <2>5
<1>9. CASE WriteInitial(d)
  <2>1. UNCHANGED <<subscribers, channel>> /\ conn[d].at = "initial"
    BY <1>9 DEF WriteInitial
  <2>2. CASE UNCHANGED received
    <3>1. conn' = [ conn EXCEPT ![d].at = "stream" ] \/ \E payload \in conn[d].initial : conn' = [ conn EXCEPT ![d].initial = @ \ {payload} ]
      BY <1>9 DEF WriteInitial
    <3>2. conn'[d].at # "unborn" /\ conn'[d].since = conn[d].since /\ conn'[d].initial \subseteq conn[d].initial
      <4>1. CASE conn' = [ conn EXCEPT ![d].at = "stream" ]
        BY <1>2, <1>3, <4>1
      <4>2. ASSUME NEW payload \in conn[d].initial, conn' = [ conn EXCEPT ![d].initial = @ \ {payload} ]
            PROVE  conn'[d].at # "unborn" /\ conn'[d].since = conn[d].since /\ conn'[d].initial \subseteq conn[d].initial
        BY <1>2, <1>3, <2>1, <4>2
      <4> QED BY <3>1, <4>1, <4>2
    <3> QED BY <1>1, <1>6, <1>7, <2>1, <2>2, <3>2 DEF SentAfterJoin, FreshFor
  <2>3. CASE \E payload \in conn[d].initial :
               /\ conn' = [ conn EXCEPT ![d].initial = @ \ {payload} ]
               /\ received' = [ received EXCEPT ![d] = Append(@, payload) ]
    <3>1. PICK payload \in conn[d].initial :
            /\ conn' = [ conn EXCEPT ![d].initial = @ \ {payload} ]
            /\ received' = [ received EXCEPT ![d] = Append(@, payload) ]
      BY <2>3
    <3>2. conn'[d].at = "initial" /\ conn'[d].since = conn[d].since /\ conn'[d].initial \subseteq conn[d].initial
      BY <1>2, <1>3, <2>1, <3>1
    <3>3. ToSet(received'[d]) = ToSet(received[d]) \cup {payload}
      <4>1. received'[d] = Append(received[d], payload) /\ received[d] \in Seq(Payloads) /\ payload \in Payloads
        BY <1>2, <3>1
      <4> QED BY <4>1, SetOfAppend
    <3>4. FreshFor(d)'
      BY <1>1, <1>7, <3>1, <3>2, <3>3 DEF FreshFor
    <3>5. SentAfterJoin(d)'
      BY <1>1, <1>7, <2>1, <3>2 DEF SentAfterJoin
    <3> QED BY <1>6, <3>2, <3>4, <3>5
  <2> QED BY <1>9, <2>2, <2>3 DEF WriteInitial
<1>10. CASE WriteEvent(d)
  <2>1. /\ conn[d].at = "stream" /\ channel[d] # <<>> /\ UNCHANGED <<subscribers, conn>>
        /\ received'[d] = Append(received[d], Head(channel[d]))
        /\ channel'[d] = Tail(channel[d])
    BY <1>2, <1>10 DEF WriteEvent
  <2>2. ToSet(channel'[d]) \subseteq ToSet(channel[d]) /\ Head(channel[d]) \in ToSet(channel[d])
    BY <1>2, <2>1, SetOfTail
  <2>3. ToSet(received'[d]) = ToSet(received[d]) \cup {Head(channel[d])}
    <3>1. Head(channel[d]) \in Payloads
      BY <1>2, <2>2, SetOfSeq
    <3> QED BY <1>2, <2>1, <3>1, SetOfAppend
  <2>4. SentAfterJoin(d)'
    BY <1>1, <1>7, <2>1, <2>2 DEF SentAfterJoin
  <2>5. FreshFor(d)'
    BY <1>1, <1>7, <2>1, <2>2, <2>3 DEF SentAfterJoin, FreshFor
  <2> QED BY <1>6, <2>1, <2>4, <2>5
<1>11. CASE Leave(d)
  <2>1. UNCHANGED <<channel, received>> /\ conn' = [ conn EXCEPT ![d].at = "gone", ![d].initial = {} ]
    BY <1>11 DEF Leave
  <2>2. conn'[d].at = "gone" /\ conn'[d].initial = {} /\ conn'[d].since = conn[d].since
    BY <1>2, <1>3, <2>1
  <2> QED BY <1>1, <1>6, <1>7, <2>1, <2>2 DEF SentAfterJoin, FreshFor
<1> QED BY <1>8, <1>9, <1>10, <1>11 DEF ClientStep

LEMMA NextFresh == TypeInv /\ FreshInv /\ [Next]_vars => FreshInv'
<1> SUFFICES ASSUME TypeInv, FreshInv, [Next]_vars PROVE FreshInv'
  OBVIOUS
<1>1. ASSUME UNCHANGED hub PROVE FreshInv'
  BY <1>1 DEF hub, FreshInv, Untouched, SentAfterJoin, FreshFor
<1>2. ASSUME NEW p \in Publishers, PublishTopic(p) PROVE FreshInv'
  <2>1. Ready(p) /\ Topic(p) # "" /\ Install(p, Topic(p)) /\ Advance(p)
    BY <1>2 DEF PublishTopic
  <2>2. Topic(p) \in Topics
    BY <2>1, AdvanceTask DEF Topic, StepType, TypeInv
  <2> QED BY <2>1, <2>2, InstallFresh DEF TypeInv
<1>3. ASSUME NEW p \in Publishers, Deliver(p) PROVE FreshInv'
  BY <1>3, SendFresh DEF Deliver, TypeInv
<1>4. ASSUME NEW c \in Clients, ClientNext(c) PROVE FreshInv'
  BY <1>4, ClientFresh DEF ClientNext, TypeInv
<1> QED BY <1>1, <1>2, <1>3, <1>4 DEF Next, Handle, Begin, Write, Read, vars

(* A browser is sent no time from before it joined, however long a         *)
(* publication is under way (Handler, Publish).                            *)
THEOREM TimesAreFresh == Spec => []TimeIsFresh
<1>1. FreshInv => TimeIsFresh
  BY DEF FreshInv, FreshFor, TimeIsFresh
<1> QED BY <1>1, InitPubTypes, NextPubTypes, InitFresh, NextFresh, PTL DEF Spec

-----------------------------------------------------------------------------
(* What each topic shows of the tables, and what of it is due.             *)
LEMMA WhoShows ==
  ASSUME NEW topic
  PROVE  Shows(topic) = (UNION { Reads(topic)[i] : i \in DOMAIN Reads(topic) }) \ {"dirRev"}
BY DEF Shows, ToSet

LEMMA WhatIsDue ==
  ASSUME NEW topic
  PROVE  /\ Due(topic) \subseteq Shows(topic)
         /\ topic = "ranking"   => Due(topic) = {"active", "scoring", "logs", "vehicles", "driverIcons", "vehicleIcons", "classes"}
         /\ topic = "queue"     => Due(topic) = {"active", "waiting", "driverIcons", "vehicleIcons"}
         /\ topic = "on_course" => Due(topic) = {"active", "on_course", "pending", "driverIcons", "vehicleIcons"}
         /\ topic = "settings"  => Due(topic) = {"active", "scoring", "registration"}
         /\ topic = "orphan"    => Due(topic) = {"warnings", "orphanRuns"}
         /\ topic \notin {"ranking", "queue", "on_course", "settings", "orphan"} => Due(topic) = {}
<1>1. Shows(topic) = (UNION { Reads(topic)[i] : i \in DOMAIN Reads(topic) }) \ {"dirRev"}
  BY WhoShows
<1>2. ASSUME NEW a, Reads(topic) = <<a>>
      PROVE  Shows(topic) = a \ {"dirRev"}
  <2>1. DOMAIN Reads(topic) = {1}
        /\ Reads(topic)[1] = a
    BY <1>2
  <2>2. { Reads(topic)[i] : i \in DOMAIN Reads(topic) } = {a}
    BY <2>1
  <2> QED BY <1>1, <2>2
<1>3. ASSUME NEW a, NEW b, Reads(topic) = <<a, b>>
      PROVE  Shows(topic) = (a \cup b) \ {"dirRev"}
  <2>1. DOMAIN Reads(topic) = {1, 2}
        /\ Reads(topic)[1] = a /\ Reads(topic)[2] = b
    BY <1>3
  <2>2. { Reads(topic)[i] : i \in DOMAIN Reads(topic) } = {a, b}
    BY <2>1
  <2> QED BY <1>1, <2>2
<1>4. ASSUME NEW a, NEW b, NEW d, NEW e, Reads(topic) = <<a, b, d, e>>
      PROVE  Shows(topic) = (a \cup b \cup d \cup e) \ {"dirRev"}
  <2>1. DOMAIN Reads(topic) = {1, 2, 3, 4}
        /\ Reads(topic)[1] = a /\ Reads(topic)[2] = b /\ Reads(topic)[3] = d /\ Reads(topic)[4] = e
    BY <1>4
  <2>2. { Reads(topic)[i] : i \in DOMAIN Reads(topic) } = {a, b, d, e}
    BY <2>1
  <2> QED BY <1>1, <2>2
<1>5. ASSUME NEW a, NEW b, NEW d, NEW e, NEW f, Reads(topic) = <<a, b, d, e, f>>
      PROVE  Shows(topic) = (a \cup b \cup d \cup e \cup f) \ {"dirRev"}
  <2>1. DOMAIN Reads(topic) = {1, 2, 3, 4, 5}
        /\ Reads(topic)[1] = a /\ Reads(topic)[2] = b /\ Reads(topic)[3] = d /\ Reads(topic)[4] = e /\ Reads(topic)[5] = f
    BY <1>5
  <2>2. { Reads(topic)[i] : i \in DOMAIN Reads(topic) } = {a, b, d, e, f}
    BY <2>1
  <2> QED BY <1>1, <2>2
<1>6. topic = "ranking" => Due(topic) = {"active", "scoring", "logs", "vehicles", "driverIcons", "vehicleIcons", "classes"}
  <2> SUFFICES ASSUME topic = "ranking" PROVE Due(topic) = {"active", "scoring", "logs", "vehicles", "driverIcons", "vehicleIcons", "classes"}
    OBVIOUS
  <2>1. Reads(topic) = <<{"active", "scoring"}, {"logs"}, Drivers, Vehicles, {"classes"}>>
    BY DEF Reads, RankingReads
  <2>2. Shows(topic) = ({"active", "scoring"} \cup {"logs"} \cup Drivers \cup Vehicles \cup {"classes"}) \ {"dirRev"}
    BY <1>5, <2>1
  <2> QED BY <2>2 DEF Due, LeftOld, Drivers, Vehicles
<1>7. topic = "queue" => Due(topic) = {"active", "waiting", "driverIcons", "vehicleIcons"}
  <2> SUFFICES ASSUME topic = "queue" PROVE Due(topic) = {"active", "waiting", "driverIcons", "vehicleIcons"}
    OBVIOUS
  <2>1. Reads(topic) = <<{"active"}, {"waiting"}, Drivers, Vehicles>>
    BY DEF Reads, QueueReads
  <2>2. Shows(topic) = ({"active"} \cup {"waiting"} \cup Drivers \cup Vehicles) \ {"dirRev"}
    BY <1>4, <2>1
  <2> QED BY <2>2 DEF Due, LeftOld, Drivers, Vehicles
<1>8. topic = "on_course" => Due(topic) = {"active", "on_course", "pending", "driverIcons", "vehicleIcons"}
  <2> SUFFICES ASSUME topic = "on_course" PROVE Due(topic) = {"active", "on_course", "pending", "driverIcons", "vehicleIcons"}
    OBVIOUS
  <2>1. Reads(topic) = <<{"active"}, {"on_course"}, Drivers, Vehicles, {"pending"}>>
    BY DEF Reads, OnCourseReads
  <2>2. Shows(topic) = ({"active"} \cup {"on_course"} \cup Drivers \cup Vehicles \cup {"pending"}) \ {"dirRev"}
    BY <1>5, <2>1
  <2> QED BY <2>2 DEF Due, LeftOld, Drivers, Vehicles
<1>9. topic = "settings" => Due(topic) = {"active", "scoring", "registration"}
  <2> SUFFICES ASSUME topic = "settings" PROVE Due(topic) = {"active", "scoring", "registration"}
    OBVIOUS
  <2>1. Reads(topic) = <<{"active", "scoring", "registration"}>>
    BY DEF Reads, SettingsReads
  <2>2. Shows(topic) = {"active", "scoring", "registration"} \ {"dirRev"}
    BY <1>2, <2>1
  <2> QED BY <2>2 DEF Due, LeftOld
<1>10. topic = "orphan" => Due(topic) = {"warnings", "orphanRuns"}
  <2> SUFFICES ASSUME topic = "orphan" PROVE Due(topic) = {"warnings", "orphanRuns"}
    OBVIOUS
  <2>1. Reads(topic) = <<{"warnings"}, {"orphanRuns"}>>
    BY DEF Reads, OrphanReads
  <2>2. Shows(topic) = ({"warnings"} \cup {"orphanRuns"}) \ {"dirRev"}
    BY <1>3, <2>1
  <2> QED BY <2>2 DEF Due, LeftOld
<1>11. topic \notin {"ranking", "queue", "on_course", "settings", "orphan"} => Due(topic) = {}
  <2>1. CASE topic = "directory"
    <3>1. Reads(topic) = <<{"dirRev"}>>
      BY <2>1 DEF Reads, DirectoryReads
    <3>2. Shows(topic) = {"dirRev"} \ {"dirRev"}
      BY <1>2, <3>1
    <3> QED BY <3>2 DEF Due
  <2>2. CASE topic \notin {"ranking", "queue", "on_course", "settings", "orphan", "directory"}
    <3>1. Reads(topic) = <<>>
      BY <2>2 DEF Reads
    <3> QED BY <1>1, <3>1 DEF Due
  <2> QED BY <2>1, <2>2
<1>12. Due(topic) \subseteq Shows(topic)
  BY DEF Due
<1> QED BY <1>6, <1>7, <1>8, <1>9, <1>10, <1>11, <1>12

(* The topics that owe a table.                                            *)
LEMMA ShownBy ==
  ASSUME NEW topic
  PROVE  /\ "waiting"      \in Due(topic) => topic = "queue"
         /\ "on_course"    \in Due(topic) => topic = "on_course"
         /\ "pending"      \in Due(topic) => topic = "on_course"
         /\ "logs"         \in Due(topic) => topic = "ranking"
         /\ "scoring"      \in Due(topic) => topic = "ranking" \/ topic = "settings"
         /\ "registration" \in Due(topic) => topic = "settings"
         /\ "warnings"     \in Due(topic) => topic = "orphan"
         /\ "orphanRuns"   \in Due(topic) => topic = "orphan"
         /\ "active"       \in Due(topic) => \/ topic = "ranking" \/ topic = "queue"
                                             \/ topic = "on_course" \/ topic = "settings"
         /\ "vehicles"     \in Due(topic) => topic = "ranking"
         /\ "drivers"      \notin Due(topic)
         /\ "driverIcons"  \in Due(topic) => topic = "ranking" \/ topic = "queue" \/ topic = "on_course"
         /\ "vehicleIcons" \in Due(topic) => topic = "ranking" \/ topic = "queue" \/ topic = "on_course"
<1>1. CASE topic = "ranking"
  BY <1>1, WhatIsDue
<1>2. CASE topic = "queue"
  BY <1>2, WhatIsDue
<1>3. CASE topic = "on_course"
  BY <1>3, WhatIsDue
<1>4. CASE topic = "settings"
  BY <1>4, WhatIsDue
<1>5. CASE topic = "orphan"
  BY <1>5, WhatIsDue
<1>6. CASE topic \notin {"ranking", "queue", "on_course", "settings", "orphan"}
  BY <1>6, WhatIsDue
<1> QED BY <1>1, <1>2, <1>3, <1>4, <1>5, <1>6

(* A step enters the pending map; a topic is published after step i; a     *)
(* step after it enters the pending map.                                   *)
PendingWrite(s)       == s.topic = "" /\ "pending" \in s.tables
Later(steps, i, topic) == \E j \in DOMAIN steps : j > i /\ steps[j].topic = topic
LaterPending(steps, i) == \E j \in DOMAIN steps : j > i /\ PendingWrite(steps[j])

(* What a handler changes it publishes after that, on each topic that      *)
(* shows it; only a finish leaves the ranking to its confirmation.         *)
Covers(steps, i, t) ==
  \A topic : t \in Due(topic) => \/ Later(steps, i, topic)
                                 \/ topic = "ranking" /\ t = "logs" /\ LaterPending(steps, i)

Covered(steps) == \A i \in DOMAIN steps : \A t \in steps[i].tables : Covers(steps, i, t)

(* What is left of such a handler when its first step is done.             *)
LEMMA CoveredTail ==
  ASSUME NEW T, NEW s \in Seq(T), s # <<>>, Covered(s)
  PROVE  Covered(Tail(s))
<1>1. /\ \A i \in DOMAIN Tail(s) : i \in Nat /\ i + 1 \in DOMAIN s /\ Tail(s)[i] = s[i + 1]
      /\ \A j \in DOMAIN s : j > 1 => j - 1 \in DOMAIN Tail(s) /\ Tail(s)[j - 1] = s[j] /\ j \in Nat
      /\ \A j \in DOMAIN s : j \in Nat
  OBVIOUS
<1> SUFFICES ASSUME NEW i \in DOMAIN Tail(s), NEW t \in Tail(s)[i].tables, NEW topic, t \in Due(topic)
             PROVE  \/ Later(Tail(s), i, topic)
                    \/ topic = "ranking" /\ t = "logs" /\ LaterPending(Tail(s), i)
  BY DEF Covered, Covers
<1>2. i \in Nat /\ i + 1 \in DOMAIN s /\ t \in s[i + 1].tables
  BY <1>1
<1>3. CASE Later(s, i + 1, topic)
  <2>1. PICK j \in DOMAIN s : j > i + 1 /\ s[j].topic = topic
    BY <1>3 DEF Later
  <2>2. j - 1 \in DOMAIN Tail(s) /\ Tail(s)[j - 1] = s[j] /\ j - 1 > i
    BY <1>1, <1>2, <2>1
  <2> QED BY <2>1, <2>2 DEF Later
<1>4. CASE topic = "ranking" /\ t = "logs" /\ LaterPending(s, i + 1)
  <2>1. PICK j \in DOMAIN s : j > i + 1 /\ PendingWrite(s[j])
    BY <1>4 DEF LaterPending
  <2>2. j - 1 \in DOMAIN Tail(s) /\ Tail(s)[j - 1] = s[j] /\ j - 1 > i
    BY <1>1, <1>2, <2>1
  <2> QED BY <1>4, <2>1, <2>2 DEF LaterPending
<1> QED BY <1>2, <1>3, <1>4 DEF Covered, Covers

LEMMA StepFields ==
  /\ \A tables : W(tables).tables = tables /\ W(tables).topic = ""
  /\ \A topic : P(topic).tables = {} /\ P(topic).topic = topic
BY DEF W, P

LEMMA TwoSteps ==
  ASSUME NEW a, NEW b, NEW s, s = <<a, b>>,
         b.tables = {}, \A t \in a.tables : \A topic : t \in Due(topic) => topic = b.topic
  PROVE  Covered(s)
<1>1. DOMAIN s = {1, 2} /\ s[1] = a /\ s[2] = b
  OBVIOUS
<1>2. Later(s, 1, b.topic)
  BY <1>1 DEF Later
<1> QED BY <1>1, <1>2 DEF Covered, Covers

(* Every handler publishes what it changes (StepsOf): each of them, step   *)
(* by step.                                                                *)
LEMMA StepsAreCovered ==
  ASSUME NEW op \in Operations
  PROVE  Covered(StepsOf(op))
<1>p1. P("on_course").tables = {} /\ P("on_course").topic = "on_course"
  BY DEF P
<1>p2. P("orphan").tables = {} /\ P("orphan").topic = "orphan"
  BY DEF P
<1>p3. P("queue").tables = {} /\ P("queue").topic = "queue"
  BY DEF P
<1>p4. P("ranking").tables = {} /\ P("ranking").topic = "ranking"
  BY DEF P
<1>p5. P("settings").tables = {} /\ P("settings").topic = "settings"
  BY DEF P
<1>p6. P("directory").tables = {} /\ P("directory").topic = "directory"
  BY DEF P
<1>w1. W({"active"}).tables = {"active"} /\ W({"active"}).topic = ""
  BY DEF W
<1>w2. W({"logs"}).tables = {"logs"} /\ W({"logs"}).topic = ""
  BY DEF W
<1>w3. W({"on_course"}).tables = {"on_course"} /\ W({"on_course"}).topic = ""
  BY DEF W
<1>w4. W({"orphanRuns"}).tables = {"orphanRuns"} /\ W({"orphanRuns"}).topic = ""
  BY DEF W
<1>w5. W({"pending"}).tables = {"pending"} /\ W({"pending"}).topic = ""
  BY DEF W
<1>w6. W({"registration"}).tables = {"registration"} /\ W({"registration"}).topic = ""
  BY DEF W
<1>w7. W({"scoring"}).tables = {"scoring"} /\ W({"scoring"}).topic = ""
  BY DEF W
<1>w8. W({"waiting"}).tables = {"waiting"} /\ W({"waiting"}).topic = ""
  BY DEF W
<1>w9. W({"waiting", "on_course"}).tables = {"waiting", "on_course"} /\ W({"waiting", "on_course"}).topic = ""
  BY DEF W
<1>w10. W({"warnings"}).tables = {"warnings"} /\ W({"warnings"}).topic = ""
  BY DEF W
<1>w11. W({"drivers"}).tables = {"drivers"} /\ W({"drivers"}).topic = ""
  BY DEF W
<1>w12. W({"vehicles"}).tables = {"vehicles"} /\ W({"vehicles"}).topic = ""
  BY DEF W
<1>w13. W({"driverIcons"}).tables = {"driverIcons"} /\ W({"driverIcons"}).topic = ""
  BY DEF W
<1>w14. W({"vehicleIcons"}).tables = {"vehicleIcons"} /\ W({"vehicleIcons"}).topic = ""
  BY DEF W
<1>1. Covered(QueueSteps)
  <2> DEFINE s == QueueSteps
  <2>1. /\ DOMAIN s = {1, 2}
        /\ s[1] = W({"waiting"}) /\ s[2] = P("queue")
    BY DEF QueueSteps
  <2> HIDE DEF s
  <2>2. s[1].tables = {"waiting"} /\ s[2].tables = {}
    BY <2>1, <1>w8, <1>p3
  <2>3. /\ s[2].topic = "queue"
        /\ 2 \in DOMAIN s
    BY <2>1, <1>w8, <1>p3
  <2>4. Later(s, 1, "queue")
    BY <2>3 DEF Later
  <2>5. \A t \in s[1].tables : Covers(s, 1, t)
    BY <2>2, <2>4, ShownBy DEF Covers
  <2>6. Covered(s)
    BY <2>1, <2>2, <2>5 DEF Covered
  <2> QED BY <2>6 DEF s
<1>2. Covered(LaunchSteps)
  <2> DEFINE s == LaunchSteps
  <2>1. /\ DOMAIN s = {1, 2, 3, 4}
        /\ s[1] = W({"waiting", "on_course"}) /\ s[2] = W({"on_course"})
        /\ s[3] = P("queue") /\ s[4] = P("on_course")
    BY DEF LaunchSteps
  <2> HIDE DEF s
  <2>2. s[1].tables = {"waiting", "on_course"} /\ s[2].tables = {"on_course"} /\ s[3].tables = {} /\ s[4].tables = {}
    BY <2>1, <1>w9, <1>w3, <1>p3, <1>p1
  <2>3. /\ s[3].topic = "queue" /\ s[4].topic = "on_course"
        /\ 3 \in DOMAIN s /\ 4 \in DOMAIN s
    BY <2>1, <1>w9, <1>w3, <1>p3, <1>p1
  <2>4. Later(s, 1, "queue") /\ Later(s, 1, "on_course") /\ Later(s, 2, "on_course")
    BY <2>3 DEF Later
  <2>5. \A t \in s[1].tables : Covers(s, 1, t)
    BY <2>2, <2>4, ShownBy DEF Covers
  <2>6. \A t \in s[2].tables : Covers(s, 2, t)
    BY <2>2, <2>4, ShownBy DEF Covers
  <2>7. Covered(s)
    BY <2>1, <2>2, <2>5, <2>6 DEF Covered
  <2> QED BY <2>7 DEF s
<1>3. Covered(CourseSteps)
  <2> DEFINE s == CourseSteps
  <2>1. /\ DOMAIN s = {1, 2, 3}
        /\ s[1] = W({"on_course"}) /\ s[2] = P("queue") /\ s[3] = P("on_course")
    BY DEF CourseSteps
  <2> HIDE DEF s
  <2>2. s[1].tables = {"on_course"} /\ s[2].tables = {} /\ s[3].tables = {}
    BY <2>1, <1>w3, <1>p3, <1>p1
  <2>3. /\ s[2].topic = "queue" /\ s[3].topic = "on_course"
        /\ 2 \in DOMAIN s /\ 3 \in DOMAIN s
    BY <2>1, <1>w3, <1>p3, <1>p1
  <2>4. Later(s, 1, "on_course")
    BY <2>3 DEF Later
  <2>5. \A t \in s[1].tables : Covers(s, 1, t)
    BY <2>2, <2>4, ShownBy DEF Covers
  <2>6. Covered(s)
    BY <2>1, <2>2, <2>5 DEF Covered
  <2> QED BY <2>6 DEF s
<1>4. Covered(SensorStartSteps)
  <2> DEFINE s == SensorStartSteps
  <2>1. /\ DOMAIN s = {1, 2}
        /\ s[1] = W({"on_course"}) /\ s[2] = P("on_course")
    BY DEF SensorStartSteps
  <2> HIDE DEF s
  <2>2. s[1].tables = {"on_course"} /\ s[2].tables = {}
    BY <2>1, <1>w3, <1>p1
  <2>3. /\ s[2].topic = "on_course"
        /\ 2 \in DOMAIN s
    BY <2>1, <1>w3, <1>p1
  <2>4. Later(s, 1, "on_course")
    BY <2>3 DEF Later
  <2>5. \A t \in s[1].tables : Covers(s, 1, t)
    BY <2>2, <2>4, ShownBy DEF Covers
  <2>6. Covered(s)
    BY <2>1, <2>2, <2>5 DEF Covered
  <2> QED BY <2>6 DEF s
<1>5. Covered(FinishSteps)
  <2> DEFINE s == FinishSteps
  <2>1. /\ DOMAIN s = {1, 2, 3, 4}
        /\ s[1] = W({"logs"}) /\ s[2] = W({"pending"})
        /\ s[3] = P("on_course") /\ s[4] = P("queue")
    BY DEF FinishSteps
  <2> HIDE DEF s
  <2>2. s[1].tables = {"logs"} /\ s[2].tables = {"pending"} /\ s[3].tables = {} /\ s[4].tables = {}
    BY <2>1, <1>w2, <1>w5, <1>p1, <1>p3
  <2>3. /\ s[3].topic = "on_course" /\ s[4].topic = "queue"
        /\ 3 \in DOMAIN s /\ 4 \in DOMAIN s
    BY <2>1, <1>w2, <1>w5, <1>p1, <1>p3
  <2>4. Later(s, 2, "on_course")
    BY <2>3 DEF Later
  <2>5. LaterPending(s, 1)
    <3>1. "pending" \in s[2].tables
      BY <2>2
    <3>2. s[2].topic = "" /\ 2 \in DOMAIN s
      BY <2>1, <1>w5
    <3>3. PendingWrite(s[2])
      BY <3>1, <3>2 DEF PendingWrite
    <3>4. 2 \in DOMAIN s /\ 2 > 1
      BY <2>1
    <3> QED BY <3>3, <3>4 DEF LaterPending
  <2>6. \A t \in s[1].tables : Covers(s, 1, t)
    BY <2>2, <2>4, <2>5, ShownBy DEF Covers
  <2>7. \A t \in s[2].tables : Covers(s, 2, t)
    BY <2>2, <2>4, <2>5, ShownBy DEF Covers
  <2>8. Covered(s)
    BY <2>1, <2>2, <2>6, <2>7 DEF Covered
  <2> QED BY <2>8 DEF s
<1>6. Covered(ConfirmSteps)
  <2> DEFINE s == ConfirmSteps
  <2>1. /\ DOMAIN s = {1, 2, 3, 4}
        /\ s[1] = W({"on_course"}) /\ s[2] = P("on_course")
        /\ s[3] = P("queue") /\ s[4] = P("ranking")
    BY DEF ConfirmSteps
  <2> HIDE DEF s
  <2>2. s[1].tables = {"on_course"} /\ s[2].tables = {} /\ s[3].tables = {} /\ s[4].tables = {}
    BY <2>1, <1>w3, <1>p1, <1>p3, <1>p4
  <2>3. /\ s[2].topic = "on_course" /\ s[3].topic = "queue" /\ s[4].topic = "ranking"
        /\ 2 \in DOMAIN s /\ 3 \in DOMAIN s /\ 4 \in DOMAIN s
    BY <2>1, <1>w3, <1>p1, <1>p3, <1>p4
  <2>4. Later(s, 1, "on_course")
    BY <2>3 DEF Later
  <2>5. \A t \in s[1].tables : Covers(s, 1, t)
    BY <2>2, <2>4, ShownBy DEF Covers
  <2>6. Covered(s)
    BY <2>1, <2>2, <2>5 DEF Covered
  <2> QED BY <2>6 DEF s
<1>7. Covered(UndoGoalSteps)
  <2> DEFINE s == UndoGoalSteps
  <2>1. /\ DOMAIN s = {1, 2, 3}
        /\ s[1] = W({"logs"}) /\ s[2] = P("on_course") /\ s[3] = P("ranking")
    BY DEF UndoGoalSteps
  <2> HIDE DEF s
  <2>2. s[1].tables = {"logs"} /\ s[2].tables = {} /\ s[3].tables = {}
    BY <2>1, <1>w2, <1>p1, <1>p4
  <2>3. /\ s[2].topic = "on_course" /\ s[3].topic = "ranking"
        /\ 2 \in DOMAIN s /\ 3 \in DOMAIN s
    BY <2>1, <1>w2, <1>p1, <1>p4
  <2>4. Later(s, 1, "ranking")
    BY <2>3 DEF Later
  <2>5. \A t \in s[1].tables : Covers(s, 1, t)
    BY <2>2, <2>4, ShownBy DEF Covers
  <2>6. Covered(s)
    BY <2>1, <2>2, <2>5 DEF Covered
  <2> QED BY <2>6 DEF s
<1>8. Covered(UndoStartSteps)
  <2> DEFINE s == UndoStartSteps
  <2>1. /\ DOMAIN s = {1, 2, 3, 4, 5}
        /\ s[1] = W({"on_course"}) /\ s[2] = W({"waiting", "on_course"})
        /\ s[3] = W({"waiting"}) /\ s[4] = P("queue") /\ s[5] = P("on_course")
    BY DEF UndoStartSteps
  <2> HIDE DEF s
  <2>2. s[1].tables = {"on_course"} /\ s[2].tables = {"waiting", "on_course"} /\ s[3].tables = {"waiting"} /\ s[4].tables = {} /\ s[5].tables = {}
    BY <2>1, <1>w3, <1>w9, <1>w8, <1>p3, <1>p1
  <2>3. /\ s[4].topic = "queue" /\ s[5].topic = "on_course"
        /\ 4 \in DOMAIN s /\ 5 \in DOMAIN s
    BY <2>1, <1>w3, <1>w9, <1>w8, <1>p3, <1>p1
  <2>4. Later(s, 1, "on_course") /\ Later(s, 2, "queue") /\ Later(s, 2, "on_course") /\ Later(s, 3, "queue")
    BY <2>3 DEF Later
  <2>5. \A t \in s[1].tables : Covers(s, 1, t)
    BY <2>2, <2>4, ShownBy DEF Covers
  <2>6. \A t \in s[2].tables : Covers(s, 2, t)
    BY <2>2, <2>4, ShownBy DEF Covers
  <2>7. \A t \in s[3].tables : Covers(s, 3, t)
    BY <2>2, <2>4, ShownBy DEF Covers
  <2>8. Covered(s)
    BY <2>1, <2>2, <2>5, <2>6, <2>7 DEF Covered
  <2> QED BY <2>8 DEF s
<1>9. Covered(LogSteps)
  <2> DEFINE s == LogSteps
  <2>1. /\ DOMAIN s = {1, 2}
        /\ s[1] = W({"logs"}) /\ s[2] = P("ranking")
    BY DEF LogSteps
  <2> HIDE DEF s
  <2>2. s[1].tables = {"logs"} /\ s[2].tables = {}
    BY <2>1, <1>w2, <1>p4
  <2>3. /\ s[2].topic = "ranking"
        /\ 2 \in DOMAIN s
    BY <2>1, <1>w2, <1>p4
  <2>4. Later(s, 1, "ranking")
    BY <2>3 DEF Later
  <2>5. \A t \in s[1].tables : Covers(s, 1, t)
    BY <2>2, <2>4, ShownBy DEF Covers
  <2>6. Covered(s)
    BY <2>1, <2>2, <2>5 DEF Covered
  <2> QED BY <2>6 DEF s
<1>10. Covered(SettleLogSteps)
  <2> DEFINE s == SettleLogSteps
  <2>1. /\ DOMAIN s = {1, 2, 3, 4}
        /\ s[1] = W({"logs"}) /\ s[2] = P("ranking")
        /\ s[3] = W({"warnings"}) /\ s[4] = P("orphan")
    BY DEF SettleLogSteps
  <2> HIDE DEF s
  <2>2. s[1].tables = {"logs"} /\ s[2].tables = {} /\ s[3].tables = {"warnings"} /\ s[4].tables = {}
    BY <2>1, <1>w2, <1>p4, <1>w10, <1>p2
  <2>3. /\ s[2].topic = "ranking" /\ s[4].topic = "orphan"
        /\ 2 \in DOMAIN s /\ 4 \in DOMAIN s
    BY <2>1, <1>w2, <1>p4, <1>w10, <1>p2
  <2>4. Later(s, 1, "ranking") /\ Later(s, 3, "orphan")
    BY <2>3 DEF Later
  <2>5. \A t \in s[1].tables : Covers(s, 1, t)
    BY <2>2, <2>4, ShownBy DEF Covers
  <2>6. \A t \in s[3].tables : Covers(s, 3, t)
    BY <2>2, <2>4, ShownBy DEF Covers
  <2>7. Covered(s)
    BY <2>1, <2>2, <2>5, <2>6 DEF Covered
  <2> QED BY <2>7 DEF s
<1>11. Covered(SettingsSteps)
  <2> DEFINE s == SettingsSteps
  <2>1. /\ DOMAIN s = {1, 2, 3}
        /\ s[1] = W({"scoring"}) /\ s[2] = P("settings") /\ s[3] = P("ranking")
    BY DEF SettingsSteps
  <2> HIDE DEF s
  <2>2. s[1].tables = {"scoring"} /\ s[2].tables = {} /\ s[3].tables = {}
    BY <2>1, <1>w7, <1>p5, <1>p4
  <2>3. /\ s[2].topic = "settings" /\ s[3].topic = "ranking"
        /\ 2 \in DOMAIN s /\ 3 \in DOMAIN s
    BY <2>1, <1>w7, <1>p5, <1>p4
  <2>4. Later(s, 1, "ranking") /\ Later(s, 1, "settings")
    BY <2>3 DEF Later
  <2>5. \A t \in s[1].tables : Covers(s, 1, t)
    BY <2>2, <2>4, ShownBy DEF Covers
  <2>6. Covered(s)
    BY <2>1, <2>2, <2>5 DEF Covered
  <2> QED BY <2>6 DEF s
<1>12. Covered(RegistrationSteps)
  <2> DEFINE s == RegistrationSteps
  <2>1. /\ DOMAIN s = {1, 2}
        /\ s[1] = W({"registration"}) /\ s[2] = P("settings")
    BY DEF RegistrationSteps
  <2> HIDE DEF s
  <2>2. s[1].tables = {"registration"} /\ s[2].tables = {}
    BY <2>1, <1>w6, <1>p5
  <2>3. /\ s[2].topic = "settings"
        /\ 2 \in DOMAIN s
    BY <2>1, <1>w6, <1>p5
  <2>4. Later(s, 1, "settings")
    BY <2>3 DEF Later
  <2>5. \A t \in s[1].tables : Covers(s, 1, t)
    BY <2>2, <2>4, ShownBy DEF Covers
  <2>6. Covered(s)
    BY <2>1, <2>2, <2>5 DEF Covered
  <2> QED BY <2>6 DEF s
<1>13. Covered(CreateEventSteps)
  <2> DEFINE s == CreateEventSteps
  <2>1. /\ DOMAIN s = {1, 2, 3, 4, 5}
        /\ s[1] = W({"active"}) /\ s[2] = P("ranking")
        /\ s[3] = P("queue") /\ s[4] = P("on_course") /\ s[5] = P("settings")
    BY DEF CreateEventSteps, PublishAll
  <2> HIDE DEF s
  <2>2. s[1].tables = {"active"} /\ s[2].tables = {} /\ s[3].tables = {} /\ s[4].tables = {} /\ s[5].tables = {}
    BY <2>1, <1>w1, <1>p4, <1>p3, <1>p1, <1>p5
  <2>3. /\ s[2].topic = "ranking" /\ s[3].topic = "queue" /\ s[4].topic = "on_course" /\ s[5].topic = "settings"
        /\ 2 \in DOMAIN s /\ 3 \in DOMAIN s /\ 4 \in DOMAIN s /\ 5 \in DOMAIN s
    BY <2>1, <1>w1, <1>p4, <1>p3, <1>p1, <1>p5
  <2>4. Later(s, 1, "ranking") /\ Later(s, 1, "queue") /\ Later(s, 1, "on_course") /\ Later(s, 1, "settings")
    BY <2>3 DEF Later
  <2>5. \A t \in s[1].tables : Covers(s, 1, t)
    BY <2>2, <2>4, ShownBy DEF Covers
  <2>6. Covered(s)
    BY <2>1, <2>2, <2>5 DEF Covered
  <2> QED BY <2>6 DEF s
<1>14. Covered(CloseEventSteps)
  <2> DEFINE s == CloseEventSteps
  <2>1. /\ DOMAIN s = {1, 2, 3, 4, 5, 6}
        /\ s[1] = W({"waiting"}) /\ s[2] = W({"active"}) /\ s[3] = P("ranking")
        /\ s[4] = P("queue") /\ s[5] = P("on_course") /\ s[6] = P("settings")
    BY DEF CloseEventSteps, PublishAll
  <2> HIDE DEF s
  <2>2. s[1].tables = {"waiting"} /\ s[2].tables = {"active"} /\ s[3].tables = {} /\ s[4].tables = {} /\ s[5].tables = {} /\ s[6].tables = {}
    BY <2>1, <1>w8, <1>w1, <1>p4, <1>p3, <1>p1, <1>p5
  <2>3. /\ s[3].topic = "ranking" /\ s[4].topic = "queue" /\ s[5].topic = "on_course" /\ s[6].topic = "settings"
        /\ 3 \in DOMAIN s /\ 4 \in DOMAIN s /\ 5 \in DOMAIN s /\ 6 \in DOMAIN s
    BY <2>1, <1>w8, <1>w1, <1>p4, <1>p3, <1>p1, <1>p5
  <2>4. Later(s, 1, "queue") /\ Later(s, 2, "ranking") /\ Later(s, 2, "queue") /\ Later(s, 2, "on_course") /\ Later(s, 2, "settings")
    BY <2>3 DEF Later
  <2>5. \A t \in s[1].tables : Covers(s, 1, t)
    BY <2>2, <2>4, ShownBy DEF Covers
  <2>6. \A t \in s[2].tables : Covers(s, 2, t)
    BY <2>2, <2>4, ShownBy DEF Covers
  <2>7. Covered(s)
    BY <2>1, <2>2, <2>5, <2>6 DEF Covered
  <2> QED BY <2>7 DEF s
<1>15. Covered(OrphanRunSteps)
  <2> DEFINE s == OrphanRunSteps
  <2>1. /\ DOMAIN s = {1, 2, 3}
        /\ s[1] = W({"orphanRuns"}) /\ s[2] = W({"warnings"}) /\ s[3] = P("orphan")
    BY DEF OrphanRunSteps
  <2> HIDE DEF s
  <2>2. s[1].tables = {"orphanRuns"} /\ s[2].tables = {"warnings"} /\ s[3].tables = {}
    BY <2>1, <1>w4, <1>w10, <1>p2
  <2>3. /\ s[3].topic = "orphan"
        /\ 3 \in DOMAIN s
    BY <2>1, <1>w4, <1>w10, <1>p2
  <2>4. Later(s, 1, "orphan") /\ Later(s, 2, "orphan")
    BY <2>3 DEF Later
  <2>5. \A t \in s[1].tables : Covers(s, 1, t)
    BY <2>2, <2>4, ShownBy DEF Covers
  <2>6. \A t \in s[2].tables : Covers(s, 2, t)
    BY <2>2, <2>4, ShownBy DEF Covers
  <2>7. Covered(s)
    BY <2>1, <2>2, <2>5, <2>6 DEF Covered
  <2> QED BY <2>7 DEF s
<1>16. Covered(AdoptSteps)
  <2> DEFINE s == AdoptSteps
  <2>1. /\ DOMAIN s = {1, 2, 3, 4, 5, 6}
        /\ s[1] = W({"orphanRuns"}) /\ s[2] = W({"waiting", "on_course"}) /\ s[3] = W({"on_course"})
        /\ s[4] = P("queue") /\ s[5] = P("on_course") /\ s[6] = P("orphan")
    BY DEF AdoptSteps
  <2> HIDE DEF s
  <2>2. s[1].tables = {"orphanRuns"} /\ s[2].tables = {"waiting", "on_course"} /\ s[3].tables = {"on_course"} /\ s[4].tables = {} /\ s[5].tables = {} /\ s[6].tables = {}
    BY <2>1, <1>w4, <1>w9, <1>w3, <1>p3, <1>p1, <1>p2
  <2>3. /\ s[4].topic = "queue" /\ s[5].topic = "on_course" /\ s[6].topic = "orphan"
        /\ 4 \in DOMAIN s /\ 5 \in DOMAIN s /\ 6 \in DOMAIN s
    BY <2>1, <1>w4, <1>w9, <1>w3, <1>p3, <1>p1, <1>p2
  <2>4. Later(s, 1, "orphan") /\ Later(s, 2, "queue") /\ Later(s, 2, "on_course") /\ Later(s, 3, "on_course")
    BY <2>3 DEF Later
  <2>5. \A t \in s[1].tables : Covers(s, 1, t)
    BY <2>2, <2>4, ShownBy DEF Covers
  <2>6. \A t \in s[2].tables : Covers(s, 2, t)
    BY <2>2, <2>4, ShownBy DEF Covers
  <2>7. \A t \in s[3].tables : Covers(s, 3, t)
    BY <2>2, <2>4, ShownBy DEF Covers
  <2>8. Covered(s)
    BY <2>1, <2>2, <2>5, <2>6, <2>7 DEF Covered
  <2> QED BY <2>8 DEF s
<1>17. Covered(WarningSteps)
  <2> DEFINE s == WarningSteps
  <2>1. /\ DOMAIN s = {1, 2}
        /\ s[1] = W({"warnings"}) /\ s[2] = P("orphan")
    BY DEF WarningSteps
  <2> HIDE DEF s
  <2>2. s[1].tables = {"warnings"} /\ s[2].tables = {}
    BY <2>1, <1>w10, <1>p2
  <2>3. /\ s[2].topic = "orphan"
        /\ 2 \in DOMAIN s
    BY <2>1, <1>w10, <1>p2
  <2>4. Later(s, 1, "orphan")
    BY <2>3 DEF Later
  <2>5. \A t \in s[1].tables : Covers(s, 1, t)
    BY <2>2, <2>4, ShownBy DEF Covers
  <2>6. Covered(s)
    BY <2>1, <2>2, <2>5 DEF Covered
  <2> QED BY <2>6 DEF s
<1>18. Covered(DriverSteps)
  <2> DEFINE s == DriverSteps
  <2>1. /\ DOMAIN s = {1, 2}
        /\ s[1] = W({"drivers"}) /\ s[2] = P("directory")
    BY DEF DriverSteps
  <2> HIDE DEF s
  <2>2. s[1].tables = {"drivers"} /\ s[2].tables = {}
    BY <2>1, <1>w11, <1>p6
  <2>3. /\ s[2].topic = "directory"
        /\ 2 \in DOMAIN s
    BY <2>1, <1>w11, <1>p6
  <2>4. Later(s, 1, "directory")
    BY <2>3 DEF Later
  <2>5. \A t \in s[1].tables : Covers(s, 1, t)
    BY <2>2, <2>4, ShownBy DEF Covers
  <2>6. Covered(s)
    BY <2>1, <2>2, <2>5 DEF Covered
  <2> QED BY <2>6 DEF s
<1>19. Covered(VehicleSteps)
  <2> DEFINE s == VehicleSteps
  <2>1. /\ DOMAIN s = {1, 2, 3}
        /\ s[1] = W({"vehicles"}) /\ s[2] = P("ranking") /\ s[3] = P("directory")
    BY DEF VehicleSteps
  <2> HIDE DEF s
  <2>2. s[1].tables = {"vehicles"} /\ s[2].tables = {} /\ s[3].tables = {}
    BY <2>1, <1>w12, <1>p4, <1>p6
  <2>3. /\ s[2].topic = "ranking" /\ s[3].topic = "directory"
        /\ 2 \in DOMAIN s /\ 3 \in DOMAIN s
    BY <2>1, <1>w12, <1>p4, <1>p6
  <2>4. Later(s, 1, "ranking") /\ Later(s, 1, "directory")
    BY <2>3 DEF Later
  <2>5. \A t \in s[1].tables : Covers(s, 1, t)
    BY <2>2, <2>4, ShownBy DEF Covers
  <2>6. Covered(s)
    BY <2>1, <2>2, <2>5 DEF Covered
  <2> QED BY <2>6 DEF s
<1>20. Covered(MyVehicleSteps)
  <2> DEFINE s == MyVehicleSteps
  <2>1. /\ DOMAIN s = {1, 2, 3, 4, 5, 6}
        /\ s[1] = W({"vehicles"}) /\ s[2] = P("ranking") /\ s[3] = P("queue")
        /\ s[4] = P("on_course") /\ s[5] = P("settings") /\ s[6] = P("directory")
    BY DEF MyVehicleSteps, PublishAll
  <2> HIDE DEF s
  <2>2. s[1].tables = {"vehicles"} /\ s[2].tables = {} /\ s[3].tables = {} /\ s[4].tables = {} /\ s[5].tables = {} /\ s[6].tables = {}
    BY <2>1, <1>w12, <1>p4, <1>p3, <1>p1, <1>p5, <1>p6
  <2>3. /\ s[2].topic = "ranking" /\ s[3].topic = "queue" /\ s[4].topic = "on_course" /\ s[5].topic = "settings" /\ s[6].topic = "directory"
        /\ 2 \in DOMAIN s /\ 3 \in DOMAIN s /\ 4 \in DOMAIN s /\ 5 \in DOMAIN s /\ 6 \in DOMAIN s
    BY <2>1, <1>w12, <1>p4, <1>p3, <1>p1, <1>p5, <1>p6
  <2>4. Later(s, 1, "ranking") /\ Later(s, 1, "queue") /\ Later(s, 1, "on_course") /\ Later(s, 1, "settings") /\ Later(s, 1, "directory")
    BY <2>3 DEF Later
  <2>5. \A t \in s[1].tables : Covers(s, 1, t)
    BY <2>2, <2>4, ShownBy DEF Covers
  <2>6. Covered(s)
    BY <2>1, <2>2, <2>5 DEF Covered
  <2> QED BY <2>6 DEF s
<1>21. Covered(DriverIconSteps)
  <2> DEFINE s == DriverIconSteps
  <2>1. /\ DOMAIN s = {1, 2, 3, 4, 5, 6}
        /\ s[1] = W({"driverIcons"}) /\ s[2] = P("ranking") /\ s[3] = P("queue")
        /\ s[4] = P("on_course") /\ s[5] = P("settings") /\ s[6] = P("directory")
    BY DEF DriverIconSteps, PublishAll
  <2> HIDE DEF s
  <2>2. s[1].tables = {"driverIcons"} /\ s[2].tables = {} /\ s[3].tables = {} /\ s[4].tables = {} /\ s[5].tables = {} /\ s[6].tables = {}
    BY <2>1, <1>w13, <1>p4, <1>p3, <1>p1, <1>p5, <1>p6
  <2>3. /\ s[2].topic = "ranking" /\ s[3].topic = "queue" /\ s[4].topic = "on_course" /\ s[5].topic = "settings" /\ s[6].topic = "directory"
        /\ 2 \in DOMAIN s /\ 3 \in DOMAIN s /\ 4 \in DOMAIN s /\ 5 \in DOMAIN s /\ 6 \in DOMAIN s
    BY <2>1, <1>w13, <1>p4, <1>p3, <1>p1, <1>p5, <1>p6
  <2>4. Later(s, 1, "ranking") /\ Later(s, 1, "queue") /\ Later(s, 1, "on_course") /\ Later(s, 1, "settings") /\ Later(s, 1, "directory")
    BY <2>3 DEF Later
  <2>5. \A t \in s[1].tables : Covers(s, 1, t)
    BY <2>2, <2>4, ShownBy DEF Covers
  <2>6. Covered(s)
    BY <2>1, <2>2, <2>5 DEF Covered
  <2> QED BY <2>6 DEF s
<1>22. Covered(VehicleIconSteps)
  <2> DEFINE s == VehicleIconSteps
  <2>1. /\ DOMAIN s = {1, 2, 3, 4, 5, 6}
        /\ s[1] = W({"vehicleIcons"}) /\ s[2] = P("ranking") /\ s[3] = P("queue")
        /\ s[4] = P("on_course") /\ s[5] = P("settings") /\ s[6] = P("directory")
    BY DEF VehicleIconSteps, PublishAll
  <2> HIDE DEF s
  <2>2. s[1].tables = {"vehicleIcons"} /\ s[2].tables = {} /\ s[3].tables = {} /\ s[4].tables = {} /\ s[5].tables = {} /\ s[6].tables = {}
    BY <2>1, <1>w14, <1>p4, <1>p3, <1>p1, <1>p5, <1>p6
  <2>3. /\ s[2].topic = "ranking" /\ s[3].topic = "queue" /\ s[4].topic = "on_course" /\ s[5].topic = "settings" /\ s[6].topic = "directory"
        /\ 2 \in DOMAIN s /\ 3 \in DOMAIN s /\ 4 \in DOMAIN s /\ 5 \in DOMAIN s /\ 6 \in DOMAIN s
    BY <2>1, <1>w14, <1>p4, <1>p3, <1>p1, <1>p5, <1>p6
  <2>4. Later(s, 1, "ranking") /\ Later(s, 1, "queue") /\ Later(s, 1, "on_course") /\ Later(s, 1, "settings") /\ Later(s, 1, "directory")
    BY <2>3 DEF Later
  <2>5. \A t \in s[1].tables : Covers(s, 1, t)
    BY <2>2, <2>4, ShownBy DEF Covers
  <2>6. Covered(s)
    BY <2>1, <2>2, <2>5 DEF Covered
  <2> QED BY <2>6 DEF s
<1>23. Covered(DirectorySteps) /\ Covered(<<P("sensor_status")>>) /\ Covered(<<P("time")>>)
  BY DEF Covered, DirectorySteps, P
<1>24. op \in { "queue", "launch", "course", "sensorStart", "finish", "confirm", "undoGoal", "undoStart", "log",
                "settleLog", "settings", "registration" } => Covered(StepsOf(op))
  BY <1>1, <1>2, <1>3, <1>4, <1>5, <1>6, <1>7, <1>8, <1>9, <1>10, <1>11, <1>12 DEF StepsOf
<1>25. op \in { "createEvent", "closeEvent", "orphanRun", "adoptOrphan", "warning", "driver", "vehicle",
                "myVehicle", "driverIcon", "vehicleIcon", "directory", "sensorStatus", "heartbeat" } => Covered(StepsOf(op))
  BY <1>13, <1>14, <1>15, <1>16, <1>17, <1>18, <1>19, <1>20, <1>21, <1>22, <1>23 DEF StepsOf
<1> QED BY <1>24, <1>25, PublishingConstants

(* A publication with the newest version of a table; one still to come,    *)
(* that has not read the table or has read the newest version; and a       *)
(* finish that is on its way into the pending map.                         *)
Published(topic, t) == \E n \in DOMAIN installed : installed[n] = topic /\ carries[n][t] = version[t]
Publishes(p, topic, t) ==
  \E i \in DOMAIN task[p].steps :
    /\ task[p].steps[i].topic = topic
    /\ i = 1 /\ t \in DOMAIN task[p].read => task[p].read[t] = version[t]
FinishComes(p) == \E i \in DOMAIN task[p].steps : PendingWrite(task[p].steps[i])

Owed(topic, t) ==
  \/ Published(topic, t)
  \/ \E p \in Publishers : Publishes(p, topic, t)
  \/ /\ topic = "ranking" /\ t = "logs"
     /\ open > 0 \/ \E p \in Publishers : FinishComes(p)

(* Every change of a table that is due has been published with its newest  *)
(* version, or somebody is still to do it: the strengthening of            *)
(* ChangesArePublished.                                                    *)
OwedInv ==
  /\ \A p \in Publishers : /\ Covered(task[p].steps)
                           /\ task[p].steps = <<>> => DOMAIN task[p].read = {}
  /\ \A topic \in Topics : \A t \in Due(topic) : version[t] > 0 => Owed(topic, t)

(* A topic shows tables, and the counter of the directory is not one.      *)
LEMMA ShowsTables ==
  ASSUME NEW topic
  PROVE  Due(topic) \subseteq Tables /\ "dirRev" \notin Due(topic)
<1>1. Reads(topic) \in Seq(SUBSET Tables)
  BY ReadsAreTables
<1>2. Shows(topic) = (UNION { Reads(topic)[i] : i \in DOMAIN Reads(topic) }) \ {"dirRev"}
  BY WhoShows
<1> QED BY <1>1, <1>2, WhatIsDue

(* Who takes a finish out of the pending map publishes the course and the  *)
(* ranking.                                                                *)
LEMMA TakersPublish ==
  ASSUME NEW op \in Operations, TakesPending(op)
  PROVE  /\ \E i \in DOMAIN StepsOf(op) : StepsOf(op)[i].topic = "on_course"
         /\ \E i \in DOMAIN StepsOf(op) : StepsOf(op)[i].topic = "ranking"
<1>p. P("on_course").topic = "on_course" /\ P("ranking").topic = "ranking"
  BY DEF P
<1>1. CASE op = "confirm"
  <2>1. DOMAIN StepsOf(op) = {1, 2, 3, 4} /\ StepsOf(op)[2] = P("on_course") /\ StepsOf(op)[4] = P("ranking")
    BY <1>1 DEF StepsOf, ConfirmSteps
  <2> QED BY <1>p, <2>1
<1>2. CASE op = "undoGoal"
  <2>1. DOMAIN StepsOf(op) = {1, 2, 3} /\ StepsOf(op)[2] = P("on_course") /\ StepsOf(op)[3] = P("ranking")
    BY <1>2 DEF StepsOf, UndoGoalSteps
  <2> QED BY <1>p, <2>1
<1> QED BY <1>1, <1>2 DEF TakesPending

(* What is owed stays owed unless p, the one that takes a step, was to     *)
(* see to it.                                                              *)
LEMMA OwedStays ==
  ASSUME NEW p \in Publishers, NEW topic, NEW t, Owed(topic, t), version'[t] = version[t],
         \A n \in DOMAIN installed : n \in DOMAIN installed' /\ installed'[n] = installed[n] /\ carries'[n] = carries[n],
         \A q \in Publishers : q # p => task'[q] = task[q],
         Publishes(p, topic, t) => Owed(topic, t)',
         topic = "ranking" /\ t = "logs" /\ (open > 0 \/ FinishComes(p)) => Owed(topic, t)'
  PROVE  Owed(topic, t)'
<1>1. CASE Published(topic, t)
  BY <1>1 DEF Published, Owed
<1>2. ASSUME NEW q \in Publishers, Publishes(q, topic, t) PROVE Owed(topic, t)'
  <2>1. CASE q = p
    BY <1>2, <2>1
  <2>2. CASE q # p
    <3>1. task'[q] = task[q]
      BY <2>2
    <3>2. Publishes(q, topic, t)'
      BY <1>2, <3>1 DEF Publishes
    <3> QED BY <3>2 DEF Owed
  <2> QED BY <2>1, <2>2
<1>3. ASSUME topic = "ranking" /\ t = "logs", NEW q \in Publishers, FinishComes(q) PROVE Owed(topic, t)'
  <2>1. CASE q = p
    BY <1>3, <2>1
  <2>2. CASE q # p
    <3>1. task'[q] = task[q]
      BY <2>2
    <3>2. FinishComes(q)'
      BY <1>3, <3>1 DEF FinishComes
    <3> QED BY <1>3, <3>2 DEF Owed
  <2> QED BY <2>1, <2>2
<1> QED BY <1>1, <1>2, <1>3 DEF Owed

LEMMA InitOwed == Init => OwedInv
<1> SUFFICES ASSUME Init PROVE OwedInv
  OBVIOUS
<1>1. ASSUME NEW p \in Publishers PROVE Covered(task[p].steps) /\ DOMAIN task[p].read = {}
  BY <1>1 DEF Init, Idle, NoSnapshot, Covered
<1>2. \A topic : \A t \in Due(topic) : version[t] = 0
  BY ShowsTables DEF Init
<1> QED BY <1>1, <1>2 DEF OwedInv

(* A handler starts: what it takes out of the pending map it publishes.    *)
LEMMA BeginOwed ==
  ASSUME TypeInv, OwedInv, NEW p \in Publishers, Begin(p)
  PROVE  OwedInv'
<1>1. PICK op \in Operations :
        /\ ~Busy(p)
        /\ task' = [ task EXCEPT ![p].steps = StepsOf(op) ]
        /\ IF TakesPending(op)
           THEN open > 0 /\ open' = open - 1 /\ version' = Changed({"pending"})
           ELSE UNCHANGED <<open, version>>
        /\ UNCHANGED <<hub, carries>>
  BY DEF Begin
<1>2. task \in [ Publishers -> Tasks ] /\ version \in [ Tables -> Nat ]
  BY DEF TypeInv, TaskInv
<1>3. task[p].steps = <<>> /\ DOMAIN task[p].read = {}
  BY <1>1 DEF Busy, OwedInv
<1>4. task'[p].steps = StepsOf(op) /\ task'[p].read = task[p].read
      /\ \A q \in Publishers : q # p => task'[q] = task[q]
  <2>1. task[p] \in Tasks
    BY <1>2
  <2> QED BY <1>1, <1>2, <2>1 DEF Tasks
<1>5. ASSUME NEW q \in Publishers
      PROVE  Covered(task'[q].steps) /\ (task'[q].steps = <<>> => DOMAIN task'[q].read = {})
  <2>1. CASE q = p
    BY <1>3, <1>4, <2>1, StepsAreCovered
  <2>2. CASE q # p
    BY <1>4, <2>2 DEF OwedInv
  <2> QED BY <2>1, <2>2
<1>6. ASSUME NEW topic, NEW t, \E i \in DOMAIN StepsOf(op) : StepsOf(op)[i].topic = topic
      PROVE  Owed(topic, t)'
  <2>1. Publishes(p, topic, t)'
    BY <1>3, <1>4, <1>6 DEF Publishes
  <2> QED BY <2>1 DEF Owed
<1>7. ASSUME NEW topic \in Topics, NEW t \in Due(topic), version'[t] > 0
      PROVE  Owed(topic, t)'
  <2>1. t \in Tables
    BY ShowsTables
  <2>2. CASE version'[t] = version[t]
    <3>1. Owed(topic, t)
      BY <1>7, <2>2 DEF OwedInv
    <3>2. ~Publishes(p, topic, t) /\ ~FinishComes(p)
      BY <1>3 DEF Publishes, FinishComes
    <3>3. topic = "ranking" /\ t = "logs" /\ open > 0 => Owed(topic, t)'
      <4>1. CASE TakesPending(op)
        BY <1>6, <4>1, TakersPublish
      <4>2. CASE ~TakesPending(op)
        <5>1. open' = open
          BY <1>1, <4>2
        <5> QED BY <5>1 DEF Owed
      <4> QED BY <4>1, <4>2
    <3>4. \A n \in DOMAIN installed : n \in DOMAIN installed' /\ installed'[n] = installed[n] /\ carries'[n] = carries[n]
      BY <1>1 DEF hub
    <3> QED BY <1>4, <2>2, <3>1, <3>2, <3>3, <3>4, OwedStays
  <2>3. CASE version'[t] # version[t]
    <3>1. TakesPending(op) /\ t = "pending"
      <4>1. TakesPending(op) /\ version' = Changed({"pending"})
        BY <1>1, <2>3
      <4> QED BY <1>2, <2>1, <2>3, <4>1, ChangedGrows
    <3>2. topic = "on_course"
      BY <1>7, <3>1, ShownBy
    <3> QED BY <1>6, <3>1, <3>2, TakersPublish
  <2> QED BY <2>2, <2>3
<1> QED BY <1>5, <1>7 DEF OwedInv

(* A sequence from its second element on.                                  *)
LEMMA TailShifts ==
  ASSUME NEW T, NEW s \in Seq(T), s # <<>>
  PROVE  /\ 1 \in DOMAIN s /\ s[1] = Head(s)
         /\ \A j \in DOMAIN s : j = 1 \/ (j - 1 \in DOMAIN Tail(s) /\ Tail(s)[j - 1] = s[j])
OBVIOUS

(* The first step of a handler is done.                                    *)
LEMMA AdvanceOwed ==
  ASSUME TypeInv, OwedInv, NEW p \in Publishers, Ready(p), Advance(p)
  PROVE  /\ \A q \in Publishers : q # p => task'[q] = task[q]
         /\ DOMAIN task'[p].read = {}
         /\ \A q \in Publishers : /\ Covered(task'[q].steps)
                                  /\ task'[q].steps = <<>> => DOMAIN task'[q].read = {}
         /\ \A j \in DOMAIN task[p].steps :
              j = 1 \/ \E i \in DOMAIN task'[p].steps : task'[p].steps[i] = task[p].steps[j]
         /\ 1 \in DOMAIN task[p].steps /\ task[p].steps[1] = Head(task[p].steps)
<1>1. task \in [ Publishers -> Tasks ]
  BY DEF TypeInv, TaskInv
<1>2. task[p].steps \in Seq(StepType) /\ task[p].steps # <<>>
  BY <1>1 DEF Tasks, Ready
<1>3. /\ task'[p].steps = Tail(task[p].steps) /\ task'[p].read = NoSnapshot
      /\ \A q \in Publishers : q # p => task'[q] = task[q]
  BY <1>1 DEF Advance
<1>4. DOMAIN task'[p].read = {}
  BY <1>3 DEF NoSnapshot
<1>5. Covered(task'[p].steps)
  BY <1>2, <1>3, CoveredTail DEF OwedInv
<1>6. \A q \in Publishers : Covered(task'[q].steps) /\ (task'[q].steps = <<>> => DOMAIN task'[q].read = {})
  BY <1>3, <1>4, <1>5 DEF OwedInv
<1>7. 1 \in DOMAIN task[p].steps /\ task[p].steps[1] = Head(task[p].steps)
  BY <1>2, TailShifts
<1>8. ASSUME NEW j \in DOMAIN task[p].steps, j # 1
      PROVE  \E i \in DOMAIN task'[p].steps : task'[p].steps[i] = task[p].steps[j]
  <2>1. j - 1 \in DOMAIN Tail(task[p].steps) /\ Tail(task[p].steps)[j - 1] = task[p].steps[j]
    BY <1>2, <1>8, TailShifts
  <2> QED BY <1>3, <2>1
<1> QED BY <1>3, <1>4, <1>6, <1>7, <1>8

(* A statement commits: the same handler publishes it later, or the        *)
(* confirmation of the finish does.                                        *)
LEMMA WriteOwed ==
  ASSUME TypeInv, OwedInv, NEW p \in Publishers, Write(p)
  PROVE  OwedInv'
<1>1. /\ Ready(p) /\ Topic(p) = "" /\ Advance(p)
      /\ version' = Changed(Head(task[p].steps).tables)
      /\ open' = IF "pending" \in Head(task[p].steps).tables THEN open + 1 ELSE open
      /\ UNCHANGED <<installed, carries>>
  BY DEF Write, hub
<1>2. /\ \A q \in Publishers : q # p => task'[q] = task[q]
      /\ DOMAIN task'[p].read = {}
      /\ \A q \in Publishers : /\ Covered(task'[q].steps)
                               /\ task'[q].steps = <<>> => DOMAIN task'[q].read = {}
      /\ \A j \in DOMAIN task[p].steps :
           j = 1 \/ \E i \in DOMAIN task'[p].steps : task'[p].steps[i] = task[p].steps[j]
      /\ 1 \in DOMAIN task[p].steps /\ task[p].steps[1] = Head(task[p].steps)
  BY <1>1, AdvanceOwed
<1>3. version \in [ Tables -> Nat ] /\ open \in Nat
  BY DEF TypeInv, TaskInv
<1>4. task[p].steps[1].topic \notin Topics
  <2>1. task[p].steps[1].topic = ""
    BY <1>1, <1>2 DEF Topic
  <2>2. "" \notin Topics
    BY PublishingConstants
  <2> QED BY <2>1, <2>2
<1>5. /\ open > 0 => open' > 0
      /\ "pending" \in task[p].steps[1].tables => open' > 0
  <2>1. open' = IF "pending" \in task[p].steps[1].tables THEN open + 1 ELSE open
    BY <1>1, <1>2
  <2>2. open \in Nat
    BY <1>3
  <2> QED BY <2>1, <2>2
<1>6. ASSUME NEW topic, NEW t, NEW j \in DOMAIN task[p].steps, j # 1, task[p].steps[j].topic = topic
      PROVE  Owed(topic, t)'
  <2>1. Publishes(p, topic, t)'
    BY <1>2, <1>6 DEF Publishes
  <2> QED BY <2>1 DEF Owed
<1>7. ASSUME NEW topic, NEW t, topic = "ranking", t = "logs",
             NEW j \in DOMAIN task[p].steps, j # 1, PendingWrite(task[p].steps[j])
      PROVE  Owed(topic, t)'
  <2>1. FinishComes(p)'
    BY <1>2, <1>7 DEF FinishComes
  <2> QED BY <1>7, <2>1 DEF Owed
<1>8. ASSUME NEW topic \in Topics, NEW t \in Due(topic), version'[t] > 0
      PROVE  Owed(topic, t)'
  <2>1. t \in Tables
    BY ShowsTables
  <2>2. CASE t \in task[p].steps[1].tables
    <3>1. Covers(task[p].steps, 1, t)
      BY <1>2, <2>2 DEF OwedInv, Covered
    <3>2. CASE Later(task[p].steps, 1, topic)
      BY <1>6, <3>2 DEF Later
    <3>3. CASE topic = "ranking" /\ t = "logs" /\ LaterPending(task[p].steps, 1)
      BY <1>7, <3>3 DEF LaterPending
    <3> QED BY <3>1, <3>2, <3>3 DEF Covers
  <2>3. CASE t \notin task[p].steps[1].tables
    <3>1. version'[t] = version[t]
      <4>1. t \notin Head(task[p].steps).tables
        BY <1>2, <2>3
      <4>2. Changed(Head(task[p].steps).tables)[t] = version[t]
        BY <1>3, <2>1, <4>1, ChangedGrows
      <4> QED BY <1>1, <4>2
    <3>2. Owed(topic, t)
      BY <1>8, <3>1 DEF OwedInv
    <3>3. Publishes(p, topic, t) => Owed(topic, t)'
      <4> SUFFICES ASSUME Publishes(p, topic, t) PROVE Owed(topic, t)'
        OBVIOUS
      <4>1. PICK j \in DOMAIN task[p].steps : task[p].steps[j].topic = topic
        BY DEF Publishes
      <4>2. j # 1
        BY <1>4, <4>1
      <4> QED BY <1>6, <4>1, <4>2
    <3>4. topic = "ranking" /\ t = "logs" /\ (open > 0 \/ FinishComes(p)) => Owed(topic, t)'
      <4> SUFFICES ASSUME topic = "ranking", t = "logs", open > 0 \/ FinishComes(p) PROVE Owed(topic, t)'
        OBVIOUS
      <4>1. CASE open > 0
        BY <1>5, <4>1 DEF Owed
      <4>2. CASE FinishComes(p)
        <5>1. PICK j \in DOMAIN task[p].steps : PendingWrite(task[p].steps[j])
          BY <4>2 DEF FinishComes
        <5>2. CASE j = 1
          BY <1>5, <5>1, <5>2 DEF Owed, PendingWrite
        <5>3. CASE j # 1
          BY <1>7, <5>1, <5>3
        <5> QED BY <5>2, <5>3
      <4> QED BY <4>1, <4>2
    <3> QED BY <1>1, <1>2, <3>1, <3>2, <3>3, <3>4, OwedStays
  <2> QED BY <2>2, <2>3
<1> QED BY <1>2, <1>8 DEF OwedInv

(* The builder reads the newest version there is.                          *)
LEMMA ReadOwed ==
  ASSUME TypeInv, OwedInv, NEW p \in Publishers, Read(p)
  PROVE  OwedInv'
<1> DEFINE seen     == task[p].read
           query(i) == Reads(Topic(p))[i] \ DOMAIN seen
           read(i)  == [ t \in DOMAIN seen \cup query(i) |-> IF t \in query(i) THEN version'[t] ELSE seen[t] ]
<1>1. PICK i \in DOMAIN Reads(Topic(p)) :
         /\ version' = Changed(query(i) \cap {"dirRev"})
         /\ task' = [ task EXCEPT ![p].read = read(i) ]
  BY DEF Read, Unread
<1>2. task \in [ Publishers -> Tasks ] /\ version \in [ Tables -> Nat ]
  BY DEF TypeInv, TaskInv
<1> HIDE DEF query, seen
<1>3. /\ task'[p].steps = task[p].steps /\ task'[p].read = read(i)
      /\ \A q \in Publishers : q # p => task'[q] = task[q]
  <2>1. task[p] \in Tasks
    BY <1>2
  <2> QED BY <1>1, <1>2, <2>1 DEF Tasks
<1>4. task[p].steps # <<>> /\ UNCHANGED <<installed, carries, open>>
  BY DEF Read, Ready, hub
<1>5. \A q \in Publishers : Covered(task'[q].steps) /\ (task'[q].steps = <<>> => DOMAIN task'[q].read = {})
  BY <1>3, <1>4 DEF OwedInv
<1>6. ASSUME NEW topic \in Topics, NEW t \in Due(topic), version'[t] > 0
      PROVE  Owed(topic, t)'
  <2>1. t \in Tables /\ t # "dirRev"
    BY ShowsTables
  <2>2. version'[t] = version[t]
    <3>1. t \notin query(i) \cap {"dirRev"}
      BY <2>1
    <3> QED BY <1>1, <1>2, <2>1, <3>1, ChangedGrows
  <2>3. Owed(topic, t)
    BY <1>6, <2>2 DEF OwedInv
  <2>4. Publishes(p, topic, t) => Owed(topic, t)'
    <3> SUFFICES ASSUME Publishes(p, topic, t) PROVE Owed(topic, t)'
      OBVIOUS
    <3>1. PICK j \in DOMAIN task[p].steps :
            /\ task[p].steps[j].topic = topic
            /\ j = 1 /\ t \in DOMAIN seen => seen[t] = version[t]
      BY DEF Publishes, seen
    <3>2. j = 1 /\ t \in DOMAIN read(i) => read(i)[t] = version'[t]
      BY <2>2, <3>1
    <3>3. Publishes(p, topic, t)'
      BY <1>3, <3>1, <3>2 DEF Publishes
    <3> QED BY <3>3 DEF Owed
  <2>5. topic = "ranking" /\ t = "logs" /\ (open > 0 \/ FinishComes(p)) => Owed(topic, t)'
    <3>1. FinishComes(p) => FinishComes(p)'
      BY <1>3 DEF FinishComes
    <3> QED BY <1>4, <3>1 DEF Owed
  <2> QED BY <1>3, <1>4, <2>2, <2>3, <2>4, <2>5, OwedStays
<1> QED BY <1>5, <1>6 DEF OwedInv

(* The document carries what was read: the newest version, or one that a   *)
(* later publication will replace.                                         *)
LEMMA PublishOwed ==
  ASSUME TypeInv, OwedInv, NEW p \in Publishers, PublishTopic(p)
  PROVE  OwedInv'
<1>1. /\ Ready(p) /\ Advance(p) /\ Topic(p) # "" /\ Unread(p) = {}
      /\ installed' = Append(installed, Topic(p))
      /\ carries' = Append(carries, task[p].read)
      /\ UNCHANGED <<version, open>>
  BY DEF PublishTopic, Install
<1>2. /\ \A q \in Publishers : q # p => task'[q] = task[q]
      /\ DOMAIN task'[p].read = {}
      /\ \A q \in Publishers : /\ Covered(task'[q].steps)
                               /\ task'[q].steps = <<>> => DOMAIN task'[q].read = {}
      /\ \A j \in DOMAIN task[p].steps :
           j = 1 \/ \E i \in DOMAIN task'[p].steps : task'[p].steps[i] = task[p].steps[j]
      /\ 1 \in DOMAIN task[p].steps /\ task[p].steps[1] = Head(task[p].steps)
  BY <1>1, AdvanceOwed
<1>3. /\ Topic(p) \in Topics
      /\ installed \in Seq(Topics) /\ IsSequence(carries) /\ Len(carries) = Len(installed)
  <2>1. Head(task[p].steps) \in StepType
    BY <1>1, AdvanceTask DEF TypeInv
  <2> QED BY <1>1, <2>1 DEF Topic, StepType, TypeInv, HubTypeInv, HubTypeOK
<1>4. /\ \A n \in DOMAIN installed : n \in DOMAIN installed' /\ installed'[n] = installed[n]
      /\ Len(installed) + 1 \in DOMAIN installed' /\ installed'[Len(installed) + 1] = Topic(p)
      /\ DOMAIN installed = DOMAIN carries
  <2>1. DOMAIN carries = 1 .. Len(carries)
    BY <1>3 DEF IsSequence
  <2>2. /\ \A n \in DOMAIN installed : /\ n \in DOMAIN Append(installed, Topic(p))
                                      /\ Append(installed, Topic(p))[n] = installed[n]
        /\ Len(installed) + 1 \in DOMAIN Append(installed, Topic(p))
        /\ Append(installed, Topic(p))[Len(installed) + 1] = Topic(p)
    BY <1>3
  <2>3. DOMAIN installed = 1 .. Len(installed)
    BY <1>3
  <2>4. installed' = Append(installed, Topic(p))
    BY <1>1
  <2> QED BY <1>3, <2>1, <2>2, <2>3, <2>4
<1>5. /\ \A n \in DOMAIN carries : carries'[n] = carries[n]
      /\ carries'[Len(installed) + 1] = task[p].read
  <2>1. carries' = Append(carries, task[p].read)
    BY <1>1
  <2>2. IsSequence(carries) /\ Len(carries) = Len(installed)
    BY <1>3
  <2>3. /\ Append(carries, task[p].read)[Len(carries) + 1] = task[p].read
        /\ \A n \in DOMAIN carries : Append(carries, task[p].read)[n] = carries[n]
    BY <2>2, HistoryGrows
  <2> QED BY <2>1, <2>2, <2>3
<1>6. Due(Topic(p)) \subseteq DOMAIN task[p].read
  <2>1. \A i \in DOMAIN Reads(Topic(p)) : Reads(Topic(p))[i] \subseteq DOMAIN task[p].read
    BY <1>1 DEF Unread
  <2>2. Shows(Topic(p)) = (UNION { Reads(Topic(p))[i] : i \in DOMAIN Reads(Topic(p)) }) \ {"dirRev"}
    BY WhoShows
  <2> QED BY <2>1, <2>2, WhatIsDue
<1>7. ASSUME NEW topic \in Topics, NEW t \in Due(topic), version'[t] > 0
      PROVE  Owed(topic, t)'
  <2>1. Owed(topic, t) /\ version'[t] = version[t]
    BY <1>1, <1>7 DEF OwedInv
  <2>2. Publishes(p, topic, t) => Owed(topic, t)'
    <3> SUFFICES ASSUME Publishes(p, topic, t) PROVE Owed(topic, t)'
      OBVIOUS
    <3>1. PICK j \in DOMAIN task[p].steps :
            /\ task[p].steps[j].topic = topic
            /\ j = 1 /\ t \in DOMAIN task[p].read => task[p].read[t] = version[t]
      BY DEF Publishes
    <3>2. CASE j = 1
      <4>1. topic = Topic(p)
        BY <1>2, <3>1, <3>2 DEF Topic
      <4>2. task[p].read[t] = version[t]
        BY <1>6, <3>1, <3>2, <4>1
      <4>3. Published(topic, t)'
        BY <1>4, <1>5, <2>1, <4>1, <4>2 DEF Published
      <4> QED BY <4>3 DEF Owed
    <3>3. CASE j # 1
      <4>1. Publishes(p, topic, t)'
        BY <1>2, <3>1, <3>3 DEF Publishes
      <4> QED BY <4>1 DEF Owed
    <3> QED BY <3>2, <3>3
  <2>3. topic = "ranking" /\ t = "logs" /\ (open > 0 \/ FinishComes(p)) => Owed(topic, t)'
    <3> SUFFICES ASSUME topic = "ranking", t = "logs", open > 0 \/ FinishComes(p) PROVE Owed(topic, t)'
      OBVIOUS
    <3>1. CASE open > 0
      BY <1>1, <3>1 DEF Owed
    <3>2. CASE FinishComes(p)
      <4>1. PICK j \in DOMAIN task[p].steps : PendingWrite(task[p].steps[j])
        BY <3>2 DEF FinishComes
      <4>2. j # 1
        BY <1>1, <1>2, <4>1 DEF PendingWrite, Topic
      <4>3. FinishComes(p)'
        BY <1>2, <4>1, <4>2 DEF FinishComes
      <4> QED BY <4>3 DEF Owed
    <3> QED BY <3>1, <3>2
  <2>4. \A n \in DOMAIN installed : n \in DOMAIN installed' /\ installed'[n] = installed[n] /\ carries'[n] = carries[n]
    BY <1>4, <1>5
  <2> QED BY <1>2, <2>1, <2>2, <2>3, <2>4, OwedStays
<1> QED BY <1>2, <1>7 DEF OwedInv

(* Every step of every handler keeps to that.                              *)
LEMMA NextOwed == TypeInv /\ OwedInv /\ [Next]_vars => OwedInv'
<1> SUFFICES ASSUME TypeInv, OwedInv, [Next]_vars PROVE OwedInv'
  OBVIOUS
<1>1. ASSUME UNCHANGED <<version, task, open, carries, installed>> PROVE OwedInv'
  BY <1>1 DEF OwedInv, Owed, Published, Publishes, FinishComes
<1>2. ASSUME NEW p \in Publishers, Deliver(p) PROVE OwedInv'
  BY <1>1, <1>2 DEF Deliver, SendTo
<1>3. ASSUME NEW c \in Clients, ClientNext(c) PROVE OwedInv'
  BY <1>1, <1>3 DEF ClientNext, ClientStep, Subscribe, WriteInitial, WriteEvent, Leave
<1>4. CASE UNCHANGED vars
  BY <1>1, <1>4 DEF vars, hub
<1> QED BY <1>2, <1>3, <1>4, BeginOwed, WriteOwed, ReadOwed, PublishOwed DEF Next, Handle

(* However the handlers overlap, once they are done every topic has been   *)
(* published with the newest version of each table it is due, which is     *)
(* each it shows but the drivers and vehicles whose change the handlers do *)
(* not publish to it (LeftOld; the publish calls at the end of every       *)
(* handler).                                                               *)
THEOREM NoChangeIsForgotten == Spec => []ChangesArePublished
<1>1. OwedInv => ChangesArePublished
  <2> SUFFICES ASSUME OwedInv, Quiet, NEW topic \in Topics, NEW t \in Due(topic), version[t] > 0
               PROVE  Published(topic, t)
    BY DEF ChangesArePublished, Published
  <2>1. open = 0 /\ \A p \in Publishers : task[p].steps = <<>>
    BY DEF Quiet, Busy
  <2>2. \A p \in Publishers : ~Publishes(p, topic, t) /\ ~FinishComes(p)
    BY <2>1 DEF Publishes, FinishComes
  <2> QED BY <2>1, <2>2 DEF OwedInv, Owed
<1> QED BY <1>1, InitPubTypes, NextPubTypes, InitOwed, NextOwed, PTL DEF Spec
-----------------------------------------------------------------------------
(* Handlers that take turns.                                               *)

InTurn == \A p, q \in Publishers : Busy(p) /\ Busy(q) => p = q

(* What a connection is written, and is going to be, of the publications   *)
(* since it joined is in their order; what it is shown at first is the     *)
(* latest of its topic by then.                                            *)
Current(c) ==
  LET since == conn[c].since
      shown == ToSet(received[c])
  IN /\ \A n \in conn[c].initial : n <= since
     /\ \A n \in conn[c].initial \cup shown : n <= since =>
          \A m \in n + 1 .. since : installed[m] # installed[n]
     /\ conn[c].at = "initial" => \A n \in shown : n <= since
     /\ \A j \in DOMAIN received[c] : \A i \in 1 .. j - 1 :
          \/ received[c][i] < received[c][j]
          \/ received[c][i] <= since /\ received[c][j] <= since
     /\ \A j \in DOMAIN channel[c] :
          /\ \A n \in shown : n < channel[c][j]
          /\ \A i \in 1 .. j - 1 : channel[c][i] < channel[c][j]
     /\ \A p \in Publishers : c \in send[p].targets =>
          \A n \in shown \cup ToSet(channel[c]) : n < send[p].payload

OrderInv ==
  /\ \A n \in Payloads : n <= snapshots[installed[n]]
  /\ \A p \in Publishers : send[p].targets # {} => send[p].payload = Len(installed)
  /\ \A c \in Clients : Current(c)

(* Each document is built from tables no older than those of the documents *)
(* before it.                                                              *)
BuiltInv ==
  \A n \in Payloads :
    /\ carries[n] \in Versions /\ Shows(installed[n]) \subseteq DOMAIN carries[n]
    /\ \A t \in DOMAIN carries[n] :
         /\ carries[n][t] <= version[t]
         /\ \A p \in Publishers : t \in DOMAIN task[p].read => carries[n][t] <= task[p].read[t]
         /\ \A m \in 1 .. n - 1 : t \in DOMAIN carries[m] => carries[m][t] <= carries[n][t]

(* Nobody else has anything under way.                                     *)
LEMMA OthersRest ==
  ASSUME HubTypeInv, InTurn, NEW p \in Publishers, Busy(p), NEW q \in Publishers, q # p
  PROVE  send[q].targets = {} /\ task[q].steps = <<>>
<1>1. ~Busy(q)
  BY DEF InTurn
<1> QED BY <1>1 DEF Busy, Sent, NoSend

(* Nothing has been published yet.                                         *)
LEMMA InitOrder == Init => OrderInv /\ BuiltInv
<1> SUFFICES ASSUME Init PROVE OrderInv /\ BuiltInv
  OBVIOUS
<1> USE DEF Init, InitHub
<1>1. Payloads = {} /\ ToSet(<<>>) = {} /\ DOMAIN <<>> = {}
  BY DEF Payloads, ToSet
<1>2. ASSUME NEW c \in Clients PROVE Current(c)
  <2>1. /\ channel[c] = <<>> /\ received[c] = <<>> /\ conn[c].initial = {}
        /\ \A p \in Publishers : send[p].targets = {}
    BY <1>2 DEF Unborn, NoSend
  <2> QED BY <1>1, <2>1 DEF Current
<1>3. \A p \in Publishers : send[p].targets = {}
  BY DEF NoSend
<1> QED BY <1>1, <1>2, <1>3 DEF OrderInv, BuiltInv

(* The newest publication comes after all that is in a connection's hands. *)
LEMMA InstallOrder ==
  ASSUME HubTypeInv, FreshInv, OrderInv, NEW p \in Publishers, NEW topic \in Topics,
         Install(p, topic), \A q \in Publishers : q # p => send[q].targets = {}
  PROVE  OrderInv'
<1> DEFINE n == Len(installed) + 1
           targets == { c \in subscribers : topic \in conn[c].topics }
<1>1. installed \in Seq(Topics) /\ installed' = Append(installed, topic)
  BY DEF HubTypeInv, HubTypeOK, Install
<1>2. /\ Payloads \subseteq Nat /\ Len(installed) \in Nat /\ Len(installed') = n /\ installed'[n] = topic
      /\ Payloads' = Payloads \cup {n}
      /\ \A m \in Payloads : installed'[m] = installed[m] /\ m <= Len(installed) /\ installed[m] \in Topics
      /\ \A m \in 1 .. Len(installed) : m \in Payloads
  <2>1. \A m \in Payloads : installed[m] \in Topics
    BY <1>1 DEF Payloads
  <2>2. \A m \in 1 .. Len(installed) : m \in Payloads
    BY <1>1 DEF Payloads
  <2> QED BY <1>1, <2>1, <2>2, MorePayloads
<1>3. /\ UNCHANGED <<subscribers, conn, channel, received>>
      /\ send' = [ send EXCEPT ![p] = IF targets = {} THEN NoSend
                                      ELSE [ payload |-> n, targets |-> targets ] ]
      /\ snapshots' = [ snapshots EXCEPT ![topic] = n ]
  BY DEF Install
<1>4. /\ snapshots \in [ Topics -> {NoPayload} \cup Payloads ]
      /\ DOMAIN send = Publishers
      /\ \A c \in Clients : /\ conn[c].since \in Nat /\ conn[c].initial \subseteq Payloads
                            /\ received[c] \in Seq(Payloads) /\ channel[c] \in Seq(Payloads)
  BY DEF HubTypeInv, HubTypeOK
<1>5. \A q \in Publishers : send'[q].targets # {} => q = p /\ send'[q].payload = n
  BY <1>3, <1>4 DEF NoSend
<1> HIDE DEF n, targets
<1>6. \A m \in Payloads' : m <= snapshots'[installed'[m]]
  <2> SUFFICES ASSUME NEW m \in Payloads' PROVE m <= snapshots'[installed'[m]]
    OBVIOUS
  <2>1. CASE m = n
    BY <1>2, <1>3, <1>4, <2>1 DEF n
  <2>2. CASE m \in Payloads
    <3>1. installed'[m] = installed[m] /\ installed[m] \in Topics /\ m <= Len(installed) /\ m \in Nat
      BY <1>2, <2>2
    <3>2. m <= snapshots[installed[m]]
      BY <2>2 DEF OrderInv
    <3>3. CASE installed[m] = topic
      BY <1>2, <1>3, <1>4, <3>1, <3>3 DEF n
    <3>4. CASE installed[m] # topic
      BY <1>3, <1>4, <3>1, <3>2, <3>4
    <3> QED BY <3>3, <3>4
  <2> QED BY <1>2, <2>1, <2>2
<1>7. ASSUME NEW c \in Clients PROVE Current(c)'
  <2>1. /\ conn'[c] = conn[c] /\ channel'[c] = channel[c] /\ received'[c] = received[c]
        /\ ToSet(received[c]) \subseteq Payloads /\ ToSet(channel[c]) \subseteq Payloads
    BY <1>3, <1>4, SetOfSeq
  <2>2. Current(c) /\ conn[c].since \in Nat /\ conn[c].since <= Len(installed)
    BY <1>4 DEF OrderInv, FreshInv, SentAfterJoin
  <2>3. ASSUME NEW k \in conn[c].initial \cup ToSet(received[c]), k <= conn[c].since,
               NEW m \in k + 1 .. conn[c].since
        PROVE  installed'[m] # installed'[k]
    <3>1. k \in Payloads /\ k \in Nat
      BY <1>2, <1>4, <2>1
    <3>2. m \in 1 .. Len(installed)
      BY <1>2, <2>2, <3>1
    <3> QED BY <1>2, <2>2, <2>3, <3>1, <3>2 DEF Current
  <2>4. \A q \in Publishers : c \in send'[q].targets =>
          \A k \in ToSet(received[c]) \cup ToSet(channel[c]) : k < send'[q].payload
    <3>1. \A k \in Payloads : k < n
      BY <1>2 DEF n
    <3>2. \A q \in Publishers : c \in send'[q].targets => send'[q].payload = n
      BY <1>5
    <3> QED BY <2>1, <3>1, <3>2
  <2> QED BY <2>1, <2>2, <2>3, <2>4 DEF Current
<1> QED BY <1>2, <1>5, <1>6, <1>7 DEF OrderInv

(* It goes to the end of a channel.                                        *)
LEMMA SendOrder ==
  ASSUME HubTypeInv, FreshInv, OrderInv, NEW p \in Publishers, SendTo(p),
         \A q \in Publishers : q # p => send[q].targets = {}
  PROVE  OrderInv'
<1>1. PICK d \in send[p].targets :
        /\ send' = [ send EXCEPT ![p] = IF send[p].targets = {d} THEN NoSend
                                        ELSE [ payload |-> send[p].payload,
                                               targets |-> send[p].targets \ {d} ] ]
        /\ IF HasRoom(d)
           THEN /\ channel' = [ channel EXCEPT ![d] = Append(@, send[p].payload) ]
                /\ UNCHANGED <<subscribers, conn>>
           ELSE Disconnect(d) /\ UNCHANGED channel
        /\ UNCHANGED <<snapshots, installed, received>>
  BY DEF SendTo
<1>2. /\ d \in Clients /\ send[p].payload \in Payloads /\ Payloads \subseteq Nat
      /\ DOMAIN send = Publishers /\ DOMAIN channel = Clients /\ DOMAIN conn = Clients
      /\ \A c \in Clients : channel[c] \in Seq(Payloads) /\ conn[c].since \in Nat
  BY <1>1 DEF HubTypeInv, HubTypeOK, Payloads
<1>3. ASSUME NEW q \in Publishers, send'[q].targets # {}
      PROVE  /\ q = p /\ send'[q].payload = send[q].payload
             /\ send'[q].targets = send[q].targets \ {d} /\ send[q].targets # {}
  <2>1. CASE q = p
    BY <1>1, <1>2, <1>3, <2>1 DEF NoSend
  <2>2. CASE q # p
    BY <1>1, <1>2, <1>3, <2>2
  <2> QED BY <2>1, <2>2
<1>4. \A c \in Clients : conn'[c].since = conn[c].since /\ conn'[c].initial = conn[c].initial /\ conn'[c].at = conn[c].at
  <2>1. CASE UNCHANGED conn
    BY <2>1
  <2>2. CASE Disconnect(d)
    <3>1. \A c \in Clients : conn[c] \in [ at      : {"unborn", "initial", "stream", "gone"},
                                           topics  : SUBSET Topics,
                                           kicked  : BOOLEAN,
                                           initial : SUBSET Payloads,
                                           since   : Nat ]
      BY DEF HubTypeInv, HubTypeOK
    <3> QED BY <1>2, <2>2, <3>1 DEF Disconnect
  <2> QED BY <1>1, <2>1, <2>2
<1>5. ASSUME NEW c \in Clients PROVE Current(c)'
  <2>1. Current(c) /\ received'[c] = received[c] /\ installed' = installed
    BY <1>1 DEF OrderInv
  <2>2. CASE channel'[c] = channel[c]
    <3>1. \A q \in Publishers : c \in send'[q].targets => c \in send[q].targets /\ send'[q].payload = send[q].payload
      BY <1>3
    <3> QED BY <1>4, <2>1, <2>2, <3>1 DEF Current
  <2>3. CASE c = d /\ channel'[c] = Append(channel[c], send[p].payload)
    <3>1. \A q \in Publishers : c \notin send'[q].targets
      BY <1>3, <2>3
    <3>2. /\ \A k \in ToSet(received[c]) \cup ToSet(channel[c]) : k < send[p].payload
          /\ \A j \in DOMAIN channel[c] :
               /\ \A k \in ToSet(received[c]) : k < channel[c][j]
               /\ \A i \in 1 .. j - 1 : channel[c][i] < channel[c][j]
      BY <1>1, <2>1, <2>3 DEF Current
    <3>3. ASSUME NEW j \in DOMAIN channel'[c]
          PROVE  /\ \A k \in ToSet(received[c]) : k < channel'[c][j]
                 /\ \A i \in 1 .. j - 1 : channel'[c][i] < channel'[c][j]
      <4>1. /\ channel[c] \in Seq(Payloads) /\ DOMAIN channel[c] = 1 .. Len(channel[c]) /\ Len(channel[c]) \in Nat
            /\ DOMAIN channel'[c] = 1 .. Len(channel[c]) + 1
            /\ channel'[c][Len(channel[c]) + 1] = send[p].payload
            /\ \A i \in 1 .. Len(channel[c]) : channel'[c][i] = channel[c][i]
        BY <1>2, <2>3
      <4>2. CASE j = Len(channel[c]) + 1
        <5>1. \A i \in DOMAIN channel[c] : channel[c][i] \in ToSet(channel[c])
          BY DEF ToSet
        <5> QED BY <3>2, <4>1, <4>2, <5>1
      <4>3. CASE j \in 1 .. Len(channel[c])
        <5>1. j \in DOMAIN channel[c] /\ channel'[c][j] = channel[c][j]
          BY <4>1, <4>3
        <5>2. \A i \in 1 .. j - 1 : channel'[c][i] = channel[c][i]
          BY <4>1, <4>3
        <5> QED BY <3>2, <5>1, <5>2
      <4> QED BY <3>3, <4>1, <4>2, <4>3
    <3> QED BY <1>4, <2>1, <3>1, <3>3 DEF Current
  <2> QED BY <1>1, <1>2, <2>2, <2>3
<1> QED BY <1>1, <1>3, <1>5 DEF OrderInv, Payloads

(* A connection joins, and takes what is in its channel in its order.      *)
LEMMA ClientOrder ==
  ASSUME HubTypeInv, FreshInv, OrderInv, NEW d \in Clients, ClientStep(d)
  PROVE  OrderInv'
<1>1. UNCHANGED <<snapshots, send, installed>>
  BY DEF ClientStep, Subscribe, WriteInitial, WriteEvent, Leave
<1>2. /\ DOMAIN conn = Clients /\ DOMAIN channel = Clients /\ DOMAIN received = Clients
      /\ snapshots \in [ Topics -> {NoPayload} \cup Payloads ] /\ installed \in Seq(Topics)
      /\ Payloads \subseteq Nat
      /\ \A c \in Clients : /\ conn[c].since \in Nat /\ conn[c].initial \subseteq Payloads
                            /\ received[c] \in Seq(Payloads) /\ channel[c] \in Seq(Payloads)
                            /\ ToSet(received[c]) \subseteq Payloads /\ ToSet(channel[c]) \subseteq Payloads
  <2>1. \A c \in Clients : /\ conn[c].since \in Nat /\ conn[c].initial \subseteq Payloads
                           /\ received[c] \in Seq(Payloads) /\ channel[c] \in Seq(Payloads)
    BY DEF HubTypeInv, HubTypeOK
  <2> QED BY <2>1, SetOfSeq DEF HubTypeInv, HubTypeOK, Payloads
<1>3. \A c \in Clients : conn[c] \in [ at      : {"unborn", "initial", "stream", "gone"},
                                       topics  : SUBSET Topics,
                                       kicked  : BOOLEAN,
                                       initial : SUBSET Payloads,
                                       since   : Nat ]
  BY DEF HubTypeInv, HubTypeOK
<1>4. ASSUME NEW c \in Clients, c # d PROVE Current(c)'
  <2>1. conn'[c] = conn[c] /\ channel'[c] = channel[c] /\ received'[c] = received[c]
    BY <1>2, <1>4 DEF ClientStep, Subscribe, WriteInitial, WriteEvent, Leave
  <2> QED BY <1>1, <2>1 DEF OrderInv, Current
<1>5. ASSUME Current(d)' PROVE OrderInv'
  BY <1>1, <1>4, <1>5 DEF OrderInv, Payloads
<1>6. Current(d) /\ SentAfterJoin(d) /\ (conn[d].at = "unborn" => Untouched(d))
  BY DEF OrderInv, FreshInv
<1>7. CASE Subscribe(d)
  <2>1. PICK asked \in Requests :
          /\ conn[d].at = "unborn"
          /\ conn'[d].initial = Initial(Granted(d, asked)) /\ conn'[d].since = Len(installed)
          /\ UNCHANGED <<channel, received>>
    BY <1>2, <1>7 DEF Subscribe
  <2>2. /\ received[d] = <<>> /\ channel[d] = <<>> /\ ToSet(received[d]) = {}
        /\ \A q \in Publishers : d \notin send[q].targets
    BY <1>6, <2>1 DEF Untouched, ToSet
  <2>3. ASSUME NEW n \in conn'[d].initial
        PROVE  n <= conn'[d].since /\ \A m \in n + 1 .. conn'[d].since : installed[m] # installed[n]
    <3>1. PICK t \in Granted(d, asked) \ {"time"} : n = snapshots[t] /\ n # NoPayload
      BY <2>1 DEF Initial
    <3>2. t \in Topics
      BY <3>1, HubConstants DEF Granted
    <3>3. n \in Payloads /\ installed[n] = t /\ Payloads = 1 .. Len(installed) /\ Len(installed) \in Nat
      BY <1>2, <3>1, <3>2 DEF FreshInv, Payloads
    <3>4. \A m \in Payloads : installed[m] = t => m <= n
      BY <3>1 DEF OrderInv
    <3> QED BY <2>1, <3>3, <3>4
  <2> QED BY <1>1, <1>5, <2>1, <2>2, <2>3 DEF Current
<1>8. CASE WriteInitial(d)
  <2>1. channel'[d] = channel[d]
    BY <1>8 DEF WriteInitial
  <2>2. ASSUME NEW payload \in conn[d].initial,
               conn' = [ conn EXCEPT ![d].initial = @ \ {payload} ],
               received' = [ received EXCEPT ![d] = Append(@, payload) ]
        PROVE  OrderInv'
    <3>1. conn'[d].since = conn[d].since /\ conn'[d].initial \subseteq conn[d].initial /\ conn[d].at = "initial"
      BY <1>2, <1>3, <1>8, <2>2 DEF WriteInitial
    <3>2. received'[d] = Append(received[d], payload) /\ received[d] \in Seq(Payloads) /\ payload \in Payloads
      BY <1>2, <2>2
    <3>3. ToSet(received'[d]) = ToSet(received[d]) \cup {payload}
      BY <3>2, SetOfAppend
    <3>4. payload <= conn[d].since /\ payload \in Nat /\ conn[d].since \in Nat
      BY <1>2, <1>6, <3>2 DEF Current
    <3>5. ASSUME NEW j \in DOMAIN received'[d], NEW i \in 1 .. j - 1
          PROVE  \/ received'[d][i] < received'[d][j]
                 \/ received'[d][i] <= conn[d].since /\ received'[d][j] <= conn[d].since
      <4>1. /\ DOMAIN received[d] = 1 .. Len(received[d]) /\ Len(received[d]) \in Nat
            /\ DOMAIN received'[d] = 1 .. Len(received[d]) + 1
            /\ received'[d][Len(received[d]) + 1] = payload
            /\ \A k \in 1 .. Len(received[d]) : received'[d][k] = received[d][k]
        BY <3>2
      <4>2. CASE j = Len(received[d]) + 1
        <5>1. received'[d][i] = received[d][i] /\ received[d][i] \in ToSet(received[d])
          BY <4>1, <4>2 DEF ToSet
        <5> QED BY <1>6, <3>1, <3>4, <4>1, <4>2, <5>1 DEF Current
      <4>3. CASE j \in DOMAIN received[d]
        <5>1. received'[d][j] = received[d][j] /\ received'[d][i] = received[d][i]
          BY <3>5, <4>1, <4>3
        <5> QED BY <1>6, <3>5, <4>3, <5>1 DEF Current
      <4> QED BY <3>5, <4>1, <4>2, <4>3
    <3>6. \A j \in DOMAIN channel[d] : payload < channel[d][j]
      <4>1. \A j \in DOMAIN channel[d] : channel[d][j] \in ToSet(channel[d])
        BY DEF ToSet
      <4>2. \A n \in ToSet(channel[d]) : n > conn[d].since /\ n \in Nat
        BY <1>2, <1>6 DEF SentAfterJoin
      <4>3. \A n \in ToSet(channel[d]) : payload < n
        BY <3>4, <4>2
      <4> QED BY <4>1, <4>3
    <3>7. \A q \in Publishers : d \in send[q].targets => payload < send[q].payload
      <4>1. ASSUME NEW q \in Publishers, d \in send[q].targets PROVE payload < send[q].payload
        <5>1. send[q].payload > conn[d].since /\ send[q].payload \in Nat
          BY <1>2, <1>6, <4>1 DEF SentAfterJoin, HubTypeInv
        <5> QED BY <3>4, <5>1
      <4> QED BY <4>1
    <3> QED BY <1>1, <1>5, <1>6, <2>1, <3>1, <3>3, <3>5, <3>6, <3>7 DEF Current
  <2>3. CASE conn' = [ conn EXCEPT ![d].at = "stream" ] /\ UNCHANGED received
    <3>1. conn'[d].since = conn[d].since /\ conn'[d].initial = conn[d].initial /\ conn'[d].at = "stream"
      BY <1>2, <1>3, <2>3
    <3> QED BY <1>1, <1>5, <1>6, <2>1, <2>3, <3>1 DEF Current
  <2> QED BY <1>8, <2>2, <2>3 DEF WriteInitial
<1>9. CASE WriteEvent(d)
  <2> DEFINE head == Head(channel[d])
  <2>1. /\ channel[d] # <<>> /\ UNCHANGED conn /\ conn[d].at = "stream"
        /\ received'[d] = Append(received[d], head) /\ channel'[d] = Tail(channel[d])
    BY <1>2, <1>9 DEF WriteEvent
  <2>2. /\ DOMAIN channel[d] = 1 .. Len(channel[d]) /\ Len(channel[d]) \in Nat \ {0}
        /\ head = channel[d][1] /\ 1 \in DOMAIN channel[d]
        /\ DOMAIN Tail(channel[d]) = 1 .. Len(channel[d]) - 1
        /\ \A i \in 1 .. Len(channel[d]) - 1 : Tail(channel[d])[i] = channel[d][i + 1]
    BY <1>2, <2>1
  <2>3. /\ head \in ToSet(channel[d]) /\ ToSet(Tail(channel[d])) \subseteq ToSet(channel[d])
        /\ head \in Payloads
    BY <1>2, <2>1, SetOfTail
  <2>4. ToSet(received'[d]) = ToSet(received[d]) \cup {head}
    BY <1>2, <2>1, <2>3, SetOfAppend
  <2>5. head > conn[d].since /\ head \in Nat /\ conn[d].since \in Nat
    BY <1>2, <1>6, <2>3 DEF SentAfterJoin
  <2> HIDE DEF head
  <2>6. ASSUME NEW j \in DOMAIN received'[d], NEW i \in 1 .. j - 1
        PROVE  \/ received'[d][i] < received'[d][j]
               \/ received'[d][i] <= conn[d].since /\ received'[d][j] <= conn[d].since
    <3>1. /\ DOMAIN received[d] = 1 .. Len(received[d]) /\ Len(received[d]) \in Nat
          /\ DOMAIN received'[d] = 1 .. Len(received[d]) + 1
          /\ received'[d][Len(received[d]) + 1] = head
          /\ \A k \in 1 .. Len(received[d]) : received'[d][k] = received[d][k]
      BY <1>2, <2>1, <2>3
    <3>2. received'[d][i] = received[d][i] /\ i \in DOMAIN received[d]
      BY <2>6, <3>1
    <3>3. CASE j = Len(received[d]) + 1
      <4>1. received[d][i] \in ToSet(received[d])
        BY <3>2 DEF ToSet
      <4> QED BY <1>6, <2>2, <3>1, <3>2, <3>3, <4>1 DEF Current
    <3>4. CASE j \in DOMAIN received[d]
      <4>1. received'[d][j] = received[d][j]
        BY <3>1, <3>4
      <4> QED BY <1>6, <2>6, <3>2, <3>4, <4>1 DEF Current
    <3> QED BY <3>1, <3>3, <3>4
  <2>7. ASSUME NEW j \in DOMAIN channel'[d]
        PROVE  /\ \A n \in ToSet(received'[d]) : n < channel'[d][j]
               /\ \A i \in 1 .. j - 1 : channel'[d][i] < channel'[d][j]
    <3>1. j + 1 \in DOMAIN channel[d] /\ channel'[d][j] = channel[d][j + 1] /\ j \in Nat \ {0}
      BY <2>1, <2>2
    <3>2. /\ \A n \in ToSet(received[d]) : n < channel[d][j + 1]
          /\ \A i \in 1 .. j : channel[d][i] < channel[d][j + 1]
      <4>1. j + 1 - 1 = j
        BY <3>1
      <4> QED BY <1>6, <3>1, <4>1 DEF Current
    <3>3. head < channel[d][j + 1]
      BY <2>2, <3>1, <3>2
    <3>4. \A i \in 1 .. j - 1 : i + 1 \in 1 .. j /\ channel'[d][i] = channel[d][i + 1]
      BY <2>1, <2>2, <2>7
    <3> QED BY <2>4, <3>1, <3>2, <3>3, <3>4
  <2>8. \A n \in conn[d].initial \cup ToSet(received'[d]) : n <= conn[d].since =>
          n \in conn[d].initial \cup ToSet(received[d])
    BY <2>4, <2>5
  <2>9. \A q \in Publishers : d \in send[q].targets =>
          \A n \in ToSet(received'[d]) \cup ToSet(channel'[d]) : n < send[q].payload
    <3>1. \A n \in ToSet(received'[d]) \cup ToSet(channel'[d]) : n \in ToSet(received[d]) \cup ToSet(channel[d])
      BY <2>1, <2>3, <2>4
    <3> QED BY <1>6, <3>1 DEF Current
  <2> QED BY <1>1, <1>5, <1>6, <2>1, <2>6, <2>7, <2>8, <2>9 DEF Current
<1>10. CASE Leave(d)
  <2>1. UNCHANGED <<channel, received>> /\ conn' = [ conn EXCEPT ![d].at = "gone", ![d].initial = {} ]
    BY <1>10 DEF Leave
  <2>2. conn'[d].initial = {} /\ conn'[d].since = conn[d].since /\ conn'[d].at = "gone"
    BY <1>2, <1>3, <2>1
  <2> QED BY <1>1, <1>5, <1>6, <2>1, <2>2 DEF Current
<1> QED BY <1>7, <1>8, <1>9, <1>10 DEF ClientStep

(* A step that publishes nothing: builders have read nothing older.        *)
LEMMA BuiltStays ==
  ASSUME TypeInv, BuiltInv, UNCHANGED <<installed, carries>>,
         version' \in [ Tables -> Nat ], \A t \in Tables : version[t] <= version'[t],
         \A p \in Publishers : \A t \in DOMAIN task'[p].read :
           \/ t \in DOMAIN task[p].read /\ task'[p].read[t] = task[p].read[t]
           \/ task'[p].read[t] = version'[t]
  PROVE  BuiltInv'
<1> SUFFICES ASSUME NEW n \in Payloads, NEW t \in DOMAIN carries[n]
             PROVE  /\ carries[n][t] <= version'[t]
                    /\ \A p \in Publishers : t \in DOMAIN task'[p].read => carries[n][t] <= task'[p].read[t]
  BY DEF BuiltInv, Payloads
<1>1. t \in Tables /\ carries[n][t] \in Nat /\ carries[n][t] <= version[t]
  BY ReadOf DEF BuiltInv
<1>2. version[t] \in Nat /\ version'[t] \in Nat /\ version[t] <= version'[t]
  BY <1>1 DEF TypeInv, TaskInv
<1>3. carries[n][t] <= version'[t]
  BY <1>1, <1>2
<1> QED BY <1>3 DEF BuiltInv

(* What a builder starts a document with.                                  *)
LEMMA NothingRead == DOMAIN NoSnapshot = {}
BY DEF NoSnapshot

(* A publication carries what was read since the last one.                 *)
LEMMA PublishBuilt ==
  ASSUME TypeInv, OwedInv, InTurn, BuiltInv, NEW p \in Publishers, PublishTopic(p)
  PROVE  BuiltInv'
<1> DEFINE n == Len(installed) + 1
           read == task[p].read
<1>1. /\ Ready(p) /\ Advance(p) /\ Topic(p) # "" /\ Unread(p) = {}
      /\ installed' = Append(installed, Topic(p))
      /\ carries' = Append(carries, read)
      /\ UNCHANGED version
  BY DEF PublishTopic, Install
<1>2. Topic(p) \in Topics /\ installed \in Seq(Topics) /\ IsSequence(carries) /\ Len(carries) = Len(installed)
  BY <1>1, AdvanceTask DEF Topic, StepType, TypeInv, HubTypeInv, HubTypeOK
<1>3. /\ Payloads' = Payloads \cup {n} /\ Payloads = 1 .. Len(installed) /\ Len(installed) \in Nat
      /\ installed'[n] = Topic(p) /\ \A m \in Payloads : installed'[m] = installed[m]
  <2>1. Payloads = 1 .. Len(installed) /\ Len(installed) \in Nat
    BY <1>2 DEF Payloads
  <2> QED BY <1>1, <1>2, <2>1, MorePayloads
<1>4. carries'[n] = read /\ \A m \in Payloads : carries'[m] = carries[m]
  <2>1. DOMAIN carries = 1 .. Len(carries) /\ n = Len(carries) + 1
    BY <1>2 DEF IsSequence
  <2> HIDE DEF n, read
  <2>2. Append(carries, read)[n] = read /\ \A m \in DOMAIN carries : Append(carries, read)[m] = carries[m]
    BY <1>2, <2>1, HistoryGrows
  <2> QED BY <1>1, <1>2, <1>3, <2>1, <2>2
<1>5. read \in Versions /\ DOMAIN read \subseteq Tables /\ \A t \in DOMAIN read : read[t] \in Nat /\ read[t] <= version[t]
  <2>1. read \in Versions /\ \A t \in DOMAIN read : read[t] <= version[t]
    BY DEF TypeInv, TaskInv, Tasks
  <2> QED BY <2>1, ReadOf
<1>6. Shows(Topic(p)) \subseteq DOMAIN read
  <2> SUFFICES ASSUME NEW t \in Shows(Topic(p)) PROVE t \in DOMAIN read
    OBVIOUS
  <2>1. PICK i \in DOMAIN Reads(Topic(p)) : t \in Reads(Topic(p))[i]
    BY WhoShows
  <2>2. i \notin Unread(p)
    BY <1>1
  <2>3. Reads(Topic(p))[i] \subseteq DOMAIN read
    BY <2>2 DEF Unread
  <2> QED BY <2>1, <2>3
<1>7. ASSUME NEW q \in Publishers PROVE DOMAIN task'[q].read = {}
  <2>1. task \in [ Publishers -> Tasks ]
    BY DEF TypeInv, TaskInv
  <2>2. CASE q = p
    <3>1. task' = [ task EXCEPT ![p] = [ steps |-> Tail(task[p].steps), read |-> NoSnapshot ] ]
      BY <1>1 DEF Advance
    <3>2. task'[p].read = NoSnapshot
      BY <2>1, <3>1
    <3> QED BY <2>2, <3>2, NothingRead
  <2>3. CASE q # p
    <3>1. task[q].steps = <<>>
      BY <1>1, <2>3, OthersRest DEF TypeInv, Ready, Busy
    <3> QED BY <1>1, <2>1, <2>3, <3>1, AdvanceTask DEF OwedInv, TypeInv
  <2> QED BY <2>2, <2>3
<1> HIDE DEF n, read
<1>8. ASSUME NEW k \in Payloads', NEW t \in DOMAIN carries'[k]
      PROVE  /\ carries'[k][t] <= version[t]
             /\ \A m \in 1 .. k - 1 : t \in DOMAIN carries'[m] => carries'[m][t] <= carries'[k][t]
  <2>1. CASE k = n
    <3>1. \A m \in 1 .. k - 1 : m \in Payloads
      BY <1>3, <2>1 DEF n
    <3>2. \A m \in Payloads : t \in DOMAIN carries[m] => carries[m][t] <= read[t]
      BY <1>4, <1>8, <2>1 DEF BuiltInv, read
    <3> QED BY <1>4, <1>5, <1>8, <2>1, <3>1, <3>2
  <2>2. CASE k \in Payloads
    <3>1. \A m \in 1 .. k - 1 : m \in Payloads
      BY <1>3, <2>2
    <3> QED BY <1>4, <1>8, <2>2, <3>1 DEF BuiltInv
  <2> QED BY <1>3, <2>1, <2>2
<1>9. ASSUME NEW k \in Payloads' PROVE carries'[k] \in Versions /\ Shows(installed'[k]) \subseteq DOMAIN carries'[k]
  BY <1>3, <1>4, <1>5, <1>6 DEF BuiltInv
<1> QED BY <1>1, <1>7, <1>8, <1>9 DEF BuiltInv

(* Every step keeps documents in the order of what they show, ...          *)
LEMMA NextBuilt == TypeInv /\ OwedInv /\ InTurn /\ BuiltInv /\ [Next]_vars => BuiltInv'
<1> SUFFICES ASSUME TypeInv, OwedInv, InTurn, BuiltInv, [Next]_vars PROVE BuiltInv'
  OBVIOUS
<1>1. version \in [ Tables -> Nat ] /\ task \in [ Publishers -> Tasks ]
  BY DEF TypeInv, TaskInv
<1>2. ASSUME UNCHANGED <<version, task, carries, installed>> PROVE BuiltInv'
  BY <1>2 DEF BuiltInv, Payloads
<1>3. ASSUME NEW p \in Publishers, Begin(p) PROVE BuiltInv'
  <2>1. PICK op \in Operations :
          /\ task' = [ task EXCEPT ![p].steps = StepsOf(op) ]
          /\ version' \in { version, Changed({"pending"}) }
          /\ UNCHANGED <<installed, carries>>
    BY <1>3 DEF Begin, hub
  <2>2. \A q \in Publishers : task'[q].read = task[q].read
    BY <1>1, <2>1 DEF Tasks
  <2>3. version' \in [ Tables -> Nat ] /\ \A t \in Tables : version[t] <= version'[t]
    BY <1>1, <2>1, ChangedGrows
  <2> QED BY <2>1, <2>2, <2>3, BuiltStays
<1>4. ASSUME NEW p \in Publishers, Write(p) PROVE BuiltInv'
  <2>1. /\ Ready(p) /\ Advance(p) /\ version' = Changed(Head(task[p].steps).tables)
        /\ UNCHANGED <<installed, carries>>
    BY <1>4 DEF Write, hub
  <2>2. \A q \in Publishers : \A t \in DOMAIN task'[q].read : t \in DOMAIN task[q].read /\ task'[q].read[t] = task[q].read[t]
    <3>1. task' = [ task EXCEPT ![p] = [ steps |-> Tail(task[p].steps), read |-> NoSnapshot ] ]
      BY <2>1 DEF Advance
    <3>2. task'[p].read = NoSnapshot /\ \A q \in Publishers : q # p => task'[q] = task[q]
      BY <1>1, <3>1
    <3> QED BY <3>2, NothingRead
  <2> QED BY <1>1, <2>1, <2>2, ChangedGrows, BuiltStays
<1>5. ASSUME NEW p \in Publishers, Read(p) PROVE BuiltInv'
  <2>1. PICK query :
          /\ version' = Changed(query \cap {"dirRev"})
          /\ task' = [ task EXCEPT ![p].read = [ t \in DOMAIN task[p].read \cup query |->
                                                  IF t \in query THEN version'[t] ELSE task[p].read[t] ] ]
          /\ UNCHANGED <<installed, carries>>
    BY <1>5 DEF Read, hub
  <2>2. ASSUME NEW q \in Publishers, NEW t \in DOMAIN task'[q].read
        PROVE  \/ t \in DOMAIN task[q].read /\ task'[q].read[t] = task[q].read[t]
               \/ task'[q].read[t] = version'[t]
    <3>1. CASE q # p
      BY <1>1, <2>1, <2>2, <3>1
    <3>2. CASE q = p
      <4>1. task'[p].read = [ u \in DOMAIN task[p].read \cup query |->
                               IF u \in query THEN version'[u] ELSE task[p].read[u] ]
        BY <1>1, <2>1 DEF Tasks
      <4> QED BY <2>2, <3>2, <4>1
    <3> QED BY <3>1, <3>2
  <2> QED BY <1>1, <2>1, <2>2, ChangedGrows, BuiltStays
<1>6. ASSUME NEW p \in Publishers, Deliver(p) PROVE BuiltInv'
  BY <1>2, <1>6 DEF Deliver, SendTo
<1>7. ASSUME NEW c \in Clients, ClientNext(c) PROVE BuiltInv'
  BY <1>2, <1>7 DEF ClientNext, ClientStep, Subscribe, WriteInitial, WriteEvent, Leave
<1>8. CASE UNCHANGED vars
  BY <1>2, <1>8 DEF vars, hub
<1> QED BY <1>3, <1>4, <1>5, <1>6, <1>7, <1>8, PublishBuilt DEF Next, Handle

(* ... and what a connection gets in the order of the publications.        *)
LEMMA NextOrder == TypeInv /\ FreshInv /\ InTurn /\ OrderInv /\ [Next]_vars => OrderInv'
<1> SUFFICES ASSUME TypeInv, FreshInv, InTurn, OrderInv, [Next]_vars PROVE OrderInv'
  OBVIOUS
<1>1. ASSUME UNCHANGED hub PROVE OrderInv'
  BY <1>1 DEF hub, OrderInv, Current, Payloads
<1>2. ASSUME NEW p \in Publishers, PublishTopic(p) PROVE OrderInv'
  <2>1. Ready(p) /\ Topic(p) # "" /\ Install(p, Topic(p)) /\ Advance(p)
    BY <1>2 DEF PublishTopic
  <2>2. Topic(p) \in Topics
    BY <2>1, AdvanceTask DEF Topic, StepType, TypeInv
  <2>3. Busy(p)
    BY <2>1 DEF Ready, Busy
  <2> QED BY <2>1, <2>2, <2>3, OthersRest, InstallOrder DEF TypeInv
<1>3. ASSUME NEW p \in Publishers, Deliver(p) PROVE OrderInv'
  <2>1. SendTo(p) /\ send[p].targets # {}
    BY <1>3 DEF Deliver, SendTo
  <2>2. Busy(p)
    BY <2>1 DEF Busy, Sent, NoSend
  <2> QED BY <2>1, <2>2, OthersRest, SendOrder DEF TypeInv
<1>4. ASSUME NEW c \in Clients, ClientNext(c) PROVE OrderInv'
  BY <1>4, ClientOrder DEF ClientNext, TypeInv
<1> QED BY <1>1, <1>2, <1>3, <1>4 DEF Next, Handle, Begin, Write, Read, vars

(* Where the last element is that passes a test.                           *)
LEMMA LastIndex ==
  ASSUME NEW n \in Nat, NEW S \in SUBSET (1 .. n), S # {}
  PROVE  Max(S) \in S /\ \A i \in S : i <= Max(S)
<1> DEFINE T    == { n - i : i \in S }
           less == OpToRel(<, Nat)
<1>1. T \in SUBSET Nat /\ T # {}
  OBVIOUS
<1>2. PICK m \in T : \A k \in T : <<k, m>> \notin less
  <2> HIDE DEF less, T
  <2>1. IsWellFoundedOn(less, Nat)
    BY NatLessThanWellFounded DEF less
  <2> QED BY <1>1, <2>1, WFMin
<1>3. \A k \in T : ~(k < m)
  BY <1>1, <1>2 DEF OpToRel
<1>4. \E x \in S : \A i \in S : x >= i
  <2>1. PICK x \in S : m = n - x
    OBVIOUS
  <2>2. ASSUME NEW i \in S PROVE x >= i
    <3>1. n - i \in T /\ i \in Nat /\ x \in Nat
      OBVIOUS
    <3>2. ~(n - i < m)
      BY <1>3, <3>1
    <3> QED BY <2>1, <3>1, <3>2
  <2> QED BY <2>2
<1> HIDE DEF T
<1>5. Max(S) \in S /\ \A i \in S : Max(S) >= i
  BY <1>4, Zenon DEF Max
<1>6. \A i \in S : i \in Nat
  OBVIOUS
<1> QED BY <1>5, <1>6

(* What a connection shows of a topic is the last it was written.          *)
LEMMA LastShown ==
  ASSUME TypeInv, NEW c \in Clients, NEW topic, ShownAt(c, topic) > 0
  PROVE  /\ ShownAt(c, topic) \in DOMAIN received[c]
         /\ installed[received[c][ShownAt(c, topic)]] = topic
         /\ \A i \in DOMAIN received[c] : installed[received[c][i]] = topic => i <= ShownAt(c, topic)
<1> DEFINE S == { i \in 1 .. Len(received[c]) : installed[received[c][i]] = topic }
<1>1. received[c] \in Seq(Payloads)
  BY DEF TypeInv, HubTypeInv, HubTypeOK
<1>2. DOMAIN received[c] = 1 .. Len(received[c]) /\ Len(received[c]) \in Nat
  BY <1>1
<1>3. ShownAt(c, topic) = IF S # {} THEN Max(S) ELSE 0
  BY DEF ShownAt, SelectLastInSeq
<1>4. S # {} /\ ShownAt(c, topic) = Max(S)
  BY <1>3
<1>5. Max(S) \in S /\ \A i \in S : i <= Max(S)
  <2>1. S \in SUBSET (1 .. Len(received[c]))
    OBVIOUS
  <2> HIDE DEF S
  <2> QED BY <1>2, <1>4, <2>1, LastIndex
<1> QED BY <1>2, <1>4, <1>5

(* What is shown last was built from the tables as they are.               *)
LEMMA ScreensShowTables ==
  ASSUME TypeInv, HubInv, FreshInv, OrderInv, BuiltInv, ChangesArePublished
  PROVE  QuietScreensAreCurrent
<1> SUFFICES ASSUME Quiet, NEW c \in subscribers, conn[c].at = "stream", channel[c] = <<>>,
                    NEW topic \in conn[c].topics, ShownAt(c, topic) > 0, NEW t \in Due(topic)
             PROVE  carries[received[c][ShownAt(c, topic)]][t] = version[t]
  BY DEF QuietScreensAreCurrent
<1> DEFINE last  == ShownAt(c, topic)
           shown == received[c][last]
           since == conn[c].since
<1>1. /\ c \in Clients /\ topic \in Topics /\ since \in Nat
      /\ received[c] \in Seq(Payloads) /\ Payloads = 1 .. Len(installed) /\ Len(installed) \in Nat
  BY DEF TypeInv, HubTypeInv, HubTypeOK, Payloads
<1>2. /\ last \in DOMAIN received[c] /\ installed[shown] = topic
      /\ \A i \in DOMAIN received[c] : installed[received[c][i]] = topic => i <= last
  BY <1>1, LastShown
<1>3. shown \in Payloads /\ shown \in ToSet(received[c])
  BY <1>1, <1>2 DEF ToSet
<1>4. Current(c) /\ Connected(c) /\ ~conn[c].kicked
  BY <1>1 DEF HubInv, OrderInv, NobodyLeftInSilence, Connected
<1>5. /\ carries[shown] \in Versions /\ t \in DOMAIN carries[shown] /\ t \in Tables
      /\ carries[shown][t] \in Nat /\ carries[shown][t] <= version[t] /\ version[t] \in Nat
  <2>1. carries[shown] \in Versions /\ t \in DOMAIN carries[shown]
    BY <1>2, <1>3, WhatIsDue DEF BuiltInv
  <2>2. t \in Tables /\ carries[shown][t] \in Nat
    BY <2>1, ReadOf
  <2> QED BY <1>3, <2>1, <2>2 DEF BuiltInv, TypeInv, TaskInv
<1> HIDE DEF last, shown, since
<1> SUFFICES carries[shown][t] = version[t]
  BY DEF shown, last
<1>6. CASE version[t] = 0
  BY <1>5, <1>6
<1>7. CASE version[t] > 0
  <2>1. PICK n \in Payloads : installed[n] = topic /\ carries[n][t] = version[t]
    BY <1>1, <1>7 DEF ChangesArePublished, Payloads
  <2>2. n <= shown
    <3>1. CASE n <= since
      <4>1. CASE shown <= since
        <5>1. \A m \in shown + 1 .. since : installed[m] # topic
          BY <1>2, <1>3, <1>4, <4>1 DEF Current, since
        <5> QED BY <1>1, <1>3, <2>1, <3>1, <5>1
      <4> QED BY <1>1, <1>3, <2>1, <3>1, <4>1
    <3>2. CASE n > since
      <4>1. OnItsWay(c, n)
        <5>1. n \in since + 1 .. Len(installed)
          BY <1>1, <2>1, <3>2
        <5> QED BY <1>1, <1>4, <2>1, <5>1 DEF HubInv, NothingMissed, since
      <4>2. \A p \in Publishers : send[p].targets = {}
        BY DEF Quiet, Busy, Sent, NoSend
      <4>3. Contains(received[c], n)
        <5>1. ~Contains(channel[c], n)
          BY DEF Contains
        <5> QED BY <4>1, <4>2, <5>1 DEF OnItsWay
      <4>4. PICK i \in DOMAIN received[c] : received[c][i] = n
        BY <1>1, <4>3 DEF Contains
      <4>5. i <= last
        BY <1>2, <2>1, <4>4
      <4>6. CASE i = last
        BY <1>1, <2>1, <4>4, <4>6 DEF shown
      <4>7. CASE i < last
        <5>1. i \in 1 .. last - 1
          BY <1>1, <1>2, <4>4, <4>7
        <5>2. received[c][i] < received[c][last] \/ received[c][i] <= since
          BY <1>2, <1>4, <5>1 DEF Current, since
        <5> QED BY <1>1, <1>3, <2>1, <3>2, <4>4, <5>2 DEF shown
      <4> QED BY <1>1, <1>2, <4>4, <4>5, <4>6, <4>7
    <3> QED BY <1>1, <2>1, <3>1, <3>2
  <2>3. CASE n = shown
    BY <2>1, <2>3
  <2>4. CASE n < shown
    <3>1. n \in 1 .. shown - 1 /\ t \in DOMAIN carries[n]
      <4>1. t \in Shows(installed[n]) /\ Shows(installed[n]) \subseteq DOMAIN carries[n]
        BY <2>1, WhatIsDue DEF BuiltInv
      <4> QED BY <1>1, <1>3, <2>1, <2>4, <4>1
    <3>2. carries[n][t] <= carries[shown][t]
      BY <1>3, <1>5, <3>1 DEF BuiltInv
    <3> QED BY <1>5, <2>1, <3>2
  <2> QED BY <1>1, <1>3, <2>1, <2>2, <2>3, <2>4
<1> QED BY <1>5, <1>6, <1>7

(* When handlers take turns, a connected browser shows every table that    *)
(* its topics are due (Due) as it is, once all is written to it.  The      *)
(* drivers and vehicles of LeftOld are not among them: for one of those a  *)
(* single handler leaves an old document on the screen.  For any other     *)
(* table, a late, older document (publish.go:13) takes two that overlap.   *)
THEOREM ScreensAreCurrentInTurn == Spec /\ []InTurn => []QuietScreensAreCurrent
<1>1. Init => TypeInv /\ HubInv /\ FreshInv /\ OwedInv /\ OrderInv /\ BuiltInv
  BY InitPubTypes, InitHubInv, InitFresh, InitOwed, InitOrder
<1>2. TypeInv /\ HubInv /\ FreshInv /\ OwedInv /\ OrderInv /\ BuiltInv /\ InTurn /\ [Next]_vars
      => (TypeInv /\ HubInv /\ FreshInv /\ OwedInv /\ OrderInv /\ BuiltInv)'
  BY NextPubTypes, NextHubInv, NextFresh, NextOwed, NextOrder, NextBuilt
<1>3. TypeInv /\ HubInv /\ FreshInv /\ OrderInv /\ BuiltInv /\ ChangesArePublished => QuietScreensAreCurrent
  BY ScreensShowTables
<1> QED BY <1>1, <1>2, <1>3, NoChangeIsForgotten, PTL DEF Spec
=============================================================================
