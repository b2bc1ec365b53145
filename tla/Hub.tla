--------------------------------- MODULE Hub ---------------------------------
(***************************************************************************)
(* The SSE hub (internal/sse/hub.go): the latest payload of each topic,    *)
(* the connections with their bounded channels, Publish, and the HTTP      *)
(* handler that serves one connection.  A browser that comes back is a     *)
(* connection of its own.                                                  *)
(*                                                                         *)
(* Publish is a critical section that installs the payload and collects    *)
(* the subscribers, then one send for each of them outside the lock; one   *)
(* whose channel is full is disconnected.  The hub does not look into a    *)
(* payload, so here it is the number of the Publish call that brought it.  *)
(***************************************************************************)
EXTENDS Integers, SequencesExt, FiniteSetsExt

CONSTANTS
  Topics,         \* topics in use
  Clients,        \* connections
  Admins,         \* those of them that come with an administrator's session
  Publishers,     \* goroutines that publish
  Buffer,         \* subscriberBufferSize
  Requests        \* the sets of topics a connection asks for

ASSUME HubConstants ==
  /\ Admins \subseteq Clients
  /\ Buffer \in Nat \ {0}
  /\ Requests \subseteq SUBSET Topics

VARIABLES
  snapshots,      \* Hub.snapshots
  subscribers,    \* Hub.subscribers
  conn,           \* each connection's handler and subscriber
  channel,        \* subscriber.ch
  send,           \* the Publish call each publisher is in
  installed,      \* the topic of every Publish call so far (history)
  received        \* what each connection has been written, in order (history)

hub == <<snapshots, subscribers, conn, channel, send, installed, received>>

NoPayload == 0
Payloads  == DOMAIN installed
NoSend    == [ payload |-> NoPayload, targets |-> {} ]

(* initial is what is still to be written of the state at the join; since  *)
(* is how many Publish calls there had been then.                          *)
Unborn == [ at |-> "unborn", topics |-> {}, kicked |-> FALSE, initial |-> {}, since |-> 0 ]

HubTypeOK ==
  /\ snapshots \in [ Topics -> {NoPayload} \cup Payloads ]
  /\ subscribers \subseteq Clients
  /\ conn \in [ Clients -> [ at      : {"unborn", "initial", "stream", "gone"},
                             topics  : SUBSET Topics,
                             kicked  : BOOLEAN,
                             initial : SUBSET Payloads,
                             since   : Nat ] ]
  /\ channel \in [ Clients -> Seq(Payloads) ] /\ \A c \in Clients : Len(channel[c]) <= Buffer
  /\ send \in [ Publishers -> [ payload : {NoPayload} \cup Payloads, targets : SUBSET Clients ] ]
  /\ installed \in Seq(Topics)
  /\ received \in [ Clients -> Seq(Payloads) ]

InitHub ==
  /\ snapshots = [ t \in Topics |-> NoPayload ]
  /\ subscribers = {}
  /\ conn = [ c \in Clients |-> Unborn ]
  /\ channel = [ c \in Clients |-> <<>> ]
  /\ send = [ p \in Publishers |-> NoSend ]
  /\ installed = <<>>
  /\ received = [ c \in Clients |-> <<>> ]

-----------------------------------------------------------------------------
(* Publish.                                                                *)

(* Under the lock: the payload becomes the topic's snapshot, and the       *)
(* subscribers of the topic at this moment are the ones to send it to.     *)
Install(p, topic) ==
  LET payload == Len(installed) + 1
      targets == { c \in subscribers : topic \in conn[c].topics }
  IN /\ snapshots' = [ snapshots EXCEPT ![topic] = payload ]
     /\ installed' = Append(installed, topic)
     /\ send' = [ send EXCEPT ![p] = IF targets = {} THEN NoSend
                                     ELSE [ payload |-> payload, targets |-> targets ] ]
     /\ UNCHANGED <<subscribers, conn, channel, received>>

Sent(p) == send[p] = NoSend

(* A plausible slip: an event that does not fit is skipped.                *)
SkipEvent(c) == UNCHANGED <<subscribers, conn>>

(* A plausible slip: out of the set, but the handler is not told.          *)
UnsubscribeOnly(c) == subscribers' = subscribers \ {c} /\ UNCHANGED conn

(* disconnect.                                                             *)
Disconnect(c) == /\ subscribers' = subscribers \ {c}
                 /\ conn' = [ conn EXCEPT ![c].kicked = TRUE ]

(* A plausible slip: one event more than the buffer holds.                 *)
HasRoomForOneMore(c) == Len(channel[c]) <= Buffer

HasRoom(c) == Len(channel[c]) < Buffer

(* A plausible slip: a send that waits for room.                           *)
SendWaits(c) == HasRoom(c)

(* The send's select has a default case: the publisher never waits.        *)
SendIsReady(c) == TRUE

(* Outside the lock, one target after another, in any order.               *)
SendTo(p) ==
  \E c \in send[p].targets :
    /\ SendIsReady(c)
    /\ send' = [ send EXCEPT ![p] = IF @.targets = {c} THEN NoSend
                                    ELSE [ payload |-> @.payload, targets |-> @.targets \ {c} ] ]
    /\ IF HasRoom(c)
       THEN /\ channel' = [ channel EXCEPT ![c] = Append(@, send[p].payload) ]
            /\ UNCHANGED <<subscribers, conn>>
       ELSE Disconnect(c) /\ UNCHANGED channel
    /\ UNCHANGED <<snapshots, installed, received>>

-----------------------------------------------------------------------------
(* Handler, serving one connection.                                        *)

(* The known topics asked for, "orphan" for administrators only.           *)
Granted(c, asked) == IF c \in Admins THEN asked ELSE asked \ {"orphan"}

(* A plausible slip: the stored time is sent like any other snapshot.      *)
InitialWithTime(topics) == { snapshots[t] : t \in topics } \ {NoPayload}

(* The state at the join; the time is stamped afresh instead.              *)
Initial(topics) == { snapshots[t] : t \in topics \ {"time"} } \ {NoPayload}

(* subscribe: registered and shown the snapshots in one critical section.  *)
Subscribe(c) ==
  \E asked \in Requests :
    /\ conn[c].at = "unborn"
    /\ subscribers' = subscribers \cup {c}
    /\ conn' = [ conn EXCEPT ![c] = [ at      |-> "initial",
                                      topics  |-> Granted(c, asked),
                                      kicked  |-> FALSE,
                                      initial |-> Initial(Granted(c, asked)),
                                      since   |-> Len(installed) ] ]
    /\ UNCHANGED <<snapshots, channel, send, installed, received>>

(* One write of the initial state; after the last one the loop begins.     *)
WriteInitial(c) ==
  /\ conn[c].at = "initial"
  /\ \/ \E payload \in conn[c].initial :
          /\ conn' = [ conn EXCEPT ![c].initial = @ \ {payload} ]
          /\ received' = [ received EXCEPT ![c] = Append(@, payload) ]
     \/ /\ conn[c].initial = {}
        /\ conn' = [ conn EXCEPT ![c].at = "stream" ]
        /\ UNCHANGED received
  /\ UNCHANGED <<snapshots, subscribers, channel, send, installed>>

WriteEvent(c) ==
  /\ conn[c].at = "stream"
  /\ channel[c] # <<>>
  /\ received' = [ received EXCEPT ![c] = Append(@, Head(channel[c])) ]
  /\ channel' = [ channel EXCEPT ![c] = Tail(@) ]
  /\ UNCHANGED <<snapshots, subscribers, conn, send, installed>>

(* The handler returns: the browser went away, a write failed, or it was   *)
(* kicked.                                                                 *)
Leave(c) ==
  /\ conn[c].at \in {"initial", "stream"}
  /\ subscribers' = subscribers \ {c}
  /\ conn' = [ conn EXCEPT ![c].at = "gone", ![c].initial = {} ]
  /\ UNCHANGED <<snapshots, channel, send, installed, received>>

ClientStep(c) == Subscribe(c) \/ WriteInitial(c) \/ WriteEvent(c) \/ Leave(c)

-----------------------------------------------------------------------------
Connected(c) == conn[c].at \in {"initial", "stream"}

(* What connection c is due of publication n, unless it has been kicked.   *)
OnItsWay(c, n) == \/ Contains(received[c], n)
                  \/ Contains(channel[c], n)
                  \/ \E p \in Publishers : send[p].payload = n /\ c \in send[p].targets

(* From the moment it joins, a connection misses nothing: every later      *)
(* Publish of a topic it asked for has been written to it, waits in its    *)
(* channel, or is about to be sent, until the hub disconnects it (Publish, *)
(* subscribe).                                                             *)
NothingMissed ==
  \A c \in Clients : Connected(c) /\ ~conn[c].kicked =>
    \A n \in conn[c].since + 1 .. Len(installed) :
      installed[n] \in conn[c].topics => OnItsWay(c, n)

(* No connection is left behind in silence: one that is not registered any *)
(* more has been told to go (disconnect), and one that is registered is    *)
(* still being served.                                                     *)
NobodyLeftInSilence ==
  \A c \in Clients : Connected(c) => (c \in subscribers <=> ~conn[c].kicked)

(* A browser sets its clock by the time topic: what it is sent was stamped *)
(* after it joined (Handler).                                              *)
TimeIsFresh ==
  \A c \in Clients : \A n \in ToSet(received[c]) \cup conn[c].initial :
    installed[n] = "time" => n > conn[c].since
=============================================================================
