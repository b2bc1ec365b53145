----------------------------- MODULE TimingChain -----------------------------
(***************************************************************************)
(* The timing chain as a whole: the sensor boards, the network and the     *)
(* server's trigger path, and what must be true of them together.          *)
(***************************************************************************)
EXTENDS SensorNode, TriggerPath

vars == <<now, links, stimuli, node, server>>

Init == InitDatagrams /\ InitNode /\ InitServer

Next == \/ (Tick \/ Duplicate) /\ UNCHANGED <<node, server>>
        \/ (\E s \in Sensors : NodeStep(s)) /\ UNCHANGED server
        \/ ServerStep /\ UNCHANGED node

Spec == Init /\ [][Next]_vars

(* The dispatcher's goroutine runs, and its select gets round to the       *)
(* channel of received datagrams.  Nothing makes a car cross, a datagram   *)
(* arrive or a request be made.                                            *)
FairSpec ==
  /\ Spec
  /\ WF_vars((TakeTrigger \/ TakeHeartbeat) /\ UNCHANGED node)
  /\ WF_vars((RecordTrigger \/ RecordFails \/ PairTrigger \/ SendReply) /\ UNCHANGED node)

TypeOK == /\ NodeTypeOK /\ ServerTypeOK
          /\ now \in 0 .. MaxTime /\ stimuli \in 0 .. MaxStimuli
          /\ IsABag(net) /\ IsABag(replies)

-----------------------------------------------------------------------------
(* A trigger, known by sensor, boot and sequence number, is settled at     *)
(* most once, and then it is in the ledger: however often its datagram     *)
(* arrives, and with restarts of the server in between (handleTrigger).    *)
TriggerSettledOnce ==
  \A i \in DOMAIN settled :
    /\ \E row \in ledger : row.key = settled[i].key
    /\ \A j \in DOMAIN settled : settled[j].key = settled[i].key => j = i

(* From end to end: however the beam bounces and whatever is repeated, a   *)
(* car is told to the course at most once (Lockout, Identity, the ledger). *)
Told(c) ==
  LET at(how) == { i \in DOMAIN settled : settled[i].crossing = c /\ settled[i].how = how }
  IN { [ how |-> h, times |-> Cardinality(at(h)) ] : h \in { x \in Ends : at(x) # {} } }

Promise == INSTANCE CrossingPromise
             WITH Crossings <- 1 .. MaxStimuli,
                  crossed   <- 1 .. crossings,
                  told      <- [ c \in 1 .. MaxStimuli |-> Told(c) ]

CarsToldOnce == Promise!Spec

(* The loss rate is computed over heartbeats of one boot: if the board is  *)
(* still in the boot that the window is of, the window holds no number it  *)
(* has not reached, so a boot before leaves nothing in it, though          *)
(* heartbeats come late, out of order, twice, or across restarts           *)
(* (recordHeartbeat, lossRate).                                            *)
WindowIsOfOneBoot ==
  \A s \in Sensors : (sensors[s] # Unknown /\ sensors[s].boot = identity[s].boot)
    => \A q \in ToSet(sensors[s].seqs) : q <= identity[s].hb

(* The report on display lists no sensor the dispatcher has forgotten:     *)
(* forgetSensor reports at once, a restart takes the report with it.       *)
StatusListsKnown == \A s \in DOMAIN status : sensors[s] # Unknown

(* An answer says what became of the caller's own request: who is told    *)
(* "ok" had a sensor dropped, and who is told that it is alive or unknown, *)
(* or has not asked, had none; though requests whose callers gave up are   *)
(* still carried out, and answered, while others wait (ForgetSensor).  One *)
(* who gave up has been told nothing: the sensor may be dropped or not.    *)
AnswersAreTrue ==
  \A c \in Callers :
    /\ caller[c] = "ok" => c \in dropped
    /\ caller[c] \in {"idle", "asking", "alive", "unknown"} => c \notin dropped

(* What has been received is worked off, also when callers give up on      *)
(* their requests and when the socket is closed: the dispatcher never      *)
(* waits for anyone (run, ForgetSensor).                                   *)
ReceivedIsWorkedOff ==
  (work # <<>> \/ hand # Idle) ~> (work = <<>> /\ hand = Idle)

=============================================================================
