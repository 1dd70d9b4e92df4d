------------------------------- MODULE EventHub -------------------------------
(***************************************************************************)
(* The broker of server-sent events (internal/api/events.go) and the       *)
(* clients that follow it: a numbered history of bounded length, one       *)
(* bounded channel per subscription, replay after Last-Event-ID, and a     *)
(* snapshot_required marker when the replay would be incomplete.           *)
(*                                                                         *)
(* A client remembers the id of the last event it received and reconnects  *)
(* with it.  It rereads the authorized resources when it receives          *)
(* snapshot_required.  A restarted service is a broker of another epoch.   *)
(***************************************************************************)
EXTENDS Integers, Sequences, FiniteSets

CONSTANTS Clients, None,
          Kinds,             \* events, as far as clients may see them
          Allow,             \* Clients -> the kinds its credentials admit
          Capacity,          \* length of the history
          Buffer,            \* length of a subscription's channel
          MaxSubscriptions,
          MaxSeq, MaxEpoch   \* bounds: events published, service restarts

ASSUME SizeAssumption == Capacity \in Nat \ {0} /\ Buffer \in Nat \ {0}
ASSUME BoundAssumption == MaxSubscriptions \in Nat /\ MaxSeq \in Nat /\ MaxEpoch \in Nat
ASSUME AllowAssumption == Allow \in [Clients -> SUBSET Kinds]
ASSUME KindAssumption == "snapshot_required" \notin Kinds

Ids == [epoch : Nat, seq : Nat]
Events == [id : Ids, kind : Kinds \cup {"snapshot_required"}]
ASSUME NoneAssumption == None \notin Ids

VARIABLES epoch, seq, history, closed,  \* Events
          subs,      \* the clients with a subscription in Events.subs
          channel,   \* subscription.events of each client
          stream,    \* a client's request: "off", "replay" or "live"
          replay,    \* the part of the history it has still to go through
          since,     \* the number after which that part is due
          last,      \* the client's Last-Event-ID
          log,       \* every kind published in this epoch, by number
          known      \* numbers of this epoch the client received or reread

broker == <<epoch, seq, history, closed, log>>
vars == <<epoch, seq, history, closed, subs, channel, stream, replay, since, last, log, known>>
-----------------------------------------------------------------------------
Init ==
  /\ epoch = 0 /\ seq = 0 /\ history = <<>> /\ closed = FALSE /\ log = <<>>
  /\ subs = {}
  /\ channel = [c \in Clients |-> <<>>]
  /\ stream = [c \in Clients |-> "off"]
  /\ replay = [c \in Clients |-> <<>>]
  /\ since = [c \in Clients |-> 0]
  /\ last = [c \in Clients |-> None]
  /\ known = [c \in Clients |-> {}]

Allowed(c, e) == e.kind = "snapshot_required" \/ e.kind \in Allow[c]
Numbered(n, k) == [id |-> [epoch |-> epoch, seq |-> n], kind |-> k]

(* The ring: the oldest event makes room.                                  *)
Kept(e) == IF Len(history) = Capacity THEN Append(Tail(history), e) ELSE Append(history, e)

(* A subscription whose channel is full is removed, never waited for.      *)
Readers(e) == {c \in subs : Allowed(c, e)}
LaggingKept(e) == {}
Lagging(e) == {c \in Readers(e) : Len(channel[c]) >= Buffer}

Publish(k) ==
  LET e == Numbered(seq + 1, k)
  IN /\ ~closed /\ seq < MaxSeq
     /\ seq' = seq + 1 /\ log' = Append(log, k)
     /\ history' = Kept(e)
     /\ channel' = [c \in Clients |->
          IF c \in Readers(e) /\ Len(channel[c]) < Buffer THEN Append(channel[c], e) ELSE channel[c]]
     /\ subs' = subs \ Lagging(e)
     /\ UNCHANGED <<epoch, closed, stream, replay, since, last, known>>

(* Whether the history cannot continue a client's stream: an unknown id,   *)
(* another epoch's, a later one, or one older than the history reaches.    *)
GapLate(id) ==
  \/ id = None
  \/ id # None /\ (id.epoch # epoch \/ id.seq > seq)
  \/ id # None /\ Len(history) > 0 /\ id.seq + 1 < seq - Len(history)
Gap(id) ==
  \/ id = None
  \/ id # None /\ (id.epoch # epoch \/ id.seq > seq)
  \/ id # None /\ Len(history) > 0 /\ id.seq < seq - Len(history)

Subscribe(c) ==
  /\ stream[c] = "off" /\ ~closed /\ Cardinality(subs) < MaxSubscriptions
  /\ subs' = subs \cup {c}
  /\ channel' = [channel EXCEPT ![c] = <<>>]
  /\ stream' = [stream EXCEPT ![c] = "replay"]
  /\ \/ /\ Gap(last[c])
        /\ replay' = [replay EXCEPT ![c] = <<Numbered(seq, "snapshot_required")>>]
        /\ since' = [since EXCEPT ![c] = -1]
     \/ /\ ~Gap(last[c])
        /\ replay' = [replay EXCEPT ![c] = history]
        /\ since' = [since EXCEPT ![c] = last[c].seq]
  /\ UNCHANGED <<broker, last, known>>

Due(c, e) == e.id.seq > since[c] /\ Allowed(c, e)

(* The client gets an event; snapshot_required makes it reread everything. *)
Receives(c, e) ==
  /\ last' = [last EXCEPT ![c] = e.id]
  /\ known' = [known EXCEPT ![c] = @ \cup (IF e.kind = "snapshot_required"
                                           THEN 1 .. e.id.seq ELSE {e.id.seq})]

(* Writing looks at done first: a removed subscription writes no more.     *)
WriteReplay(c) ==
  /\ stream[c] = "replay" /\ c \in subs
  /\ \E i \in DOMAIN replay[c] :
       /\ Due(c, replay[c][i]) /\ \A j \in 1 .. i - 1 : ~Due(c, replay[c][j])
       /\ Receives(c, replay[c][i])
       /\ replay' = [replay EXCEPT ![c] = SubSeq(@, i + 1, Len(@))]
  /\ UNCHANGED <<broker, subs, channel, stream, since>>

ReplayDone(c) ==
  /\ stream[c] = "replay"
  /\ \A i \in DOMAIN replay[c] : ~Due(c, replay[c][i])
  /\ stream' = [stream EXCEPT ![c] = "live"]
  /\ replay' = [replay EXCEPT ![c] = <<>>]
  /\ since' = [since EXCEPT ![c] = 0]
  /\ UNCHANGED <<broker, subs, channel, last, known>>

WriteLive(c) ==
  /\ stream[c] = "live" /\ c \in subs /\ channel[c] # <<>>
  /\ Receives(c, Head(channel[c]))
  /\ channel' = [channel EXCEPT ![c] = Tail(@)]
  /\ UNCHANGED <<broker, subs, stream, replay, since>>

(* The stream ends: the client goes away, a write misses its deadline, or  *)
(* the subscription was removed.  Its deferred Close frees the slot.       *)
EndStream(c) ==
  /\ stream[c] # "off"
  /\ subs' = subs \ {c}
  /\ stream' = [stream EXCEPT ![c] = "off"]
  /\ channel' = [channel EXCEPT ![c] = <<>>]
  /\ replay' = [replay EXCEPT ![c] = <<>>]
  /\ since' = [since EXCEPT ![c] = 0]
  /\ UNCHANGED <<broker, last, known>>

(* A client that lost its id starts over.                                  *)
Forget(c) ==
  /\ stream[c] = "off" /\ last[c] # None
  /\ last' = [last EXCEPT ![c] = None]
  /\ UNCHANGED <<broker, subs, channel, stream, replay, since, known>>

Close ==
  /\ ~closed /\ closed' = TRUE /\ subs' = {}
  /\ UNCHANGED <<epoch, seq, history, log, channel, stream, replay, since, last, known>>

(* The service is started again, after a shutdown or a crash.              *)
Restart ==
  /\ epoch < MaxEpoch
  /\ epoch' = epoch + 1 /\ seq' = 0 /\ history' = <<>> /\ closed' = FALSE /\ log' = <<>>
  /\ subs' = {}
  /\ stream' = [c \in Clients |-> "off"]
  /\ channel' = [c \in Clients |-> <<>>]
  /\ replay' = [c \in Clients |-> <<>>]
  /\ since' = [c \in Clients |-> 0]
  /\ known' = [c \in Clients |-> {}]
  /\ UNCHANGED last

Next == \/ \E k \in Kinds : Publish(k)
        \/ \E c \in Clients : \/ Subscribe(c) \/ WriteReplay(c) \/ ReplayDone(c)
                              \/ WriteLive(c) \/ EndStream(c) \/ Forget(c)
        \/ Close \/ Restart

Spec == Init /\ [][Next]_vars

(* A stream with something to write writes it or ends: every write has a   *)
(* deadline of five seconds.                                               *)
FairSpec == /\ Spec
            /\ \A c \in Clients : WF_vars(WriteReplay(c) \/ ReplayDone(c) \/ WriteLive(c))
-----------------------------------------------------------------------------
(* Type invariant.                                                         *)
TypeOK ==
  /\ epoch \in Nat /\ seq \in Nat /\ closed \in BOOLEAN
  /\ history \in Seq(Events) /\ log \in Seq(Kinds) /\ Len(history) =< Capacity
  /\ subs \subseteq Clients
  /\ channel \in [Clients -> Seq(Events)] /\ replay \in [Clients -> Seq(Events)]
  /\ stream \in [Clients -> {"off", "replay", "live"}]
  /\ since \in [Clients -> Int] /\ last \in [Clients -> Ids \cup {None}]
  /\ known \in [Clients -> SUBSET Nat]

(* A client never skips an event unknowingly: it has received, or reread   *)
(* the resources after, every event it may see up to its Last-Event-ID,    *)
(* through overflows, disconnects, reconnects and events that arrive while *)
(* it is replaying (Subscribe's gap condition and the removal of full      *)
(* subscriptions).                                                         *)
NothingSkipped == \A c \in Clients : (last[c] # None /\ last[c].epoch = epoch) =>
  \A n \in 1 .. last[c].seq : (log[n] \in Allow[c]) => n \in known[c]

(* Within an epoch the ids a client receives only grow, so that reconnect  *)
(* with the last one neither repeats nor reorders: replay comes before the *)
(* channel, and the channel holds only what was published after it.        *)
IdsAscend == [][\A c \in Clients :
  (/\ last[c] # None /\ last'[c] # None /\ last'[c] # last[c]
   /\ last'[c].epoch = last[c].epoch) => last'[c].seq >= last[c].seq]_vars

(* A subscriber gets every event it may see, or its stream ends: no event  *)
(* stays in a channel for good (VisitGetEventsResponse).                   *)
Delivered == \A c \in Clients : \A n \in 1 .. MaxSeq :
  (c \in subs /\ seq = n /\ log[n] \in Allow[c]) ~> (n \in known[c] \/ c \notin subs)
=============================================================================
