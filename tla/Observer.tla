------------------------------ MODULE Observer ------------------------------
(***************************************************************************)
(* The observer of one player (internal/heos): a snapshot that a complete  *)
(* read of the device begins and contiguous events maintain, the targeted  *)
(* reads that repair parts of it, and the loop that renews it.             *)
(*                                                                         *)
(* Events reach the client in wire order; the owner of the connection      *)
(* stamps them with the revision token and queues them (module Transport). *)
(* The consumer that calls Notify lags behind, and the reads, which see    *)
(* the token at once, overtake it.  Reads exclude each other by the gate.  *)
(***************************************************************************)
EXTENDS Integers, Sequences, FiniteSets

LOCAL INSTANCE SequencesExt

CONSTANTS None,
          Changes,      \* fields the device's users change in the instance
          Commands,     \* kinds of command written: volume, mode, other
          Fronts,       \* observer calls of the coordinator in the instance
          Buffer,       \* capacity of the event channel
          MaxStirs      \* bound: changes, commands, samples, faults, agings

Scalars == {"volume", "repeat", "shuffle"}
Valued == Scalars \cup {"state"}             \* events that carry the value
Fields == Valued \cup {"media", "queue"}
FrontCalls == {"refresh", "reconcile", "playback", "scalars", "confirm"}

ASSUME InstanceAssumption == Changes \subseteq Fields \cup {"global", "silent"}
                             /\ Commands \subseteq {"volume", "mode", "other"}
                             /\ Fronts \subseteq FrontCalls
ASSUME BoundAssumption == Buffer \in Nat \ {0} /\ MaxStirs \in Nat

VARIABLES
  connected, token,    \* Client.PlayerView of the player
  observed,            \* the client keeps a revision of the player
  written,             \* Client.writes: the last command's kind and targets
  wire, channel,       \* frames on the connection, events for Notify
  samples,             \* Client.progressSequence
  last,                \* Observer.last
  invalid, mediaPending, writePending, progressAfter,
  age,                 \* of last: young, due for an audit, beyond the ttl
  wake, pending, recovering,  \* Observer.wake, Run's locals
  reader,              \* the read that holds the gate
  device, effect,      \* the device, and a command it has yet to carry out
  heard,               \* what the frames handled so far have said
  awaiting,            \* fields of the last command not heard of since
  stirs

client == <<connected, token, observed, written, wire, channel, samples>>
marks == <<last, invalid, mediaPending, writePending, progressAfter, age>>
loop == <<wake, pending, recovering>>
world == <<device, effect, heard, awaiting>>
vars == <<client, marks, loop, reader, world, stirs>>
-----------------------------------------------------------------------------
(* Media and queue are numbered in the order they occur; the rest is on or *)
(* off: volume with mute, repeat, shuffle, and playing or stopped.         *)
Active(v) == v["state"] = 1

(* The catalogue revision never changes without the shared one.            *)
sameGlobal(a, b) == a.gen = b.gen /\ a.rev = b.rev
coveredEvent(e, s) ==
  \/ e.gen < s.gen
  \/ e.gen = s.gen /\ e.rev < s.rev
  \/ sameGlobal(e, s) /\ e.player =< s.player /\ e.write =< s.write

(* Snapshot's Stale and Verified.                                          *)
Stale == \/ invalid \/ mediaPending \/ writePending # {} \/ ~connected
         \/ token # last.token \/ age = "old"
Verified == ~Stale /\ last.known

projectionBaselineValid == ~invalid /\ age # "old" /\ last.known
scalarBaselineValid == ~mediaPending /\ projectionBaselineValid

(* waitForConsumer goes on waiting.                                        *)
lagging == /\ ~invalid /\ connected /\ sameGlobal(token, last.token) /\ age # "old"
           /\ token # last.token \/ writePending # {}

Init ==
  /\ connected = FALSE /\ observed = FALSE /\ written = None
  /\ token = [gen |-> 0, rev |-> 0, player |-> 0, write |-> 0]
  /\ wire = <<>> /\ channel = <<>> /\ samples = 0
  /\ last = [known |-> FALSE, val |-> [f \in Fields |-> 0], token |-> token,
             mediaStale |-> FALSE, playhead |-> None]
  /\ invalid = TRUE /\ mediaPending = FALSE /\ writePending = {} /\ progressAfter = 0
  /\ age = "old" /\ wake = FALSE /\ pending = FALSE /\ recovering = FALSE
  /\ reader = None
  /\ device = [f \in Fields |-> IF f = "state" THEN 1 ELSE 0]
  /\ effect = None /\ heard = device /\ awaiting = {} /\ stirs = 0
-----------------------------------------------------------------------------
(* The device and its users.                                               *)

Stir == stirs < MaxStirs /\ stirs' = stirs + 1
Changed(f) == [device EXCEPT ![f] = IF f \in Valued THEN 1 - @ ELSE @ + 1]
Notice(f, v) == [type |-> "event", field |-> f, val |-> [g \in {f} \cap Fields |-> v]]
Told(f, v) == IF connected THEN <<Notice(f, v)>> ELSE <<>>

(* Somebody changes a field and the device says so.                        *)
DeviceChanges(f) ==
  /\ Stir /\ f \in Changes \cap Fields
  /\ device' = Changed(f)
  /\ wire' = wire \o Told(f, device'[f])
  /\ UNCHANGED <<connected, token, observed, written, channel, samples, marks, loop, reader,
                 effect, heard, awaiting>>

(* Media moves on; the notification follows later.                         *)
MediaMovesOn ==
  /\ Stir /\ "silent" \in Changes /\ device' = Changed("media")
  /\ UNCHANGED <<client, marks, loop, reader, effect, heard, awaiting>>
MediaTold ==
  /\ Stir /\ "silent" \in Changes /\ connected
  /\ wire' = Append(wire, Notice("media", device["media"]))
  /\ UNCHANGED <<connected, token, observed, written, channel, samples, marks, loop, reader, world>>

(* Players or groups changed.                                              *)
GlobalChange ==
  /\ Stir /\ "global" \in Changes /\ connected
  /\ wire' = Append(wire, Notice("global", 0))
  /\ UNCHANGED <<connected, token, observed, written, channel, samples, marks, loop, reader, world>>

Sample ==
  /\ Stir /\ "media" \in Changes /\ connected /\ Active(device)
  /\ wire' = Append(wire, [type |-> "progress", field |-> "media",
                          val |-> [g \in {"media"} |-> device["media"]]])
  /\ UNCHANGED <<connected, token, observed, written, channel, samples, marks, loop, reader, world>>

(* A guarded command: one at a time, after the last one was confirmed or a *)
(* read has shown its fields.  It is stamped when it is sent.              *)
Targets(k) == CASE k = "volume" -> [{"volume"} -> {0, 1}]
                [] k = "mode" -> [{"repeat", "shuffle"} -> {0, 1}]
                [] OTHER -> [{"state"} -> {0, 1}]
Command(k, m) ==
  /\ Stir /\ connected /\ observed /\ last.known /\ awaiting = {} /\ effect = None
  /\ ~(reader # None /\ reader.asked = "yes")
  /\ written' = [kind |-> k, to |-> m] /\ effect' = m
  /\ token' = [token EXCEPT !.write = @ + 1]
  /\ awaiting' = IF k = "other" THEN {"queue"} ELSE {f \in DOMAIN m : heard[f] # m[f]}
  /\ UNCHANGED <<connected, observed, wire, channel, samples, marks, loop, reader, device, heard>>

(* The device carries a command out, at its leisure, or never does.        *)
CarryOut ==
  LET differs == {f \in DOMAIN effect : device[f] # effect[f]} IN
  /\ effect # None /\ effect' = None
  /\ \/ UNCHANGED <<device, wire>>
     \/ /\ device' = [f \in Fields |-> IF f \in differs THEN effect[f] ELSE device[f]]
        /\ \E s \in SetToSeqs(differs) :
             wire' = IF connected THEN wire \o [i \in DOMAIN s |-> Notice(s[i], effect[s[i]])]
                     ELSE wire
  /\ UNCHANGED <<connected, token, observed, written, channel, samples, marks, loop, reader,
                 heard, awaiting, stirs>>
-----------------------------------------------------------------------------
(* The client: what the owner does with the frames of the connection.      *)

Gap == [kind |-> "gap", field |-> "global", val |-> <<>>, token |-> token, seq |-> 0]

(* Client.publish after the token reached t: a full channel becomes a gap. *)
publish(t, e) ==
  IF Len(channel) < Buffer
  THEN /\ channel' = Append(channel, e) /\ token' = t
  ELSE /\ token' = [t EXCEPT !.rev = @ + 1]
       /\ channel' = <<[Gap EXCEPT !.token = token']>>

(* Client.event for a control event.                                       *)
HandleEvent ==
  LET n == Head(wire)
      t == IF n.field = "global" THEN [token EXCEPT !.rev = @ + 1]
           ELSE IF observed THEN [token EXCEPT !.player = @ + 1] ELSE token
  IN /\ wire # <<>> /\ n.type = "event" /\ wire' = Tail(wire)
     /\ publish(t, [kind |-> "event", field |-> n.field, val |-> n.val, token |-> t, seq |-> 0])
     /\ heard' = [f \in Fields |-> IF f \in DOMAIN n.val THEN n.val[f] ELSE heard[f]]
     /\ awaiting' = awaiting \ {n.field}
     /\ UNCHANGED <<connected, observed, written, samples, marks, loop, reader, device, effect, stirs>>

(* Client.event for progress: numbered, and dropped when there is no room. *)
HandleProgress ==
  LET n == Head(wire) IN
  /\ wire # <<>> /\ n.type = "progress" /\ wire' = Tail(wire)
  /\ samples' = samples + 1
  /\ channel' = IF Len(channel) < Buffer
                THEN Append(channel, [kind |-> "progress", field |-> "media", val |-> n.val,
                                      token |-> token, seq |-> samples'])
                ELSE channel
  /\ UNCHANGED <<connected, token, observed, written, marks, loop, reader, world, stirs>>

(* Client.exchange returns the reply to the reader that waits for it.      *)
HandleReply ==
  LET n == Head(wire)
      told == DOMAIN n.val
  IN /\ wire # <<>> /\ n.type = "reply" /\ wire' = Tail(wire)
     /\ reader' = [reader EXCEPT !.asked = "no", !.todo = Tail(@),
                     !.token = IF n.field = "players" THEN token ELSE @,
                     !.snap.val = [f \in Fields |-> IF f \in told THEN n.val[f] ELSE @[f]]]
     /\ heard' = [f \in Fields |-> IF f \in told \ {"media"} THEN n.val[f] ELSE heard[f]]
     /\ awaiting' = awaiting \ told
     /\ UNCHANGED <<connected, token, observed, written, channel, samples, marks, loop, device,
                    effect, stirs>>

(* The connection fails: Client.drop, and the error of a read under way.   *)
Drop ==
  /\ Stir /\ connected /\ connected' = FALSE /\ wire' = <<>>
  /\ LET t == [token EXCEPT !.rev = @ + 1] IN
       publish(t, [Gap EXCEPT !.token = t])
  /\ reader' = IF reader # None /\ reader.asked = "yes" THEN [reader EXCEPT !.asked = "lost"]
               ELSE reader
  /\ UNCHANGED <<observed, written, samples, marks, loop, world>>

(* The device refuses a read, or the reader cannot use its reply: the      *)
(* connection stays.                                                       *)
Refused ==
  /\ Stir /\ wire # <<>> /\ Head(wire).type = "reply" /\ wire' = Tail(wire)
  /\ reader' = [reader EXCEPT !.asked = "lost"]
  /\ UNCHANGED <<connected, token, observed, written, channel, samples, marks, loop, world>>
-----------------------------------------------------------------------------
(* Observer.Notify, called by the one consumer of the channel.             *)

changedWriteFieldsScalars ==
  CASE written.kind = "volume" -> {"volume"}
    [] written.kind = "mode" -> {f \in {"repeat", "shuffle"} : last.val[f] # written.to[f]}
    [] OTHER -> {}
changedWriteFields ==
  CASE written.kind = "volume" -> {"volume"}
    [] written.kind = "mode" -> {f \in {"repeat", "shuffle"} : last.val[f] # written.to[f]}
    [] OTHER -> {"other"}

(* Queue notifications and playback errors cannot be projected.            *)
ProjectableQueue(e) == TRUE
Projectable(e) == e.field # "queue"

applyObservedEvent(e) ==
  LET stopped == e.field = "state" /\ e.val["state"] = 0 IN
  [last EXCEPT !.val = [f \in Fields |-> IF f \in Valued \cap DOMAIN e.val THEN e.val[f] ELSE @[f]],
               !.mediaStale = @ \/ stopped \/ e.field = "media",
               !.playhead = IF stopped THEN None ELSE @,
               !.token = e.token]

progressRecordable(e) ==
  /\ e.seq > progressAfter
  /\ ~invalid /\ ~mediaPending /\ ~last.mediaStale /\ Active(last.val) /\ last.known
  /\ connected /\ age # "old"
  /\ sameGlobal(token, last.token) /\ token.player = last.token.player
  /\ sameGlobal(e.token, last.token) /\ e.token.player = last.token.player

(* A sample is bound to the media observed; was is the media it is of.     *)
NotifyProgress ==
  LET e == Head(channel) IN
  /\ channel # <<>> /\ e.kind = "progress" /\ channel' = Tail(channel)
  /\ IF progressRecordable(e)
     THEN /\ progressAfter' = e.seq
          /\ last' = [last EXCEPT !.playhead = [was |-> e.val["media"], bound |-> last.val["media"]]]
     ELSE UNCHANGED <<progressAfter, last>>
  /\ UNCHANGED <<connected, token, observed, written, wire, samples, invalid, mediaPending,
                 writePending, age, loop, reader, world, stirs>>

Continuous(e) ==
  /\ e.kind # "gap" /\ ~invalid /\ connected /\ sameGlobal(token, last.token)
  /\ sameGlobal(e.token, last.token) /\ e.token.player = last.token.player + 1
  /\ e.field # "global" /\ age # "old"

NotifyControl ==
  LET e == Head(channel)
      stamped == Continuous(e) /\ e.token.write # last.token.write
      \* the client keeps only the last command
      contiguous == /\ Continuous(e)
                    /\ stamped => e.token.write = last.token.write + 1 /\ token.write = e.token.write
      owed == IF stamped /\ contiguous THEN changedWriteFields ELSE writePending
  IN /\ channel # <<>> /\ e.kind # "progress" /\ channel' = Tail(channel)
     /\ IF e.kind # "gap" /\ coveredEvent(e.token, last.token)
        THEN UNCHANGED <<last, invalid, mediaPending, writePending, wake>>
        ELSE IF contiguous /\ Projectable(e)
        THEN /\ last' = applyObservedEvent(e)
             /\ writePending' = owed \ {e.field}
             /\ mediaPending' = (mediaPending \/ e.field = "media")
             /\ wake' = (wake \/ e.field = "media")
             /\ UNCHANGED invalid
        ELSE /\ invalid' = TRUE /\ wake' = TRUE /\ writePending' = owed
             /\ UNCHANGED <<last, mediaPending>>
     /\ UNCHANGED <<connected, token, observed, written, wire, samples, progressAfter, age,
                    pending, recovering, reader, world, stirs>>
-----------------------------------------------------------------------------
(* Reads, under the gate.  A read asks for its parts one at a time and     *)
(* checks the token of each reply; "identify" stands for observePlayer.    *)

Parts(kind) ==
  CASE kind = "full" -> <<"players", "identify", "controls", "queue">>
    [] kind = "media" -> <<"media">>
    [] kind = "playback" -> <<"state", "media">>
    [] OTHER -> <<kind>>                     \* volume with mute, mode
Answers(part) == CASE part = "players" -> {}
                   [] part = "controls" -> Valued \cup {"media"}
                   [] part = "mode" -> {"repeat", "shuffle"}
                   [] OTHER -> {part}

(* The read starts from a copy of last, s.Token being t.                   *)
Begin(by, kind, t) ==
  reader' = [by |-> by, kind |-> kind, token |-> t, snap |-> last, todo |-> Parts(kind),
             asked |-> "no"]

(* Run's schedule, for a refresh that ended.                               *)
schedule(failed) == pending' = FALSE /\ recovering' = failed

(* What follows a read that ended: the loop schedules; a failed Refresh    *)
(* asks for another one.                                                   *)
ReturnQuietly(by, failed) ==
  IF by = "loop" THEN schedule(failed) /\ UNCHANGED wake ELSE UNCHANGED loop
Return(by, failed) ==
  CASE by = "loop" -> schedule(failed) /\ UNCHANGED wake
    [] by = "refresh" -> wake' = (wake \/ failed) /\ UNCHANGED <<pending, recovering>>
    [] OTHER -> UNCHANGED loop

(* Observer.refresh, once it holds the gate.                               *)
refresh(by, force) ==
  /\ IF ~force /\ ~Stale /\ age = "young"
     THEN Return(by, FALSE) /\ UNCHANGED <<invalid, reader>>
     ELSE IF ~force /\ lagging
     THEN Return(by, TRUE) /\ UNCHANGED <<invalid, reader>>
     ELSE IF /\ ~force /\ mediaPending /\ ~invalid
             /\ connected /\ token = last.token /\ age = "young"
     THEN Begin(by, "media", last.token) /\ UNCHANGED <<invalid, loop>>
     ELSE invalid' = TRUE /\ Begin(by, "full", None) /\ UNCHANGED loop
  /\ UNCHANGED <<client, last, mediaPending, writePending, progressAfter, age, world>>

(* The next part is sent; without a connection the client dials first.  A  *)
(* drop after the last check is seen by the check of the next reply.       *)
TokenHeld == reader.token = None \/ token = reader.token
Ask ==
  /\ reader # None /\ reader.asked = "no" /\ reader.todo # <<>>
  /\ Head(reader.todo) # "identify" /\ (TokenHeld \/ ~connected)
  /\ connected' = TRUE
  /\ token' = IF connected THEN token ELSE [token EXCEPT !.gen = @ + 1, !.rev = @ + 1]
  /\ wire' = LET part == Head(reader.todo) IN
             Append(wire, [type |-> "reply", field |-> part,
                           val |-> [f \in Answers(part) |-> device[f]]])
  /\ reader' = [reader EXCEPT !.asked = "yes"]
  /\ UNCHANGED <<observed, written, channel, samples, marks, loop, world, stirs>>

(* The client is offline, or the read is cancelled before it is sent.      *)
Unsent ==
  /\ Stir /\ reader # None /\ reader.asked = "no" /\ reader.todo # <<>>
  /\ reader' = [reader EXCEPT !.asked = "lost"]
  /\ UNCHANGED <<client, marks, loop, world>>

(* Client.observePlayer: the token of the snapshot under way.              *)
Identified == connected /\ sameGlobal(token, reader.token)
Identify ==
  /\ reader # None /\ reader.asked = "no" /\ reader.todo # <<>>
  /\ Head(reader.todo) = "identify" /\ Identified
  /\ observed' = TRUE
  /\ reader' = [reader EXCEPT !.token = token, !.todo = Tail(@)]
  /\ UNCHANGED <<connected, token, written, wire, channel, samples, marks, loop, world, stirs>>

(* playheadForMedia for the values v: the sample kept, and progressAfter.  *)
SameMedia(v) == last.known /\ last.val["media"] = v["media"] /\ Active(last.val) /\ Active(v)
KeptPlayhead(v) == IF /\ SameMedia(v) /\ last.playhead # None
                      /\ last.playhead.bound = v["media"] THEN last.playhead ELSE None
FenceNothing(v) == progressAfter
Fence(v) == IF SameMedia(v) THEN progressAfter ELSE samples

(* The checks under the observer's lock before a read is published.        *)
Publishable(r) ==
  /\ connected /\ token = r.token
  /\ CASE r.kind = "full" -> TRUE
       [] r.kind = "media" -> ~invalid /\ last.token = r.token
       [] r.kind = "playback" -> projectionBaselineValid /\ writePending = {} /\ last.token = r.token
       [] OTHER -> scalarBaselineValid /\ last.token = r.snap.token

Publish ==
  LET r == reader
      v == r.snap.val
  IN /\ r # None /\ r.asked = "no" /\ r.todo = <<>> /\ Publishable(r)
     /\ last' = [r.snap EXCEPT !.known = TRUE, !.token = r.token, !.playhead = KeptPlayhead(v),
                   !.mediaStale = IF r.kind \in Scalars \cup {"mode"} THEN @ ELSE ~Active(v)]
     /\ progressAfter' = IF r.kind = "full" THEN samples ELSE Fence(v)
     /\ invalid' = (invalid /\ r.kind # "full")
     /\ mediaPending' = (mediaPending /\ r.kind \notin {"full", "media", "playback"})
     /\ writePending' = CASE r.kind = "full" -> {}
                          [] r.kind \in {"volume", "mode"} -> writePending \ Answers(r.kind)
                          [] OTHER -> writePending
     /\ age' = IF r.kind = "full" THEN "young" ELSE age
     /\ Return(r.by, FALSE) /\ reader' = None
     /\ UNCHANGED <<client, world, stirs>>

(* A read that was lost, or whose token no longer holds.                   *)
Fail ==
  LET r == reader IN
  /\ r # None
  /\ \/ r.asked = "lost"
     \/ r.asked = "no" /\ (CASE r.todo = <<>> -> ~Publishable(r)
                             [] Head(r.todo) = "identify" -> ~Identified
                             [] OTHER -> ~TokenHeld)
  /\ invalid' = (invalid \/ r.kind = "media")
  /\ Return(r.by, TRUE) /\ reader' = None
  /\ UNCHANGED <<client, last, mediaPending, writePending, progressAfter, age, world, stirs>>
-----------------------------------------------------------------------------
(* Observer.Run.                                                           *)

InRun == ~(reader # None /\ reader.by = "loop")
Due == pending \/ recovering \/ age # "young"

LoopWakes ==
  /\ wake /\ InRun /\ wake' = FALSE
  /\ pending' = (pending \/ (~recovering /\ Stale))
  /\ UNCHANGED <<client, marks, recovering, reader, world, stirs>>

(* The refresh timer: debounce, retry or the audit, and at startup.        *)
LoopFires ==
  /\ reader = None /\ Due
  /\ refresh("loop", ~pending)
  /\ UNCHANGED stirs

(* Another read holds the gate for as long as this one may wait.           *)
LoopGivesUp ==
  /\ Stir /\ reader # None /\ reader.by # "loop" /\ Due
  /\ schedule(TRUE)
  /\ UNCHANGED <<client, marks, wake, reader, world>>

HeartbeatFails ==
  /\ Stir /\ InRun /\ ~recovering /\ last.known
  /\ invalid' = TRUE /\ schedule(TRUE)
  /\ UNCHANGED <<client, last, mediaPending, writePending, progressAfter, age, wake, reader, world>>

(* Time passes: the audit falls due, then the ttl ends.                    *)
Ages ==
  /\ Stir /\ age # "old" /\ age' = IF age = "young" THEN "due" ELSE "old"
  /\ UNCHANGED <<client, last, invalid, mediaPending, writePending, progressAfter, loop, reader, world>>
-----------------------------------------------------------------------------
(* The coordinator's calls.  One that its first checks refuse changes      *)
(* nothing; one that waits for the consumer starts when it has caught up.  *)

Refresh == /\ Stir /\ "refresh" \in Fronts /\ reader = None
           /\ refresh("refresh", TRUE)

Reconcile == /\ Stir /\ "reconcile" \in Fronts /\ reader = None /\ ~lagging
             /\ refresh("reconcile", FALSE)

RefreshPlayback ==
  /\ Stir /\ "playback" \in Fronts /\ reader = None /\ ~lagging
  /\ IF age # "young" THEN refresh("playback", FALSE)
     ELSE /\ projectionBaselineValid /\ writePending = {} /\ connected /\ token = last.token
          /\ Begin("playback", "playback", last.token)
          /\ UNCHANGED <<client, marks, loop, world>>

RefreshScalars(k) ==
  /\ Stir /\ "scalars" \in Fronts /\ reader = None
  /\ scalarBaselineValid /\ connected /\ sameGlobal(token, last.token)
  /\ token.player = last.token.player /\ token.write - last.token.write \in {0, 1}
  /\ writePending \subseteq Answers(k)
  /\ token.write # last.token.write => written.kind = k
  /\ Begin("scalars", k, token)
  /\ UNCHANGED <<client, marks, loop, world>>

(* The caller has the command's reply and events, and no event that it     *)
(* must still reconcile (control/scalar_confirmation.go:146-151).          *)
Confirmed ==
  /\ written # None /\ written.kind \in {"volume", "mode"} /\ awaiting = {}
  /\ \A f \in DOMAIN written.to : heard[f] = written.to[f]
  /\ \A i \in DOMAIN channel :
       \/ channel[i].kind = "progress" \/ channel[i].field \in Scalars
       \/ channel[i].kind = "event" /\ coveredEvent(channel[i].token, last.token)
ConfirmScalars ==
  /\ Stir /\ "confirm" \in Fronts /\ Confirmed
  /\ scalarBaselineValid /\ connected /\ sameGlobal(token, last.token) /\ "other" \notin writePending
  /\ last' = [last EXCEPT !.val = [f \in Fields |-> IF f \in Scalars THEN heard[f] ELSE @[f]],
                          !.token = token]
  /\ writePending' = {}
  /\ UNCHANGED <<client, invalid, mediaPending, progressAfter, age, loop, reader, world>>
-----------------------------------------------------------------------------
Users == \/ \E f \in Fields : DeviceChanges(f)
         \/ MediaMovesOn \/ MediaTold \/ GlobalChange \/ Sample
         \/ \E k \in Commands : \E m \in Targets(k) : Command(k, m)
         \/ CarryOut
Owner == HandleEvent \/ HandleProgress \/ HandleReply
Consumer == NotifyProgress \/ NotifyControl
Read == Ask \/ Identify \/ Publish \/ Fail
Faults == Drop \/ Refused \/ Unsent \/ LoopGivesUp \/ HeartbeatFails \/ Ages
Calls == \/ Refresh \/ Reconcile \/ RefreshPlayback \/ ConfirmScalars
         \/ \E k \in {"volume", "mode"} : RefreshScalars(k)
Next == Users \/ Owner \/ Consumer \/ Read \/ LoopWakes \/ LoopFires \/ Faults \/ Calls
Spec == Init /\ [][Next]_vars
-----------------------------------------------------------------------------
(* A verified snapshot carries what the client has last heard of every     *)
(* field, and media no older than the last it was told of.                 *)
VerifiedCurrent ==
  Verified => /\ \A f \in Valued \cup {"queue"} : last.val[f] = heard[f]
              /\ last.val["media"] >= heard["media"]

(* A snapshot is not verified on the values from before a command: every   *)
(* field the command was to change has been told or read since.            *)
WriteSettled == Verified => awaiting = {}

(* A sample of earlier media is never shown for the media observed.        *)
PlayheadNotOlder ==
  last.playhead # None => last.playhead.was >= last.val["media"] \/ last.playhead.bound # last.val["media"]

(* Lost history and unread media are attended to without waiting for the   *)
(* audit: the loop is awake, due or reading, or an event that will wake it *)
(* is on its way.  No wake-up is lost, whichever read failed.              *)
Attended ==
  invalid \/ mediaPending =>
    \/ wake \/ Due
    \/ reader # None /\ reader.by \in {"loop", "refresh"}
    \/ \E i \in DOMAIN channel :
         \/ channel[i].kind = "gap"
         \/ channel[i].kind = "event" /\ ~coveredEvent(channel[i].token, last.token)
=============================================================================
