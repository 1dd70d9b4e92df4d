------------------------------ MODULE Execution ------------------------------
(***************************************************************************)
(* One worker of internal/control carrying out an admitted operation on    *)
(* one player: observe, check ownership, journal, send, attribute events,  *)
(* confirm, and finish with an honest outcome.                             *)
(*                                                                         *)
(* The player is external.  It acknowledges a command and carries out its  *)
(* effects one by one, or not at all; other controllers change it too.     *)
(* Every change is a frame of one first-in first-out stream (wire).  The   *)
(* connection applies a frame to its view (seen, token) and calls the      *)
(* worker's event handler in the same step.  A read ends with the player   *)
(* as it is after some of the frames still on the way: an answer may       *)
(* overtake notifications.  Deadlines may pass at any moment.              *)
(***************************************************************************)
EXTENDS Integers, Sequences, FiniteSets, Functions, QueuePolicy

CONSTANTS
  Programs,     \* operations: the states they start from, their steps, and whether
                \* the queue is bounded (owned), ordered (parts) and buffered;
                \* disturbed bounds the disturbances that one run of it meets
  Players,      \* initial views of the player
  MaxForeign,   \* changes other controllers make
  MaxNatural,   \* track changes the player makes by itself
  MaxNoise,     \* repeated or transitional notifications of the player
  MaxWire,      \* frames on the way at once
  Retain        \* RetainPrevious of a buffered queue

ASSUME ExecutionAssumption ==
  /\ {MaxForeign, MaxNatural, MaxNoise, MaxWire, Retain} \subseteq Nat
  /\ \A p \in Programs : p.disturbed \in Nat

VARIABLES
  device, effect, wire, ahead, budget, prompt, \* the player and its stream; ahead: frames
                                               \* on the way that a read has shown already
  seen, token,                                 \* the connection's view
  program, step, pc, how, snap, guard, tries, waited,  \* the worker
  expected, etoken, requeue, events, keep, phase, scalar, \* the execution record; requeue: a queue
                                               \* event is newer than its observation
  inflight, uncertain, unconfirmed, revoked, owned, automating, waiting,
  hint, midhint, confirmed, outcome

world == <<device, effect, wire, ahead, budget, prompt, seen, token>>
worker == <<program, step, pc, how, snap, guard, tries, waited>>
belief == <<expected, etoken, requeue, events, keep, phase, scalar, waiting, hint, midhint>>
flags == <<inflight, uncertain, unconfirmed, revoked, owned, automating, confirmed, outcome>>
vars == <<world, worker, belief, flags>>

Token0 == [gen |-> 0, player |-> 0, write |-> 0]
NoScalar == [m |-> Mutation, volume |-> 0, muted |-> FALSE, repeat |-> 0, shuffle |-> 0,
             volumeSeen |-> FALSE, repeatSeen |-> FALSE, shuffleSeen |-> FALSE]
Blank == [state |-> "stop", volume |-> 0, muted |-> FALSE, repeat |-> 0, shuffle |-> 0,
          media |-> NoMedia, queue |-> <<>>]
NoSnap == [view |-> Blank, token |-> Token0, requeue |-> FALSE]
Running == [state |-> "running", delivery |-> ""]

m == program.steps[step]
more == step <= Len(program.steps)
pending == hint \/ waiting
Reading == how \in {"full", "kept"}

(* The ids that the queue holds once the first n steps are done.           *)
Ordered[n \in 0..Len(program.steps)] ==
  IF n = 0 THEN <<>>
  ELSE LET s == program.steps[n] IN
       CASE s.kind = "queue" -> s.ids
         [] s.kind = "append" -> Ordered[n - 1] \o s.ids
         [] s.kind = "remove" -> SubSeq(Ordered[n - 1], s.n + 1, Len(Ordered[n - 1]))
         [] OTHER -> Ordered[n - 1]
ordered == Ordered[step]
members == {ordered[i] : i \in DOMAIN ordered}

Init ==
  /\ program \in Programs /\ device \in {v \in Players : v.state \in program.from}
  /\ prompt \in BOOLEAN
  /\ effect = [to |-> <<>>, kind |-> "none", accepted |-> FALSE]
  /\ wire = <<>> /\ ahead = 0
  /\ budget = [foreign |-> MaxForeign, natural |-> MaxNatural, noise |-> MaxNoise]
  /\ seen = device /\ token = Token0
  /\ step = 1 /\ pc = "admit" /\ how = "" /\ snap = NoSnap
  /\ guard = Token0 /\ tries = 0 /\ waited = FALSE
  /\ expected = device /\ etoken = Token0 /\ requeue = FALSE /\ events = {} /\ keep = FALSE /\ phase = "no"
  /\ scalar = NoScalar /\ waiting = FALSE /\ hint = FALSE /\ midhint = FALSE
  /\ inflight = FALSE /\ uncertain = FALSE /\ unconfirmed = FALSE /\ revoked = FALSE
  /\ owned = FALSE /\ automating = FALSE /\ confirmed = 0 /\ outcome = Running
-----------------------------------------------------------------------------
(* The player.                                                             *)

Number(ids) == [i \in DOMAIN ids |-> [id |-> ids[i], qid |-> i]]
IdsOf(q) == [i \in DOMAIN q |-> q[i].id]

Spend(b) ==
  /\ budget[b] > 0
  /\ budget.foreign + budget.natural + budget.noise
     > MaxForeign + MaxNatural + MaxNoise - program.disturbed
  /\ budget' = [budget EXCEPT ![b] = @ - 1]
Pending == DOMAIN effect.to
Emit(kind, v) ==
  /\ Len(wire) < MaxWire
  /\ device' = v /\ wire' = Append(wire, [kind |-> kind, view |-> v])

(* Where an acknowledged command takes the player from view v.              *)
Outcomes(s, v) ==
  CASE s.kind = "volume" -> {[v EXCEPT !.volume = s.level, !.muted = b] :
                             b \in {FALSE, v.muted}}
    [] s.kind = "mute" -> {[v EXCEPT !.muted = s.muted]}
    [] s.kind = "mode" -> {[v EXCEPT !.repeat = s.repeat, !.shuffle = s.shuffle]}
    [] s.kind = "transport" ->
         {[v EXCEPT !.state = s.state, !.media = e] :
          e \in {v.media} \cup (IF s.state = "stop" THEN {NoMedia} ELSE {})}
    [] s.kind = "skip" -> {[v EXCEPT !.media = e, !.state = "play"] :
                           e \in Entries(v.queue) \ {v.media}}
    [] s.kind = "queue" -> {[v EXCEPT !.queue = Number(s.ids), !.state = "play",
                                      !.media = Number(s.ids)[1]]}
    [] s.kind = "append" ->
         {[v EXCEPT !.queue = @ \o [i \in DOMAIN s.ids |->
                      [id |-> s.ids[i], qid |-> Len(v.queue) + i]]]}
    [] s.kind = "remove" ->
         {[v EXCEPT !.queue = Number(SubSeq(IdsOf(@), s.n + 1, Len(@))),
                    !.media = IF queueIndex(v) > s.n THEN [@ EXCEPT !.qid = @ - s.n]
                              ELSE NoMedia]}

(* The player's last sign of a command is the change that was asked for.   *)
Closing(kind) ==
  CASE kind \in {"transport", "queue", "natural"} -> "state"
    [] kind \in {"skip", "remove"} -> "media"
    [] OTHER -> "none"
VolumeFields == {"volume", "muted"}
Kind(f) == IF f \in VolumeFields THEN "volume" ELSE f
Carried(v, fs) == [f \in Controls |-> IF f \in fs \cap Pending THEN effect.to[f] ELSE v[f]]

DeviceStep ==
  \E f \in Pending :
    LET fs == IF f \in VolumeFields THEN VolumeFields ELSE {f} IN
    /\ prompt => f # Closing(effect.kind) \/ Pending \subseteq fs
    /\ Emit(Kind(f), Carried(device, fs))
    /\ effect' = [effect EXCEPT !.to = Restrict(@, Pending \ fs)]
    /\ UNCHANGED <<ahead, budget, prompt, seen, token, worker, belief, flags>>

(* Loading repeats stop; a moving entry shows its new MID with the old     *)
(* QID, or stop and unknown on the way; a notification is repeated.        *)
DeviceNoise ==
  /\ Spend("noise")
  /\ \/ /\ effect.kind = "queue" /\ "state" \in Pending /\ device.state = "stop"
        /\ Emit("state", device)
     \/ /\ effect.kind \in {"skip", "natural"} /\ "state" \in Pending
        /\ \E s \in {"stop", "unknown"} : Emit("state", [device EXCEPT !.state = s])
     \/ /\ "media" \in Pending /\ effect.kind \in {"skip", "natural"}
        /\ Emit("none", [device EXCEPT !.media.id = effect.to.media.id])
     \/ \E f \in {"volume", "repeat", "shuffle"} :
          f \notin Pending /\ "muted" \notin Pending /\ Emit(f, device)
  /\ UNCHANGED <<effect, ahead, prompt, seen, token, worker, belief, flags>>

(* The next track begins.  In a queue that the worker does not own this is *)
(* a change like another controller's.                                     *)
NaturalTransition ==
  /\ Pending = {} /\ device.state = "play"
  /\ queueIndex(device) \in 1..(Len(device.queue) - 1)
  /\ Spend(IF automating THEN "natural" ELSE "foreign")
  /\ effect' = [kind |-> "natural", accepted |-> FALSE,
                to |-> [media |-> device.queue[queueIndex(device) + 1], state |-> "play"]]
  /\ UNCHANGED <<device, wire, ahead, prompt, seen, token, worker, belief, flags>>

Foreign ==
  /\ Spend("foreign")
  /\ \/ \E l \in {0, 1, 2} : l # device.volume /\ Emit("volume", [device EXCEPT !.volume = l])
     \/ \E s \in {"play", "pause", "stop"} :
          s # device.state /\ Emit("state", [device EXCEPT !.state = s])
     \/ Emit("repeat", [device EXCEPT !.repeat = 1 - @])
     \/ device.queue # <<>> /\ Emit("queue", [device EXCEPT !.queue = Tail(@)])
     \/ Emit("gap", device)
  /\ UNCHANGED <<effect, ahead, prompt, seen, token, worker, belief, flags>>
-----------------------------------------------------------------------------
(* Event attribution: what one frame does to the execution record.         *)

PlayStates == {"play", "pause", "stop", "unknown"}
Same(v, w, fs) == \A f \in fs : v[f] = w[f]
ModeField == [repeat |-> "repeatSeen", shuffle |-> "shuffleSeen"]

(* Mutant: the level of a volume event is not compared.                    *)
confirmedMuteOnly(v, w) == v.muted = w.muted

(* confirmedVolumeEvent compares a volume event with both scalar values.   *)
confirmedVolumeEvent(v, w) == Same(v, w, VolumeFields)

(* acceptScalarEvent: the new pending confirmation, or a refusal.          *)
acceptScalarEvent(kind, v) ==
  LET p == scalar
      asked == p.m.kind \in {"volume", "mute"}
      level == [expected EXCEPT !.volume = IF p.m.kind = "volume" THEN p.m.level ELSE @,
                                !.muted = IF p.m.kind = "mute" THEN p.m.muted ELSE @]
      match == \/ confirmedVolumeEvent(v, level)
               \/ /\ p.m.kind = "volume" /\ expected.muted
                  /\ confirmedVolumeEvent(v, [level EXCEPT !.muted = FALSE])
      R(ok, q) == [ok |-> ok, scalar |-> q]
  IN CASE kind = "volume" /\ ~asked -> R(confirmedVolumeEvent(v, expected), p)
       [] kind = "volume" /\ asked /\ ~match ->
            R(~p.volumeSeen /\ confirmedVolumeEvent(v, expected), p)
       [] kind = "volume" /\ asked /\ match ->
            IF p.volumeSeen /\ ~confirmedVolumeEvent(v, p) THEN R(FALSE, p)
            ELSE R(TRUE, [p EXCEPT !.volume = v.volume, !.muted = v.muted, !.volumeSeen = TRUE])
       [] kind # "volume" /\ p.m.kind # "mode" -> R(v[kind] = expected[kind], p)
       [] kind # "volume" /\ p.m.kind = "mode" /\ v[kind] # p.m[kind] ->
            R(~p[ModeField[kind]] /\ v[kind] = expected[kind], p)
       [] OTHER -> R(TRUE, [p EXCEPT ![kind] = v[kind], ![ModeField[kind]] = TRUE])

(* acceptExpectedEvent for a state, media or queue event.                  *)
Tag(kind, v) == IF kind = "state" THEN v.state ELSE kind
loadingStop(kind, v) == phase = "awaiting" /\ Tag(kind, v) = "stop"
(* Mutant: play leaves the other expectations of the start in place.       *)
ConsumeOnlyTag(kind, v) ==
  LET start == Tag(kind, v) = "play" /\ ~keep IN
  /\ events' = IF keep \/ kind = "media" \/ loadingStop(kind, v) THEN events
               ELSE events \ {Tag(kind, v)}
  /\ phase' = IF start /\ phase # "no" THEN "observed" ELSE phase
  /\ hint' = TRUE /\ midhint' = Reading
  /\ UNCHANGED <<scalar, waiting>>

ConsumeExpectation(kind, v) ==
  LET tag == Tag(kind, v)
      start == tag = "play" /\ ~keep
  IN /\ events' = IF keep \/ kind = "media" \/ loadingStop(kind, v) THEN events
                  ELSE IF start THEN events \ PlayStates ELSE events \ {tag}
     /\ phase' = IF start /\ phase # "no" THEN "observed" ELSE phase
     /\ hint' = (hint \/ ~loadingStop(kind, v))
     /\ midhint' = (midhint \/ (Reading /\ ~loadingStop(kind, v)))
     /\ UNCHANGED <<scalar, waiting>>

QueueEvent(kind, v) == decideQueueEvent(kind, v.state, owned, automating, expected.state, waiting)
acceptQueueEvent(kind, v) ==
  LET d == QueueEvent(kind, v) IN
  /\ waiting' = (waiting \/ d.action = "wait")
  /\ hint' = (hint \/ d.notify) /\ midhint' = (midhint \/ (Reading /\ d.notify))
  /\ UNCHANGED <<events, phase, scalar>>

(* event: an accepted frame moves the expected token; any other revokes    *)
(* ownership, and leaves a command in flight in doubt.                     *)
AcceptEvent(t) == etoken' = t /\ UNCHANGED <<uncertain, revoked>>
Revoke == /\ uncertain' = (uncertain \/ inflight) /\ revoked' = TRUE
          /\ UNCHANGED etoken
event(kind, v, t) ==
  LET continuous == kind # "gap" /\ t.gen = etoken.gen
      isScalar == kind \in {"volume", "repeat", "shuffle"}
      s == acceptScalarEvent(kind, v)
      queueEvent == kind \in {"state", "media"}
  IN IF ~continuous THEN Revoke /\ UNCHANGED <<events, phase, scalar, waiting, hint, midhint>>
     ELSE IF isScalar
     THEN /\ scalar' = s.scalar /\ (IF s.ok THEN AcceptEvent(t) ELSE Revoke)
          /\ UNCHANGED <<events, phase, waiting, hint, midhint>>
     ELSE IF Tag(kind, v) \in events THEN AcceptEvent(t) /\ ConsumeExpectation(kind, v)
     ELSE IF queueEvent
     THEN /\ acceptQueueEvent(kind, v)
          /\ IF QueueEvent(kind, v).action # "pass" THEN AcceptEvent(t) ELSE Revoke
     ELSE Revoke /\ UNCHANGED <<events, phase, scalar, waiting, hint, midhint>>

Listening == pc \notin {"admit", "done"}
Hear ==
  /\ wire # <<>>
  /\ LET f == Head(wire)
         t == CASE f.kind = "none" -> token
                [] f.kind = "gap" -> [token EXCEPT !.gen = @ + 1]
                [] OTHER -> [token EXCEPT !.player = @ + 1]
     IN /\ seen' = f.view /\ token' = t /\ wire' = Tail(wire)
        /\ requeue' = (requeue \/ f.kind = "queue")
        /\ snap' = [snap EXCEPT !.requeue = snap # NoSnap /\ (@ \/ f.kind = "queue")]
        /\ ahead' = IF ahead = 0 THEN 0 ELSE ahead - 1
        /\ IF Listening /\ f.kind # "none"
           THEN event(f.kind, f.view, t)
           ELSE UNCHANGED <<etoken, events, phase, scalar, waiting, hint, midhint, uncertain, revoked>>
  /\ UNCHANGED <<device, effect, budget, prompt, program, step, pc, how, guard, tries, waited,
                 expected, keep,
                 inflight, unconfirmed, owned, automating, confirmed, outcome>>
-----------------------------------------------------------------------------
(* Ends.                                                                   *)

(* The outcome that execute records for an error.                          *)
Failed(code, doubt) ==
  [state |-> IF doubt THEN "uncertain"
             ELSE IF code = "ownership" \/ revoked THEN "released" ELSE "failed",
   delivery |-> IF code = "rejected" THEN "rejected" ELSE IF doubt THEN "unknown" ELSE "not_sent"]
(* Mutant: the doubt of a command that was sent but not confirmed is lost. *)
FailsForgetful(code, unsure) ==
  /\ pc' = "done" /\ how' = "" /\ inflight' = FALSE
  /\ uncertain' = (uncertain \/ unsure)
  /\ outcome' = Failed(code, uncertain \/ unsure)
  /\ UNCHANGED <<world, program, step, snap, guard, tries, waited, belief, unconfirmed, revoked,
                 owned, automating, confirmed>>
Fails(code, unsure) ==
  /\ pc' = "done" /\ how' = "" /\ inflight' = FALSE
  /\ uncertain' = (uncertain \/ unsure)
  /\ outcome' = Failed(code, uncertain \/ unsure \/ unconfirmed)
  /\ UNCHANGED <<world, program, step, snap, guard, tries, waited, belief, unconfirmed, revoked,
                 owned, automating, confirmed>>

Goto(p, h) == pc' = p /\ how' = h
ToLoop == Goto("idle", "") /\ snap' = NoSnap /\ guard' = Token0 /\ waited' = FALSE
Keeps == UNCHANGED <<world, program, belief, flags>>

(* The run is registered with its lane, later than its first snapshot.     *)
Register ==
  /\ pc = "admit" /\ Goto("idle", "")
  /\ Keeps /\ UNCHANGED <<step, snap, guard, tries, waited>>

Succeed ==
  /\ pc = "idle" /\ ~more
  /\ Goto("done", "") /\ outcome' = [state |-> "succeeded", delivery |-> "confirmed"]
  /\ UNCHANGED <<world, program, step, snap, guard, tries, waited, belief, inflight, uncertain,
                 unconfirmed, revoked, owned, automating, confirmed>>

(* automate, or confirmPart with more parts to load.                       *)
Automate ==
  /\ pc = "idle" /\ owned /\ ~automating /\ more
  /\ automating' = TRUE
  /\ UNCHANGED <<world, worker, belief, inflight, uncertain, unconfirmed, revoked, owned,
                 confirmed, outcome>>
-----------------------------------------------------------------------------
(* Observing.  how: the kind of read in progress, then "decide", "checked".*)

(* prewriteObservation.  A confirmed chain may rely on events (reuse), or  *)
(* reconcile its media against the queue it holds (kept).                  *)
Reuse == confirmed > 0 /\ scalarMutation(m) /\ ~pending /\ token = etoken
Kept == /\ confirmed > 0
        /\ \/ scalarMutation(m) /\ ~pending /\ token # etoken
           \/ owned /\ pending
           \/ ~program.bounded
prewriteObservation ==
  /\ pc = "idle" /\ more /\ ~revoked /\ (owned => automating)
  /\ waited' = FALSE
  /\ \/ /\ Reuse /\ Goto("pre", "decide")
        /\ snap' = [view |-> expected, token |-> etoken, requeue |-> requeue] /\ UNCHANGED midhint
     \/ /\ Kept /\ Goto("pre", "kept") /\ midhint' = FALSE /\ UNCHANGED snap
     \/ /\ Goto("pre", "full") /\ midhint' = FALSE /\ UNCHANGED snap
  /\ UNCHANGED <<world, program, step, guard, tries, expected, etoken, requeue, events, keep, phase, scalar,
                 waiting, hint, flags>>

(* checkOwnership, from the automation and buffering loops.                *)
checkOwnership ==
  /\ pc = "idle" /\ more /\ ~revoked /\ owned /\ automating
  /\ Goto("check", "kept") /\ waited' = FALSE /\ midhint' = FALSE
  /\ UNCHANGED <<world, program, step, snap, guard, tries, expected, etoken, requeue, events, keep, phase,
                 scalar, waiting, hint, flags>>

(* A read ends with the player after k frames that are not yet heard; no   *)
(* read returns less than an earlier one.                                  *)
Reads == IF prompt THEN {0} ELSE ahead..Len(wire)
Ahead(k) == IF k = 0 THEN seen ELSE wire[k].view
ReadEnd ==
  /\ Reading /\ ~revoked
  /\ \E k \in Reads :
       /\ ahead' = k
       /\ snap' = IF how = "full" \/ (program.bounded /\ requeue)
                  THEN [view |-> Ahead(k), token |-> token, requeue |-> FALSE]
                  ELSE [view |-> [Ahead(k) EXCEPT !.queue = expected.queue], token |-> token,
                        requeue |-> requeue]
  /\ how' = "decide" /\ hint' = midhint /\ midhint' = FALSE
  /\ UNCHANGED <<device, effect, wire, budget, prompt, seen, token, program, step, pc, guard, tries,
                 waited, expected, etoken, requeue, events, keep, phase, scalar, waiting, flags>>
ReadFails ==
  /\ Reading
  /\ Fails("read", pc \in {"confirm", "settle"})

(* awaitOwnedPlayback.  base is the state that the observation is compared *)
(* with; in "settle" it includes the volume just confirmed.                *)
Result(v) ==
  CASE m.kind = "mode" -> [v EXCEPT !.repeat = m.repeat, !.shuffle = m.shuffle]
    [] m.kind = "volume" -> [v EXCEPT !.volume = m.level, !.muted = @ /\ scalar.muted]
    [] m.kind = "mute" -> [v EXCEPT !.muted = m.muted]
    [] m.kind = "transport" ->
         transportMediaReadback([v EXCEPT !.state = m.state], snap.view, m.state, FALSE)
    [] m.kind = "skip" -> [v EXCEPT !.state = snap.view.state, !.media = snap.view.media]
    [] OTHER -> [v EXCEPT !.state = "play", !.media = snap.view.media, !.queue = snap.view.queue]
base == IF pc = "settle" THEN Result(expected) ELSE expected
awaitOwnedPlayback ==
  /\ pc \in {"pre", "check"} \/ (pc = "settle" /\ m.kind = "volume")
  /\ how = "decide"
  /\ \E expired \in {FALSE, waiting} :
       LET d == decideQueueObservation(owned, automating, waiting, base, snap.view, expired,
                                       revoked, snap.token.gen # etoken.gen, hint)
       IN \/ /\ d.action \in {"pass", "resume"} /\ how' = "checked"
             /\ waiting' = d.waiting /\ UNCHANGED <<pc, waited, midhint, uncertain, outcome, inflight>>
          \/ /\ d.action = "wait" /\ how' = "kept"
             /\ waiting' = d.waiting /\ waited' = TRUE /\ midhint' = FALSE
             /\ UNCHANGED <<pc, uncertain, outcome, inflight>>
          \/ /\ d.action = "release" /\ pc' = "done" /\ how' = ""
             /\ waiting' = d.waiting /\ inflight' = FALSE
             /\ outcome' = Failed("ownership", uncertain \/ unconfirmed)
             /\ UNCHANGED <<waited, midhint, uncertain>>
  /\ UNCHANGED <<world, program, step, snap, guard, tries, expected, etoken, requeue, events, keep, phase,
                 scalar, hint, unconfirmed, revoked, owned, automating, confirmed>>

changed == snap.token.gen # etoken.gen \/ ownedChanges(owned, base, snap.view) # {}
Adopt == expected' = snap.view /\ etoken' = snap.token /\ requeue' = snap.requeue

CheckDone ==
  /\ pc = "check" /\ how = "checked"
  /\ \/ /\ (changed \/ ~Writable(snap.view.state) \/ revoked)
        /\ Fails("ownership", FALSE)
     \/ /\ ~changed /\ Writable(snap.view.state) /\ ~revoked
        /\ Adopt /\ ToLoop
        /\ UNCHANGED <<world, program, step, tries, events, keep, phase,
                       scalar, waiting, hint, midhint, flags>>
-----------------------------------------------------------------------------
(* writeOnce.                                                              *)

(* The envelope's deadline or the loading window may pass before a send.   *)
Timed == \/ m.kind \in {"append", "remove"}
         \/ m.kind = "skip" /\ program.buffered
         \/ m.kind = "volume" /\ automating /\ m.level > 0
removalAllowed(v) ==
  /\ program.buffered /\ v.state = "play" /\ queuedMedia(v.queue, v.media)
  /\ m.n \in 1..(Len(v.queue) - 1) /\ queueIndex(v) - 1 - m.n >= Retain

(* errPlaybackTimelineChanged: back to the loop, which plans again.        *)
Replan ==
  /\ \/ pc = "pre" /\ how = "checked" /\ (Timed \/ (m.kind = "volume" /\ waited))
     \/ pc = "send" /\ Timed
  /\ ToLoop /\ tries' = 0
  /\ UNCHANGED <<world, program, step, belief, flags>>

(* The checks between the observation and the journal.                     *)
PreWrite ==
  /\ pc = "pre" /\ how = "checked" /\ ~(m.kind = "volume" /\ waited)
  /\ LET v == snap.view
         blocked == m.kind = "skip" /\ ~skipAdmissible(m.direction, v)
     IN \/ /\ ~Writable(v.state) /\ Fails("unavailable", FALSE)
        \/ /\ Writable(v.state) /\ blocked /\ ~program.buffered
           /\ Fails("not_skippable", FALSE)
        \/ /\ Writable(v.state) /\ (blocked => program.buffered) /\ changed
           /\ Fails("ownership", FALSE)
        \/ /\ Writable(v.state) /\ (blocked => program.buffered) /\ ~changed
           /\ Adopt
           /\ IF blocked THEN ToLoop /\ step' = step + 1 /\ tries' = 0
              ELSE IF m.kind = "remove" /\ ~removalAllowed(v)
              THEN ToLoop /\ tries' = 0 /\ UNCHANGED step
              ELSE /\ Goto("send", "") /\ guard' = snap.token /\ snap' = NoSnap /\ waited' = FALSE
                   /\ UNCHANGED <<step, tries>>
           /\ UNCHANGED <<world, program, events, keep, phase, scalar, waiting,
                          hint, midhint, flags>>

JournalFails ==
  /\ pc = "send" /\ Fails("journal", TRUE)

(* expect: the events that the command may cause, registered before it is  *)
(* sent, together with the command's being in flight.                      *)
newScalarConfirmation ==
  LET e == expected IN
  [m |-> m, volume |-> e.volume, muted |-> e.muted, repeat |-> e.repeat, shuffle |-> e.shuffle,
   volumeSeen |-> \/ m.kind = "volume" /\ e.volume = m.level /\ ~e.muted
                  \/ m.kind = "mute" /\ e.muted = m.muted,
   repeatSeen |-> m.kind = "mode" /\ e.repeat = m.repeat,
   shuffleSeen |-> m.kind = "mode" /\ e.shuffle = m.shuffle]
(* Mutant: the stop that a player shows while it loads is not expected.    *)
ExpectationsWithoutStop ==
  CASE m.kind = "transport" -> {m.state, "media"}
    [] m.kind = "skip" -> PlayStates \cup {"media"}
    [] m.kind = "remove" -> {"queue", "media"}
    [] m.kind = "append" -> {"queue"}
    [] m.kind = "queue" -> {"queue", "media", "play"}
    [] OTHER -> {}
Expectations ==
  CASE m.kind = "transport" -> {m.state, "media"}
    [] m.kind = "skip" -> PlayStates \cup {"media"}
    [] m.kind = "remove" -> {"queue", "media"}
    [] m.kind = "append" -> {"queue"}
    [] m.kind = "queue" -> {"queue", "media", "play"} \cup
                           (IF expected.state \in {"stop", "pause"} THEN {"stop"} ELSE {})
    [] OTHER -> {}
expect ==
  /\ pc = "send" /\ Goto("wire", "")
  /\ phase' = IF m.kind = "queue" THEN "awaiting" ELSE "no"
  /\ scalar' = IF scalarMutation(m) THEN newScalarConfirmation ELSE NoScalar
  /\ keep' = (m.kind \in {"skip", "remove", "append"})
  /\ events' = events \cup Expectations
  /\ inflight' = TRUE
  /\ UNCHANGED <<world, program, step, snap, guard, tries, waited, expected, etoken, requeue, waiting, hint,
                 midhint, uncertain, unconfirmed, revoked, owned, automating, confirmed, outcome>>

(* The wire guard holds: the command leaves, and advances the revision.    *)
Send ==
  /\ pc = "wire" /\ token = guard /\ ~revoked
  /\ Goto("sent", "") /\ token' = [token EXCEPT !.write = @ + 1]
  /\ \/ \E to \in Outcomes(m, Carried(device, Pending)) :
          effect' = [to |-> Restrict(to, Pending \cup {f \in Controls : to[f] # device[f]}),
                     kind |-> m.kind, accepted |-> TRUE]
     \/ effect' = [effect EXCEPT !.accepted = FALSE]
  /\ UNCHANGED <<device, wire, ahead, budget, prompt, seen, program, step, snap, guard, tries, waited,
                 belief, flags>>

(* A stale or expired guard, or a cancelled context: certainly not sent.   *)
(* write tries a bounded run again, up to three times in all; here a guard *)
(* expires only in the first try.                                          *)
NotSent ==
  /\ pc = "wire" /\ (token # guard \/ revoked \/ tries = 0)
  /\ \/ /\ program.bounded /\ ~revoked /\ tries < 2
        /\ ToLoop /\ tries' = tries + 1 /\ inflight' = FALSE /\ events' = {}
        /\ UNCHANGED <<world, program, step, expected, etoken, requeue, keep, phase,
                       scalar, waiting, hint, midhint, uncertain, unconfirmed, revoked, owned,
                       automating, confirmed, outcome>>
     \/ /\ ~program.bounded \/ revoked \/ tries = 2
        /\ Fails("not_sent", FALSE)

Acknowledged ==
  /\ pc = "sent" /\ effect.accepted /\ token.gen = guard.gen
  /\ Goto("confirm", IF scalarMutation(m) THEN "wait" ELSE "full")
  /\ inflight' = FALSE /\ unconfirmed' = TRUE /\ midhint' = FALSE
  /\ etoken' = IF token.player = etoken.player THEN token ELSE etoken
  /\ UNCHANGED <<world, program, step, snap, guard, tries, waited, expected, requeue, events, keep, phase,
                 scalar, waiting, hint, uncertain, revoked, owned, automating, confirmed, outcome>>
Rejected ==
  /\ pc = "sent" /\ ~effect.accepted /\ token.gen = guard.gen /\ Fails("rejected", FALSE)
AnswerLost ==
  /\ pc = "sent" /\ Fails("lost", TRUE)
-----------------------------------------------------------------------------
(* confirmReadback.                                                        *)

ready == IF m.kind = "mode" THEN scalar.repeatSeen /\ scalar.shuffleSeen ELSE scalar.volumeSeen
ScalarResult(p) ==
  IF m.kind = "mode" THEN [expected EXCEPT !.repeat = p.repeat, !.shuffle = p.shuffle]
  ELSE [expected EXCEPT !.volume = p.volume, !.muted = p.muted]
Settle == Goto("settle", IF m.kind = "volume" THEN "decide" ELSE "checked")

(* confirmScalar: by events, or by one read of the requested controls.     *)
ScalarReady ==
  /\ pc = "confirm" /\ how = "wait" /\ ready /\ ~revoked
  /\ Settle /\ snap' = [view |-> ScalarResult(scalar), token |-> etoken, requeue |-> requeue]
  /\ UNCHANGED <<world, program, step, guard, tries, waited, belief, flags>>
ScalarFallback ==
  /\ pc = "confirm" /\ how = "wait" /\ ~ready /\ ~revoked /\ token.gen = etoken.gen
  /\ \E k \in Reads :
       LET s == Ahead(k)
           want == [Result(expected) EXCEPT !.muted = IF m.kind = "volume" /\ expected.muted
                                                      THEN s.muted ELSE @]
           read == IF m.kind = "mode" THEN {"repeat", "shuffle"} ELSE VolumeFields
           p == [scalar EXCEPT !.volume = s.volume, !.muted = s.muted,
                               !.repeat = s.repeat, !.shuffle = s.shuffle]
       IN /\ Same(s, want, read) /\ ahead' = k
          /\ scalar' = p /\ snap' = [view |-> ScalarResult(p), token |-> token, requeue |-> requeue]
  /\ Settle
  /\ UNCHANGED <<device, effect, wire, budget, prompt, seen, token, program, step, guard,
                 tries, waited, expected, etoken, requeue, events, keep, phase, waiting, hint, midhint, flags>>

(* The deadline passed, the context was cancelled or the fallback differs. *)
ConfirmFails ==
  /\ pc = "confirm" /\ Fails("timeout", TRUE)

(* A full read that already contains the events heard since the command.   *)
covered == snap.token = etoken /\ snap.token.player > guard.player
stillHint == hint /\ ~covered

(* What the readback says of the command: "confirm", "wait" or "abort".    *)
TransportReadback(v) ==
  CASE v.state = m.state -> "confirm"
    [] pendingChanges(expected, v, m) # {} -> "abort"
    [] OTHER -> "wait"

acceptSkipReadback(v) ==
  CASE pendingChanges(expected, v, m) # {} -> "abort"
    [] stillHint \/ ~skipConfirmed(expected, v) -> "wait"
    [] OTHER -> "confirm"

StartPhase(v) == IF v.state = "play" THEN "observed" ELSE phase
queueStartObservation(v) ==
  LET d == decideQueueStart(StartPhase(v), expected, v, program.bounded, members, FALSE, revoked,
                            FALSE, stillHint)
  IN CASE d # "confirm" \/ ~program.ordered \/ orderedQueue(v.queue, ordered) -> d
       [] appendQueueProblem(<<>>, v.queue, ordered) -> "abort"
       [] OTHER -> "wait"

appendObservation(v) ==
  LET valid == queuedMedia(v.queue, v.media)
      settling == \/ emptyMedia(v.media) \/ transitionalQueueMedia(v.queue, v.media)
                  \/ v.state # "play" /\ queuedIdentity(v.queue, v.media)
  IN CASE \/ queueLoadingControls(expected, v) # {}
          \/ appendQueueProblem(expected.queue, v.queue, ordered)
          \/ v.state = "pause" \/ ~(valid \/ settling) -> "abort"
       [] v.state = "play" /\ valid /\ orderedQueue(v.queue, ordered) /\ ~stillHint -> "confirm"
       [] OTHER -> "wait"

removeObservation(v) ==
  LET removed == removedQueuePrefix(expected.queue, v.queue, m.n)
      position == queueIndex(expected) - removed
      valid == queuedMedia(v.queue, v.media)
      settling == \/ emptyMedia(v.media) \/ transitionalQueueMedia(v.queue, v.media)
                  \/ queuedMedia(expected.queue, v.media)
  IN CASE queueLoadingControls(expected, v) # {} \/ removed = -1 -> "abort"
       [] removed # -1 /\ position \notin DOMAIN v.queue -> "abort"
       [] removed # -1 /\ (v.state = "pause" \/ ~(valid \/ settling)) -> "abort"
       [] /\ removed = m.n /\ v.state = "play" /\ valid /\ v.media = v.queue[position]
          /\ orderedQueue(v.queue, ordered) /\ ~stillHint -> "confirm"
       [] OTHER -> "wait"

Readback(v) ==
  CASE m.kind = "transport" -> TransportReadback(v)
    [] m.kind = "skip" -> acceptSkipReadback(v)
    [] m.kind = "queue" -> queueStartObservation(v)
    [] m.kind = "append" -> appendObservation(v)
    [] m.kind = "remove" -> removeObservation(v)

(* Under the execution's mutex, together with what the readback closes.    *)
confirmReadback ==
  /\ pc = "confirm" /\ how = "decide" /\ ~revoked
  /\ LET v == snap.view
         d == Readback(v)
     IN \/ d = "abort" /\ Fails("ownership", TRUE)
        \/ /\ d # "abort"
           /\ IF d = "confirm" THEN Settle /\ UNCHANGED midhint
              ELSE Goto("confirm", "full") /\ midhint' = FALSE
           /\ phase' = IF m.kind = "queue" THEN StartPhase(v) ELSE phase
           /\ hint' = IF m.kind = "transport" THEN hint ELSE stillHint
           /\ events' = CASE m.kind = "queue" /\ v.state = "play" -> events \ {"stop"}
                          [] m.kind = "skip" /\ d = "confirm" -> {}
                          [] m.kind \in {"append", "remove"} /\ d = "confirm" ->
                               events \ {"queue", "media"}
                          [] OTHER -> events
           /\ keep' = (keep /\ ~(m.kind = "skip" /\ d = "confirm"))
           /\ waiting' = (waiting /\ ~(m.kind \in {"append", "remove"} /\ d = "confirm"))
           /\ UNCHANGED <<world, program, step, snap, guard, tries, waited, expected, etoken, requeue,
                          scalar, flags>>

(* The last checks under the mutex: the whole state but for the command's  *)
(* own result must be unchanged; then the acknowledgement window closes.   *)
queueResultMatches(v) ==
  /\ program.ordered => orderedQueue(v.queue, ordered)
  /\ queueResultProblem(v, members, program.bounded) = ""
Confirm ==
  /\ pc = "settle" /\ how = "checked"
  /\ LET v == snap.view
         wrong == \/ ~Writable(v.state) \/ changed
                  \/ m.kind = "skip" /\ ~skipConfirmed(expected, v)
                  \/ m.kind \in {"queue", "append", "remove"} /\ ~queueResultMatches(v)
     IN \/ wrong /\ Fails("ownership", FALSE)
        \/ /\ ~wrong
           /\ expected' = v /\ requeue' = snap.requeue
           /\ etoken' = IF etoken.gen = snap.token.gen /\ etoken.player >= snap.token.player
                        THEN etoken ELSE snap.token
           /\ owned' = (owned \/ (m.kind = "queue" /\ program.bounded))
           /\ unconfirmed' = FALSE /\ confirmed' = confirmed + 1
           /\ events' = {} /\ phase' = "no" /\ scalar' = NoScalar /\ keep' = FALSE
           /\ step' = step + 1 /\ tries' = 0
           /\ snap' = NoSnap /\ guard' = Token0 /\ waited' = FALSE
           /\ IF revoked THEN Goto("done", "") /\ outcome' = Failed("ownership", uncertain)
              ELSE Goto("idle", "") /\ UNCHANGED outcome
           /\ UNCHANGED <<world, program, waiting, hint, midhint, inflight, uncertain, revoked,
                          automating>>

(* A cancelled context between two commands.                               *)
Interrupted ==
  /\ pc = "idle" /\ more /\ revoked /\ Fails("ownership", FALSE)
-----------------------------------------------------------------------------
Player == pc # "done" /\ (DeviceStep \/ DeviceNoise \/ NaturalTransition \/ Foreign \/ Hear)
Observing == prewriteObservation \/ checkOwnership \/ ReadEnd \/ ReadFails
             \/ awaitOwnedPlayback \/ CheckDone
Writing == Replan \/ PreWrite \/ JournalFails \/ expect \/ Send \/ NotSent
           \/ Acknowledged \/ Rejected \/ AnswerLost
Confirming == ScalarReady \/ ScalarFallback \/ ConfirmFails \/ confirmReadback \/ Confirm
Ending == Register \/ Automate \/ Succeed \/ Interrupted
Ended == pc = "done" /\ UNCHANGED vars

Next == Player \/ Observing \/ Writing \/ Confirming \/ Ending \/ Ended
Spec == Init /\ [][Next]_vars
-----------------------------------------------------------------------------
(* A command leaves only on a current belief: when it is sent, ownership   *)
(* is not revoked, and every control the worker believes in has the value  *)
(* last heard from the player, or one still on its way.  Three exceptions  *)
(* are the code's: the control the command sets may already be at its      *)
(* target; the media last heard may mix two entries of the queue, as in a  *)
(* change of tracks (transitionalQueueMedia), which no belief takes over;  *)
(* and a scalar command may leave while the entry of the owned queue is    *)
(* another.  Writes that rely on events instead of a read                  *)
(* (prewriteObservation), retries after a stale guard and the audit reads  *)
(* all keep to it.                                                         *)
Sets(f) == \/ m.kind = "volume" /\ f \in VolumeFields
           \/ m.kind = "mute" /\ f = "muted"
           \/ m.kind = "mode" /\ f \in {"repeat", "shuffle"}
Heard(f) ==
  \/ expected[f] = seen[f]
  \/ \E i \in DOMAIN wire : wire[i].view[f] = expected[f]
  \/ f = "media" /\ transitionalQueueMedia(expected.queue, seen.media)
  \/ f = "media" /\ owned /\ scalarMutation(m) /\ queuedMedia(expected.queue, seen.media)
  \/ Sets(f) /\ seen[f] = Result(expected)[f]
SentKnowing ==
  [][token'.write # token.write => ~revoked /\ \A f \in Controls : Heard(f)]_vars

(* A player that notifies before it answers never costs its own worker the *)
(* ownership: no order, repetition or transitional value of the events of  *)
(* the worker's commands and of natural track changes is taken for another *)
(* controller.                                                             *)
OwnEventsHarmless == prompt /\ budget.foreign = MaxForeign => ~revoked

(* A play never overrules a later stop.  The allowance for stop while a    *)
(* queue loads ends with the first play: a stop that is heard after it,    *)
(* before the confirmation, revokes.  And a wait for the queue to go on    *)
(* ends only if play is the latest that was heard or read, although the    *)
(* read that shows play may have begun before the stop was notified.       *)
StopNotOverruled ==
  [][ /\ /\ pc \in {"sent", "confirm"} /\ m.kind = "queue" /\ seen.state = "play"
         /\ token.player > guard.player
         /\ token'.player # token.player /\ Head(wire).kind = "state" /\ seen'.state = "stop"
         => revoked'
      /\ waiting /\ ~waiting' /\ outcome' = Running => Ahead(ahead).state = "play" ]_vars

(* The recorded delivery is honest: confirmed or not_sent only if every    *)
(* command that left was confirmed, rejected only if exactly the last one  *)
(* was not, and success only without doubt and with every step behind it.  *)
OutcomeHonest ==
  /\ outcome.delivery \in {"confirmed", "not_sent"} => token.write = confirmed
  /\ outcome.delivery = "rejected" => token.write = confirmed + 1
  /\ outcome.state = "succeeded" => ~uncertain /\ ~unconfirmed

(* A confirmation is about this command: unless another controller         *)
(* interferes, or a track ends by itself under a command about the track,  *)
(* the player has carried out what was asked for when the worker counts    *)
(* the command.                                                            *)
Asked(k) == CASE k = "volume" -> {"volume"} [] k = "mute" -> {"muted"}
              [] k = "mode" -> {"repeat", "shuffle"} [] k = "transport" -> {"state"}
              [] k = "skip" -> {"media"} [] k = "queue" -> {"queue", "media", "state"}
              [] k = "append" -> {"queue"} [] k = "remove" -> {"queue", "media"}
ConfirmedIsDone ==
  [][confirmed' > confirmed /\ budget.foreign = MaxForeign /\ effect.kind = m.kind
     /\ (m.kind \in {"transport", "skip", "remove"} => budget.natural = MaxNatural)
     => Asked(m.kind) \cap Pending = {}]_vars
=============================================================================
