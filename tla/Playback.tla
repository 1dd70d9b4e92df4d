------------------------------- MODULE Playback -------------------------------
(***************************************************************************)
(* The loops that a worker of internal/control runs after a playback was   *)
(* admitted: starting it, the volume envelope (automate), loading the      *)
(* parts of a long queue, keeping a buffered queue short, and the skips    *)
(* that HTTP requests hand to the worker (bufferedSkip).  Also the fade of *)
(* a Stop or a cancellation.                                               *)
(*                                                                         *)
(* Time passes in ticks at any moment, also in the middle of a command.  A *)
(* command (write) is observe, send, confirm, as module Execution details; *)
(* here it ends in one of a few results.  The player's tracks end, and     *)
(* people skip, at any moment: pos moves.  The notification is on its way  *)
(* for a while, and only then pending.  Of the queue only its length and   *)
(* the current position matter.                                            *)
(***************************************************************************)
EXTENDS Integers, Sequences, FiniteSets

CONSTANTS
  Plans,  \* admitted operations
  Audit   \* ticks between two audits (activeObservationInterval)

(* Automation.validate and BufferedPlayback.validate.                      *)
validateAutomation(p) ==
  /\ p.level \in 0..p.target /\ p.dur >= 1 /\ p.fade \in 0..(p.dur - 1)
  /\ p.ramp \in 0..(p.dur - p.fade)
validateBuffered(p) ==
  /\ p.threshold >= 1 /\ p.max >= 2 /\ p.retain >= 0 /\ p.expires >= 1
  /\ p.kind = "automate" => p.dur <= p.expires
  /\ \A i \in DOMAIN p.parts : p.parts[i] \in 1..(p.max - p.threshold - p.retain - 1)

ASSUME PlaybackAssumption ==
  /\ Audit \in Nat \ {0}
  /\ \A p \in Plans : /\ p.budget \in Nat
                      /\ p.kind = "automate" => p.budget > p.dur
                      /\ p.kind = "fade" => p.budget > p.fade
                      /\ p.kind = "session" => p.budget > p.expires
                      /\ {p.level, p.target, p.ramp, p.dur, p.fade} \subseteq Nat
                      /\ {p.threshold, p.max, p.retain, p.expires} \subseteq Nat
                      /\ p.kind \in {"automate", "load", "session", "fade"}
                      /\ p.parts \in Seq(Nat \ {0}) /\ p.parts # <<>>
                      /\ p.kind = "automate" => validateAutomation(p)
                      /\ p.buffered => validateBuffered(p)
                      /\ p.kind = "session" => p.buffered
                      /\ p.buffered => p.kind \in {"automate", "session"}

VARIABLES
  now, plan,
  pc, cmd, tries, stage, at, last, fadeFrom, until, lastRead, \* the worker
  loaded, ordered, pruned,             \* parts confirmed, length expected, entries removed
  vol, resident, pos,                  \* the player: volume, queue length, current entry
  known, pending, wire,                \* the worker's position, a notification unread, one on its way
  cancelled, uncertain, unconfirmed, closed, outcome, stops,
  slot                                 \* the one buffered skip

clock == <<now, plan>>
worker == <<pc, cmd, tries, stage, at, last, fadeFrom, until, lastRead>>
parts == <<loaded, ordered, pruned>>
player == <<vol, resident, pos>>
view == <<known, pending, wire>>
flags == <<cancelled, uncertain, unconfirmed, closed, outcome, stops>>
vars == <<clock, worker, parts, player, view, flags, slot>>

NoCmd == [kind |-> "none", level |-> 0, n |-> 0]
NoChild == [st |-> "none", direction |-> "next", sent |-> FALSE, done |-> FALSE, delivery |-> ""]

automating == plan.kind = "automate" /\ stage = "run"
moreParts == loaded < Len(plan.parts)
Never == plan.budget + 1
playbackDeadline == IF automating THEN plan.dur ELSE IF plan.buffered THEN plan.expires ELSE Never
appendUntil == IF automating THEN plan.dur - plan.fade ELSE playbackDeadline

Init ==
  /\ plan \in Plans /\ now = 0
  /\ pc = IF plan.kind = "fade" THEN "loop" ELSE "start"
  /\ stage = IF plan.kind = "fade" THEN "run" ELSE IF plan.playing THEN "stop" ELSE "volume"
  /\ cmd = NoCmd /\ tries = 0
  /\ at = 0 /\ last = plan.level /\ fadeFrom = -1 /\ until = 0 /\ lastRead = 0
  /\ loaded = 0 /\ ordered = plan.parts[1] /\ pruned = 0
  /\ vol = plan.level /\ resident = 0 /\ pos = 0 /\ known = 0 /\ pending = FALSE /\ wire = FALSE
  /\ cancelled = FALSE /\ uncertain = FALSE /\ unconfirmed = FALSE
  /\ closed = FALSE /\ outcome = "" /\ stops = 0 /\ slot = NoChild
-----------------------------------------------------------------------------
(* The surroundings, as long as the worker's loops look at them.  Time     *)
(* counts from the confirmed start of the playback; with the operation's   *)
(* budget its context ends.                                                *)

Watching == pc \notin {"persist", "close", "done"}

TickOn ==
  /\ Watching /\ now < plan.budget /\ stage = "run" /\ now' = now + 1
  /\ UNCHANGED <<plan, worker, parts, player, view, flags, slot>>
Tick ==
  /\ Watching /\ now < plan.budget /\ stage = "run" /\ now' = now + 1
  /\ cancelled' = (cancelled \/ now' = plan.budget)
  /\ UNCHANGED <<plan, worker, parts, player, view, uncertain, unconfirmed, closed, outcome,
                 stops, slot>>

(* The next track begins, or somebody skips within the owned queue.        *)
Moves ==
  /\ Watching /\ resident > 1
  /\ \E q \in {pos - 1, pos + 1} \cap 1..resident : pos' = q
  /\ wire' = TRUE
  /\ UNCHANGED <<clock, worker, parts, vol, resident, known, pending, flags, slot>>

(* notifyObservation: a notification arrives.  It says that something      *)
(* moved, not where to, and more of them may follow.                       *)
Notified ==
  /\ Watching /\ wire
  /\ pending' = TRUE /\ wire' \in BOOLEAN
  /\ UNCHANGED <<clock, worker, parts, player, known, flags, slot>>

(* Ownership is revoked, the run is superseded, the budget is used up by   *)
(* the start, or the service stops.                                        *)
Cancel ==
  /\ ~cancelled /\ pc # "done" /\ cancelled' = TRUE
  /\ UNCHANGED <<clock, worker, parts, player, view, uncertain, unconfirmed, closed,
                 outcome, stops, slot>>
-----------------------------------------------------------------------------
(* Where the result of a command leads.                                    *)

Finish(result) == pc' = "persist" /\ outcome' = result
Goto(p) == pc' = p /\ UNCHANGED outcome

(* The end of execute with an error: a doubt about a command comes first.  *)
Ends(doubt) == Finish(IF doubt THEN "uncertain" ELSE "failed")

NextStage == [stop |-> "volume", volume |-> "mode", mode |-> "mute", mute |-> "queue", queue |-> "run"]
Part == plan.parts[loaded + 1]

(* finishBufferedSkip: the slot stays taken until the result is stored.    *)
Finishing(delivery) == [slot EXCEPT !.st = "finishing", !.delivery = delivery]
SkipDeliveryHopeful(result, done, doubt) ==
  CASE done -> "confirmed" [] ~done /\ result = "rejected" -> "rejected" [] OTHER -> "not_sent"
SkipDelivery(result, done, doubt) ==
  CASE doubt -> "unknown" [] ~doubt /\ done -> "confirmed"
    [] ~doubt /\ ~done /\ result = "rejected" -> "rejected" [] OTHER -> "not_sent"

(* appendNext and pruneBuffered expect the new queue before they write it, *)
(* and restore the expectation when the write fails.                       *)
RestoreAppendOnly(ok) == IF ~ok /\ cmd.kind = "append" THEN ordered - Part ELSE ordered
Restore(ok) == CASE ~ok /\ cmd.kind = "append" -> ordered - Part
                 [] ~ok /\ cmd.kind = "remove" -> ordered + cmd.n
                 [] OTHER -> ordered

(* done: the command was confirmed; a cancelled context is an error still. *)
(* doubt: this command, or an earlier one, may have been carried out.      *)
Return(result, done, doubt) ==
  LET k == cmd.kind
      ok == result = "ok"
      again == result = "timeline" /\ plan.kind # "load"
  IN
  /\ cmd' = NoCmd /\ tries' = 0
  /\ last' = IF ok /\ k = "volume" THEN cmd.level ELSE last
  /\ loaded' = IF ok /\ k \in {"queue", "append"} THEN loaded + 1 ELSE loaded
  /\ ordered' = Restore(ok)
  /\ pruned' = IF ok /\ k = "remove" THEN pruned + cmd.n ELSE pruned
  /\ slot' = IF k = "skip" THEN [Finishing(SkipDelivery(result, done, doubt)) EXCEPT
                                     !.done = done, !.sent = @ \/ result = "lost"]
             ELSE slot
  /\ stage' = IF ok /\ stage # "run" THEN NextStage[stage] ELSE stage
  /\ CASE stage # "run" /\ ok -> Goto(IF stage = "queue" THEN "loop" ELSE "start")
       [] stage = "run" /\ k = "volume" /\ ok -> Goto("acted")
       [] stage = "run" /\ k = "transport" /\ ok ->
            Finish(IF plan.kind = "automate" /\ moreParts /\ ~plan.buffered THEN "incomplete"
                   ELSE "succeeded")
       [] stage = "run" /\ k \in {"skip", "append", "remove"} /\ ok -> Goto("loop")
       [] stage = "run" /\ (again \/ result = "not_skippable") -> Goto("loop")
       [] OTHER -> Ends(doubt)
-----------------------------------------------------------------------------
(* write: observe, send and confirm one command.                           *)

Begin(kind, level, n) == Goto("pre") /\ cmd' = [kind |-> kind, level |-> level, n |-> n]

(* Past this tick a command of its kind may no longer leave.               *)
SendBeforeQueue == IF cmd.kind \in {"append", "remove"} THEN appendUntil ELSE Never
SendBefore ==
  CASE cmd.kind = "volume" /\ automating /\ cmd.level > 0 -> playbackDeadline
    [] cmd.kind = "skip" -> playbackDeadline
    [] cmd.kind \in {"append", "remove"} -> appendUntil
    [] OTHER -> Never
ConfirmBefore ==
  IF cmd.kind \in {"skip", "append", "remove"} \/ (cmd.kind = "volume" /\ cmd.level > 0 /\ automating)
  THEN playbackDeadline ELSE Never

admissible(direction, q) ==
  resident > 1 /\ q # (IF direction = "next" THEN resident ELSE 1)
removalPlanned(q) == cmd.n \in 1..(resident - 1)
removalAllowed(q) == cmd.n \in 1..(resident - 1) /\ q - 1 - cmd.n >= plan.retain

Observe ==
  /\ pc = "pre" /\ ~cancelled
  /\ pending' = FALSE /\ lastRead' = now
  /\ LET late == now >= SendBefore
         blocked == cmd.kind = "skip" /\ ~admissible(slot.direction, pos)
         unsafe == cmd.kind = "remove" /\ ~removalAllowed(pos)
     IN \/ /\ late \/ (cmd.kind = "volume" /\ pending /\ automating)
           /\ Return("timeline", FALSE, uncertain) /\ UNCHANGED known
        \/ /\ ~late /\ known' = pos
           /\ IF blocked THEN Return("not_skippable", FALSE, uncertain)
              ELSE IF unsafe THEN Return("timeline", FALSE, uncertain)
              ELSE Goto("send") /\ UNCHANGED <<cmd, tries, last, parts, slot, stage>>
  /\ UNCHANGED <<clock, at, fadeFrom, until, player, wire, cancelled, uncertain,
                 unconfirmed, closed, stops>>

(* A volume step of a confirmed chain may rely on the events alone.        *)
Reuse ==
  /\ pc = "pre" /\ ~cancelled /\ cmd.kind = "volume" /\ automating /\ ~pending
  /\ now < SendBefore /\ Goto("send")
  /\ UNCHANGED <<clock, cmd, tries, stage, at, last, fadeFrom, until, lastRead, parts, player, view,
                 cancelled, uncertain, unconfirmed, closed, stops, slot>>

(* A read fails or the context is cancelled before anything was sent.      *)
ObserveFails ==
  /\ pc = "pre" /\ UNCHANGED <<uncertain, unconfirmed>> /\ Return("error", FALSE, uncertain)
  /\ UNCHANGED <<clock, at, fadeFrom, until, lastRead, player, view, cancelled, closed,
                 stops>>

(* What the player does with an accepted command.  One that has moved      *)
(* meanwhile may lose its current track with the removed ones, or be at an *)
(* end where a skip leads nowhere.                                         *)
Effect ==
  /\ vol' = IF cmd.kind = "volume" THEN cmd.level ELSE vol
  /\ resident' = CASE cmd.kind = "queue" -> ordered [] cmd.kind = "append" -> ordered
                   [] cmd.kind = "remove" -> ordered [] OTHER -> resident
  /\ CASE cmd.kind = "queue" -> pos' = 1
       [] cmd.kind = "remove" -> IF pos > cmd.n THEN pos' = pos - cmd.n ELSE pos' \in 1..ordered
       [] cmd.kind = "skip" -> LET q == IF slot.direction = "next" THEN pos + 1 ELSE pos - 1
                               IN pos' = IF q \in 1..resident THEN q ELSE pos
       [] OTHER -> UNCHANGED pos
  /\ stops' = IF cmd.kind = "transport" /\ stage = "run" THEN stops + 1 ELSE stops

Send ==
  /\ pc = "send" /\ ~pending /\ ~cancelled /\ now < SendBefore
  /\ Effect /\ Goto("sent") /\ unconfirmed' = TRUE
  /\ slot' = [slot EXCEPT !.sent = @ \/ cmd.kind = "skip"]
  /\ UNCHANGED <<clock, cmd, tries, stage, at, last, fadeFrom, until, lastRead, parts, view,
                 cancelled, uncertain, closed>>

(* The guard is stale or expired, proven before anything is sent.  Only    *)
(* bounded runs try again; a plain playback or Stop may be none.           *)
Stale ==
  /\ pc = "send" /\ (pending \/ now >= SendBefore) /\ tries < 2
  /\ Goto("pre") /\ tries' = tries + 1
  /\ UNCHANGED <<clock, cmd, stage, at, last, fadeFrom, until, lastRead, parts, player, view,
                 cancelled, uncertain, unconfirmed, closed, stops, slot>>

(* Not sent, refused by the player, or in doubt.                           *)
SendFails ==
  /\ pc = "send"
  /\ \E result \in {"error", "timeline", "rejected", "journal", "lost"} :
       /\ result = "timeline" => now >= SendBefore
       /\ result \in {"rejected", "lost"} => ~pending /\ ~cancelled /\ now < SendBefore
       /\ result = "error" =>
            \/ cancelled
            \/ (tries = 2 \/ plan.kind \in {"load", "fade"}) /\ (pending \/ now >= SendBefore)
       /\ uncertain' = (uncertain \/ result \in {"journal", "lost"})
       /\ UNCHANGED unconfirmed
       /\ \/ result = "lost" /\ Effect
          \/ UNCHANGED <<player, stops>>
       /\ Return(result, FALSE, uncertain \/ result \in {"journal", "lost"})
  /\ UNCHANGED <<clock, at, fadeFrom, until, lastRead, view, cancelled, closed>>

(* The position a command is confirmed by: after a removal that of the     *)
(* track from before it (removeObservation), after a skip another one      *)
(* (skipConfirmed).                                                        *)
Confirmed ==
  /\ cmd.kind = "remove" => pos = known - cmd.n
  /\ cmd.kind = "skip" => pos # known

(* The end of writeOnce.  With the confirmed queue the clock starts.       *)
Confirm ==
  /\ pc = "sent" /\ now < ConfirmBefore /\ Confirmed
  /\ unconfirmed' = FALSE /\ UNCHANGED uncertain
  /\ IF cmd.kind = "volume" THEN UNCHANGED <<known, pending>> ELSE known' = pos /\ pending' = FALSE
  /\ Return(IF cancelled THEN "cancelled" ELSE "ok", TRUE, uncertain)
  /\ UNCHANGED <<clock, at, fadeFrom, until, lastRead, player, wire, cancelled, closed,
                 stops>>
ConfirmFails ==
  /\ pc = "sent" /\ uncertain' = TRUE /\ UNCHANGED unconfirmed
  /\ Return("error", FALSE, TRUE)
  /\ UNCHANGED <<clock, at, fadeFrom, until, lastRead, player, view, cancelled, closed,
                 stops>>
-----------------------------------------------------------------------------
(* The loops.                                                              *)

Quiet == UNCHANGED <<clock, player, view, cancelled, uncertain, unconfirmed, closed, stops>>

startPlayback ==
  /\ pc = "start"
  /\ Begin(IF stage = "stop" THEN "transport" ELSE stage, plan.level, 0)
  /\ Quiet /\ UNCHANGED <<tries, stage, at, last, fadeFrom, until, lastRead, parts, slot>>

(* A cancelled context is seen at the top of a loop and while waiting, a   *)
(* journal that does not answer at every stage.                            *)
LoopFails ==
  /\ stage = "run"
  /\ \/ pc \in {"loop", "wait"} /\ cancelled
     \/ pc \in {"loop", "acted", "check", "step", "prep"}
  /\ Ends(uncertain)
  /\ Quiet /\ UNCHANGED <<cmd, tries, stage, at, last, fadeFrom, until, lastRead, parts, slot>>

(* The level of the envelope at the current time.                          *)
FadeBase == IF fadeFrom < 0 THEN last ELSE fadeFrom
fading == plan.fade > 0 /\ now >= plan.dur - plan.fade
Level ==
  CASE now >= plan.dur -> IF plan.fade > 0 THEN 0 ELSE last
    [] now < plan.dur /\ fading ->
         FadeBase - ((now - (plan.dur - plan.fade)) * FadeBase) \div plan.fade
    [] now < plan.dur /\ ~fading /\ now < plan.ramp ->
         plan.level + (now * (plan.target - plan.level)) \div plan.ramp
    [] OTHER -> plan.target
due == pending \/ now - lastRead >= Audit

automate ==
  /\ pc = "loop" /\ automating /\ ~cancelled
  /\ at' = now
  /\ fadeFrom' = IF now < plan.dur /\ fading THEN FadeBase ELSE fadeFrom
  /\ IF Level = last /\ now < plan.dur /\ due THEN Goto("check") /\ UNCHANGED cmd
     ELSE IF Level # last THEN Begin("volume", Level, 0)
     ELSE Goto("acted") /\ UNCHANGED cmd
  /\ Quiet /\ UNCHANGED <<tries, stage, last, until, lastRead, parts, slot>>

(* Stop and a cancellation that stops: fade from the level found.          *)
stopFade ==
  /\ pc = "loop" /\ plan.kind = "fade" /\ ~cancelled
  /\ at' = now
  /\ LET level == IF plan.fade = 0 THEN last
                  ELSE IF now >= plan.fade THEN 0 ELSE plan.level - (now * plan.level) \div plan.fade
     IN IF level < last THEN Begin("volume", level, 0) ELSE Goto("acted") /\ UNCHANGED cmd
  /\ Quiet /\ UNCHANGED <<tries, stage, last, fadeFrom, until, lastRead, parts, slot>>

(* checkOwnership: the position is read.                                   *)
checkOwnership ==
  /\ pc = "check" /\ ~cancelled
  /\ known' = pos /\ pending' = FALSE /\ lastRead' = now
  /\ Goto(IF automating THEN "loop" ELSE "step")
  /\ UNCHANGED <<clock, cmd, tries, stage, at, last, fadeFrom, until, parts, player, wire,
                 cancelled, uncertain, unconfirmed, closed, stops, slot>>

Sleep == Goto("wait") /\ until' = (IF now < plan.budget THEN now + 1 ELSE now) /\ UNCHANGED <<cmd, ordered>>
appendNext == Begin("append", 0, 0) /\ ordered' = ordered + Part /\ UNCHANGED until

(* After the volume of this round: the time it was computed for decides.   *)
overNow == now >= IF automating THEN plan.dur ELSE plan.fade
over == at >= IF automating THEN plan.dur ELSE plan.fade
acted ==
  /\ pc = "acted"
  /\ \/ /\ over /\ Begin("transport", 0, 0) /\ UNCHANGED <<until, ordered>>
     \/ ~over /\ plan.buffered /\ Goto("kid") /\ UNCHANGED <<cmd, until, ordered>>
     \/ /\ ~over /\ ~plan.buffered
        /\ IF automating /\ moreParts /\ now < appendUntil THEN appendNext ELSE Sleep
  /\ Quiet /\ UNCHANGED <<tries, stage, at, last, fadeFrom, lastRead, loaded, pruned, slot>>

(* loadRemaining without, and with, a buffer (loadBuffered).               *)
loadRemaining ==
  /\ pc = "loop" /\ plan.kind = "load"
  /\ IF moreParts THEN appendNext ELSE Finish("succeeded") /\ UNCHANGED <<cmd, until, ordered>>
  /\ Quiet /\ UNCHANGED <<tries, stage, at, last, fadeFrom, lastRead, loaded, pruned, slot>>
loadBuffered ==
  /\ pc = "loop" /\ plan.kind = "session"
  /\ IF ~moreParts THEN Finish("succeeded")
     ELSE ~cancelled /\ IF now >= plan.expires THEN Finish("expired") ELSE Goto("kid")
  /\ Quiet /\ UNCHANGED <<cmd, tries, stage, at, last, fadeFrom, until, lastRead, parts, slot>>

(* serviceBufferedSkip: the worker takes the child, at most once.          *)
serviceBufferedSkip ==
  /\ pc = "kid"
  /\ \/ /\ slot.st = "ready" /\ ~closed
        /\ \/ /\ ~cancelled /\ Begin("skip", 0, 0) /\ slot' = [slot EXCEPT !.st = "taken"]
           \/ slot' = Finishing("not_sent") /\ Ends(uncertain) /\ UNCHANGED cmd
     \/ /\ slot.st # "ready" \/ closed
        /\ Goto(IF plan.kind = "session" /\ due THEN "check" ELSE "step")
        /\ UNCHANGED <<cmd, slot>>
  /\ Quiet /\ UNCHANGED <<tries, stage, at, last, fadeFrom, until, lastRead, parts>>

(* updateBufferedProgress and the first half of bufferedStep.  The queue   *)
(* must be the ordered one.                                                *)
bufferedStep ==
  /\ pc = "step"
  /\ IF pending THEN Sleep
     ELSE /\ UNCHANGED <<cmd, ordered>>
          /\ IF ordered # resident THEN Ends(uncertain) /\ UNCHANGED until
             ELSE IF moreParts /\ now >= plan.expires THEN Finish("expired") /\ UNCHANGED until
             ELSE IF moreParts /\ now < appendUntil /\ ordered - known <= plan.threshold
             THEN Goto("prep") /\ UNCHANGED until
             ELSE Sleep
  /\ Quiet /\ UNCHANGED <<tries, stage, at, last, fadeFrom, lastRead, loaded, pruned, slot>>

(* Its second half, once the next part is prepared: prune, append or give  *)
(* up.  The position is the one from before the preparation.               *)
Excess == known - 1 - plan.retain
bufferedRefill ==
  /\ pc = "prep"
  /\ IF ordered + Part <= plan.max THEN appendNext
     ELSE IF Excess <= 0 \/ ordered - Excess + Part > plan.max
     THEN Finish("capacity") /\ UNCHANGED <<cmd, until, ordered>>
     ELSE Begin("remove", 0, Excess) /\ ordered' = ordered - Excess /\ UNCHANGED until
  /\ Quiet /\ UNCHANGED <<tries, stage, at, last, fadeFrom, lastRead, loaded, pruned, slot>>

(* The timer, a notification or a new child wakes the worker.              *)
Wakes ==
  /\ pc = "wait" /\ ~cancelled /\ (now >= until \/ pending \/ slot.st = "ready")
  /\ Goto("loop") /\ until' = 0
  /\ Quiet /\ UNCHANGED <<cmd, tries, stage, at, last, fadeFrom, lastRead, parts, slot>>

(* The outcome is stored, however long it takes; then the context ends and *)
(* no further skip is taken (closeBufferedSkips).                          *)
Persist ==
  /\ pc = "persist" /\ Goto("close") /\ cancelled' = TRUE
  /\ UNCHANGED <<clock, cmd, tries, stage, at, last, fadeFrom, until, lastRead, parts, player, view,
                 uncertain, unconfirmed, closed, stops, slot>>
closeBufferedSkips ==
  /\ pc = "close" /\ Goto("done") /\ closed' = TRUE
  /\ slot' = IF slot.st = "ready" THEN Finishing("not_sent") ELSE slot
  /\ UNCHANGED <<clock, cmd, tries, stage, at, last, fadeFrom, until, lastRead, parts, player, view,
                 cancelled, uncertain, unconfirmed, stops>>
-----------------------------------------------------------------------------
(* Buffered skips: submitBufferedSkip reserves the slot, stores the child, *)
(* and hands it to the worker or, too late, releases it unsent.            *)

Calls == UNCHANGED <<clock, worker, parts, player, view, flags>>

submitBufferedSkip ==
  /\ plan.buffered /\ loaded > 0 /\ slot.st = "none"
  /\ ~closed /\ ~cancelled /\ ~uncertain /\ ~unconfirmed
  /\ \E d \in {"next", "previous"} :
       admissible(d, known) /\ slot' = [NoChild EXCEPT !.st = "admitting", !.direction = d]
  /\ Calls
AdmitFails ==
  /\ slot.st = "admitting" /\ slot' = NoChild /\ Calls
AdmittedBlind ==
  slot.st = "admitting" /\ slot' = [slot EXCEPT !.st = "ready"] /\ Calls
Admitted ==
  /\ slot.st = "admitting"
  /\ slot' = IF closed \/ cancelled THEN Finishing("not_sent") ELSE [slot EXCEPT !.st = "ready"]
  /\ Calls

(* persistBufferedSkip: retried until the result is stored, or given up    *)
(* when the service stops.                                                 *)
persistBufferedSkip ==
  /\ slot.st = "finishing" /\ slot' = NoChild /\ Calls
-----------------------------------------------------------------------------
Write == Observe \/ Reuse \/ ObserveFails \/ Send \/ Stale \/ SendFails \/ Confirm \/ ConfirmFails
Loop == \/ startPlayback \/ LoopFails \/ automate \/ stopFade \/ checkOwnership \/ acted
        \/ loadRemaining \/ loadBuffered \/ serviceBufferedSkip \/ bufferedStep \/ bufferedRefill
        \/ Wakes
Exit == Persist \/ closeBufferedSkips
Worker == Write \/ Loop \/ Exit
Ended == pc = "done" /\ UNCHANGED vars

Next == \/ Tick \/ Moves \/ Notified \/ Cancel
        \/ Worker
        \/ submitBufferedSkip \/ AdmitFails \/ Admitted \/ persistBufferedSkip
        \/ Ended

(* The worker runs, time passes and journal calls return: their contexts   *)
(* have timeouts, and a stored result is retried until the service stops.  *)
Fairness == /\ WF_vars(Worker) /\ WF_vars(Tick)
            /\ WF_vars(AdmitFails \/ Admitted) /\ WF_vars(persistBufferedSkip)
Spec == Init /\ [][Next]_vars /\ Fairness
-----------------------------------------------------------------------------
(* The volume follows the envelope of automate, whatever delays happen: it *)
(* never passes the target, rises only by a level computed before the fade *)
(* window and falls afterwards, and nothing audible is sent at or after    *)
(* the end of the playback.                                                *)
EnvelopeShape ==
  [][vol' # vol /\ automating =>
       /\ vol' <= plan.target
       /\ vol' > 0 => now < plan.dur
       /\ IF at < plan.dur - plan.fade THEN vol' > vol ELSE vol' < vol]_vars

(* A playback that ends well was stopped exactly once, not before its time *)
(* and, if it fades, in silence; nothing is sent after the Stop.  The same *)
(* holds of the fade of a Stop.                                            *)
EndsStopped ==
  /\ stops > 0 => stops = 1 /\ pc \in {"sent", "persist", "close", "done"}
  /\ outcome \in {"succeeded", "incomplete"} /\ plan.kind \in {"automate", "fade"} =>
       /\ stops = 1 /\ now >= (IF plan.kind = "fade" THEN plan.fade ELSE plan.dur)
       /\ plan.fade > 0 => vol = 0

(* The queue is the one the worker has ordered whenever it decides, also   *)
(* after a part that was not sent in the end (appendNext, pruneBuffered    *)
(* undo their expectation); a buffered queue stays within its bound, and a *)
(* validated policy never meets errBufferedCapacity.                       *)
QueueBounded ==
  /\ pc \in {"loop", "acted", "kid", "step", "prep", "wait"} /\ loaded > 0 => ordered = resident
  /\ plan.buffered => resident <= plan.max /\ outcome # "capacity"

(* A removal takes neither the track that the last observation showed nor  *)
(* the retained ones before it, although tracks change while the next part *)
(* is prepared (removalAllowed, and the guard of the command); and the     *)
(* player has left that track only if the news of it is still on its way.  *)
RetainedKept ==
  [][resident' < resident => /\ known - (resident - resident') > plan.retain
                             /\ pos = known \/ wire]_vars

(* The result stored for a buffered skip is the truth: confirmed only if   *)
(* its command was confirmed, not sent or rejected only if the player      *)
(* cannot have carried it out, also when the reply was lost.               *)
SkipHonest ==
  slot.st = "finishing" =>
    /\ slot.delivery = "confirmed" => slot.done
    /\ slot.delivery \in {"not_sent", "rejected"} => ~slot.sent

(* Every loop ends: no chain of replanned commands, track changes,         *)
(* notifications or children, however long, keeps a playback from its end. *)
PlaybackEnds == <>(pc = "done")

(* Every skip that was submitted ends with a stored result, also when its  *)
(* admission overlaps the end of its owner (closeBufferedSkips).           *)
SkipsFinish == slot.st # "none" ~> slot.st = "none"
=============================================================================
