----------------------------- MODULE QueuePolicy -----------------------------
(***************************************************************************)
(* How a worker of internal/control judges what it observes of its player. *)
(*                                                                         *)
(* A view is what one observation says of a device: state, volume, muted,  *)
(* repeat, shuffle, the current media and the queue.  An entry of a queue  *)
(* is an occurrence: the id of its track (MID) and its place's id (QID).   *)
(* The operators compare two views or decide a rule table; they read       *)
(* nothing else and change nothing.  Queues are complete: the pages that   *)
(* completeQueue puts together are one sequence here.                      *)
(***************************************************************************)
LOCAL INSTANCE Integers
LOCAL INSTANCE Sequences
LOCAL INSTANCE FiniteSets

Controls == {"state", "volume", "muted", "repeat", "shuffle", "media", "queue"}
NoMedia == [id |-> "", qid |-> 0]

Writable(s) == s \in {"play", "pause", "stop"}
Playing(s) == s \in {"play", "pause"}

(* A command.  Only the fields of its kind matter.                         *)
Mutation == [kind |-> "none", level |-> 0, muted |-> FALSE, state |-> "stop", repeat |-> 0,
             shuffle |-> 0, ids |-> <<>>, n |-> 0, direction |-> "next"]
scalarMutation(m) == m.kind \in {"volume", "mute", "mode"}
-----------------------------------------------------------------------------
(* Identity of media and of queues.                                        *)

Entries(q) == {q[i] : i \in DOMAIN q}
Ids(q) == {q[i].id : i \in DOMAIN q}
DistinctQids(q) == \A i, j \in DOMAIN q : q[i].qid = q[j].qid => i = j

emptyMedia(media) == media = NoMedia
queuedMedia(q, media) == media \in Entries(q)
queuedIdentity(q, media) == media.id # "" /\ media.id \in Ids(q)

(* Both identifiers belong to the queue, to different entries.             *)
transitionalQueueMedia(q, media) ==
  /\ queuedIdentity(q, media)
  /\ \E e \in Entries(q) : e.qid = media.qid /\ e.id # media.id

completeOwnedQueue(q, members) == q # <<>> /\ Ids(q) \subseteq members /\ DistinctQids(q)
orderedQueue(q, ids) ==
  Len(q) = Len(ids) /\ DistinctQids(q) /\ \A i \in DOMAIN q : q[i].id = ids[i]

queueIndex(v) ==
  IF queuedMedia(v.queue, v.media)
  THEN CHOOSE i \in DOMAIN v.queue : v.queue[i] = v.media
  ELSE 0

(* A pending append shows the old queue or a growing exact suffix.         *)
appendQueueProblem(before, after, ids) ==
  \/ Len(after) < Len(before) \/ Len(after) > Len(ids) \/ ~DistinctQids(after)
  \/ \E i \in DOMAIN after : \/ after[i].id # ids[i]
                             \/ i \in DOMAIN before /\ after[i] # before[i]

(* How many entries of the front are gone, or -1.  The QIDs that remain    *)
(* may be new once anything was removed.                                   *)
removedQueuePrefix(before, after, maximum) ==
  LET removed == Len(before) - Len(after) IN
  IF /\ removed \in 0..maximum /\ DistinctQids(after)
     /\ \A i \in DOMAIN after : /\ after[i].id = before[i + removed].id
                                /\ removed = 0 => after[i].qid = before[i].qid
  THEN removed ELSE -1
-----------------------------------------------------------------------------
(* Differences between what was expected and what was observed.            *)

stateChanges(a, b) == {f \in Controls : a[f] # b[f]}

(* Within an owned queue the current entry may move.                       *)
ownedChanges(owned, a, b) ==
  LET moved == /\ owned /\ a.state = b.state
               /\ \/ b.state = "play" /\ queuedMedia(a.queue, b.media)
                  \/ b.state = "stop" /\ (emptyMedia(b.media) \/ queuedMedia(a.queue, b.media))
  IN stateChanges(a, b) \ (IF moved THEN {"media"} ELSE {})

transitionChanges(a, b) ==
  LET settling == \/ emptyMedia(b.media) \/ queuedMedia(a.queue, b.media)
                  \/ b.state # "play" /\ queuedIdentity(a.queue, b.media)
                  \/ transitionalQueueMedia(a.queue, b.media)
  IN IF b.state = "pause" THEN {"state"}
     ELSE stateChanges(a, b) \ ({"state"} \cup (IF settling THEN {"media"} ELSE {}))

queueLoadingControls(a, b) == stateChanges(a, b) \ {"state", "media", "queue"}
queueLoadingMedia(a, b, members) ==
  emptyMedia(b.media) \/ b.media.id = a.media.id \/ b.media.id \in members
queueLoadingItems(a, b, members) == Ids(b.queue) \subseteq Ids(a.queue) \cup members

stoppedReadback(a, b) ==
  IF b.state \notin {"unknown", "stop"} THEN a
  ELSE [a EXCEPT !.state = b.state,
                 !.media = IF emptyMedia(b.media) \/ queuedMedia(a.queue, b.media)
                           THEN b.media ELSE @]

transportMediaReadback(a, b, target, pending) ==
  CASE target = "stop" -> stoppedReadback(a, b)
    [] /\ target = "play"
       /\ \/ queuedMedia(a.queue, b.media)
          \/ /\ pending /\ b.state # "play"
             /\ emptyMedia(b.media) \/ queuedIdentity(a.queue, b.media)
       -> [a EXCEPT !.media = b.media]
    [] OTHER -> a

(* What a readback may not show while a transport or a skip is pending.    *)
pendingChanges(a, b, m) ==
  CASE m.kind = "transport" ->
         stateChanges(transportMediaReadback(
           [a EXCEPT !.state = IF b.state = "unknown" THEN b.state ELSE @], b, m.state, TRUE), b)
    [] m.kind = "skip" ->
         stateChanges(a, b) \ ({"state"} \cup
           (IF \/ emptyMedia(b.media) \/ queuedMedia(a.queue, b.media)
               \/ transitionalQueueMedia(a.queue, b.media) THEN {"media"} ELSE {}))
    [] OTHER -> stateChanges(a, b)

atSkipBoundary(direction, v) ==
  /\ v.repeat = 0
  /\ \/ Len(v.queue) = 1
     \/ /\ v.shuffle = 0 /\ queueIndex(v) # 0
        /\ queueIndex(v) = IF direction = "next" THEN Len(v.queue) ELSE 1
skipAdmissible(direction, v) ==
  /\ Playing(v.state) /\ v.queue # <<>> /\ queuedMedia(v.queue, v.media)
  /\ ~atSkipBoundary(direction, v)
skipConfirmed(a, b) ==
  /\ Playing(b.state) /\ b.media.qid # a.media.qid /\ queuedMedia(a.queue, b.media)
  /\ stateChanges(a, b) \subseteq {"state", "media"}
-----------------------------------------------------------------------------
(* The rule tables: the first rule that applies decides.                   *)

(* decideQueueEvent: a state or now-playing notification while the queue   *)
(* is owned.  waiting: a transition is being waited for already.           *)
decideQueueEvent(kind, state, owned, automating, expected, waiting) ==
  LET play == kind = "state" /\ state = "play"
      transition == kind = "state" /\ automating /\ state \in {"stop", "unknown"}
      D(action, notify) == [action |-> action, notify |-> notify]
  IN CASE ~owned -> D("pass", FALSE)
       [] owned /\ kind = "media" -> D("observe", TRUE)
       [] owned /\ play /\ expected # "play" -> D("pass", waiting)
       [] owned /\ play /\ expected = "play" -> IF waiting THEN D("observe", TRUE)
                                                ELSE D("ignore", FALSE)
       [] owned /\ transition -> IF waiting THEN D("ignore", FALSE) ELSE D("wait", TRUE)
       [] OTHER -> D("pass", FALSE)

(* Mutant: a notification that came during the read is ignored.            *)
playReadBack(a, b, hint) == b.state = "play" /\ queuedMedia(a.queue, b.media)

playConfirmed(a, b, hint) == b.state = "play" /\ queuedMedia(a.queue, b.media) /\ ~hint

(* decideQueueObservation.  expired: the wait has reached its deadline.    *)
decideQueueObservation(owned, automating, waiting, a, b, expired, cancelled, unsafe, hint) ==
  LET active == owned /\ automating /\ a.state = "play"
      pending == \/ b.state \in {"stop", "unknown"}
                 \/ b.state = "play" /\ transitionalQueueMedia(a.queue, b.media)
      waits == waiting \/ (active /\ pending)
      D(action) == [action |-> action, waiting |-> waits /\ action # "resume"]
  IN IF ~active \/ ~waits THEN D("pass")
     ELSE IF expired \/ cancelled \/ unsafe \/ transitionChanges(a, b) # {} THEN D("release")
     ELSE IF playConfirmed(a, b, hint) THEN D("resume")
     ELSE D("wait")

queueStatePending(before, after, started) ==
  \/ after \in {"play", "unknown"}
  \/ ~started /\ after = "stop" /\ before \in {"stop", "pause"}
  \/ ~started /\ after = "pause" /\ before = "pause"

(* Mutant: only the current entry is compared with the selection.          *)
mediaResultProblem(v, members, bounded) ==
  CASE v.media.id \notin members \/ v.media.qid = 0 -> "queue_media_not_selected"
    [] bounded /\ ~completeOwnedQueue(v.queue, members) -> "queue_incomplete_or_invalid"
    [] bounded /\ ~queuedMedia(v.queue, v.media) -> "queue_media_not_found"
    [] OTHER -> ""

(* "" stands for no problem.                                               *)
queueResultProblem(v, members, bounded) ==
  CASE v.media.id \notin members \/ v.media.qid = 0 -> "queue_media_not_selected"
    [] ~(Ids(v.queue) \subseteq members) -> "queue_contains_unselected_media"
    [] bounded /\ ~completeOwnedQueue(v.queue, members) -> "queue_incomplete_or_invalid"
    [] bounded /\ ~queuedMedia(v.queue, v.media) -> "queue_media_not_found"
    [] OTHER -> ""

(* decideQueueStart.  phase: "no", "awaiting" play, or play "observed".    *)
decideQueueStart(phase, a, b, bounded, members, expired, cancelled, unsafe, hint) ==
  LET allowed == queueLoadingMedia(a, b, members)
      unresolved == /\ phase = "awaiting" /\ b.state = "unknown" /\ ~emptyMedia(b.media)
                    /\ ~allowed /\ completeOwnedQueue(b.queue, members)
  IN IF \/ phase = "no" \/ expired \/ cancelled \/ unsafe
        \/ queueLoadingControls(a, b) # {}
        \/ ~queueStatePending(a.state, b.state, phase = "observed")
        \/ ~queueLoadingItems(a, b, members)
        \/ ~allowed /\ ~unresolved
     THEN "abort"
     ELSE IF b.state = "play" /\ queueResultProblem(b, members, bounded) = "" /\ ~hint
     THEN "confirm" ELSE "wait"
=============================================================================
