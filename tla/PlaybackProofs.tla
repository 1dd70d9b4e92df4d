---------------------------- MODULE PlaybackProofs ----------------------------
(***************************************************************************)
(* The safety properties of the playback loops, for every admitted plan:   *)
(* any envelope, any division of the queue into parts, any buffering       *)
(* policy that validates.                                                  *)
(*                                                                         *)
(* The properties speak of the player and of results.  The invariant adds  *)
(* what the worker knows in the middle of a command: what the player's     *)
(* queue was before it (QueueInv), what a prepared part and a removal were *)
(* checked against (BufferInv), where the volume stands in the envelope    *)
(* (EnvelopeInv), and that the Stop of a playback is the last command      *)
(* (StopInv).                                                              *)
(***************************************************************************)
EXTENDS Playback, TLAPS

(* Leaves are left to Zenon; those that need arithmetic name SMT.          *)
USE ZenonT(40)

Busy == {"pre", "send", "sent"}
Rounds == {"loop", "check", "acted", "kid", "step", "prep", "wait"}
Over == {"persist", "close", "done"}
Starting == {"stop", "volume", "mode", "mute", "queue"}
CmdKinds == {"none", "transport", "volume", "mode", "mute", "queue", "append", "remove", "skip"}
RunKinds == {"volume", "transport", "append", "remove", "skip"}
Cmds == [kind : CmdKinds, level : Nat, n : Nat]
Children == [st : {"none", "admitting", "ready", "taken", "finishing"},
             direction : {"next", "previous"}, sent : BOOLEAN, done : BOOLEAN,
             delivery : {"", "unknown", "confirmed", "rejected", "not_sent"}]
Volumed == plan.kind \in {"automate", "fade"}

Types ==
  /\ plan \in Plans /\ now \in Nat /\ at \in Nat /\ loaded \in Nat /\ stops \in Nat
  /\ pc \in {"start"} \cup Busy \cup Rounds \cup Over
  /\ stage \in Starting \cup {"run"}
  /\ cmd \in Cmds /\ slot \in Children
  /\ last \in Nat /\ vol \in Nat /\ fadeFrom \in Nat \cup {-1}
  /\ ordered \in Int /\ resident \in Int /\ pos \in Int /\ known \in Int
  /\ pending \in BOOLEAN /\ cancelled \in BOOLEAN /\ uncertain \in BOOLEAN

(* Which commands each part of the worker makes.                           *)
CommandInv ==
  /\ pc \notin Busy => cmd = NoCmd
  /\ pc = "start" => stage # "run"
  /\ pc \in Rounds => stage = "run"
  /\ pc \in Busy => IF stage = "run" THEN cmd.kind \in RunKinds
                    ELSE /\ cmd.kind = (IF stage = "stop" THEN "transport" ELSE stage)
                         /\ cmd.level = plan.level
  /\ (pc = "acted" \/ (stage = "run" /\ cmd.kind \in {"volume", "transport"})) => Volumed

(* The parts that were loaded, and what a refill was decided on.           *)
BufferInv ==
  /\ stage # "run" => loaded = 0 /\ ordered = plan.parts[1]
  /\ plan.kind = "fade" => loaded = 0 /\ stage = "run"
  /\ (stage = "run" /\ plan.kind # "fade") => loaded >= 1
  /\ pc \in {"kid", "step", "prep"} \/ (pc = "check" /\ ~automating) => plan.buffered
  /\ pc = "prep" => moreParts /\ ordered - known <= plan.threshold
  /\ cmd.kind = "append" => moreParts
  /\ cmd.kind \in {"append", "remove"} => plan.kind # "fade"
  /\ (cmd.kind = "remove" /\ pc = "send") =>
       known - cmd.n > plan.retain /\ (pos = known \/ pending \/ wire)

(* The player's queue is the expected one; while a command that changes it *)
(* is being prepared, the one from before.                                 *)
QueueInv ==
  /\ (stage # "run" /\ pc \notin Over) =>
       resident = IF pc = "sent" /\ cmd.kind = "queue" THEN ordered ELSE 0
  /\ (loaded > 0 /\ pc \notin Over) =>
       resident = IF pc \in {"pre", "send"} THEN Restore(FALSE) ELSE ordered
  /\ plan.buffered => /\ resident <= plan.max /\ ordered <= plan.max
                      /\ ordered + cmd.n <= plan.max
                      /\ outcome # "capacity"

(* A child is unsent until the worker sends it, and stays the worker's.    *)
SkipInv ==
  /\ slot.st \in {"none", "admitting", "ready"} => ~slot.sent
  /\ cmd.kind = "skip" => slot.st = "taken" /\ (pc # "sent" => ~slot.sent)
  /\ SkipHonest

(* The Stop of a playback: in time, in silence, once.                      *)
StopInv ==
  /\ at <= now
  /\ pc \notin Over => vol = IF pc = "sent" /\ cmd.kind = "volume" THEN cmd.level ELSE last
  /\ (over /\ plan.fade > 0 /\ stage = "run") =>
        /\ pc = "acted" => last = 0
        /\ cmd.kind = "volume" => cmd.level = 0
  /\ (cmd.kind = "transport" /\ stage = "run") =>
        over /\ (plan.fade > 0 => last = 0) /\ (pc = "sent" => stops = 1)
  /\ outcome # "" => pc \in Over
  /\ stops > 0 => /\ stops = 1 /\ pc \in {"sent"} \cup Over
                  /\ pc = "sent" => (cmd.kind = "transport" /\ stage = "run")
  /\ (outcome \in {"succeeded", "incomplete"} /\ Volumed) =>
        /\ stops = 1 /\ now >= (IF plan.kind = "fade" THEN plan.fade ELSE plan.dur)
        /\ plan.fade > 0 => vol = 0

(* The levels at time n of the ramp, and of the fade that began at f.      *)
Ramp(n) == IF n < plan.ramp THEN plan.level + (n * (plan.target - plan.level)) \div plan.ramp
           ELSE plan.target
Fall(f, n) == f - ((n - (plan.dur - plan.fade)) * f) \div plan.fade
Opening == at < plan.dur - plan.fade

(* The volume has not passed the envelope at the time of the round.        *)
EnvelopeInv == plan.kind = "automate" =>
  /\ last <= plan.target /\ fadeFrom <= plan.target
  /\ stage # "run" => ~(fadeFrom >= 0)
  /\ fadeFrom >= 0 => ~Opening /\ plan.fade > 0
  /\ Opening => last <= Ramp(at)
  /\ (fadeFrom >= 0 /\ at < plan.dur) => last >= Fall(fadeFrom, at)
  /\ (cmd.kind = "volume" /\ stage = "run") =>
       /\ Opening => cmd.level = Ramp(at) /\ cmd.level > last
       /\ ~Opening => plan.fade > 0 /\ cmd.level < last
       /\ (~Opening /\ at < plan.dur) => fadeFrom >= 0 /\ cmd.level = Fall(fadeFrom, at)
       /\ at >= plan.dur => cmd.level = 0

Inv == Types /\ CommandInv /\ BufferInv /\ QueueInv /\ SkipInv /\ StopInv /\ EnvelopeInv
-----------------------------------------------------------------------------
(* Arithmetic of the envelope.                                             *)

(* A rounded share of d is between nothing and d.                          *)
LEMMA DivBound ==
  ASSUME NEW a \in Nat, NEW d \in Nat, NEW r \in Nat \ {0}, a <= r
  PROVE  (a * d) \div r \in 0..d
<1>1. a * d \in Nat /\ a * d <= r * d
  BY SMTT(30)
<1> DEFINE q == (a * d) \div r
<1>2. q \in Nat /\ r * q <= a * d
  BY <1>1, SMTT(30)
<1>3. q <= d
  <2> HIDE DEF q
  <2> SUFFICES ASSUME q >= d + 1 PROVE FALSE
    BY <1>2, SMTT(30)
  <2>1. r * q >= r * (d + 1)
    BY <1>2, SMTT(30)
  <2> QED
    BY <1>1, <1>2, <2>1, SMTT(30)
<1> QED
  BY <1>2, <1>3, SMTT(30)

(* A larger share of d is not rounded to less.                             *)
LEMMA DivMonotone ==
  ASSUME NEW a \in Nat, NEW b \in Nat, NEW d \in Nat, NEW r \in Nat \ {0}, a <= b
  PROVE  (a * d) \div r <= (b * d) \div r
<1>1. a * d \in Nat /\ b * d \in Nat /\ a * d <= b * d
  BY SMTT(30)
<1> DEFINE p == (a * d) \div r
           q == (b * d) \div r
<1>2. p \in Nat /\ q \in Nat /\ r * p <= a * d /\ b * d < r * q + r
  BY <1>1, SMTT(30)
<1>3. p <= q
  <2> HIDE DEF p, q
  <2> SUFFICES ASSUME p >= q + 1 PROVE FALSE
    BY <1>2, SMTT(30)
  <2>1. r * p >= r * (q + 1)
    BY <1>2, SMTT(30)
  <2> QED
    BY <1>1, <1>2, <2>1, SMTT(30)
<1> QED
  BY <1>3
-----------------------------------------------------------------------------
(* Records.                                                                *)

(* What every admitted plan satisfies.                                     *)
LEMMA PlanFacts ==
  ASSUME plan \in Plans
  PROVE  /\ plan.budget \in Nat /\ plan.level \in Nat /\ plan.target \in Nat /\ plan.ramp \in Nat
         /\ plan.dur \in Nat /\ plan.fade \in Nat /\ plan.threshold \in Nat /\ plan.max \in Nat
         /\ plan.retain \in Nat /\ plan.expires \in Nat
         /\ plan.kind \in {"automate", "load", "session", "fade"}
         /\ plan.parts \in Seq(Nat \ {0}) /\ plan.parts # <<>>
         /\ plan.buffered => plan.kind \in {"automate", "session"}
         /\ plan.kind = "session" => plan.buffered
BY PlaybackAssumption

(* What validate requires of an envelope.                                  *)
LEMMA EnvelopeFacts ==
  ASSUME plan \in Plans, plan.kind = "automate"
  PROVE  /\ plan.level <= plan.target /\ plan.dur >= 1 /\ plan.fade < plan.dur
         /\ plan.ramp <= plan.dur - plan.fade
<1>1. validateAutomation(plan)
  BY PlaybackAssumption
<1> QED
  BY <1>1, PlanFacts, SMTT(30) DEF validateAutomation

(* A part of a buffered queue leaves room for what is kept around it.      *)
LEMMA PartFacts ==
  ASSUME plan \in Plans
  PROVE  \A i \in 1..Len(plan.parts) :
           /\ plan.parts[i] \in Nat \ {0}
           /\ plan.buffered => plan.parts[i] + plan.threshold + plan.retain + 1 <= plan.max
<1> SUFFICES ASSUME NEW i \in 1..Len(plan.parts)
             PROVE  /\ plan.parts[i] \in Nat \ {0}
                    /\ plan.buffered => plan.parts[i] + plan.threshold + plan.retain + 1 <= plan.max
  OBVIOUS
<1>1. plan.parts[i] \in Nat \ {0} /\ i \in DOMAIN plan.parts
  BY PlanFacts, SMTT(30)
<1>2. ASSUME plan.buffered
      PROVE  plan.parts[i] + plan.threshold + plan.retain + 1 <= plan.max
  <2>1. validateBuffered(plan)
    BY <1>2, PlaybackAssumption
  <2>2. plan.parts[i] \in 1..(plan.max - plan.threshold - plan.retain - 1)
    BY <1>1, <2>1 DEF validateBuffered
  <2> QED
    BY <1>1, <2>2, PlanFacts, SMTT(30)
<1> QED
  BY <1>1, <1>2

(* The fields of a command.                                                *)
LEMMA CmdFacts ==
  /\ \A c \in Cmds : c.kind \in CmdKinds /\ c.level \in Nat /\ c.n \in Nat
  /\ \A k \in CmdKinds, l \in Nat, m \in Nat :
       LET c == [kind |-> k, level |-> l, n |-> m]
       IN  c \in Cmds /\ c.kind = k /\ c.level = l /\ c.n = m
  /\ NoCmd \in Cmds /\ NoCmd.kind = "none" /\ NoCmd.level = 0 /\ NoCmd.n = 0
BY SMTT(30) DEF Cmds, CmdKinds, NoCmd

(* The fields of a child as it is submitted, admitted, taken and sent.     *)
LEMMA ChildFacts ==
  /\ NoChild \in Children /\ NoChild.st = "none" /\ ~NoChild.sent
  /\ \A d \in {"next", "previous"} :
       LET c == [NoChild EXCEPT !.st = "admitting", !.direction = d]
       IN  c \in Children /\ c.st = "admitting" /\ ~c.sent
  /\ \A c \in Children : \A st \in {"ready", "taken"} :
       LET e == [c EXCEPT !.st = st]
       IN  e \in Children /\ e.st = st /\ e.sent = c.sent
  /\ \A c \in Children : \A b \in BOOLEAN :
       LET e == [c EXCEPT !.sent = b]
       IN  e \in Children /\ e.st = c.st /\ e.sent = b /\ e.done = c.done /\ e.delivery = c.delivery
BY DEF Children, NoChild

(* Marking a child as sent changes nothing else of it.                     *)
LEMMA SentFacts ==
  ASSUME NEW b \in BOOLEAN, slot \in Children, slot' = [slot EXCEPT !.sent = b]
  PROVE  /\ slot'.st = slot.st /\ slot'.sent = b
         /\ slot'.done = slot.done /\ slot'.delivery = slot.delivery
<1>1. slot'.st = slot.st /\ slot'.delivery = slot.delivery
  BY DEF Children
<1>2. slot'.sent = b
  BY DEF Children
<1>3. slot'.done = slot.done
  BY DEF Children
<1> QED
  BY <1>1, <1>2, <1>3

(* The fields of a child whose result is being stored.                     *)
LEMMA FinishingFacts ==
  ASSUME slot \in Children, NEW d \in {"unknown", "confirmed", "rejected", "not_sent"}
  PROVE  /\ Finishing(d) \in Children /\ Finishing(d).st = "finishing"
         /\ Finishing(d).delivery = d /\ Finishing(d).sent = slot.sent
BY DEF Children, Finishing

(* The fields of a child whose command returned.                           *)
LEMMA ReturnedFacts ==
  ASSUME slot \in Children, NEW d \in {"unknown", "confirmed", "rejected", "not_sent"},
         NEW done \in BOOLEAN, NEW lost \in BOOLEAN,
         slot' = [Finishing(d) EXCEPT !.done = done, !.sent = @ \/ lost]
  PROVE  /\ slot' \in Children /\ slot'.st = "finishing" /\ slot'.delivery = d
         /\ slot'.sent <=> (slot.sent \/ lost)
         /\ slot'.done = done
<1>1. PICK b \in BOOLEAN : b <=> (Finishing(d).sent \/ lost)
  OBVIOUS
<1>2. PICK c \in Children : c = Finishing(d)
  BY FinishingFacts
<1>3. slot' = [c EXCEPT !.done = done, !.sent = b]
  BY <1>1, <1>2
<1>4. slot' \in Children /\ slot'.st = c.st /\ slot'.delivery = c.delivery
  BY <1>3 DEF Children
<1>5. slot'.sent = b /\ slot'.done = done
  BY <1>3 DEF Children
<1> QED
  BY <1>1, <1>2, <1>4, <1>5, FinishingFacts
-----------------------------------------------------------------------------
(* Where the result of a command leads.                                    *)

Returns(result) ==
  \/ /\ stage # "run" /\ result = "ok" /\ stage' = NextStage[stage]
     /\ pc' = (IF stage = "queue" THEN "loop" ELSE "start") /\ outcome' = outcome
  \/ /\ stage = "run" /\ stage' = "run" /\ result = "ok" /\ cmd.kind = "volume"
     /\ pc' = "acted" /\ outcome' = outcome
  \/ /\ stage = "run" /\ stage' = "run" /\ result = "ok" /\ cmd.kind = "transport"
     /\ pc' = "persist" /\ outcome' \in {"succeeded", "incomplete"}
  \/ /\ stage = "run" /\ stage' = "run" /\ pc' = "loop" /\ outcome' = outcome
     /\ \/ result = "ok" /\ cmd.kind \in {"skip", "append", "remove"}
        \/ result \in {"timeline", "not_skippable"}
  \/ /\ result # "ok" /\ stage' = stage /\ pc' = "persist"
     /\ outcome' \in {"uncertain", "failed"}

(* A returned command leads to one of these places.                        *)
LEMMA ReturnSteps ==
  ASSUME CommandInv, pc \in Busy, NEW result, NEW done, NEW doubt, Return(result, done, doubt)
  PROVE  Returns(result)
<1> DEFINE k == cmd.kind
           ok == result = "ok"
           again == result = "timeline" /\ plan.kind # "load"
<1>k. stage = "run" => k \in {"volume", "transport", "append", "remove", "skip"}
  BY DEF CommandInv, RunKinds
<1>s. stage' = IF ok /\ stage # "run" THEN NextStage[stage] ELSE stage
  BY DEF Return
<1>c. (CASE stage # "run" /\ ok -> Goto(IF stage = "queue" THEN "loop" ELSE "start")
        [] stage = "run" /\ k = "volume" /\ ok -> Goto("acted")
        [] stage = "run" /\ k = "transport" /\ ok ->
             Finish(IF plan.kind = "automate" /\ moreParts /\ ~plan.buffered THEN "incomplete"
                    ELSE "succeeded")
        [] stage = "run" /\ k \in {"skip", "append", "remove"} /\ ok -> Goto("loop")
        [] stage = "run" /\ (again \/ result = "not_skippable") -> Goto("loop")
        [] OTHER -> Ends(doubt))
  BY DEF Return
<1> HIDE DEF k
<1>1. CASE stage # "run" /\ ok
  <2>1. Goto(IF stage = "queue" THEN "loop" ELSE "start")
    BY <1>1, <1>c
  <2> QED
    BY <1>1, <1>s, <2>1 DEF Goto, Returns
<1>2. CASE stage = "run" /\ k = "volume" /\ ok
  <2>1. Goto("acted")
    BY <1>2, <1>c
  <2> QED
    BY <1>2, <1>s, <2>1 DEF Goto, Returns, k
<1>3. CASE stage = "run" /\ k = "transport" /\ ok
  <2>1. Finish(IF plan.kind = "automate" /\ moreParts /\ ~plan.buffered THEN "incomplete"
               ELSE "succeeded")
    BY <1>3, <1>c
  <2> QED
    BY <1>3, <1>s, <2>1 DEF Finish, Returns, k
<1>4. CASE stage = "run" /\ k \in {"skip", "append", "remove"} /\ ok
  <2>1. Goto("loop")
    BY <1>4, <1>c
  <2> QED
    BY <1>4, <1>s, <2>1 DEF Goto, Returns, k
<1>5. CASE stage = "run" /\ (again \/ result = "not_skippable")
  <2>1. Goto("loop")
    BY <1>5, <1>c
  <2> QED
    BY <1>5, <1>s, <2>1 DEF Goto, Returns
<1>6. CASE ~ok /\ ~(stage = "run" /\ (again \/ result = "not_skippable"))
  <2>1. Ends(doubt)
    BY <1>6, <1>c
  <2> QED
    BY <1>6, <1>s, <2>1 DEF Ends, Finish, Returns
<1> QED
  BY <1>1, <1>2, <1>3, <1>4, <1>5, <1>6, <1>k DEF k

(* A command that ends: nothing is confirmed that was not sent, a command  *)
(* is tried again only if it was not, and only a lost one had an effect.   *)
Results == {"ok", "timeline", "not_skippable", "error", "rejected", "journal", "lost", "cancelled"}
Sendable == pc = "send" /\ ~pending /\ ~cancelled /\ now < SendBefore
CommandEnds(result, done, doubt) ==
  /\ pc \in Busy /\ Return(result, done, doubt)
  /\ result = "ok" => pc = "sent" /\ done
  /\ result \in {"timeline", "not_skippable"} => pc \in {"pre", "send"}
  /\ \/ UNCHANGED <<vol, resident, pos, stops>>
     \/ result = "lost" /\ Sendable /\ Effect
  /\ (~doubt /\ ~done) => pc # "sent" /\ result # "lost"
  /\ known' \in {known, pos} /\ pending' \in BOOLEAN /\ uncertain' \in BOOLEAN
  /\ UNCHANGED <<now, plan, at, fadeFrom, cancelled, closed>>

(* Every step of write that does not go on ends the command.               *)
LEMMA CommandEnding ==
  ASSUME Types, \/ Observe /\ pc' # "send"
                \/ ObserveFails \/ SendFails \/ Confirm \/ ConfirmFails
  PROVE  \E result \in Results, done, doubt \in BOOLEAN : CommandEnds(result, done, doubt)
<1> USE DEF clock, player, view, Busy, Results
<1>t. pending \in BOOLEAN /\ uncertain \in BOOLEAN /\ cancelled \in BOOLEAN
  BY DEF Types
<1>1. CASE Observe /\ pc' # "send"
  <2>1. Return("timeline", FALSE, uncertain) \/ Return("not_skippable", FALSE, uncertain)
    BY <1>1 DEF Observe, Goto
  <2>2. /\ UNCHANGED <<vol, resident, pos, stops, now, plan, at, fadeFrom, cancelled, closed, uncertain>>
        /\ known' \in {known, pos} /\ pending' = FALSE /\ pc = "pre"
    BY <1>1 DEF Observe
  <2>3. CommandEnds("timeline", FALSE, uncertain) \/ CommandEnds("not_skippable", FALSE, uncertain)
    BY <1>t, <2>1, <2>2 DEF CommandEnds
  <2> QED
    BY <1>t, <2>3
<1>2. CASE ObserveFails
  <2>1. CommandEnds("error", FALSE, uncertain)
    BY <1>t, <1>2 DEF ObserveFails, CommandEnds
  <2> QED
    BY <1>t, <2>1
<1>3. CASE SendFails
  <2>1. PICK result \in {"error", "timeline", "rejected", "journal", "lost"} :
          /\ result \in {"rejected", "lost"} => ~pending /\ ~cancelled /\ now < SendBefore
          /\ uncertain' = (uncertain \/ result \in {"journal", "lost"})
          /\ (result = "lost" /\ Effect) \/ UNCHANGED <<player, stops>>
          /\ Return(result, FALSE, uncertain \/ result \in {"journal", "lost"})
    BY <1>3 DEF SendFails
  <2>2. /\ UNCHANGED <<now, plan, at, fadeFrom, cancelled, closed, known, pending>>
        /\ pc = "send"
    BY <1>3 DEF SendFails
  <2>3. CommandEnds(result, FALSE, uncertain \/ result \in {"journal", "lost"})
    BY <1>t, <2>1, <2>2 DEF CommandEnds, Sendable
  <2> QED
    BY <1>t, <2>3
<1>4. CASE Confirm
  <2>1. PICK result \in {"ok", "cancelled"} : Return(result, TRUE, uncertain)
    BY <1>4 DEF Confirm
  <2>2. /\ UNCHANGED <<vol, resident, pos, stops, now, plan, at, fadeFrom, cancelled, closed, uncertain>>
        /\ known' \in {known, pos} /\ pending' \in {pending, FALSE} /\ pc = "sent"
    BY <1>4 DEF Confirm
  <2>3. CommandEnds(result, TRUE, uncertain)
    BY <1>t, <2>1, <2>2 DEF CommandEnds
  <2> QED
    BY <1>t, <2>3
<1>5. CASE ConfirmFails
  <2>1. CommandEnds("error", FALSE, TRUE)
    BY <1>t, <1>5 DEF ConfirmFails, CommandEnds
  <2> QED
    BY <2>1
<1> QED
  BY <1>1, <1>2, <1>3, <1>4, <1>5
-----------------------------------------------------------------------------
(* Types.                                                                  *)

(* The next part, if there is one.                                         *)
LEMMA PartType ==
  ASSUME Types, moreParts
  PROVE  /\ Part \in Nat \ {0}
         /\ plan.buffered => Part + plan.threshold + plan.retain + 1 <= plan.max
<1>1. Len(plan.parts) \in Nat
  BY PlanFacts, SMTT(30) DEF Types
<1>2. loaded + 1 \in 1..Len(plan.parts)
  BY <1>1, SMTT(30) DEF Types, moreParts
<1> QED
  BY <1>2, PartFacts DEF Types, Part

(* The restored expectation is a length.                                   *)
LEMMA RestoreType ==
  ASSUME Types, BufferInv, NEW ok \in BOOLEAN
  PROVE  Restore(ok) \in Int
<1>1. cmd.n \in Nat /\ ordered \in Int
  BY CmdFacts DEF Types
<1>2. CASE cmd.kind = "append"
  <2>1. Part \in Nat
    BY <1>2, PartType DEF BufferInv
  <2> QED
    BY <1>1, <1>2, <2>1, SMTT(30) DEF Restore
<1>3. CASE cmd.kind # "append"
  BY <1>1, <1>3, SMTT(30) DEF Restore
<1> QED
  BY <1>2, <1>3

(* An effect keeps the types of the player.                                *)
LEMMA EffectTypes ==
  ASSUME Types, Effect
  PROVE  vol' \in Nat /\ resident' \in Int /\ pos' \in Int /\ stops' \in Nat
<1>1. cmd.level \in Nat /\ cmd.n \in Nat
  BY CmdFacts DEF Types
<1>2. vol \in Nat /\ resident \in Int /\ pos \in Int /\ stops \in Nat /\ ordered \in Int
  BY DEF Types
<1> QED
  BY <1>1, <1>2, SMTT(30) DEF Effect

(* The end of a command keeps the types.                                   *)
LEMMA EndTypes ==
  ASSUME Types, CommandInv, BufferInv, NEW result, NEW done \in BOOLEAN, NEW doubt \in BOOLEAN,
         CommandEnds(result, done, doubt)
  PROVE  Types'
<1>r. Return(result, done, doubt) /\ pc \in Busy
  BY DEF CommandEnds
<1>1. /\ plan' \in Plans /\ now' \in Nat /\ at' \in Nat /\ fadeFrom' \in Nat \cup {-1}
      /\ known' \in Int /\ pending' \in BOOLEAN /\ cancelled' \in BOOLEAN /\ uncertain' \in BOOLEAN
  BY DEF CommandEnds, Types
<1>2. vol' \in Nat /\ resident' \in Int /\ pos' \in Int /\ stops' \in Nat
  BY EffectTypes DEF CommandEnds, Types
<1>3. pc' \in {"start"} \cup Busy \cup Rounds \cup Over /\ stage' \in Starting \cup {"run"}
  <2>1. Returns(result)
    BY <1>r, ReturnSteps
  <2>2. \A st \in Starting : NextStage[st] \in Starting \cup {"run"}
    BY SMTT(30) DEF Starting, NextStage
  <2> QED
    BY <2>1, <2>2 DEF Returns, Rounds, Over, Types
<1>4. cmd' \in Cmds /\ last' \in Nat
  BY <1>r, CmdFacts DEF Return, Types
<1>5. ordered' \in Int
  BY <1>r, RestoreType DEF Return
<1>6. loaded' \in Nat
  <2>1. loaded' \in {loaded, loaded + 1}
    BY <1>r DEF Return
  <2> QED
    BY <2>1, SMTT(30) DEF Types
<1>7. slot' \in Children
  <2>1. SkipDelivery(result, done, doubt) \in {"unknown", "confirmed", "rejected", "not_sent"}
    BY DEF SkipDelivery
  <2>2. slot \in Children
    BY DEF Types
  <2>3. PICK d \in {"unknown", "confirmed", "rejected", "not_sent"} : d = SkipDelivery(result, done, doubt)
    BY <2>1
  <2>4. PICK lost \in BOOLEAN : lost <=> result = "lost"
    OBVIOUS
  <2>5. slot' = slot \/ slot' = [Finishing(d) EXCEPT !.done = done, !.sent = @ \/ lost]
    BY <1>r, <2>3, <2>4 DEF Return
  <2> QED
    BY <2>2, <2>5, ReturnedFacts
<1> QED
  BY <1>1, <1>2, <1>3, <1>4, <1>5, <1>6, <1>7 DEF Types

(* A command that begins is the one asked for.                             *)
LEMMA BeginCmd ==
  ASSUME NEW k \in CmdKinds, NEW l \in Nat, NEW m \in Nat, Begin(k, l, m)
  PROVE  /\ pc' = "pre" /\ outcome' = outcome /\ cmd' \in Cmds
         /\ cmd'.kind = k /\ cmd'.level = l /\ cmd'.n = m
BY CmdFacts DEF Begin, Goto

(* A volume is never computed below zero.                                  *)
LEMMA LevelType ==
  ASSUME Types, plan.kind = "automate"
  PROVE  Level \in Nat /\ FadeBase \in Nat
<1>1. /\ now \in Nat /\ last \in Nat /\ fadeFrom \in Nat \cup {-1}
      /\ plan.dur \in Nat /\ plan.fade \in Nat /\ plan.ramp \in Nat /\ plan.target \in Nat
      /\ plan.level \in Nat /\ plan.level <= plan.target
  BY PlanFacts, EnvelopeFacts DEF Types
<1>2. FadeBase \in Nat
  BY <1>1, SMTT(30) DEF FadeBase
<1>3. CASE now >= plan.dur
  <2>1. ~(now < plan.dur)
    BY <1>1, <1>3, SMTT(30)
  <2> QED
    BY <1>1, <1>2, <1>3, <2>1 DEF Level
<1>4. CASE now < plan.dur /\ fading
  <2>1. now - (plan.dur - plan.fade) \in Nat /\ plan.fade \in Nat \ {0}
        /\ now - (plan.dur - plan.fade) <= plan.fade
    BY <1>1, <1>4, SMTT(30) DEF fading
  <2>2. ((now - (plan.dur - plan.fade)) * FadeBase) \div plan.fade \in 0..FadeBase
    BY <1>2, <2>1, DivBound
  <2>3. FadeBase - ((now - (plan.dur - plan.fade)) * FadeBase) \div plan.fade \in Nat
    BY <1>2, <2>2, SMTT(30)
  <2>4. ~(now >= plan.dur)
    BY <1>1, <1>4, SMTT(30)
  <2> QED
    BY <1>2, <1>4, <2>3, <2>4 DEF Level
<1>5. CASE now < plan.dur /\ ~fading /\ now < plan.ramp
  <2>1. (now * (plan.target - plan.level)) \div plan.ramp \in 0..(plan.target - plan.level)
    <3>1. plan.ramp \in Nat \ {0} /\ now <= plan.ramp /\ plan.target - plan.level \in Nat
      BY <1>1, <1>5, SMTT(30)
    <3> QED
      BY <1>1, <3>1, DivBound
  <2>2. plan.level + (now * (plan.target - plan.level)) \div plan.ramp \in Nat
    BY <1>1, <2>1, SMTT(30)
  <2>3. ~(now >= plan.dur)
    BY <1>1, <1>5, SMTT(30)
  <2> QED
    BY <1>2, <1>5, <2>2, <2>3 DEF Level
<1>6. CASE ~(now >= plan.dur) /\ ~fading /\ ~(now < plan.ramp)
  BY <1>1, <1>2, <1>6 DEF Level
<1>7. now < plan.dur \/ now >= plan.dur
  BY <1>1, SMTT(30)
<1> QED
  BY <1>2, <1>3, <1>4, <1>5, <1>6, <1>7

(* The level of a Stop's fade at time n.                                   *)
StopLevel == IF plan.fade = 0 THEN last
             ELSE IF now >= plan.fade THEN 0 ELSE plan.level - (now * plan.level) \div plan.fade

(* The level of a Stop is never below zero.                                *)
LEMMA StopLevelType ==
  ASSUME Types
  PROVE  StopLevel \in Nat
<1>1. now \in Nat /\ last \in Nat /\ plan.fade \in Nat /\ plan.level \in Nat
  BY PlanFacts DEF Types
<1>2. CASE plan.fade # 0 /\ ~(now >= plan.fade)
  <2>1. plan.fade \in Nat \ {0} /\ now <= plan.fade
    BY <1>1, <1>2, SMTT(30)
  <2>2. (now * plan.level) \div plan.fade \in 0..plan.level
    BY <1>1, <2>1, DivBound
  <2>3. plan.level - (now * plan.level) \div plan.fade \in Nat
    BY <1>1, <2>2, SMTT(30)
  <2> QED
    BY <1>2, <2>3 DEF StopLevel
<1>3. CASE plan.fade = 0 \/ now >= plan.fade
  BY <1>1, <1>3 DEF StopLevel
<1> QED
  BY <1>2, <1>3

(* An observation after which the command may be sent.                     *)
LEMMA Observes ==
  ASSUME CommandInv, Observe, pc' = "send"
  PROVE  /\ pc = "pre" /\ known' = pos /\ pending' = FALSE
         /\ cmd.kind = "remove" => removalAllowed(pos)
         /\ UNCHANGED <<plan, now, at, loaded, stops, stage, cmd, slot, last, vol, fadeFrom, ordered,
                        resident, pos, cancelled, uncertain, closed, outcome>>
<1> USE DEF clock, parts, player, view, Busy
<1>1. ASSUME NEW result, NEW done, NEW doubt, Return(result, done, doubt) PROVE FALSE
  <2>1. pc \in Busy
    BY DEF Observe
  <2> QED
    BY <1>1, <2>1, ReturnSteps DEF Returns
<1>2. known' = pos /\ Goto("send") /\ UNCHANGED <<cmd, tries, last, parts, slot, stage>>
      /\ (cmd.kind = "remove" => removalAllowed(pos))
  BY <1>1 DEF Observe
<1> QED
  BY <1>2 DEF Observe, Goto

(* The steps of a command before its end.                                  *)
LEMMA WriteTypes ==
  ASSUME Types, CommandInv, (Observe /\ pc' = "send") \/ Reuse \/ Send \/ Stale
  PROVE  Types'
<1> USE DEF clock, parts, player, view, Goto, Busy
<1>1. CASE Observe /\ pc' = "send"
  BY <1>1, Observes DEF Types
<1>2. CASE Reuse
  BY <1>2 DEF Reuse, Types
<1>3. CASE Stale
  BY <1>3 DEF Stale, Types
<1>4. CASE Send
  <2>1. vol' \in Nat /\ resident' \in Int /\ pos' \in Int /\ stops' \in Nat
    BY <1>4, EffectTypes DEF Send
  <2>2. slot' \in Children
    <3>1. slot \in Children /\ (slot.sent \/ cmd.kind = "skip") \in BOOLEAN
      BY DEF Types
    <3> QED
      BY <1>4, <3>1, ChildFacts DEF Send
  <2> QED
    BY <1>4, <2>1, <2>2 DEF Send, Types
<1> QED
  BY <1>1, <1>2, <1>3, <1>4

(* The steps of the loops.                                                 *)
LEMMA LoopTypes ==
  ASSUME Types, CommandInv, BufferInv, Loop
  PROVE  Types'
<1> USE DEF clock, parts, player, view, Quiet
<1>u. ASSUME UNCHANGED <<plan, now, loaded, stops, stage, last, vol, resident, pos, cancelled,
                        uncertain>>,
             pc' \in {"start"} \cup Busy \cup Rounds \cup Over, cmd' \in Cmds, at' \in {at, now},
             fadeFrom' \in Nat \cup {-1}, ordered' \in Int, known' \in {known, pos},
             pending' \in BOOLEAN, slot' \in Children
      PROVE  Types'
  BY <1>u DEF Types
<1>t. /\ pending \in BOOLEAN /\ cmd \in Cmds /\ slot \in Children /\ ordered \in Int /\ now \in Nat
      /\ fadeFrom \in Nat \cup {-1} /\ plan \in Plans /\ known \in Int
  BY DEF Types
<1>b. ASSUME NEW k \in CmdKinds, NEW l \in Nat, NEW m \in Nat, Begin(k, l, m)
      PROVE  pc' \in Busy /\ cmd' \in Cmds
  BY <1>b, BeginCmd DEF Busy
<1>p. \A w \in {"loop", "check", "acted", "kid", "step", "prep", "wait", "persist"} :
        w \in {"start"} \cup Busy \cup Rounds \cup Over
  BY DEF Busy, Rounds, Over
<1>a. ASSUME appendNext, moreParts PROVE pc' \in Busy /\ cmd' \in Cmds /\ ordered' \in Int
  <2>1. Part \in Nat
    BY <1>a, PartType
  <2>2. ordered' \in Int
    BY <1>a, <1>t, <2>1, SMTT(30) DEF appendNext
  <2> QED
    BY <1>a, <1>b, <2>2 DEF appendNext, CmdKinds
<1>1. CASE startPlayback
  <2>1. stage # "run" /\ stage \in Starting \cup {"run"}
    BY <1>1 DEF startPlayback, CommandInv, Types
  <2>2. (IF stage = "stop" THEN "transport" ELSE stage) \in CmdKinds /\ plan.level \in Nat
    BY <1>t, <2>1, PlanFacts DEF Starting, CmdKinds
  <2>3. pc' \in Busy /\ cmd' \in Cmds
    BY <1>1, <1>b, <2>2 DEF startPlayback
  <2> QED
    BY <1>1, <1>t, <1>u, <2>3 DEF startPlayback
<1>2. CASE LoopFails \/ checkOwnership \/ loadBuffered \/ Wakes
  <2>1. pc' \in {"loop", "step", "kid", "persist"}
    BY <1>2 DEF LoopFails, checkOwnership, loadBuffered, Wakes, Ends, Finish, Goto
  <2> QED
    BY <1>2, <1>p, <1>t, <1>u, <2>1 DEF LoopFails, checkOwnership, loadBuffered, Wakes
<1>3. CASE automate
  <2>1. Level \in Nat /\ FadeBase \in Nat
    BY <1>3, LevelType DEF automate, automating
  <2>2. fadeFrom' \in Nat \cup {-1}
    BY <1>3, <1>t, <2>1 DEF automate
  <2>3. pc' \in {"start"} \cup Busy \cup Rounds \cup Over /\ cmd' \in Cmds
    BY <1>3, <1>b, <1>p, <1>t, <2>1 DEF automate, Goto, CmdKinds
  <2> QED
    BY <1>3, <1>t, <1>u, <2>2, <2>3 DEF automate
<1>4. CASE stopFade
  <2>1. IF StopLevel < last THEN Begin("volume", StopLevel, 0) ELSE Goto("acted") /\ UNCHANGED cmd
    BY <1>4 DEF stopFade, StopLevel
  <2>2. pc' \in {"start"} \cup Busy \cup Rounds \cup Over /\ cmd' \in Cmds
    BY <1>b, <1>p, <1>t, <2>1, StopLevelType DEF Goto, CmdKinds
  <2> QED
    BY <1>4, <1>t, <1>u, <2>2 DEF stopFade
<1>5. CASE acted \/ loadRemaining
  <2>1. CASE moreParts /\ appendNext
    BY <1>5, <1>a, <1>t, <1>u, <2>1 DEF acted, loadRemaining
  <2>2. CASE Begin("transport", 0, 0) /\ UNCHANGED ordered
    BY <1>5, <1>b, <1>t, <1>u, <2>2 DEF acted, loadRemaining, CmdKinds
  <2>3. CASE pc' \in {"kid", "wait", "persist"} /\ UNCHANGED <<cmd, ordered>>
    BY <1>5, <1>p, <1>t, <1>u, <2>3 DEF acted, loadRemaining
  <2> QED
    BY <1>5, <2>1, <2>2, <2>3 DEF acted, loadRemaining, Sleep, Goto, Finish
<1>6. CASE serviceBufferedSkip
  <2>1. slot' \in Children
    <3>1. [slot EXCEPT !.st = "taken"] \in Children
      BY <1>t, ChildFacts
    <3>2. Finishing("not_sent") \in Children
      BY <1>t, FinishingFacts
    <3> QED
      BY <1>6, <1>t, <3>1, <3>2 DEF serviceBufferedSkip
  <2>2. pc' \in {"start"} \cup Busy \cup Rounds \cup Over /\ cmd' \in Cmds
    BY <1>6, <1>b, <1>p, <1>t DEF serviceBufferedSkip, Goto, Ends, Finish, CmdKinds
  <2> QED
    BY <1>6, <1>t, <1>u, <2>1, <2>2 DEF serviceBufferedSkip
<1>7. CASE bufferedStep
  <2>1. pc' \in {"wait", "persist", "prep"} /\ UNCHANGED <<cmd, ordered>>
    BY <1>7 DEF bufferedStep, Sleep, Goto, Finish, Ends
  <2> QED
    BY <1>7, <1>p, <1>t, <1>u, <2>1 DEF bufferedStep
<1>8. CASE bufferedRefill
  <2>1. CASE appendNext
    BY <1>8, <1>a, <1>t, <1>u, <2>1 DEF bufferedRefill, BufferInv
  <2>2. CASE Finish("capacity") /\ UNCHANGED <<cmd, until, ordered>>
    BY <1>8, <1>p, <1>t, <1>u, <2>2 DEF bufferedRefill, Finish
  <2>3. CASE Begin("remove", 0, Excess) /\ ordered' = ordered - Excess /\ ~(Excess <= 0)
    <3>1. Excess \in Nat /\ ordered' \in Int
      <4>1. known \in Int /\ plan.retain \in Nat /\ ordered \in Int
        BY <1>t, PlanFacts
      <4>2. Excess = known - 1 - plan.retain
        BY DEF Excess
      <4> QED
        BY <2>3, <4>1, <4>2, SMTT(30)
    <3> QED
      BY <1>8, <1>b, <1>t, <1>u, <2>3, <3>1 DEF bufferedRefill, CmdKinds
  <2> QED
    BY <1>8, <2>1, <2>2, <2>3 DEF bufferedRefill
<1> QED
  BY <1>1, <1>2, <1>3, <1>4, <1>5, <1>6, <1>7, <1>8 DEF Loop

(* Every step keeps the types.                                             *)
LEMMA StepTypes ==
  ASSUME Types, CommandInv, BufferInv, [Next]_vars
  PROVE  Types'
<1> USE DEF clock, worker, parts, player, view, flags
<1>t. slot \in Children
  BY DEF Types
<1>1. CASE Tick
  <2>1. now' \in Nat /\ cancelled' \in BOOLEAN
    <3>1. now' \in Nat
      BY <1>1, SMTT(30) DEF Tick, Types
    <3> QED
      BY <1>1, <3>1 DEF Tick, Types
  <2> QED
    BY <1>1, <2>1 DEF Tick, Types
<1>2. CASE Moves
  <2>1. pos' \in Int
    BY <1>2, SMTT(30) DEF Moves, Types
  <2> QED
    BY <1>2, <2>1 DEF Moves, Types
<1>3. CASE Notified \/ Cancel
  BY <1>3 DEF Notified, Cancel, Types
<1>4. CASE Write
  BY <1>4, WriteTypes, CommandEnding, EndTypes DEF Write
<1>5. CASE Loop
  BY <1>5, LoopTypes
<1>6. CASE Persist
  BY <1>6 DEF Persist, Goto, Types, Over
<1>7. CASE closeBufferedSkips
  <2>1. slot' \in Children
    BY <1>7, <1>t, FinishingFacts DEF closeBufferedSkips
  <2> QED
    BY <1>7, <2>1 DEF closeBufferedSkips, Goto, Types, Over
<1>8. CASE submitBufferedSkip \/ AdmitFails \/ Admitted \/ persistBufferedSkip
  <2>1. slot' \in Children
    <3>1. [slot EXCEPT !.st = "ready"] \in Children /\ NoChild \in Children
      BY <1>t, ChildFacts
    <3>2. Finishing("not_sent") \in Children
      BY <1>t, FinishingFacts
    <3>3. ASSUME submitBufferedSkip PROVE slot' \in Children
      <4>1. PICK d \in {"next", "previous"} : slot' = [NoChild EXCEPT !.st = "admitting", !.direction = d]
        BY <3>3 DEF submitBufferedSkip
      <4> QED
        BY <4>1, ChildFacts
    <3> QED
      BY <1>8, <3>1, <3>2, <3>3 DEF AdmitFails, Admitted, persistBufferedSkip
  <2>2. Calls
    BY <1>8 DEF submitBufferedSkip, AdmitFails, Admitted, persistBufferedSkip
  <2> QED
    BY <2>1, <2>2 DEF Calls, Types
<1>9. CASE UNCHANGED vars
  BY <1>9 DEF vars, Types
<1> QED
  BY <1>1, <1>2, <1>3, <1>4, <1>5, <1>6, <1>7, <1>8, <1>9 DEF Next, Worker, Exit, Ended
-----------------------------------------------------------------------------
(* Commands.                                                               *)

(* Every step keeps the commands with the places that make them.           *)
LEMMA StepCommand ==
  ASSUME Types, CommandInv, [Next]_vars
  PROVE  CommandInv'
<1> USE DEF clock, worker, parts, player, view, flags
(* Nothing of it changes.                                                  *)
<1>1. ASSUME UNCHANGED <<pc, cmd, stage, plan>> PROVE CommandInv'
  BY <1>1 DEF CommandInv, Volumed
(* A step to a place outside a command.                                    *)
<1>2. ASSUME pc' \in Rounds, cmd' = NoCmd, stage' = "run", pc' = "acted" => Volumed, plan' = plan
      PROVE  CommandInv'
  BY <1>2, CmdFacts DEF CommandInv, Volumed, Busy, Rounds
<1>3. ASSUME pc' \in Over, cmd' = NoCmd, plan' = plan PROVE CommandInv'
  BY <1>3, CmdFacts DEF CommandInv, Volumed, Busy, Rounds, Over
(* A round begins a command.                                               *)
<1>4. ASSUME NEW k \in RunKinds, NEW l \in Nat, NEW m \in Nat, Begin(k, l, m), stage = "run",
             stage' = stage, plan' = plan, k \in {"volume", "transport"} => Volumed
      PROVE  CommandInv'
  <2>1. pc' = "pre" /\ cmd'.kind = k
    BY <1>4, BeginCmd DEF RunKinds, CmdKinds
  <2> QED
    BY <1>4, <2>1 DEF CommandInv, Volumed, Busy, Rounds
<1>5. CASE Loop
  <2>1. plan' = plan /\ stage' = stage /\ pc \notin Busy
    BY <1>5 DEF Loop, startPlayback, LoopFails, automate, stopFade, checkOwnership, acted,
       loadRemaining, loadBuffered, serviceBufferedSkip, bufferedStep, bufferedRefill, Wakes,
       Quiet, Busy
  <2>2. cmd = NoCmd
    BY <2>1 DEF CommandInv
  <2>3. CASE startPlayback
    <3>1. stage # "run" /\ stage \in Starting
      BY <2>3 DEF startPlayback, CommandInv, Types
    <3>2. (IF stage = "stop" THEN "transport" ELSE stage) \in CmdKinds /\ plan.level \in Nat
      BY <3>1, PlanFacts DEF Starting, CmdKinds, Types
    <3>3. /\ pc' = "pre" /\ cmd'.kind = (IF stage = "stop" THEN "transport" ELSE stage)
          /\ cmd'.level = plan.level
      BY <2>3, <3>2, BeginCmd DEF startPlayback
    <3> QED
      BY <2>1, <3>1, <3>3 DEF CommandInv, Busy, Rounds
  <2>4. ASSUME ~startPlayback PROVE stage = "run"
    BY <1>5, <2>4 DEF Loop, LoopFails, automate, stopFade, checkOwnership, acted,
       loadRemaining, loadBuffered, serviceBufferedSkip, bufferedStep, bufferedRefill, Wakes,
       CommandInv, Rounds
  <2>5. CASE LoopFails \/ checkOwnership \/ loadBuffered \/ Wakes
    <3>1. pc' \in {"loop", "step", "kid", "persist"} /\ cmd' = cmd /\ stage = "run"
      BY <2>4, <2>5 DEF LoopFails, checkOwnership, loadBuffered, Wakes, Ends, Finish, Goto,
         startPlayback, CommandInv, Rounds
    <3> QED
      BY <1>2, <1>3, <2>1, <2>2, <3>1 DEF Rounds, Over
  <2>6. CASE automate
    <3>1. Volumed /\ stage = "run" /\ Level \in Nat
      BY <2>6, LevelType DEF automate, automating, Volumed
    <3>2. Begin("volume", Level, 0) \/ (pc' \in {"check", "acted"} /\ cmd' = cmd)
      BY <2>6 DEF automate, Goto
    <3> QED
      BY <1>2, <1>4, <2>1, <2>2, <3>1, <3>2 DEF Rounds, RunKinds
  <2>7. CASE stopFade
    <3>1. Volumed /\ stage = "run" /\ StopLevel \in Nat
      BY <2>7, StopLevelType DEF stopFade, Volumed, CommandInv, Rounds
    <3>2. Begin("volume", StopLevel, 0) \/ (pc' = "acted" /\ cmd' = cmd)
      BY <2>7 DEF stopFade, StopLevel, Goto
    <3> QED
      BY <1>2, <1>4, <2>1, <2>2, <3>1, <3>2 DEF Rounds, RunKinds
  <2>8. CASE acted \/ loadRemaining
    <3>1. stage = "run" /\ (acted => Volumed)
      BY <2>8 DEF acted, loadRemaining, CommandInv, Rounds
    <3>2. \/ acted /\ Begin("transport", 0, 0)
          \/ Begin("append", 0, 0)
          \/ pc' \in {"kid", "wait", "persist"} /\ cmd' = cmd
      BY <2>8 DEF acted, loadRemaining, Sleep, Goto, Finish, appendNext
    <3> QED
      BY <1>2, <1>3, <1>4, <2>1, <2>2, <3>1, <3>2 DEF Rounds, Over, RunKinds
  <2>9. CASE serviceBufferedSkip \/ bufferedStep
    <3>1. stage = "run"
      BY <2>9 DEF serviceBufferedSkip, bufferedStep, CommandInv, Rounds
    <3>2. \/ Begin("skip", 0, 0)
          \/ pc' \in {"check", "step", "prep", "wait", "persist"} /\ cmd' = cmd
      BY <2>9 DEF serviceBufferedSkip, bufferedStep, Sleep, Goto, Finish, Ends
    <3> QED
      BY <1>2, <1>3, <1>4, <2>1, <2>2, <3>1, <3>2 DEF Rounds, Over, RunKinds
  <2>10. CASE bufferedRefill
    <3>1. stage = "run"
      BY <2>10 DEF bufferedRefill, CommandInv, Rounds
    <3>2. \/ Begin("append", 0, 0)
          \/ Begin("remove", 0, Excess) /\ ~(Excess <= 0)
          \/ pc' = "persist" /\ cmd' = cmd
      BY <2>10 DEF bufferedRefill, appendNext, Finish
    <3>3. ~(Excess <= 0) => Excess \in Nat
      BY PlanFacts, SMTT(30) DEF Excess, Types
    <3> QED
      BY <1>3, <1>4, <2>1, <2>2, <3>1, <3>2, <3>3 DEF Over, RunKinds
  <2> QED
    BY <1>5, <2>3, <2>5, <2>6, <2>7, <2>8, <2>9, <2>10 DEF Loop
<1>6. CASE Write
  <2>1. CASE Reuse \/ Stale \/ (Observe /\ pc' = "send")
    <3>1. pc \in Busy /\ pc' \in Busy /\ UNCHANGED <<cmd, stage, plan>>
      BY <2>1, Observes DEF Reuse, Stale, Goto, Busy
    <3> QED
      BY <3>1 DEF CommandInv, Volumed, Busy, Rounds
  <2>2. CASE Send
    <3>1. pc \in Busy /\ pc' \in Busy /\ UNCHANGED <<cmd, stage, plan>>
      BY <2>2 DEF Send, Goto, Busy
    <3> QED
      BY <3>1 DEF CommandInv, Volumed, Busy, Rounds
  <2>3. ASSUME NEW result \in Results, NEW done \in BOOLEAN, NEW doubt \in BOOLEAN,
               CommandEnds(result, done, doubt)
        PROVE  CommandInv'
    <3>1. Returns(result) /\ cmd' = NoCmd /\ plan' = plan /\ pc \in Busy
      BY <2>3, ReturnSteps DEF CommandEnds, Return
    <3>2. stage # "run" => IF stage = "queue" THEN NextStage[stage] = "run"
                           ELSE NextStage[stage] \in Starting
      BY SMTT(30) DEF NextStage, Types, Starting
    <3>3. CASE pc' = "start" /\ stage' = NextStage[stage] /\ stage # "run" /\ stage # "queue"
      BY <3>1, <3>2, <3>3, CmdFacts DEF CommandInv, Busy, Rounds, Starting
    <3>4. CASE pc' \in {"loop", "acted"} /\ stage' = "run" /\ (pc' = "acted" => Volumed)
      BY <1>2, <3>1, <3>4 DEF Rounds
    <3>5. CASE pc' = "persist"
      BY <1>3, <3>1, <3>5 DEF Over
    <3> QED
      BY <3>1, <3>2, <3>3, <3>4, <3>5 DEF Returns, CommandInv
  <2> QED
    BY <1>6, <2>1, <2>2, <2>3, CommandEnding DEF Write
<1>7. CASE Exit
  BY <1>3, <1>7 DEF Exit, Persist, closeBufferedSkips, Goto, CommandInv, Busy, Over
<1>8. CASE Tick \/ Moves \/ Notified \/ Cancel
  BY <1>1, <1>8 DEF Tick, Moves, Notified, Cancel
<1>9. CASE submitBufferedSkip \/ AdmitFails \/ Admitted \/ persistBufferedSkip
  BY <1>1, <1>9 DEF submitBufferedSkip, AdmitFails, Admitted, persistBufferedSkip, Calls
<1>10. CASE UNCHANGED vars
  BY <1>1, <1>10 DEF vars
<1> QED
  BY <1>5, <1>6, <1>7, <1>8, <1>9, <1>10 DEF Next, Worker, Ended
-----------------------------------------------------------------------------
(* Parts.                                                                  *)

(* The commands that the loops begin.                                      *)
Command(k, l, m) == pc' = "pre" /\ cmd'.kind = k /\ cmd'.level = l /\ cmd'.n = m
Begins ==
  \/ /\ startPlayback /\ stage # "run" /\ UNCHANGED ordered
     /\ Command(IF stage = "stop" THEN "transport" ELSE stage, plan.level, 0)
  \/ automate /\ Level # last /\ UNCHANGED ordered /\ Command("volume", Level, 0)
  \/ stopFade /\ StopLevel < last /\ UNCHANGED ordered /\ Command("volume", StopLevel, 0)
  \/ acted /\ over /\ UNCHANGED ordered /\ Command("transport", 0, 0)
  \/ /\ moreParts /\ plan.kind # "fade" /\ ordered' = ordered + Part /\ Command("append", 0, 0)
     /\ plan.buffered => ordered + Part <= plan.max
     /\ acted \/ loadRemaining \/ bufferedRefill
  \/ /\ bufferedRefill /\ plan.kind # "fade" /\ ~(Excess <= 0)
     /\ ordered' = ordered - Excess /\ Command("remove", 0, Excess)
  \/ serviceBufferedSkip /\ UNCHANGED ordered /\ Command("skip", 0, 0) /\ slot.st = "ready"
     /\ slot' = [slot EXCEPT !.st = "taken"]

(* A step of the loops begins one of these commands, or none.              *)
LEMMA LoopBegins ==
  ASSUME Types, CommandInv, BufferInv, Loop
  PROVE  Begins \/ (pc' \in Rounds \cup Over /\ cmd' = NoCmd /\ UNCHANGED ordered)
<1> USE DEF clock, parts, player, view, Quiet
<1>n. cmd = NoCmd
  BY DEF Loop, startPlayback, LoopFails, automate, stopFade, checkOwnership, acted,
     loadRemaining, loadBuffered, serviceBufferedSkip, bufferedStep, bufferedRefill, Wakes, Busy,
     CommandInv
<1>b. ASSUME NEW k \in CmdKinds, NEW l \in Nat, NEW m \in Nat, Begin(k, l, m)
      PROVE  Command(k, l, m)
  BY <1>b, BeginCmd DEF Command
<1>p. /\ {"loop", "check", "acted", "kid", "step", "prep", "wait", "persist"} \subseteq Rounds \cup Over
      /\ {"volume", "transport", "append", "remove", "skip"} \subseteq CmdKinds
  BY DEF Rounds, Over, CmdKinds
<1>k. /\ plan.kind \in {"automate", "load", "session", "fade"}
      /\ plan.buffered => plan.kind \in {"automate", "session"}
  BY PlanFacts DEF Types
<1>1. CASE startPlayback
  <2>1. stage # "run" /\ stage \in Starting
    BY <1>1 DEF startPlayback, CommandInv, Types
  <2>2. (IF stage = "stop" THEN "transport" ELSE stage) \in CmdKinds /\ plan.level \in Nat
    BY <2>1, PlanFacts DEF Starting, CmdKinds, Types
  <2>3. Command(IF stage = "stop" THEN "transport" ELSE stage, plan.level, 0)
    BY <1>1, <1>b, <2>2 DEF startPlayback
  <2> QED
    BY <1>1, <2>1, <2>3 DEF startPlayback, Begins
<1>2. CASE LoopFails \/ checkOwnership \/ loadBuffered \/ Wakes
  <2>1. pc' \in {"loop", "step", "kid", "persist"}
    BY <1>2 DEF LoopFails, checkOwnership, loadBuffered, Wakes, Ends, Finish, Goto
  <2> QED
    BY <1>2, <1>n, <1>p, <2>1 DEF LoopFails, checkOwnership, loadBuffered, Wakes
<1>3. CASE automate
  <2>1. Level \in Nat
    BY <1>3, LevelType DEF automate, automating
  <2>2. (Begin("volume", Level, 0) /\ Level # last) \/ (pc' \in {"check", "acted"} /\ cmd' = cmd)
    BY <1>3 DEF automate, Goto
  <2>3. UNCHANGED ordered
    BY <1>3 DEF automate
  <2> QED
    BY <1>3, <1>b, <1>n, <1>p, <2>1, <2>2, <2>3 DEF Begins
<1>4. CASE stopFade
  <2>1. (Begin("volume", StopLevel, 0) /\ StopLevel < last) \/ (pc' = "acted" /\ cmd' = cmd)
    BY <1>4 DEF stopFade, StopLevel, Goto
  <2>2. UNCHANGED ordered
    BY <1>4 DEF stopFade
  <2> QED
    BY <1>4, <1>b, <1>n, <1>p, <2>1, <2>2, StopLevelType DEF Begins
<1>5. CASE acted \/ loadRemaining
  <2>1. \/ acted /\ over /\ Begin("transport", 0, 0) /\ UNCHANGED ordered
        \/ moreParts /\ plan.kind # "fade" /\ ~plan.buffered /\ appendNext
        \/ pc' \in {"kid", "wait", "persist"} /\ cmd' = cmd /\ UNCHANGED ordered
    BY <1>5, <1>k DEF acted, loadRemaining, Sleep, Goto, Finish, automating
  <2> QED
    BY <1>5, <1>b, <1>n, <1>p, <2>1 DEF Begins, appendNext
<1>6. CASE serviceBufferedSkip
  <2>1. \/ /\ Begin("skip", 0, 0) /\ UNCHANGED ordered /\ slot.st = "ready"
           /\ slot' = [slot EXCEPT !.st = "taken"]
        \/ pc' \in {"check", "step", "persist"} /\ cmd' = cmd /\ UNCHANGED ordered
    BY <1>6 DEF serviceBufferedSkip, Goto, Ends, Finish
  <2> QED
    BY <1>6, <1>b, <1>n, <1>p, <2>1 DEF Begins
<1>7. CASE bufferedStep
  <2>1. pc' \in {"wait", "persist", "prep"} /\ UNCHANGED <<cmd, ordered>>
    BY <1>7 DEF bufferedStep, Sleep, Goto, Finish, Ends
  <2> QED
    BY <1>n, <1>p, <2>1
<1>8. CASE bufferedRefill
  <2>1. moreParts /\ plan.buffered
    BY <1>8 DEF bufferedRefill, BufferInv
  <2>2. ~(Excess <= 0) => Excess \in Nat
    BY PlanFacts, SMTT(30) DEF Excess, Types
  <2>3. \/ ordered + Part <= plan.max /\ appendNext
        \/ ~(Excess <= 0) /\ Begin("remove", 0, Excess) /\ ordered' = ordered - Excess
        \/ pc' = "persist" /\ cmd' = cmd /\ UNCHANGED ordered
    BY <1>8 DEF bufferedRefill, Finish
  <2> QED
    BY <1>8, <1>b, <1>k, <1>n, <1>p, <2>1, <2>2, <2>3 DEF Begins, appendNext
<1> QED
  BY <1>1, <1>2, <1>3, <1>4, <1>5, <1>6, <1>7, <1>8 DEF Loop

(* The loops leave alone which parts are loaded; what they decide:         *)
LEMMA LoopBuffer ==
  ASSUME Types, CommandInv, BufferInv, Loop
  PROVE  BufferInv'
<1> USE DEF clock, parts, player, view, Quiet
<1>1. UNCHANGED <<plan, loaded, stage, pos>> /\ pc \notin Busy /\ cmd.kind = "none"
  <2>1. UNCHANGED <<plan, loaded, stage, pos>> /\ pc \notin Busy
    BY DEF Loop, startPlayback, LoopFails, automate, stopFade, checkOwnership, acted,
       loadRemaining, loadBuffered, serviceBufferedSkip, bufferedStep, bufferedRefill, Wakes, Busy
  <2> QED
    BY <2>1, CmdFacts DEF CommandInv
<1>2. stage # "run" => ordered' = ordered
  BY DEF Loop, startPlayback, LoopFails, automate, stopFade, checkOwnership, acted,
     loadRemaining, loadBuffered, serviceBufferedSkip, bufferedStep, bufferedRefill, Wakes,
     CommandInv, Rounds
<1>3. pc' \in {"kid", "step", "prep"} \/ (pc' = "check" /\ ~automating) => plan.buffered
  <2>1. CASE startPlayback \/ LoopFails \/ automate \/ stopFade \/ loadRemaining \/ bufferedRefill
             \/ Wakes
    BY <2>1 DEF startPlayback, LoopFails, automate, stopFade, loadRemaining, bufferedRefill, Wakes,
       Begin, Goto, Ends, Finish, appendNext
  <2>2. CASE checkOwnership \/ serviceBufferedSkip \/ bufferedStep
    BY <2>2 DEF checkOwnership, serviceBufferedSkip, bufferedStep, BufferInv, Goto
  <2>3. CASE acted \/ loadBuffered
    BY <2>3, PlanFacts DEF acted, loadBuffered, Begin, appendNext, Sleep, Goto, Finish, Types
  <2> QED
    BY <2>1, <2>2, <2>3 DEF Loop
<1>4. pc' = "prep" => bufferedStep /\ moreParts /\ ordered - known <= plan.threshold
  BY DEF Loop, startPlayback, LoopFails, automate, stopFade, checkOwnership, acted,
     loadRemaining, loadBuffered, serviceBufferedSkip, bufferedStep, bufferedRefill, Wakes,
     Begin, Goto, Ends, Finish, appendNext, Sleep
<1>5. bufferedStep => UNCHANGED <<ordered, known>>
  BY DEF bufferedStep, Sleep
<1>6. pc' # "send"
  BY DEF Loop, startPlayback, LoopFails, automate, stopFade, checkOwnership, acted,
     loadRemaining, loadBuffered, serviceBufferedSkip, bufferedStep, bufferedRefill, Wakes,
     Begin, Goto, Ends, Finish, appendNext, Sleep
<1>7. /\ cmd'.kind = "append" => moreParts
      /\ cmd'.kind \in {"append", "remove"} => plan.kind # "fade"
  <2>1. stage # "run" => (IF stage = "stop" THEN "transport" ELSE stage) \notin {"append", "remove"}
    BY DEF Types, Starting
  <2> QED
    BY <2>1, LoopBegins, CmdFacts DEF Begins, Command
<1> QED
  BY <1>1, <1>2, <1>3, <1>4, <1>5, <1>6, <1>7 DEF BufferInv, moreParts, automating

(* Every step keeps what a refill was decided on.                          *)
LEMMA StepBuffer ==
  ASSUME Types, CommandInv, BufferInv, [Next]_vars
  PROVE  BufferInv'
<1> USE DEF clock, worker, parts, player, view, flags
<1>1. ASSUME UNCHANGED <<pc, cmd, stage, plan, loaded, ordered, known>>,
             pending' = TRUE \/ (pending' = pending /\ (wire' = TRUE \/ UNCHANGED <<pos, wire>>))
      PROVE  BufferInv'
  BY <1>1 DEF BufferInv, moreParts, automating
<1>2. CASE Loop
  BY <1>2, LoopBuffer
<1>3. ASSUME pc' \in {"start", "loop", "acted"} \cup Over, cmd'.kind = "none", plan' = plan,
             stage' # "run" => loaded' = 0 /\ ordered' = plan.parts[1],
             plan.kind = "fade" => loaded' = 0 /\ stage' = "run",
             (stage' = "run" /\ plan.kind # "fade") => loaded' >= 1
      PROVE  BufferInv'
  BY <1>3 DEF BufferInv, Over
<1>4. CASE Write
  <2>1. CASE Observe /\ pc' = "send"
    <3>1. /\ cmd.kind = "remove" => removalAllowed(pos)
          /\ UNCHANGED <<plan, loaded, stage, cmd, ordered, pos>> /\ known' = pos
      BY <2>1, Observes
    <3>2. cmd.kind = "remove" => pos - cmd.n > plan.retain
      BY <3>1, CmdFacts, PlanFacts, SMTT(30) DEF removalAllowed, Types
    <3> QED
      BY <2>1, <3>1, <3>2 DEF BufferInv, moreParts
  <2>2. CASE Reuse
    BY <2>2 DEF Reuse, Goto, BufferInv, moreParts
  <2>3. CASE Stale
    BY <2>3 DEF Stale, Goto, BufferInv, moreParts
  <2>4. CASE Send
    BY <2>4 DEF Send, Goto, BufferInv, moreParts
  <2>5. ASSUME NEW result \in Results, NEW done \in BOOLEAN, NEW doubt \in BOOLEAN,
               CommandEnds(result, done, doubt)
        PROVE  BufferInv'
    <3>1. /\ Returns(result) /\ cmd'.kind = "none" /\ plan' = plan /\ pc \in Busy
          /\ loaded' = (IF result = "ok" /\ cmd.kind \in {"queue", "append"} THEN loaded + 1 ELSE loaded)
          /\ ordered' = Restore(result = "ok")
      BY <2>5, ReturnSteps, CmdFacts DEF CommandEnds, Return
    <3>2. pc' \in {"start", "loop", "acted"} \cup Over
      BY <3>1 DEF Returns, Over
    <3>3. CASE stage = "run"
      <4>1. stage' = "run" /\ cmd.kind \in RunKinds
        BY <3>1, <3>3 DEF Returns, CommandInv
      <4>2. plan.kind = "fade" => loaded' = 0
        BY <3>1, <4>1 DEF BufferInv, RunKinds
      <4>3. plan.kind # "fade" => loaded' >= 1
        BY <3>1, <3>3, SMTT(30) DEF BufferInv, Types
      <4> QED
        BY <1>3, <3>1, <3>2, <4>1, <4>2, <4>3
    <3>4. CASE stage # "run"
      <4>1. /\ stage \in Starting /\ cmd.kind = (IF stage = "stop" THEN "transport" ELSE stage)
            /\ loaded = 0 /\ ordered = plan.parts[1] /\ plan.kind # "fade"
        BY <3>1, <3>4 DEF CommandInv, BufferInv, Types
      <4>2. ordered' = ordered
        BY <3>1, <4>1 DEF Restore, Starting
      <4>3. CASE stage = "queue" /\ result = "ok"
        <5>1. loaded' = 1 /\ stage' = "run"
          BY <3>1, <3>4, <4>1, <4>3, SMTT(30) DEF Returns, NextStage
        <5> QED
          BY <1>3, <3>1, <3>2, <4>1, <5>1, SMTT(30)
      <4>4. CASE stage # "queue" \/ result # "ok"
        <5>1. loaded' = 0
          BY <3>1, <4>1, <4>4 DEF Starting
        <5>2. stage' \in Starting
          <6>1. stage # "queue" => NextStage[stage] \in Starting
            BY <4>1, SMTT(30) DEF Starting, NextStage
          <6> QED
            BY <3>1, <3>4, <4>1, <4>4, <6>1 DEF Returns
        <5> QED
          BY <1>3, <3>1, <3>2, <4>1, <4>2, <5>1, <5>2 DEF Starting
      <4> QED
        BY <4>3, <4>4
    <3> QED
      BY <3>3, <3>4
  <2> QED
    BY <1>4, <2>1, <2>2, <2>3, <2>4, <2>5, CommandEnding DEF Write
<1>5. CASE Exit
  <2>1. pc' \in Over /\ pc \notin Busy /\ UNCHANGED <<plan, cmd, stage, loaded, ordered>>
    BY <1>5 DEF Exit, Persist, closeBufferedSkips, Goto, Over, Busy
  <2>2. cmd'.kind = "none"
    BY <2>1, CmdFacts DEF CommandInv
  <2> QED
    BY <1>3, <2>1, <2>2 DEF BufferInv
<1>6. CASE Tick \/ Moves \/ Notified \/ Cancel
  BY <1>1, <1>6 DEF Tick, Moves, Notified, Cancel
<1>7. CASE submitBufferedSkip \/ AdmitFails \/ Admitted \/ persistBufferedSkip
  BY <1>1, <1>7 DEF submitBufferedSkip, AdmitFails, Admitted, persistBufferedSkip, Calls
<1>8. CASE UNCHANGED vars
  BY <1>1, <1>8 DEF vars
<1> QED
  BY <1>2, <1>4, <1>5, <1>6, <1>7, <1>8 DEF Next, Worker, Ended
-----------------------------------------------------------------------------
(* The queue.                                                              *)

(* What the player's queue is after a command took effect.                 *)
LEMMA EffectQueue ==
  ASSUME Types, CommandInv, BufferInv, QueueInv, pc = "send", Effect
  PROVE  /\ stage # "run" => resident' = (IF cmd.kind = "queue" THEN ordered ELSE 0)
         /\ loaded > 0 => resident' = ordered
         /\ plan.buffered => resident' <= plan.max
<1>1. resident' = IF cmd.kind \in {"queue", "append", "remove"} THEN ordered ELSE resident
  BY DEF Effect
<1>2. ASSUME stage # "run" PROVE resident' = (IF cmd.kind = "queue" THEN ordered ELSE 0)
  <2>1. cmd.kind \notin {"append", "remove"} /\ resident = 0
    BY <1>2 DEF CommandInv, QueueInv, Types, Starting, Busy, Over
  <2> QED
    BY <1>1, <2>1
<1>3. ASSUME loaded > 0 PROVE resident' = ordered
  <2>1. stage = "run"
    BY <1>3, SMTT(30) DEF BufferInv
  <2>2. cmd.kind \in RunKinds /\ resident = Restore(FALSE)
    BY <1>3, <2>1 DEF CommandInv, QueueInv, Busy, Over
  <2>3. cmd.kind \notin {"append", "remove"} => resident = ordered
    BY <2>2 DEF Restore
  <2> QED
    BY <1>1, <2>3
<1> QED
  BY <1>1, <1>2, <1>3 DEF QueueInv

(* A validated policy always leaves room for the next part, or enough to   *)
(* remove: errBufferedCapacity is not met.                                 *)
LEMMA NoCapacity ==
  ASSUME Types, BufferInv, outcome # "capacity", Loop
  PROVE  outcome' # "capacity"
<1>1. CASE bufferedRefill
  <2>1. moreParts /\ plan.buffered /\ ordered - known <= plan.threshold
    BY <1>1 DEF bufferedRefill, BufferInv
  <2>2. Part \in Nat /\ Part + plan.threshold + plan.retain + 1 <= plan.max
    BY <2>1, PartType
  <2>3. /\ ordered \in Int /\ known \in Int /\ plan.threshold \in Nat /\ plan.retain \in Nat
        /\ plan.max \in Nat
    BY PlanFacts DEF Types
  <2>4. ordered + Part <= plan.max \/ ~(Excess <= 0 \/ ordered - Excess + Part > plan.max)
    <3> HIDE DEF Part
    <3> QED
      BY <2>1, <2>2, <2>3, SMTT(30) DEF Excess
  <2> QED
    BY <1>1, <2>4 DEF bufferedRefill, appendNext, Begin, Goto
<1>2. CASE ~bufferedRefill
  BY <1>2 DEF Loop, startPlayback, LoopFails, automate, stopFade, checkOwnership, acted,
     loadRemaining, loadBuffered, serviceBufferedSkip, bufferedStep, Wakes,
     Begin, Goto, Ends, Finish, appendNext, Sleep
<1> QED
  BY <1>1, <1>2

(* Every step keeps the queue at what the worker expects.                  *)
LEMMA StepQueue ==
  ASSUME Types, CommandInv, BufferInv, QueueInv, [Next]_vars
  PROVE  QueueInv'
<1> USE DEF clock, worker, parts, player, view, flags
<1>1. ASSUME UNCHANGED <<pc, cmd, stage, plan, loaded, ordered, resident, outcome>> PROVE QueueInv'
  BY <1>1 DEF QueueInv, Restore, Part
<1>2. CASE Loop
  <2>1. /\ UNCHANGED <<plan, loaded, stage, resident>> /\ pc \notin Busy /\ pc \notin Over
        /\ cmd = NoCmd
    <3>1. UNCHANGED <<plan, loaded, stage, resident>> /\ pc \notin Busy /\ pc \notin Over
      BY <1>2 DEF Loop, startPlayback, LoopFails, automate, stopFade, checkOwnership, acted,
         loadRemaining, loadBuffered, serviceBufferedSkip, bufferedStep, bufferedRefill, Wakes, Busy,
         Over, Quiet
    <3> QED
      BY <3>1 DEF CommandInv
  <2>2. /\ stage # "run" => resident = 0
        /\ loaded > 0 => resident = ordered
        /\ plan.buffered => resident <= plan.max /\ ordered <= plan.max
    BY <2>1 DEF QueueInv, Busy
  <2>3. plan.buffered => outcome' # "capacity"
    BY <1>2, NoCapacity DEF QueueInv
  <2>4. CASE pc' \in Rounds \cup Over /\ cmd' = NoCmd /\ UNCHANGED ordered
    BY <2>1, <2>2, <2>3, <2>4 DEF QueueInv, Rounds, Over
  <2>5. CASE Begins
    <3>t. ordered \in Int /\ plan.max \in Nat
      BY PlanFacts DEF Types
    <3>1. /\ pc' = "pre" /\ Restore(FALSE)' = ordered
          /\ plan.buffered => ordered' <= plan.max /\ ordered' + cmd'.n <= plan.max
      <4>1. CASE cmd'.kind \notin {"append", "remove"} /\ cmd'.n = 0 /\ ordered' = ordered /\ pc' = "pre"
        <5>1. Restore(FALSE)' = ordered
          BY <4>1 DEF Restore
        <5>2. ordered' + cmd'.n = ordered
          BY <3>t, <4>1, SMTT(30)
        <5> QED
          BY <2>2, <4>1, <5>1, <5>2
      <4>2. CASE /\ moreParts /\ ordered' = ordered + Part /\ Command("append", 0, 0)
                 /\ plan.buffered => ordered + Part <= plan.max
        <5>1. Part \in Nat /\ Part' = Part
          BY <2>1, <4>2, PartType DEF Part
        <5>2. Restore(FALSE)' = ordered' - Part' /\ pc' = "pre" /\ cmd'.n = 0
          BY <4>2 DEF Restore, Command
        <5> HIDE DEF Part
        <5>3. ordered' - Part = ordered /\ ordered' + cmd'.n = ordered'
          BY <3>t, <4>2, <5>1, <5>2, SMTT(30)
        <5> QED
          BY <4>2, <5>1, <5>2, <5>3
      <4>3. CASE ~(Excess <= 0) /\ ordered' = ordered - Excess /\ Command("remove", 0, Excess)
        <5>1. Restore(FALSE)' = ordered' + cmd'.n /\ pc' = "pre" /\ cmd'.n = Excess
          BY <4>3 DEF Restore, Command
        <5>2. Excess \in Int
          BY PlanFacts, SMTT(30) DEF Excess, Types
        <5> HIDE DEF Excess
        <5>3. ordered' + Excess = ordered
          BY <3>t, <4>3, <5>2, SMTT(30)
        <5>4. ordered <= plan.max => ordered' <= plan.max
          BY <3>t, <4>3, <5>2, SMTT(30)
        <5> QED
          BY <2>2, <5>1, <5>3, <5>4
      <4>4. stage # "run" => (IF stage = "stop" THEN "transport" ELSE stage) \notin {"append", "remove"}
        BY DEF Types, Starting
      <4> QED
        BY <2>5, <4>1, <4>2, <4>3, <4>4 DEF Begins, Command
    <3> QED
      BY <2>1, <2>2, <2>3, <3>1 DEF QueueInv
  <2> QED
    BY <1>2, <2>4, <2>5, LoopBegins
<1>4. CASE Write
  <2>1. CASE (Observe /\ pc' = "send") \/ Reuse \/ Stale
    <3>1. /\ pc \in {"pre", "send"} /\ pc' \in {"pre", "send"}
          /\ UNCHANGED <<cmd, stage, plan, loaded, ordered, resident, outcome>>
      BY <2>1, Observes DEF Reuse, Stale, Goto
    <3> QED
      BY <3>1 DEF QueueInv, Restore, Part, Over
  <2>4. CASE Send
    <3>1. /\ pc = "send" /\ pc' = "sent" /\ Effect
          /\ UNCHANGED <<cmd, stage, plan, loaded, ordered, outcome>>
      BY <2>4 DEF Send, Goto
    <3>2. /\ stage # "run" => resident' = (IF cmd.kind = "queue" THEN ordered ELSE 0)
          /\ loaded > 0 => resident' = ordered
          /\ plan.buffered => resident' <= plan.max
      BY <3>1, EffectQueue
    <3> QED
      BY <3>1, <3>2 DEF QueueInv
  <2>5. ASSUME NEW result \in Results, NEW done \in BOOLEAN, NEW doubt \in BOOLEAN,
               CommandEnds(result, done, doubt)
        PROVE  QueueInv'
    <3>1. /\ Returns(result) /\ plan' = plan /\ pc \in Busy /\ cmd'.kind = "none" /\ cmd'.n = 0
          /\ loaded' = (IF result = "ok" /\ cmd.kind \in {"queue", "append"} THEN loaded + 1 ELSE loaded)
          /\ ordered' = Restore(result = "ok")
      BY <2>5, ReturnSteps, CmdFacts DEF CommandEnds, Return
    <3>t. ordered \in Int /\ plan.max \in Nat /\ cmd.n \in Nat /\ loaded \in Nat
      BY PlanFacts, CmdFacts DEF Types
    <3>2. plan.buffered => ordered' <= plan.max
      <4>1. plan.buffered => ordered <= plan.max /\ ordered + cmd.n <= plan.max
        BY DEF QueueInv
      <4>2. CASE ordered' = ordered \/ ordered' = ordered + cmd.n
        BY <4>1, <4>2
      <4>3. CASE ordered' = ordered - Part /\ cmd.kind = "append"
        <5>1. Part \in Nat
          BY <4>3, PartType DEF BufferInv
        <5> HIDE DEF Part
        <5> QED
          BY <3>t, <4>1, <4>3, <5>1, SMTT(30)
      <4> QED
        BY <3>1, <4>2, <4>3 DEF Restore
    <3>3. plan.buffered => ordered' + cmd'.n <= plan.max
      <4>1. ordered' \in Int
        BY <3>1, RestoreType
      <4> QED
        BY <3>1, <3>2, <3>t, <4>1, SMTT(30)
    <3>4. plan.buffered => resident' <= plan.max
      BY <2>5, EffectQueue DEF CommandEnds, Sendable, QueueInv
    <3>5. plan.buffered => outcome' # "capacity"
      BY <3>1 DEF Returns, QueueInv
    <3>6. ASSUME pc' \notin Over
          PROVE  /\ stage' # "run" => resident' = 0
                 /\ loaded' > 0 => resident' = ordered'
                 /\ pc' \notin Busy
      <4>1. result \in {"ok", "timeline", "not_skippable"} /\ resident' = resident /\ pc' \notin Busy
        BY <2>5, <3>1, <3>6 DEF Returns, Over, CommandEnds, Busy
      <4>2. CASE result = "ok" /\ stage = "run"
        <5>1. pc = "sent" /\ ordered' = ordered /\ stage' = "run"
          BY <2>5, <3>1, <4>2 DEF CommandEnds, Restore, Returns
        <5>2. loaded' > 0 => loaded > 0
          <6>1. plan.kind # "fade" => loaded >= 1
            BY <4>2 DEF BufferInv
          <6>2. plan.kind = "fade" => loaded' = loaded
            BY <3>1, <4>2 DEF BufferInv, CommandInv, RunKinds
          <6> QED
            BY <3>t, <6>1, <6>2, SMTT(30)
        <5> QED
          BY <4>1, <5>1, <5>2 DEF QueueInv, Over
      <4>3. CASE result = "ok" /\ stage # "run"
        <5>1. /\ pc = "sent" /\ ordered' = ordered /\ stage' = NextStage[stage]
              /\ cmd.kind = (IF stage = "stop" THEN "transport" ELSE stage) /\ loaded = 0
              /\ resident = (IF cmd.kind = "queue" THEN ordered ELSE 0)
          BY <2>5, <3>1, <4>3 DEF CommandEnds, Restore, Returns, CommandInv, BufferInv, QueueInv, Over
        <5>2. CASE stage = "queue"
          BY <4>1, <5>1, <5>2, SMTT(30) DEF NextStage
        <5>3. CASE stage # "queue"
          <6>1. loaded' = 0 /\ resident = 0
            BY <3>1, <5>1, <5>3 DEF Types, Starting
          <6> QED
            BY <4>1, <6>1, SMTT(30)
        <5> QED
          BY <5>2, <5>3
      <4>4. CASE result \in {"timeline", "not_skippable"}
        <5>1. pc \in {"pre", "send"} /\ stage = "run" /\ stage' = "run" /\ loaded' = loaded
              /\ ordered' = Restore(FALSE)
          <6>1. (result = "ok") = FALSE
            BY <4>4
          <6> QED
            BY <2>5, <3>1, <3>6, <4>4, <6>1 DEF CommandEnds, Returns, Over
        <5> QED
          BY <4>1, <5>1 DEF QueueInv, Over
      <4> QED
        BY <4>1, <4>2, <4>3, <4>4
    <3> QED
      BY <3>1, <3>2, <3>3, <3>4, <3>5, <3>6 DEF QueueInv, Busy
  <2> QED
    BY <1>4, <2>1, <2>4, <2>5, CommandEnding DEF Write
<1>5. CASE Exit
  <2>1. pc \in Over /\ pc' \in Over
        /\ UNCHANGED <<cmd, stage, plan, loaded, ordered, resident, outcome>>
    BY <1>5 DEF Exit, Persist, closeBufferedSkips, Goto, Over
  <2> QED
    BY <2>1 DEF QueueInv
<1>6. CASE Tick \/ Moves \/ Notified \/ Cancel
  BY <1>1, <1>6 DEF Tick, Moves, Notified, Cancel
<1>7. CASE submitBufferedSkip \/ AdmitFails \/ Admitted \/ persistBufferedSkip
  BY <1>1, <1>7 DEF submitBufferedSkip, AdmitFails, Admitted, persistBufferedSkip, Calls
<1>8. CASE UNCHANGED vars
  BY <1>1, <1>8 DEF vars
<1> QED
  BY <1>2, <1>4, <1>5, <1>6, <1>7, <1>8 DEF Next, Worker, Ended
-----------------------------------------------------------------------------
(* The buffered skip.                                                      *)

(* Every step keeps the buffered skip honest.                              *)
LEMMA StepSkip ==
  ASSUME Types, CommandInv, BufferInv, SkipInv, [Next]_vars
  PROVE  SkipInv'
<1> USE DEF clock, worker, parts, player, view, flags
<1>t. slot \in Children /\ slot.sent \in BOOLEAN
  BY DEF Types, Children
(* The child is left alone, and no skip begins.                            *)
<1>1. ASSUME slot' = slot,
             \/ cmd'.kind # "skip"
             \/ cmd' = cmd /\ (pc' = pc \/ pc' # "sent") /\ (pc = "sent" => pc' = "sent")
      PROVE  SkipInv'
  BY <1>1 DEF SkipInv, SkipHonest
(* A child that was not sent is not sent in the end.                       *)
<1>2. ASSUME slot' = Finishing("not_sent"), slot.st \in {"admitting", "ready"}, cmd'.kind # "skip"
      PROVE  SkipInv'
  <2>1. /\ slot'.st = "finishing" /\ slot'.delivery = "not_sent" /\ slot'.sent = slot.sent
    BY <1>2, <1>t, FinishingFacts
  <2> QED
    BY <1>2, <2>1 DEF SkipInv, SkipHonest
(* A child that waits.                                                     *)
<1>3. ASSUME slot'.st \in {"none", "admitting", "ready"}, ~slot'.sent, cmd'.kind # "skip"
      PROVE  SkipInv'
  BY <1>3 DEF SkipInv, SkipHonest
<1>4. CASE Loop
  <2>1. CASE serviceBufferedSkip
    <3>n. cmd.kind = "none"
      BY <2>1, CmdFacts DEF serviceBufferedSkip, CommandInv, Busy
    <3>1. CASE slot.st = "ready" /\ Begin("skip", 0, 0) /\ slot' = [slot EXCEPT !.st = "taken"]
      <4>1. pc' = "pre" /\ cmd'.kind = "skip"
        BY <3>1, BeginCmd DEF CmdKinds
      <4>2. slot'.st = "taken" /\ slot'.sent = slot.sent
        BY <3>1, <1>t, ChildFacts
      <4> QED
        BY <3>1, <4>1, <4>2 DEF SkipInv, SkipHonest
    <3>2. CASE slot.st = "ready" /\ slot' = Finishing("not_sent") /\ UNCHANGED cmd
      BY <1>2, <3>n, <3>2
    <3>3. CASE UNCHANGED <<cmd, slot>>
      BY <1>1, <3>n, <3>3
    <3> QED
      BY <2>1, <3>1, <3>2, <3>3 DEF serviceBufferedSkip
  <2>2. CASE ~serviceBufferedSkip
    <3>1. slot' = slot
      BY <1>4, <2>2 DEF Loop, startPlayback, LoopFails, automate, stopFade, checkOwnership, acted,
         loadRemaining, loadBuffered, bufferedStep, bufferedRefill, Wakes
    <3>2. stage # "run" => (IF stage = "stop" THEN "transport" ELSE stage) # "skip"
      BY DEF Types, Starting
    <3>3. cmd'.kind # "skip"
      BY <1>4, <2>2, <3>2, LoopBegins, CmdFacts DEF Begins, Command
    <3> QED
      BY <1>1, <3>1, <3>3
  <2> QED
    BY <2>1, <2>2
<1>5. CASE Write
  <2>1. CASE (Observe /\ pc' = "send") \/ Reuse \/ Stale
    BY <1>1, <2>1, Observes DEF Reuse, Stale, Goto
  <2>2. CASE Send
    <3>1. /\ pc = "send" /\ pc' = "sent" /\ cmd' = cmd
          /\ slot' = [slot EXCEPT !.sent = slot.sent \/ cmd.kind = "skip"]
      BY <2>2 DEF Send, Goto
    <3>2. /\ slot'.st = slot.st /\ slot'.sent = (slot.sent \/ cmd.kind = "skip")
          /\ slot'.done = slot.done /\ slot'.delivery = slot.delivery
      <4>1. PICK b \in BOOLEAN : b = (slot.sent \/ cmd.kind = "skip")
        OBVIOUS
      <4>2. slot' = [slot EXCEPT !.sent = b]
        BY <3>1, <4>1
      <4>3. /\ slot'.st = slot.st /\ slot'.sent = b
            /\ slot'.done = slot.done /\ slot'.delivery = slot.delivery
        BY <4>2, <1>t, SentFacts
      <4> QED
        BY <4>1, <4>3
    <3>3. CASE cmd.kind = "skip"
      BY <3>1, <3>2, <3>3 DEF SkipInv, SkipHonest
    <3>4. CASE cmd.kind # "skip"
      BY <3>1, <3>2, <3>4 DEF SkipInv, SkipHonest
    <3> QED
      BY <3>3, <3>4
  <2>3. ASSUME NEW result \in Results, NEW done \in BOOLEAN, NEW doubt \in BOOLEAN,
               CommandEnds(result, done, doubt)
        PROVE  SkipInv'
    <3>1. /\ cmd'.kind = "none" /\ ((~doubt /\ ~done) => pc # "sent" /\ result # "lost")
          /\ slot' = IF cmd.kind = "skip"
                     THEN [Finishing(SkipDelivery(result, done, doubt)) EXCEPT
                             !.done = done, !.sent = @ \/ result = "lost"]
                     ELSE slot
      BY <2>3, CmdFacts DEF CommandEnds, Return
    <3>2. CASE cmd.kind # "skip"
      BY <1>1, <3>1, <3>2
    <3>3. CASE cmd.kind = "skip"
      <4>1. SkipDelivery(result, done, doubt) \in {"unknown", "confirmed", "rejected", "not_sent"}
        BY DEF SkipDelivery
      <4>2. /\ slot'.st = "finishing" /\ slot'.delivery = SkipDelivery(result, done, doubt)
            /\ slot'.sent <=> (slot.sent \/ result = "lost")
            /\ slot'.done = done
        <5>1. PICK d \in {"unknown", "confirmed", "rejected", "not_sent"} :
                d = SkipDelivery(result, done, doubt)
          BY <4>1
        <5>2. PICK lost \in BOOLEAN : lost <=> result = "lost"
          OBVIOUS
        <5>3. slot' = [Finishing(d) EXCEPT !.done = done, !.sent = @ \/ lost]
          BY <3>1, <3>3, <5>1, <5>2
        <5>4. /\ slot'.st = "finishing" /\ slot'.delivery = d /\ slot'.done = done
              /\ slot'.sent <=> (slot.sent \/ lost)
          BY <1>t, <5>3, ReturnedFacts
        <5> QED
          BY <5>1, <5>2, <5>4
      <4>3. SkipDelivery(result, done, doubt) = "confirmed" => done
        BY DEF SkipDelivery
      <4>4. SkipDelivery(result, done, doubt) \in {"not_sent", "rejected"} => ~doubt /\ ~done
        BY DEF SkipDelivery
      <4> QED
        BY <3>1, <3>3, <4>2, <4>3, <4>4 DEF SkipInv, SkipHonest
    <3> QED
      BY <3>2, <3>3
  <2> QED
    BY <1>5, <2>1, <2>2, <2>3, CommandEnding DEF Write
<1>6. CASE Persist
  BY <1>1, <1>6, CmdFacts DEF Persist, Goto, CommandInv, Busy
<1>7. CASE closeBufferedSkips
  <2>1. cmd'.kind = "none"
    BY <1>7, CmdFacts DEF closeBufferedSkips, CommandInv, Busy
  <2> QED
    BY <1>1, <1>2, <1>7, <2>1 DEF closeBufferedSkips
<1>8. CASE Tick \/ Moves \/ Notified \/ Cancel
  BY <1>1, <1>8 DEF Tick, Moves, Notified, Cancel
<1>9. CASE submitBufferedSkip
  <2>1. PICK d \in {"next", "previous"} : slot' = [NoChild EXCEPT !.st = "admitting", !.direction = d]
    BY <1>9 DEF submitBufferedSkip
  <2>2. slot'.st = "admitting" /\ ~slot'.sent
    BY <2>1, ChildFacts
  <2>3. cmd'.kind # "skip"
    BY <1>9 DEF submitBufferedSkip, Calls, SkipInv
  <2> QED
    BY <1>3, <2>2, <2>3
<1>10. CASE AdmitFails \/ persistBufferedSkip
  BY <1>3, <1>10, ChildFacts DEF AdmitFails, persistBufferedSkip, Calls, SkipInv
<1>11. CASE Admitted
  <2>1. cmd'.kind # "skip" /\ slot.st = "admitting" /\ ~slot.sent
    BY <1>11 DEF Admitted, Calls, SkipInv
  <2>2. CASE slot' = [slot EXCEPT !.st = "ready"]
    <3>1. slot'.st = "ready" /\ slot'.sent = slot.sent
      BY <1>t, <2>2, ChildFacts
    <3> QED
      BY <1>3, <2>1, <3>1
  <2>3. CASE slot' = Finishing("not_sent")
    BY <1>2, <2>1, <2>3
  <2> QED
    BY <1>11, <2>2, <2>3 DEF Admitted
<1>12. CASE UNCHANGED vars
  BY <1>1, <1>12 DEF vars
<1> QED
  BY <1>4, <1>5, <1>6, <1>7, <1>8, <1>9, <1>10, <1>11, <1>12 DEF Next, Worker, Exit, Ended
-----------------------------------------------------------------------------
(* The Stop.                                                               *)

(* The time at which a playback, or the fade of a Stop, is over.           *)
LEMMA OverTypes ==
  ASSUME Types
  PROVE  /\ now \in Nat /\ at \in Nat /\ last \in Nat /\ stops \in Nat
         /\ plan.dur \in Nat /\ plan.fade \in Nat
BY PlanFacts DEF Types

(* What the loops leave alone, and how they end.                           *)
LEMMA LoopEnds ==
  ASSUME Types, CommandInv, Loop
  PROVE  /\ UNCHANGED <<plan, now, stage, last, vol, stops>> /\ at' \in {at, now}
         /\ pc \notin Busy /\ pc \notin Over
         /\ pc' = "acted" => automate \/ stopFade
         /\ ~(automate \/ stopFade) => at' = at
         /\ outcome' # outcome => pc' = "persist"
         /\ outcome' \in {"succeeded", "incomplete"} => outcome' = outcome \/ ~Volumed
<1> USE DEF clock, player
<1>1. /\ UNCHANGED <<plan, now, stage, last, vol, stops>> /\ at' \in {at, now}
      /\ pc \notin Busy /\ pc \notin Over
  BY DEF Loop, startPlayback, LoopFails, automate, stopFade, checkOwnership, acted,
     loadRemaining, loadBuffered, serviceBufferedSkip, bufferedStep, bufferedRefill, Wakes, Busy,
     Over, Quiet
<1>2. /\ pc' = "acted" => automate \/ stopFade
      /\ ~(automate \/ stopFade) => at' = at
      /\ outcome' # outcome => pc' = "persist"
  BY DEF Loop, startPlayback, LoopFails, automate, stopFade, checkOwnership, acted,
     loadRemaining, loadBuffered, serviceBufferedSkip, bufferedStep, bufferedRefill, Wakes,
     Begin, Goto, Ends, Finish, appendNext, Sleep
<1>3. outcome' \in {"succeeded", "incomplete"} => outcome' = outcome \/ ~Volumed
  BY DEF Loop, startPlayback, LoopFails, automate, stopFade, checkOwnership, acted,
     loadRemaining, loadBuffered, serviceBufferedSkip, bufferedStep, bufferedRefill, Wakes,
     Begin, Goto, Ends, Finish, appendNext, Sleep, Volumed
<1> QED
  BY <1>1, <1>2, <1>3

(* At the end of a playback that fades, and of a fade, the level is zero.  *)
LEMMA LoopSilent ==
  ASSUME Types, CommandInv, BufferInv, StopInv, Loop, over', plan.fade > 0, stage = "run"
  PROVE  /\ pc' = "acted" => last = 0
         /\ cmd'.kind = "volume" => cmd'.level = 0
<1>1. CASE automate
  <2>1. now >= plan.dur /\ automating
    BY <1>1, LoopEnds DEF automate, over, automating
  <2>2. Level = 0
    <3>1. ~(now < plan.dur)
      BY <2>1, OverTypes, SMTT(30)
    <3> QED
      BY <2>1, <3>1 DEF Level
  <2>3. Level \in Nat
    BY <2>2
  <2>4. CASE Begin("volume", Level, 0)
    BY <2>2, <2>3, <2>4, BeginCmd DEF CmdKinds
  <2>5. CASE Level = last /\ pc' \in {"check", "acted"} /\ UNCHANGED cmd
    BY <1>1, <2>2, <2>5, CmdFacts DEF automate, CommandInv, Busy
  <2> QED
    BY <1>1, <2>4, <2>5 DEF automate, Goto
<1>2. CASE stopFade
  <2>1. now >= plan.fade
    BY <1>2, LoopEnds DEF stopFade, over, automating
  <2>2. StopLevel = 0
    <3>1. plan.fade # 0
      BY OverTypes, SMTT(30)
    <3> QED
      BY <2>1, <3>1 DEF StopLevel
  <2>3. IF StopLevel < last THEN Begin("volume", StopLevel, 0) ELSE Goto("acted") /\ UNCHANGED cmd
    BY <1>2 DEF stopFade, StopLevel
  <2>4. CASE Begin("volume", 0, 0)
    BY <2>4, BeginCmd DEF CmdKinds
  <2>5. CASE ~(0 < last) /\ Goto("acted") /\ UNCHANGED cmd
    <3>1. last = 0
      BY <2>5, OverTypes, SMTT(30)
    <3> QED
      BY <1>2, <2>5, <3>1, CmdFacts DEF stopFade, CommandInv, Busy
  <2> QED
    BY <2>2, <2>3, <2>4, <2>5
<1>3. CASE ~(automate \/ stopFade)
  BY <1>3, LoopEnds, LoopBegins, CmdFacts DEF Begins, Command
<1> QED
  BY <1>1, <1>2, <1>3

(* Every step keeps the Stop in time, silent and last.                     *)
LEMMA StepStop ==
  ASSUME Types, CommandInv, BufferInv, StopInv, [Next]_vars
  PROVE  StopInv'
<1> USE DEF clock, worker, parts, player, view, flags
<1>1. ASSUME UNCHANGED <<plan, at, vol, last, cmd, stage, outcome, stops>>, now' \in {now, now + 1},
             pc' = pc \/ (pc \in Over /\ pc' \in Over) \/ (pc \in {"pre", "send"} /\ pc' \in {"pre", "send"})
      PROVE  StopInv'
  <2>0. at <= now
    BY DEF StopInv
  <2>1. at' <= now'
    BY <1>1, <2>0, OverTypes, SMTT(30)
  <2>2. \A n \in Nat : now >= n => now' >= n
    BY <1>1, OverTypes, SMTT(30)
  <2>3. plan.fade \in Nat /\ plan.dur \in Nat
    BY OverTypes
  <2>4. over' <=> over
    BY <1>1 DEF over, automating
  <2>5. (outcome' \in {"succeeded", "incomplete"} /\ Volumed') =>
          /\ stops' = 1 /\ now' >= (IF plan'.kind = "fade" THEN plan'.fade ELSE plan'.dur)
          /\ plan'.fade > 0 => vol' = 0
    BY <1>1, <2>2, <2>3 DEF StopInv, Volumed
  <2>6. /\ (stops > 0 => pc' \in {"sent"} \cup Over)
        /\ (outcome # "" => pc' \in Over)
        /\ pc' = "sent" <=> pc = "sent"
        /\ pc' = "acted" => pc = "acted"
        /\ pc' \in Over => pc \in Over
    BY <1>1 DEF StopInv, Over
  <2>7. pc' \notin Over => vol' = IF pc' = "sent" /\ cmd'.kind = "volume" THEN cmd'.level ELSE last'
    BY <1>1, <2>6 DEF StopInv, Over
  <2>8. /\ (over' /\ plan'.fade > 0 /\ stage' = "run") =>
             /\ pc' = "acted" => last' = 0
             /\ cmd'.kind = "volume" => cmd'.level = 0
        /\ (cmd'.kind = "transport" /\ stage' = "run") =>
             over' /\ (plan'.fade > 0 => last' = 0) /\ (pc' = "sent" => stops' = 1)
    BY <1>1, <2>4, <2>6 DEF StopInv
  <2>9. stops' > 0 => /\ stops' = 1 /\ pc' \in {"sent"} \cup Over
                      /\ pc' = "sent" => (cmd'.kind = "transport" /\ stage' = "run")
    BY <1>1, <2>6 DEF StopInv
  <2> QED
    BY <1>1, <2>1, <2>5, <2>6, <2>7, <2>8, <2>9 DEF StopInv
<1>2. CASE Loop
  <2>1. /\ UNCHANGED <<plan, now, stage, last, vol, stops>> /\ at' \in {at, now}
        /\ pc \notin Busy /\ pc \notin Over /\ cmd.kind = "none"
    BY <1>2, LoopEnds, CmdFacts DEF CommandInv
  <2>2. vol = last /\ outcome = "" /\ ~(stops > 0) /\ at <= now
    BY <2>1 DEF StopInv, Busy
  <2>3. at' <= now'
    <3>1. now <= now
      BY OverTypes, SMTT(30)
    <3> QED
      BY <2>1, <2>2, <3>1
  <2>4. pc' # "sent"
    BY <1>2, LoopBegins DEF Begins, Command, Rounds, Over
  <2>5. outcome' # "" => pc' \in Over
    BY <1>2, <2>2, LoopEnds DEF Over
  <2>6. ~(outcome' \in {"succeeded", "incomplete"} /\ Volumed')
    BY <1>2, <2>1, <2>2, LoopEnds DEF Volumed
  <2>7. (over' /\ plan'.fade > 0 /\ stage' = "run") =>
          /\ pc' = "acted" => last' = 0
          /\ cmd'.kind = "volume" => cmd'.level = 0
    BY <1>2, <2>1, LoopSilent
  <2>8. (cmd'.kind = "transport" /\ stage' = "run") => over' /\ (plan'.fade > 0 => last' = 0)
    <3> SUFFICES ASSUME cmd'.kind = "transport", stage' = "run"
                 PROVE  over' /\ (plan'.fade > 0 => last' = 0)
      OBVIOUS
    <3>1. acted /\ over
      BY <1>2, <2>1, LoopBegins, CmdFacts DEF Begins, Command
    <3>2. at' = at /\ pc = "acted"
      BY <3>1 DEF acted
    <3> QED
      BY <2>1, <3>1, <3>2 DEF StopInv, over, automating
  <2> QED
    BY <2>1, <2>2, <2>3, <2>4, <2>5, <2>6, <2>7, <2>8 DEF StopInv
<1>4. CASE Write
  <2>1. CASE (Observe /\ pc' = "send") \/ Reuse \/ Stale
    BY <1>1, <2>1, Observes DEF Reuse, Stale, Goto
  <2>e. ASSUME pc = "send", Effect
        PROVE  /\ vol' = (IF cmd.kind = "volume" THEN cmd.level ELSE last)
               /\ stops' = (IF cmd.kind = "transport" /\ stage = "run" THEN 1 ELSE 0)
    <3>1. ~(stops > 0) /\ vol = last
      BY <2>e DEF StopInv, Over
    <3>2. stops = 0
      BY <3>1, OverTypes, SMTT(30)
    <3> QED
      BY <2>e, <3>1, <3>2, SMTT(30) DEF Effect
  <2>4. CASE Send
    <3>1. /\ pc = "send" /\ pc' = "sent" /\ Effect
          /\ UNCHANGED <<now, plan, at, last, cmd, stage, outcome>>
      BY <2>4 DEF Send, Goto
    <3>2. /\ vol' = (IF cmd.kind = "volume" THEN cmd.level ELSE last)
          /\ stops' = (IF cmd.kind = "transport" /\ stage = "run" THEN 1 ELSE 0)
          /\ ~(0 > 0)
      BY <2>e, <3>1, SMTT(30)
    <3>3. outcome = ""
      BY <3>1 DEF StopInv, Over
    <3>4. over' <=> over
      BY <3>1 DEF over, automating
    <3>5. stops' > 0 => stops' = 1 /\ cmd.kind = "transport" /\ stage = "run"
      BY <3>2
    <3>6. /\ (over' /\ plan'.fade > 0 /\ stage' = "run") => (cmd'.kind = "volume" => cmd'.level = 0)
          /\ (cmd'.kind = "transport" /\ stage' = "run") =>
               over' /\ (plan'.fade > 0 => last' = 0) /\ stops' = 1
      BY <3>1, <3>2, <3>4 DEF StopInv
    <3> QED
      BY <3>1, <3>2, <3>3, <3>5, <3>6 DEF StopInv
  <2>5. ASSUME NEW result \in Results, NEW done \in BOOLEAN, NEW doubt \in BOOLEAN,
               CommandEnds(result, done, doubt)
        PROVE  StopInv'
    <3>1. /\ Returns(result) /\ pc \in Busy /\ cmd'.kind = "none" /\ UNCHANGED <<plan, now, at>>
          /\ last' = IF result = "ok" /\ cmd.kind = "volume" THEN cmd.level ELSE last
      BY <2>5, ReturnSteps, CmdFacts DEF CommandEnds, Return
    <3>2. outcome = "" /\ at <= now
      BY <3>1 DEF StopInv, Over, Busy
    <3>3. pc' \in {"start", "loop", "acted", "persist"} /\ (outcome' # "" => pc' \in Over)
      BY <3>1, <3>2 DEF Returns, Over
    <3>4. CASE result = "lost" /\ pc = "send" /\ Effect
      <4>1. pc' = "persist" /\ outcome' \in {"uncertain", "failed"}
        BY <3>1, <3>4 DEF Returns
      <4>2. stops' \in {0, 1} /\ ~(0 > 0)
        BY <2>e, <3>4, SMTT(30)
      <4> QED
        BY <3>1, <3>2, <4>1, <4>2 DEF StopInv, Over
    <3>5. CASE UNCHANGED <<vol, stops>>
      <4>1. pc' \notin Over => vol' = last'
        <5>1. ASSUME pc' \notin Over PROVE result \in {"ok", "timeline", "not_skippable"}
          BY <3>1, <5>1 DEF Returns, Over
        <5>2. CASE result = "ok"
          BY <2>5, <3>1, <3>5, <5>2 DEF CommandEnds, StopInv, Over
        <5>3. CASE result \in {"timeline", "not_skippable"}
          BY <2>5, <3>1, <3>5, <5>3 DEF CommandEnds, StopInv, Over
        <5> QED
          BY <5>1, <5>2, <5>3
      <4>2. (over' /\ plan'.fade > 0 /\ stage' = "run" /\ pc' = "acted") => last' = 0
        <5> SUFFICES ASSUME over', plan'.fade > 0, stage' = "run", pc' = "acted" PROVE last' = 0
          OBVIOUS
        <5>1. stage = "run" /\ result = "ok" /\ cmd.kind = "volume"
          BY <3>1 DEF Returns
        <5>2. over
          BY <3>1, <5>1 DEF over, automating
        <5> QED
          BY <3>1, <5>1, <5>2 DEF StopInv
      <4>3. stops' > 0 => stops' = 1 /\ pc' \in Over
        <5> SUFFICES ASSUME stops > 0 PROVE stops = 1 /\ pc' \in Over
          BY <3>5
        <5>1. stops = 1 /\ pc = "sent" /\ cmd.kind = "transport" /\ stage = "run"
          BY <3>1 DEF StopInv, Over, Busy
        <5>2. result \notin {"timeline", "not_skippable"}
          BY <2>5, <5>1 DEF CommandEnds
        <5> QED
          BY <3>1, <5>1, <5>2 DEF Returns, Over
      <4>4. (outcome' \in {"succeeded", "incomplete"} /\ Volumed') =>
              /\ stops' = 1 /\ now' >= (IF plan'.kind = "fade" THEN plan'.fade ELSE plan'.dur)
              /\ plan'.fade > 0 => vol' = 0
        <5> SUFFICES ASSUME outcome' \in {"succeeded", "incomplete"}, Volumed
                     PROVE  /\ stops = 1 /\ now >= (IF plan.kind = "fade" THEN plan.fade ELSE plan.dur)
                            /\ plan.fade > 0 => vol = 0
          BY <3>1, <3>5 DEF Volumed
        <5>1. result = "ok" /\ stage = "run" /\ cmd.kind = "transport"
          BY <3>1, <3>2 DEF Returns
        <5>2. pc = "sent"
          BY <2>5, <5>1 DEF CommandEnds
        <5>3. over /\ (plan.fade > 0 => last = 0) /\ stops = 1 /\ vol = last
          BY <5>1, <5>2 DEF StopInv, Over
        <5>4. at >= IF plan.kind = "fade" THEN plan.fade ELSE plan.dur
          BY <5>1, <5>3 DEF over, automating, Volumed
        <5>5. now >= IF plan.kind = "fade" THEN plan.fade ELSE plan.dur
          <6>0. at <= now
            BY <3>2
          <6>1. \A n \in Nat : at >= n => now >= n
            BY <6>0, OverTypes, SMTT(30)
          <6> QED
            BY <5>4, <6>1, OverTypes
        <5> QED
          BY <5>3, <5>5
      <4> QED
        BY <3>1, <3>2, <3>3, <4>1, <4>2, <4>3, <4>4 DEF StopInv, Over
    <3> QED
      BY <2>5, <3>4, <3>5 DEF CommandEnds, Sendable
  <2> QED
    BY <1>4, <2>1, <2>4, <2>5, CommandEnding DEF Write
<1>5. CASE Exit
  BY <1>1, <1>5 DEF Exit, Persist, closeBufferedSkips, Goto, Over
<1>6. CASE Tick \/ Moves \/ Notified \/ Cancel
  BY <1>1, <1>6 DEF Tick, Moves, Notified, Cancel
<1>7. CASE submitBufferedSkip \/ AdmitFails \/ Admitted \/ persistBufferedSkip
  BY <1>1, <1>7 DEF submitBufferedSkip, AdmitFails, Admitted, persistBufferedSkip, Calls
<1>8. CASE UNCHANGED vars
  BY <1>1, <1>8 DEF vars
<1> QED
  BY <1>2, <1>4, <1>5, <1>6, <1>7, <1>8 DEF Next, Worker, Ended
-----------------------------------------------------------------------------
(* The envelope.                                                           *)

(* The ramp climbs from the start level to the target.                     *)
LEMMA RampFacts ==
  ASSUME Types, plan.kind = "automate", NEW m \in Nat, NEW n \in Nat, m <= n
  PROVE  /\ Ramp(n) \in Nat /\ plan.level <= Ramp(n) /\ Ramp(n) <= plan.target
         /\ Ramp(m) <= Ramp(n)
<1>t. /\ plan.level \in Nat /\ plan.target \in Nat /\ plan.ramp \in Nat /\ plan.level <= plan.target
      /\ plan.target - plan.level \in Nat
  <2>1. /\ plan.level \in Nat /\ plan.target \in Nat /\ plan.ramp \in Nat /\ plan.level <= plan.target
    BY PlanFacts, EnvelopeFacts DEF Types
  <2> QED
    BY <2>1, SMTT(30)
<1>1. ASSUME NEW k \in Nat PROVE Ramp(k) \in Nat /\ plan.level <= Ramp(k) /\ Ramp(k) <= plan.target
  <2>1. CASE k < plan.ramp
    <3> DEFINE q == (k * (plan.target - plan.level)) \div plan.ramp
    <3>1. plan.ramp \in Nat \ {0} /\ k <= plan.ramp
      BY <1>t, <2>1, SMTT(30)
    <3>2. q \in 0..(plan.target - plan.level)
      BY <1>t, <3>1, DivBound
    <3>3. Ramp(k) = plan.level + q
      BY <2>1 DEF Ramp
    <3> HIDE DEF q
    <3>4. plan.level + q \in Nat /\ plan.level <= plan.level + q /\ plan.level + q <= plan.target
      BY <1>t, <3>2, SMTT(30)
    <3> QED
      BY <3>3, <3>4
  <2>2. CASE ~(k < plan.ramp)
    <3>1. plan.target <= plan.target
      BY <1>t, SMTT(30)
    <3> QED
      BY <1>t, <2>2, <3>1 DEF Ramp
  <2> QED
    BY <2>1, <2>2
<1>2. Ramp(m) <= Ramp(n)
  <2>1. CASE n < plan.ramp
    <3> DEFINE p == (m * (plan.target - plan.level)) \div plan.ramp
               q == (n * (plan.target - plan.level)) \div plan.ramp
    <3>1. plan.ramp \in Nat \ {0} /\ m < plan.ramp /\ m <= plan.ramp /\ n <= plan.ramp
      BY <1>t, <2>1, SMTT(30)
    <3>2. p <= q
      BY <1>t, <3>1, DivMonotone
    <3>3. p \in 0..(plan.target - plan.level) /\ q \in 0..(plan.target - plan.level)
      BY <1>t, <3>1, DivBound
    <3>4. Ramp(m) = plan.level + p /\ Ramp(n) = plan.level + q
      BY <2>1, <3>1 DEF Ramp
    <3> HIDE DEF p, q
    <3>5. plan.level + p <= plan.level + q
      BY <1>t, <3>2, <3>3, SMTT(30)
    <3> QED
      BY <3>4, <3>5
  <2>2. CASE ~(n < plan.ramp)
    BY <1>1, <2>2 DEF Ramp
  <2> QED
    BY <2>1, <2>2
<1> QED
  BY <1>1, <1>2

(* The fade falls, from where it began.                                    *)
LEMMA FallFacts ==
  ASSUME Types, NEW f \in Nat, NEW m \in Nat, NEW n \in Nat, m <= n,
         plan.fade > 0, m >= plan.dur - plan.fade, n < plan.dur
  PROVE  /\ Fall(f, m) \in Nat /\ Fall(f, n) \in Nat /\ Fall(f, n) <= Fall(f, m) /\ Fall(f, n) <= f
<1>t. plan.dur \in Nat /\ plan.fade \in Nat
  BY PlanFacts DEF Types
<1> DEFINE i == m - (plan.dur - plan.fade)
           j == n - (plan.dur - plan.fade)
<1>1. i \in Nat /\ j \in Nat /\ i <= j /\ i <= plan.fade /\ j <= plan.fade /\ plan.fade \in Nat \ {0}
  BY <1>t, SMTT(30)
<1> HIDE DEF i, j
<1> DEFINE p == (i * f) \div plan.fade
           q == (j * f) \div plan.fade
<1>2. p <= q
  BY <1>1, DivMonotone
<1>3. p \in 0..f /\ q \in 0..f
  BY <1>1, DivBound
<1>4. Fall(f, m) = f - p /\ Fall(f, n) = f - q
  BY DEF Fall, i, j
<1> HIDE DEF p, q
<1>5. f - p \in Nat /\ f - q \in Nat /\ f - q <= f - p /\ f - q <= f
  BY <1>2, <1>3, SMTT(30)
<1> QED
  BY <1>4, <1>5

(* Types of what the envelope is computed from.                            *)
LEMMA EnvelopeTypes ==
  ASSUME Types, plan.kind = "automate"
  PROVE  /\ now \in Nat /\ at \in Nat /\ last \in Nat /\ fadeFrom \in Nat \cup {-1}
         /\ plan.dur \in Nat /\ plan.fade \in Nat /\ plan.target \in Nat
         /\ FadeBase \in Nat /\ Level \in Nat /\ cmd.level \in Nat
BY PlanFacts, LevelType, CmdFacts DEF Types

(* A round of automate: the new level is the one of the envelope at this   *)
(* time, above the last one before the fade and below it from then on.     *)
LEMMA AutomateEnvelope ==
  ASSUME Types, CommandInv, StopInv, EnvelopeInv, automate
  PROVE  EnvelopeInv'
<1>k. plan.kind = "automate" /\ stage = "run" /\ at <= now /\ cmd.kind = "none"
  BY CmdFacts DEF automate, automating, StopInv, CommandInv, Busy
<1>u. /\ UNCHANGED <<plan, last, stage>> /\ at' = now
      /\ fadeFrom' = IF now < plan.dur /\ fading THEN FadeBase ELSE fadeFrom
  BY DEF automate, Quiet, clock
<1>t. /\ now \in Nat /\ at \in Nat /\ last \in Nat /\ fadeFrom \in Nat \cup {-1}
      /\ plan.dur \in Nat /\ plan.fade \in Nat /\ plan.target \in Nat
      /\ FadeBase \in Nat /\ Level \in Nat
  BY <1>k, EnvelopeTypes
<1>e. /\ last <= plan.target /\ fadeFrom <= plan.target
      /\ fadeFrom >= 0 => ~Opening /\ plan.fade > 0
      /\ Opening => last <= Ramp(at)
      /\ (fadeFrom >= 0 /\ at < plan.dur) => last >= Fall(fadeFrom, at)
  BY <1>k DEF EnvelopeInv
<1>f. ~(fadeFrom >= 0) => FadeBase = last
  BY <1>t, SMTT(30) DEF FadeBase
<1>g. fadeFrom >= 0 => FadeBase = fadeFrom
  BY <1>t, SMTT(30) DEF FadeBase
<1>o. Opening' <=> now < plan.dur - plan.fade
  BY <1>u DEF Opening
<1>1. last' <= plan.target /\ fadeFrom' <= plan.target
  BY <1>e, <1>f, <1>g, <1>u
<1>2. fadeFrom' >= 0 => ~(now < plan.dur - plan.fade) /\ plan.fade > 0
  <2>1. CASE now < plan.dur /\ fading
    BY <1>t, <2>1, SMTT(30) DEF fading
  <2>2. CASE ~(now < plan.dur /\ fading) /\ fadeFrom >= 0
    <3>1. ~(at < plan.dur - plan.fade) /\ plan.fade > 0
      BY <1>e, <2>2 DEF Opening
    <3> QED
      BY <1>k, <1>t, <3>1, SMTT(30)
  <2> QED
    BY <1>u, <2>1, <2>2
<1>3. now < plan.dur - plan.fade => last <= Ramp(now)
  <2> SUFFICES ASSUME now < plan.dur - plan.fade PROVE last <= Ramp(now)
    OBVIOUS
  <2>1. Opening
    BY <1>k, <1>t, SMTT(30) DEF Opening
  <2>2. Ramp(at) \in Nat /\ Ramp(now) \in Nat /\ Ramp(at) <= Ramp(now)
    <3>1. at <= at
      BY <1>t, SMTT(30)
    <3> QED
      BY <1>k, <1>t, <3>1, RampFacts
  <2>3. \A x \in Nat, y \in Nat : last <= x /\ x <= y => last <= y
    BY <1>t, SMTT(30)
  <2> QED
    BY <1>e, <2>1, <2>2, <2>3
<1>4. (fadeFrom' >= 0 /\ now < plan.dur) =>
        /\ fading /\ fadeFrom' = FadeBase
        /\ Fall(FadeBase, now) \in Nat /\ last >= Fall(FadeBase, now)
  <2> SUFFICES ASSUME fadeFrom' >= 0, now < plan.dur
               PROVE  /\ fading /\ fadeFrom' = FadeBase
                      /\ Fall(FadeBase, now) \in Nat /\ last >= Fall(FadeBase, now)
    OBVIOUS
  <2>1. fading /\ plan.fade > 0 /\ now >= plan.dur - plan.fade
    BY <1>2, <1>t, SMTT(30) DEF fading
  <2>2. now <= now
    BY <1>t, SMTT(30)
  <2>3. Fall(FadeBase, now) \in Nat /\ Fall(FadeBase, now) <= FadeBase
    BY <1>t, <2>1, <2>2, FallFacts
  <2>4. CASE ~(fadeFrom >= 0)
    <3>1. \A x \in Nat : x <= last => last >= x
      BY <1>t, SMTT(30)
    <3> QED
      BY <1>f, <1>u, <2>1, <2>3, <2>4, <3>1
  <2>5. CASE fadeFrom >= 0
    <3>1. ~(at < plan.dur - plan.fade) /\ fadeFrom \in Nat
      BY <1>e, <1>g, <1>t, <2>5 DEF Opening
    <3>2. at >= plan.dur - plan.fade /\ at < plan.dur
      BY <1>k, <1>t, <3>1, SMTT(30)
    <3>3. Fall(fadeFrom, at) \in Nat /\ Fall(fadeFrom, now) <= Fall(fadeFrom, at)
      BY <1>k, <1>t, <2>1, <3>1, <3>2, FallFacts
    <3>4. \A x \in Nat, y \in Nat : last >= x /\ y <= x => last >= y
      BY <1>t, SMTT(30)
    <3> QED
      BY <1>e, <1>g, <1>u, <2>1, <2>3, <2>5, <3>2, <3>3, <3>4
  <2> QED
    BY <2>4, <2>5
<1>5. ASSUME cmd'.kind = "volume"
      PROVE  /\ cmd'.level = Level /\ Level # last
             /\ now < plan.dur - plan.fade => Level = Ramp(now) /\ Level > last
             /\ ~(now < plan.dur - plan.fade) => plan.fade > 0 /\ Level < last
             /\ (~(now < plan.dur - plan.fade) /\ now < plan.dur) =>
                  fadeFrom' >= 0 /\ Level = Fall(FadeBase, now)
             /\ now >= plan.dur => Level = 0
  <2>1. cmd'.level = Level /\ Level # last
    <3>1. Begin("volume", Level, 0) /\ Level # last
      BY <1>5, <1>k DEF automate
    <3> QED
      BY <1>t, <3>1, BeginCmd DEF CmdKinds
  <2>2. CASE now < plan.dur - plan.fade
    <3>1. now < plan.dur /\ ~(now >= plan.dur) /\ ~fading
      BY <1>t, <2>2, SMTT(30) DEF fading
    <3>2. Level = Ramp(now)
      BY <3>1 DEF Level, Ramp
    <3>3. \A x \in Nat : last <= x /\ x # last => x > last
      BY <1>t, SMTT(30)
    <3> QED
      BY <1>3, <1>t, <2>1, <2>2, <3>1, <3>2, <3>3
  <2>3. CASE ~(now < plan.dur - plan.fade) /\ now < plan.dur
    <3>1. plan.fade > 0 /\ fading /\ ~(now >= plan.dur)
      BY <1>t, <2>3, SMTT(30) DEF fading
    <3>2. Level = Fall(FadeBase, now)
      BY <2>3, <3>1 DEF Level, Fall
    <3>3. fadeFrom' = FadeBase /\ FadeBase >= 0
      <4>1. FadeBase >= 0
        BY <1>t, SMTT(30)
      <4> QED
        BY <1>u, <2>3, <3>1, <4>1
    <3>4. \A x \in Nat : last >= x /\ x # last => x < last
      BY <1>t, SMTT(30)
    <3> QED
      BY <1>4, <1>t, <2>1, <2>3, <3>1, <3>2, <3>3, <3>4
  <2>4. CASE ~(now < plan.dur - plan.fade) /\ ~(now < plan.dur)
    <3>1. now >= plan.dur
      BY <1>t, <2>4, SMTT(30)
    <3>2. Level = IF plan.fade > 0 THEN 0 ELSE last
      BY <2>4, <3>1 DEF Level
    <3>3. plan.fade > 0 /\ Level = 0
      BY <2>1, <3>2
    <3>4. Level < last
      BY <1>t, <2>1, <3>3, SMTT(30)
    <3> QED
      BY <2>1, <2>4, <3>1, <3>3, <3>4
  <2> QED
    BY <2>2, <2>3, <2>4
<1>6. Ramp(at)' = Ramp(now) /\ Fall(fadeFrom, at)' = Fall(fadeFrom', now)
  BY <1>u DEF Ramp, Fall
<1>7. (fadeFrom' >= 0 /\ now < plan.dur) => Fall(fadeFrom, at)' = Fall(FadeBase, now)
  BY <1>4, <1>6
<1>8. (Opening => last <= Ramp(at))'
  BY <1>3, <1>6, <1>o, <1>u
<1>9. ((fadeFrom >= 0 /\ at < plan.dur) => last >= Fall(fadeFrom, at))'
  BY <1>4, <1>7, <1>u
<1>10. (fadeFrom >= 0 => ~Opening /\ plan.fade > 0)'
  BY <1>2, <1>o, <1>u
<1>11. ASSUME cmd'.kind = "volume"
       PROVE  (/\ Opening => cmd.level = Ramp(at) /\ cmd.level > last
               /\ ~Opening => plan.fade > 0 /\ cmd.level < last
               /\ (~Opening /\ at < plan.dur) => fadeFrom >= 0 /\ cmd.level = Fall(fadeFrom, at)
               /\ at >= plan.dur => cmd.level = 0)'
  <2>1. (Opening => cmd.level = Ramp(at) /\ cmd.level > last)'
    BY <1>11, <1>5, <1>6, <1>o, <1>u
  <2>2. (~Opening => plan.fade > 0 /\ cmd.level < last)'
    BY <1>11, <1>5, <1>o, <1>u
  <2>3. ((~Opening /\ at < plan.dur) => fadeFrom >= 0 /\ cmd.level = Fall(fadeFrom, at))'
    BY <1>11, <1>5, <1>7, <1>o, <1>u
  <2>4. (at >= plan.dur => cmd.level = 0)'
    BY <1>11, <1>5, <1>u
  <2> QED
    BY <2>1, <2>2, <2>3, <2>4
<1> QED
  BY <1>1, <1>8, <1>9, <1>10, <1>11, <1>k, <1>u DEF EnvelopeInv

(* Every step keeps the volume within the envelope.                        *)
LEMMA StepEnvelope ==
  ASSUME Types, CommandInv, BufferInv, StopInv, EnvelopeInv, [Next]_vars
  PROVE  EnvelopeInv'
<1> USE DEF clock, worker, parts, player, view, flags
<1>1. ASSUME UNCHANGED <<plan, at, fadeFrom, last>>, stage' # "run" => stage # "run",
             (cmd'.kind = "volume" /\ stage' = "run") => cmd' = cmd /\ stage' = stage
      PROVE  EnvelopeInv'
  <2>1. (Opening' <=> Opening) /\ Ramp(at)' = Ramp(at) /\ Fall(fadeFrom, at)' = Fall(fadeFrom, at)
    BY <1>1 DEF Opening, Ramp, Fall
  <2> QED
    BY <1>1, <2>1 DEF EnvelopeInv
<1>2. CASE Loop
  <2>1. CASE automate
    BY <2>1, AutomateEnvelope
  <2>2. CASE ~automate /\ plan.kind = "automate"
    <3>1. ~stopFade
      BY <2>2 DEF stopFade
    <3>2. UNCHANGED <<plan, at, last, stage>>
      BY <1>2, <2>2, <3>1, LoopEnds
    <3>3. UNCHANGED fadeFrom
      BY <1>2, <2>2, <3>1 DEF Loop, startPlayback, LoopFails, checkOwnership, acted,
         loadRemaining, loadBuffered, serviceBufferedSkip, bufferedStep, bufferedRefill, Wakes
    <3>4. ~(cmd'.kind = "volume" /\ stage = "run")
      BY <1>2, <2>2, <3>1, LoopBegins, CmdFacts DEF Begins, Command
    <3> QED
      BY <1>1, <3>2, <3>3, <3>4
  <2>3. CASE plan.kind # "automate"
    BY <1>2, <2>3, LoopEnds DEF EnvelopeInv
  <2> QED
    BY <2>1, <2>2, <2>3
<1>4. CASE Write
  <2>1. CASE (Observe /\ pc' = "send") \/ Reuse \/ Stale
    BY <1>1, <2>1, Observes DEF Reuse, Stale, Goto
  <2>2. CASE Send
    BY <1>1, <2>2 DEF Send
  <2>3. ASSUME NEW result \in Results, NEW done \in BOOLEAN, NEW doubt \in BOOLEAN,
               CommandEnds(result, done, doubt)
        PROVE  EnvelopeInv'
    <3>1. /\ Returns(result) /\ pc \in Busy /\ cmd'.kind = "none" /\ UNCHANGED <<plan, at, fadeFrom>>
          /\ last' = IF result = "ok" /\ cmd.kind = "volume" THEN cmd.level ELSE last
      BY <2>3, ReturnSteps, CmdFacts DEF CommandEnds, Return
    <3>2. stage' # "run" => stage # "run"
      BY <3>1 DEF Returns
    <3>3. CASE last' = last
      BY <1>1, <3>1, <3>2, <3>3
    <3>4. CASE last' = cmd.level /\ cmd.kind = "volume" /\ plan.kind = "automate"
      <4>t. /\ at \in Nat /\ last \in Nat /\ cmd.level \in Nat /\ plan.target \in Nat
            /\ plan.level \in Nat /\ plan.level <= plan.target /\ at <= at
        <5>1. /\ at \in Nat /\ last \in Nat /\ cmd.level \in Nat /\ plan.target \in Nat
              /\ plan.level \in Nat /\ plan.level <= plan.target
          BY <3>4, EnvelopeTypes, EnvelopeFacts, PlanFacts DEF Types
        <5> QED
          BY <5>1, SMTT(30)
      <4>r. plan.level <= Ramp(at) /\ Ramp(at) <= plan.target /\ Ramp(at) \in Nat
        BY <3>4, <4>t, RampFacts
      <4>1. cmd.level <= plan.target
        <5>1. CASE stage = "run" /\ Opening
          BY <3>4, <4>r, <5>1 DEF EnvelopeInv
        <5>2. CASE stage = "run" /\ ~Opening
          <6>1. cmd.level < last /\ last <= plan.target
            BY <3>4, <5>2 DEF EnvelopeInv
          <6> QED
            BY <4>t, <6>1, SMTT(30)
        <5>3. CASE stage # "run"
          BY <3>1, <4>t, <5>3 DEF CommandInv
        <5> QED
          BY <5>1, <5>2, <5>3
      <4>2. Opening => cmd.level <= Ramp(at)
        <5>1. CASE stage = "run"
          <6>1. Ramp(at) <= Ramp(at)
            BY <3>4, <4>t, RampFacts
          <6> QED
            BY <3>4, <5>1, <6>1 DEF EnvelopeInv
        <5>2. CASE stage # "run"
          BY <3>1, <4>r, <5>2 DEF CommandInv
        <5> QED
          BY <5>1, <5>2
      <4>3. (fadeFrom >= 0 /\ at < plan.dur) => cmd.level >= Fall(fadeFrom, at)
        <5>1. cmd.level >= cmd.level
          BY <4>t, SMTT(30)
        <5> QED
          BY <3>4, <5>1 DEF EnvelopeInv
      <4>4. (Opening' <=> Opening) /\ Ramp(at)' = Ramp(at) /\ Fall(fadeFrom, at)' = Fall(fadeFrom, at)
        BY <3>1 DEF Opening, Ramp, Fall
      <4> QED
        BY <3>1, <3>2, <3>4, <4>1, <4>2, <4>3, <4>4 DEF EnvelopeInv
    <3> QED
      BY <3>1, <3>3, <3>4 DEF EnvelopeInv
  <2> QED
    BY <1>4, <2>1, <2>2, <2>3, CommandEnding DEF Write
<1>5. CASE Exit
  BY <1>1, <1>5 DEF Exit, Persist, closeBufferedSkips
<1>6. CASE Tick \/ Moves \/ Notified \/ Cancel
  BY <1>1, <1>6 DEF Tick, Moves, Notified, Cancel
<1>7. CASE submitBufferedSkip \/ AdmitFails \/ Admitted \/ persistBufferedSkip
  BY <1>1, <1>7 DEF submitBufferedSkip, AdmitFails, Admitted, persistBufferedSkip, Calls
<1>8. CASE UNCHANGED vars
  BY <1>1, <1>8 DEF vars
<1> QED
  BY <1>2, <1>4, <1>5, <1>6, <1>7, <1>8 DEF Next, Worker, Ended
-----------------------------------------------------------------------------
(* The theorems.                                                           *)

(* The invariant holds when a playback was admitted.                       *)
LEMMA InitInv ==
  ASSUME Init
  PROVE  Inv
<1>p. /\ plan \in Plans /\ plan.level \in Nat /\ plan.target \in Nat /\ plan.fade \in Nat
      /\ plan.max \in Nat /\ plan.dur \in Nat /\ plan.threshold \in Nat /\ plan.retain \in Nat
  BY PlanFacts DEF Init
<1>0. 1 \in 1..Len(plan.parts)
  BY <1>p, PlanFacts, SMTT(30)
<1>1. /\ plan.parts[1] \in Nat
      /\ plan.buffered => plan.parts[1] <= plan.max /\ plan.parts[1] + 0 <= plan.max
  <2>1. /\ plan.parts[1] \in Nat
        /\ plan.buffered => plan.parts[1] + plan.threshold + plan.retain + 1 <= plan.max
    BY <1>0, <1>p, PartFacts
  <2> DEFINE q == plan.parts[1]
  <2>2. /\ q \in Nat
        /\ plan.buffered => q + plan.threshold + plan.retain + 1 <= plan.max
    BY <2>1
  <2> HIDE DEF q
  <2>3. plan.buffered => q <= plan.max /\ q + 0 <= plan.max
    BY <1>p, <2>2, SMTT(30)
  <2> QED
    BY <2>1, <2>3 DEF q
<1>n. /\ \A n \in Nat : n \in Int /\ 0 <= n /\ n <= n /\ -1 <= n
      /\ ~(0 > 0) /\ ~(-1 >= 0) /\ 0 \in Nat /\ 0 <= 0
  BY SMTT(30)
<1> USE DEF Init
<1>c. pc \notin Busy /\ pc \notin Over /\ pc # "acted" /\ pc \notin {"kid", "step", "prep", "check"}
  BY DEF Busy, Over
<1>2. Types
  <2>1. slot \in Children /\ cmd \in Cmds
    BY ChildFacts, CmdFacts
  <2>2. fadeFrom \in Nat \cup {-1}
    OBVIOUS
  <2>3. pc \in {"start"} \cup Busy \cup Rounds \cup Over /\ stage \in Starting \cup {"run"}
    BY DEF Rounds, Starting
  <2> QED
    BY <1>1, <1>n, <1>p, <2>1, <2>2, <2>3 DEF Types
<1>3. CommandInv
  BY <1>c, CmdFacts DEF CommandInv, Rounds
<1>4. BufferInv
  BY <1>c, CmdFacts DEF BufferInv
<1>5. QueueInv
  BY <1>1, <1>c, <1>n, <1>p, CmdFacts DEF QueueInv
<1>6. SkipInv
  BY ChildFacts, CmdFacts DEF SkipInv, SkipHonest
<1>7. StopInv
  BY <1>c, <1>n, CmdFacts DEF StopInv, Busy
<1>8. EnvelopeInv
  <2> SUFFICES ASSUME plan.kind = "automate" PROVE EnvelopeInv
    BY DEF EnvelopeInv
  <2>1. plan.level <= plan.target
    BY <1>p, EnvelopeFacts
  <2>2. plan.level <= Ramp(0)
    BY <1>2, <1>n, RampFacts
  <2> QED
    BY <1>n, <1>p, <2>1, <2>2, CmdFacts DEF EnvelopeInv
<1> QED
  BY <1>2, <1>3, <1>4, <1>5, <1>6, <1>7, <1>8 DEF Inv

(* The invariant holds of every playback: startPlayback, automate,         *)
(* loadRemaining, loadBuffered and the skips, in any interleaving.         *)
THEOREM Invariance == Spec => []Inv
<1>1. Init => Inv
  BY InitInv
<1>2. Inv /\ [Next]_vars => Inv'
  <2> SUFFICES ASSUME Inv, [Next]_vars PROVE Inv'
    OBVIOUS
  <2>1. Types /\ CommandInv /\ BufferInv /\ QueueInv /\ SkipInv /\ StopInv /\ EnvelopeInv
    BY DEF Inv
  <2> QED
    BY <2>1, StepTypes, StepCommand, StepBuffer, StepQueue, StepSkip, StepStop, StepEnvelope DEF Inv
<1> QED
  BY <1>1, <1>2, PTL DEF Spec

(* EndsStopped: a playback, or a Stop, that ends well was stopped exactly  *)
(* once, in time and in silence, and nothing is sent after the Stop.       *)
THEOREM AlwaysEndsStopped == Spec => []EndsStopped
<1>1. Inv => EndsStopped
  BY DEF Inv, StopInv, EndsStopped, Over, Volumed
<1> QED
  BY <1>1, Invariance, PTL

(* QueueBounded: at every decision the player's queue is the one ordered;  *)
(* a buffered queue keeps its bound and never meets errBufferedCapacity.   *)
THEOREM AlwaysQueueBounded == Spec => []QueueBounded
<1>1. Inv => QueueBounded
  BY DEF Inv, QueueInv, QueueBounded, Over
<1> QED
  BY <1>1, Invariance, PTL

(* SkipHonest: the stored result of a buffered skip is the truth.          *)
THEOREM AlwaysSkipHonest == Spec => []SkipHonest
<1>1. Inv => SkipHonest
  BY DEF Inv, SkipInv
<1> QED
  BY <1>1, Invariance, PTL

(* Only a command that may be sent changes the volume or the queue.        *)
LEMMA PlayerChanges ==
  ASSUME Types, CommandInv, [Next]_vars
  PROVE  UNCHANGED <<vol, resident>> \/ (Sendable /\ Effect)
<1> USE DEF clock, worker, parts, player, view, flags
<1>1. CASE Loop
  BY <1>1 DEF Loop, startPlayback, LoopFails, automate, stopFade, checkOwnership, acted,
     loadRemaining, loadBuffered, serviceBufferedSkip, bufferedStep, bufferedRefill, Wakes, Quiet
<1>2. CASE Write
  BY <1>2, Observes, CommandEnding DEF Write, Reuse, Stale, Send, Sendable, CommandEnds
<1>3. CASE Exit
  BY <1>3 DEF Exit, Persist, closeBufferedSkips
<1>4. CASE Tick \/ Moves \/ Notified \/ Cancel
  BY <1>4 DEF Tick, Moves, Notified, Cancel
<1>5. CASE submitBufferedSkip \/ AdmitFails \/ Admitted \/ persistBufferedSkip
  BY <1>5 DEF submitBufferedSkip, AdmitFails, Admitted, persistBufferedSkip, Calls
<1>6. CASE UNCHANGED vars
  BY <1>6 DEF vars
<1> QED
  BY <1>1, <1>2, <1>3, <1>4, <1>5, <1>6 DEF Next, Worker, Ended

(* RetainedKept: no removal takes the last observed track or one of the    *)
(* retained ones before it, and the player is still at that track unless   *)
(* the notification of a change is on its way.                             *)
THEOREM AlwaysRetainedKept == Spec => RetainedKept
<1> DEFINE A == resident' < resident => /\ known - (resident - resident') > plan.retain
                                        /\ pos = known \/ wire
<1>1. Inv /\ [Next]_vars => [A]_vars
  <2> SUFFICES ASSUME Inv, [Next]_vars, resident' < resident
               PROVE  known - (resident - resident') > plan.retain /\ (pos = known \/ wire)
    OBVIOUS
  <2>i. Types /\ CommandInv /\ BufferInv /\ QueueInv
    BY DEF Inv
  <2>t. /\ resident \in Int /\ ordered \in Int /\ cmd.n \in Nat /\ pos \in Int /\ loaded \in Nat
        /\ plan.retain \in Nat
    BY <2>i, PlanFacts, CmdFacts DEF Types
  <2>1. resident' # resident
    BY <2>t, SMTT(30)
  <2>2. Sendable /\ Effect
    BY <2>1, <2>i, PlayerChanges
  <2>3. /\ pc = "send" /\ ~pending
        /\ resident' = IF cmd.kind \in {"queue", "append", "remove"} THEN ordered ELSE resident
    BY <2>2 DEF Sendable, Effect
  <2>4. CASE cmd.kind = "remove"
    <3>1. stage = "run"
      BY <2>3, <2>4, <2>i DEF CommandInv, Types, Starting, Busy
    <3>2. loaded >= 1
      BY <2>4, <2>i, <3>1 DEF BufferInv
    <3>3. loaded > 0
      BY <2>t, <3>2, SMTT(30)
    <3>4. resident = ordered + cmd.n
      BY <2>3, <2>4, <2>i, <3>3 DEF QueueInv, Restore, Over
    <3>5. known - cmd.n > plan.retain /\ (pos = known \/ wire)
      BY <2>3, <2>4, <2>i DEF BufferInv
    <3>6. resident - resident' = cmd.n
      BY <2>3, <2>4, <2>t, <3>4, SMTT(30)
    <3> QED
      BY <3>5, <3>6
  <2>5. CASE cmd.kind = "append"
    <3>1. stage = "run"
      BY <2>3, <2>5, <2>i DEF CommandInv, Types, Starting, Busy
    <3>2. loaded >= 1
      BY <2>5, <2>i, <3>1 DEF BufferInv
    <3>3. loaded > 0
      BY <2>t, <3>2, SMTT(30)
    <3>4. resident = ordered - Part /\ Part \in Nat
      BY <2>3, <2>5, <2>i, <3>3, PartType DEF QueueInv, BufferInv, Restore, Over
    <3> HIDE DEF Part
    <3> QED
      BY <2>3, <2>5, <2>t, <3>4, SMTT(30)
  <2>6. CASE cmd.kind = "queue"
    <3>1. stage # "run"
      BY <2>3, <2>6, <2>i DEF CommandInv, RunKinds, Busy
    <3>2. resident = 0 /\ ordered = plan.parts[1]
      BY <2>3, <2>i, <3>1 DEF QueueInv, BufferInv, Over
    <3>3. ordered \in Nat
      <4>1. 1 \in 1..Len(plan.parts)
        BY <2>i, PlanFacts, SMTT(30) DEF Types
      <4> QED
        BY <2>i, <3>2, <4>1, PartFacts DEF Types
    <3> QED
      BY <2>3, <2>6, <3>2, <3>3, SMTT(30)
  <2> QED
    BY <2>1, <2>3, <2>4, <2>5, <2>6
<1> QED
  BY <1>1, Invariance, PTL DEF Spec, RetainedKept

(* EnvelopeShape: the volume rises to the target, then only falls, and     *)
(* nothing audible is sent at or after the end of the playback.            *)
THEOREM AlwaysEnvelopeShape == Spec => EnvelopeShape
<1> DEFINE A == vol' # vol /\ automating =>
                  /\ vol' <= plan.target
                  /\ vol' > 0 => now < plan.dur
                  /\ IF at < plan.dur - plan.fade THEN vol' > vol ELSE vol' < vol
<1>1. Inv /\ [Next]_vars => [A]_vars
  <2> SUFFICES ASSUME Inv, [Next]_vars, vol' # vol, automating
               PROVE  /\ vol' <= plan.target
                      /\ vol' > 0 => now < plan.dur
                      /\ IF at < plan.dur - plan.fade THEN vol' > vol ELSE vol' < vol
    OBVIOUS
  <2>i. Types /\ CommandInv /\ StopInv /\ EnvelopeInv
    BY DEF Inv
  <2>2. Sendable /\ Effect
    BY <2>i, PlayerChanges
  <2>3. cmd.kind = "volume" /\ vol' = cmd.level /\ pc = "send" /\ now < SendBefore
    BY <2>2 DEF Sendable, Effect
  <2>4. vol = last
    BY <2>3, <2>i DEF StopInv, Over
  <2>5. plan.kind = "automate" /\ stage = "run"
    BY DEF automating
  <2>6. cmd.level > 0 => now < plan.dur
    BY <2>3, <2>5 DEF SendBefore, playbackDeadline, automating
  <2>7. IF at < plan.dur - plan.fade THEN cmd.level > last ELSE cmd.level < last
    BY <2>3, <2>5, <2>i DEF EnvelopeInv, Opening
  <2>8. cmd.level <= plan.target
    <3>t. at \in Nat /\ last \in Nat /\ cmd.level \in Nat /\ plan.target \in Nat
      BY <2>5, <2>i, EnvelopeTypes
    <3>1. CASE Opening
      <4>1. at <= at
        BY <3>t, SMTT(30)
      <4>2. Ramp(at) <= plan.target
        BY <2>5, <2>i, <3>t, <4>1, RampFacts
      <4> QED
        BY <2>3, <2>5, <2>i, <3>1, <4>2 DEF EnvelopeInv
    <3>2. CASE ~Opening
      <4>1. cmd.level < last /\ last <= plan.target
        BY <2>3, <2>5, <2>i, <3>2 DEF EnvelopeInv
      <4> QED
        BY <3>t, <4>1, SMTT(30)
    <3> QED
      BY <3>1, <3>2
  <2> QED
    BY <2>3, <2>4, <2>6, <2>7, <2>8
<1> QED
  BY <1>1, Invariance, PTL DEF Spec, EnvelopeShape
=============================================================================
