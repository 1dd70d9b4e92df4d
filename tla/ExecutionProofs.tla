--------------------------- MODULE ExecutionProofs ---------------------------
(***************************************************************************)
(* The outcome that a worker records is honest, for every program, player  *)
(* and number of disturbances.                                             *)
(***************************************************************************)
EXTENDS Execution, TLAPS

(* Leaves are left to Zenon; those that need arithmetic name SMT.          *)
USE ZenonT(40)
-----------------------------------------------------------------------------
Tokens == [gen : Nat, player : Nat, write : Nat]
Unwritten == {"admit", "idle", "pre", "check", "send", "wire"}
Written == {"sent", "confirm", "settle"}
Flying == {"wire", "sent"}

(* The counters and flags that the outcome depends on.                     *)
CounterType ==
  /\ token \in Tokens /\ confirmed \in Nat /\ pc \in Unwritten \cup Written \cup {"done"}
  /\ inflight \in BOOLEAN /\ uncertain \in BOOLEAN /\ unconfirmed \in BOOLEAN /\ revoked \in BOOLEAN

(* Before a command leaves, every earlier one is confirmed; from then on   *)
(* exactly one is not, and once it is acknowledged the worker says so.     *)
Counted == /\ pc \in Unwritten => token.write = confirmed /\ ~unconfirmed
           /\ pc \in Written => token.write = confirmed + 1
           /\ pc = "sent" => ~unconfirmed
           /\ pc \in {"sent", "done"} => how = ""
           /\ pc \in {"confirm", "settle"} => unconfirmed

(* Doubt arises only from a revocation while a command is in flight, and   *)
(* such a command is never confirmed.                                      *)
Doubted == /\ inflight <=> pc \in Flying
           /\ uncertain /\ pc # "done" => revoked /\ pc \in Flying \cup {"confirm"}

IndInv == /\ CounterType /\ Counted /\ Doubted /\ OutcomeHonest
          /\ pc # "done" => outcome = Running
-----------------------------------------------------------------------------
(* A running operation has no outcome yet.                                 *)
LEMMA RunningOpen == Running.state = "running" /\ Running.delivery = ""
  BY DEF Running

(* The worker's record starts with nothing sent.                           *)
LEMMA InitInv ==
  ASSUME Init
  PROVE  IndInv
<1>1. token = Token0 /\ token.write = 0 /\ confirmed = 0 /\ pc = "admit" /\ outcome = Running
  BY DEF Init, Token0
<1>2. token \in Tokens /\ confirmed \in Nat  BY <1>1, SMTT(30) DEF Token0, Tokens
<1>3. CounterType  BY <1>1, <1>2 DEF Init, CounterType, Unwritten
<1>4. Counted /\ Doubted  BY <1>1 DEF Init, Counted, Doubted, Written, Flying
<1>5. OutcomeHonest  BY <1>1 DEF OutcomeHonest, Running
<1> QED BY <1>1, <1>3, <1>4, <1>5 DEF IndInv

(* An end by failure: nothing was sent that is not confirmed, or the doubt *)
(* is recorded.                                                            *)
LEMMA FailsHonest ==
  ASSUME IndInv, NEW code \in {"read", "ownership", "unavailable", "not_skippable", "journal",
                               "not_sent", "lost", "timeout"},
         NEW unsure \in BOOLEAN, pc # "done", pc = "sent" => unsure, Fails(code, unsure)
  PROVE  IndInv'
<1> DEFINE doubt == uncertain \/ unsure \/ unconfirmed
<1>1. pc' = "done" /\ how' = "" /\ inflight' = FALSE /\ outcome' = Failed(code, doubt)
      /\ uncertain' = (uncertain \/ unsure) /\ UNCHANGED <<token, confirmed, unconfirmed, revoked>>
  BY DEF Fails, world, flags
<1>2. CounterType'  BY <1>1 DEF IndInv, CounterType
<1>3. Counted' /\ Doubted'  BY <1>1 DEF Counted, Doubted, Unwritten, Written, Flying
<1>4. outcome'.state # "succeeded" /\ outcome'.delivery # "rejected" /\ outcome'.delivery # "confirmed"
  BY <1>1 DEF Failed
<1>5. outcome'.delivery = "not_sent" => ~unsure /\ ~unconfirmed  BY <1>1 DEF Failed
<1>6. outcome'.delivery = "not_sent" => token'.write = confirmed'
  BY <1>1, <1>5 DEF IndInv, CounterType, Counted, Unwritten, Written
<1>7. OutcomeHonest'  BY <1>4, <1>6 DEF OutcomeHonest
<1> QED BY <1>1, <1>2, <1>3, <1>7 DEF IndInv

(* A release of ownership before a command leaves or in its last checks.   *)
LEMMA ReleaseHonest ==
  ASSUME IndInv, pc \in {"pre", "check", "settle"}, pc' = "done", how' = "", inflight' = FALSE,
         outcome' = Failed("ownership", uncertain \/ unconfirmed),
         UNCHANGED <<token, confirmed, uncertain, unconfirmed, revoked>>
  PROVE  IndInv'
<1>1. CounterType'  BY DEF IndInv, CounterType
<1>2. Counted' /\ Doubted'  BY DEF Counted, Doubted, Unwritten, Written, Flying
<1>3. outcome'.state # "succeeded" /\ outcome'.delivery # "rejected" /\ outcome'.delivery # "confirmed"
  BY DEF Failed
<1>4. outcome'.delivery = "not_sent" => ~unconfirmed  BY DEF Failed
<1>5. outcome'.delivery = "not_sent" => token'.write = confirmed'
  BY <1>4 DEF IndInv, Counted, Unwritten
<1>6. OutcomeHonest'  BY <1>3, <1>5 DEF OutcomeHonest
<1> QED BY <1>1, <1>2, <1>6 DEF IndInv

(* A step that goes on: no command leaves or is confirmed.                 *)
LEMMA QuietStep ==
  ASSUME IndInv, pc # "done", pc' \in Unwritten, pc \in Unwritten, pc' # "wire", pc = "wire" => ~revoked,
         inflight' = FALSE,
         UNCHANGED <<token, confirmed, uncertain, unconfirmed, revoked, outcome>>
  PROVE  IndInv'
<1>1. CounterType'  BY DEF IndInv, CounterType
<1>2. Counted'  BY DEF IndInv, Counted, Unwritten, Written
<1>3. pc' \notin Flying /\ ~uncertain  BY DEF IndInv, Doubted, Unwritten, Flying
<1>4. Doubted'  BY <1>3 DEF Doubted
<1>5. OutcomeHonest'  BY DEF IndInv, OutcomeHonest
<1> QED BY <1>1, <1>2, <1>4, <1>5 DEF IndInv, Unwritten
(* A step that stays where it is may hear of another controller.           *)
LEMMA SameStep ==
  ASSUME IndInv, UNCHANGED <<pc, inflight, unconfirmed, confirmed, outcome>>,
         how' = how \/ pc \notin {"sent", "done"}, token' \in Tokens, token'.write = token.write,
         \/ UNCHANGED <<uncertain, revoked>>
         \/ revoked' = TRUE /\ uncertain' = (uncertain \/ inflight)
  PROVE  IndInv'
<1>1. uncertain' \in BOOLEAN /\ revoked' \in BOOLEAN  BY DEF IndInv, CounterType
<1>2. CounterType'  BY <1>1 DEF IndInv, CounterType
<1>3. Counted'  BY DEF IndInv, Counted
<1>4. uncertain' /\ ~uncertain => revoked' /\ pc \in Flying  BY DEF IndInv, Doubted
<1>5. uncertain' => revoked' \/ (uncertain /\ revoked' = revoked)  OBVIOUS
<1>6. Doubted'  BY <1>4, <1>5 DEF IndInv, Doubted
<1>7. "done" \notin Flying  BY DEF Flying
<1>8. outcome.state = "succeeded" => ~uncertain'
  <2>1. ASSUME outcome.state = "succeeded" PROVE pc = "done" /\ ~uncertain
    BY <2>1, RunningOpen DEF IndInv, OutcomeHonest
  <2> QED BY <1>4, <1>7, <2>1
<1>9. OutcomeHonest'  BY <1>8 DEF IndInv, OutcomeHonest
<1> QED BY <1>2, <1>3, <1>6, <1>9 DEF IndInv

(* A step from the acknowledgement to the last checks; a revoked worker    *)
(* does not get there.                                                     *)
LEMMA ReadbackStep ==
  ASSUME IndInv, pc \in {"confirm", "settle"}, pc' \in {"confirm", "settle"}, pc' = pc \/ ~revoked,
         UNCHANGED <<token, confirmed, inflight, uncertain, unconfirmed, revoked, outcome>>
  PROVE  IndInv'
<1>1. CounterType'  BY DEF IndInv, CounterType, Written
<1>2. Counted'  BY DEF IndInv, Counted, Unwritten, Written
<1>3. pc \notin Flying /\ pc' \notin Flying /\ (uncertain => pc' = "confirm")
  BY DEF IndInv, Doubted, Flying
<1>4. Doubted'  BY <1>3 DEF IndInv, Doubted
<1>5. OutcomeHonest'  BY DEF IndInv, OutcomeHonest
<1> QED BY <1>1, <1>2, <1>4, <1>5 DEF IndInv
-----------------------------------------------------------------------------
(* A frame that is heard may revoke, and leaves a command in flight in     *)
(* doubt.                                                                  *)
LEMMA HearInv ==
  ASSUME IndInv, Hear
  PROVE  IndInv'
<1> DEFINE f == Head(wire)
           t == CASE f.kind = "none" -> token
                  [] f.kind = "gap" -> [token EXCEPT !.gen = @ + 1]
                  [] OTHER -> [token EXCEPT !.player = @ + 1]
<1>1. token \in Tokens  BY DEF IndInv, CounterType
<1>2. token.gen + 1 \in Nat /\ token.player + 1 \in Nat  BY <1>1, SMTT(30) DEF Tokens
<1>3. t \in Tokens /\ t.write = token.write  BY <1>1, <1>2 DEF Tokens
<1>4. token' = t /\ UNCHANGED <<pc, how, inflight, unconfirmed, confirmed, outcome>>
  BY DEF Hear
<1>5. event(f.kind, f.view, t) \/ UNCHANGED <<uncertain, revoked>>  BY DEF Hear
<1> HIDE DEF f, t
<1>6. AcceptEvent(t) \/ Revoke \/ UNCHANGED <<uncertain, revoked>>  BY <1>5 DEF event
<1>7. UNCHANGED <<uncertain, revoked>> \/ (revoked' = TRUE /\ uncertain' = (uncertain \/ inflight))
  BY <1>6 DEF AcceptEvent, Revoke
<1> QED BY <1>3, <1>4, <1>7, SameStep

(* The player and its stream.                                              *)
LEMMA PlayerInv ==
  ASSUME IndInv, Player
  PROVE  IndInv'
<1>1. CASE Hear  BY <1>1, HearInv
<1>2. CASE ~Hear
  <2>1. UNCHANGED <<token, worker, flags>>
    BY <1>2 DEF Player, DeviceStep, DeviceNoise, NaturalTransition, Foreign
  <2>2. token' \in Tokens /\ token'.write = token.write  BY <2>1 DEF IndInv, CounterType
  <2> QED BY <2>1, <2>2, SameStep DEF worker, flags
<1> QED BY <1>1, <1>2

(* Observing: no command leaves, and a release in the last checks counts   *)
(* the command as one that is not confirmed.                               *)
LEMMA ObservingInv ==
  ASSUME IndInv, Observing
  PROVE  IndInv'
<1> USE DEF world, worker, belief, flags, Goto
<1>1. CASE prewriteObservation
  <2>1. pc = "idle" /\ pc' = "pre" /\ UNCHANGED <<token, flags>>  BY <1>1 DEF prewriteObservation
  <2>2. inflight' = FALSE  BY <2>1 DEF IndInv, CounterType, Doubted, Flying
  <2> QED BY <2>1, <2>2, QuietStep DEF Unwritten
<1>2. CASE checkOwnership
  <2>1. pc = "idle" /\ pc' = "check" /\ UNCHANGED <<token, flags>>  BY <1>2 DEF checkOwnership
  <2>2. inflight' = FALSE  BY <2>1 DEF IndInv, CounterType, Doubted, Flying
  <2> QED BY <2>1, <2>2, QuietStep DEF Unwritten
<1>3. CASE ReadEnd
  <2>1. UNCHANGED <<pc, token, flags>> /\ how \in {"full", "kept"}  BY <1>3 DEF ReadEnd, Reading
  <2>2. pc \notin {"sent", "done"} /\ token \in Tokens  BY <2>1 DEF IndInv, Counted, CounterType
  <2> QED BY <2>1, <2>2, SameStep
<1>4. CASE ReadFails
  <2>1. how \in {"full", "kept"} /\ Fails("read", pc \in {"confirm", "settle"})
    BY <1>4 DEF ReadFails, Reading
  <2>2. pc # "sent" /\ pc # "done"  BY <2>1 DEF IndInv, Counted
  <2>3. (pc \in {"confirm", "settle"}) \in BOOLEAN  BY SMTT(30)
  <2> QED BY <2>1, <2>2, <2>3, FailsHonest
<1>5. CASE awaitOwnedPlayback
  <2>1. pc \in {"pre", "check", "settle"} /\ UNCHANGED <<token, confirmed, unconfirmed, revoked>>
    BY <1>5 DEF awaitOwnedPlayback
  <2>2. CASE UNCHANGED <<pc, uncertain, outcome, inflight>>
    <3>1. pc \notin {"sent", "done"} /\ token' \in Tokens /\ token'.write = token.write
      BY <2>1 DEF IndInv, CounterType
    <3> QED BY <2>1, <2>2, <3>1, SameStep
  <2>3. CASE /\ pc' = "done" /\ how' = "" /\ inflight' = FALSE /\ UNCHANGED uncertain
             /\ outcome' = Failed("ownership", uncertain \/ unconfirmed)
    BY <2>1, <2>3, ReleaseHonest
  <2> QED BY <1>5, <2>2, <2>3 DEF awaitOwnedPlayback
<1>6. CASE CheckDone
  <2>1. CASE Fails("ownership", FALSE)  BY <1>6, <2>1, FailsHonest DEF CheckDone
  <2>2. CASE ~Fails("ownership", FALSE)
    <3>1. pc = "check" /\ pc' = "idle" /\ UNCHANGED <<token, flags>>
      BY <1>6, <2>2 DEF CheckDone, ToLoop
    <3>2. inflight' = FALSE  BY <3>1 DEF IndInv, CounterType, Doubted, Flying
    <3> QED BY <3>1, <3>2, QuietStep DEF Unwritten
  <2> QED BY <2>1, <2>2
<1> QED BY <1>1, <1>2, <1>3, <1>4, <1>5, <1>6 DEF Observing
(* writeOnce: the only step that writes is Send.                           *)
LEMMA WritingInv ==
  ASSUME IndInv, Writing
  PROVE  IndInv'
<1> USE DEF world, worker, belief, flags, Goto
<1>1. CASE Replan
  <2>1. pc \in {"pre", "send"} /\ pc' = "idle" /\ UNCHANGED <<token, flags>>
    BY <1>1 DEF Replan, ToLoop
  <2>2. inflight' = FALSE  BY <2>1 DEF IndInv, CounterType, Doubted, Flying
  <2> QED BY <2>1, <2>2, QuietStep DEF Unwritten
<1>2. CASE PreWrite
  <2>1. pc = "pre"  BY <1>2 DEF PreWrite
  <2>2. CASE \E code \in {"unavailable", "not_skippable", "ownership"} : Fails(code, FALSE)
    BY <2>1, <2>2, FailsHonest
  <2>3. CASE ~\E code \in {"unavailable", "not_skippable", "ownership"} : Fails(code, FALSE)
    <3>1. pc' \in {"idle", "send"} /\ UNCHANGED <<token, flags>>
      BY <1>2, <2>3 DEF PreWrite, ToLoop
    <3>2. inflight' = FALSE  BY <2>1, <3>1 DEF IndInv, CounterType, Doubted, Flying
    <3> QED BY <2>1, <3>1, <3>2, QuietStep DEF Unwritten
  <2> QED BY <2>2, <2>3
<1>3. CASE JournalFails  BY <1>3, FailsHonest DEF JournalFails
<1>4. CASE expect
  <2>1. /\ pc = "send" /\ pc' = "wire" /\ inflight' = TRUE
        /\ UNCHANGED <<token, confirmed, uncertain, unconfirmed, revoked, outcome>>
    BY <1>4 DEF expect
  <2>2. CounterType'  BY <2>1 DEF IndInv, CounterType, Unwritten
  <2>3. Counted' /\ Doubted'  BY <2>1 DEF IndInv, Counted, Doubted, Unwritten, Written, Flying
  <2>4. OutcomeHonest'  BY <2>1 DEF IndInv, OutcomeHonest
  <2> QED BY <2>1, <2>2, <2>3, <2>4 DEF IndInv
<1>5. CASE Send
  <2>1. /\ pc = "wire" /\ pc' = "sent" /\ how' = "" /\ token' = [token EXCEPT !.write = @ + 1]
        /\ ~revoked /\ UNCHANGED flags
    BY <1>5 DEF Send
  <2>2. token \in Tokens /\ token.write = confirmed /\ outcome = Running
    BY <2>1 DEF IndInv, CounterType, Counted, Unwritten
  <2>3. token.write + 1 \in Nat  BY <2>2, SMTT(30) DEF Tokens
  <2>4. token' \in Tokens /\ token'.write = token.write + 1  BY <2>1, <2>2, <2>3 DEF Tokens
  <2>5. CounterType'  BY <2>1, <2>4 DEF IndInv, CounterType, Written
  <2>6. Counted' /\ Doubted'
    BY <2>1, <2>2, <2>4 DEF IndInv, Counted, Doubted, Unwritten, Written, Flying
  <2>7. OutcomeHonest'  BY <2>1, <2>2 DEF OutcomeHonest, Running
  <2> QED BY <2>1, <2>2, <2>5, <2>6, <2>7 DEF IndInv
<1>6. CASE NotSent
  <2>1. pc = "wire"  BY <1>6 DEF NotSent
  <2>2. CASE Fails("not_sent", FALSE)  BY <2>1, <2>2, FailsHonest
  <2>3. CASE ~Fails("not_sent", FALSE)
    <3>1. /\ ~revoked /\ pc' = "idle" /\ inflight' = FALSE
          /\ UNCHANGED <<token, confirmed, uncertain, unconfirmed, revoked, outcome>>
      BY <1>6, <2>3 DEF NotSent, ToLoop
    <3> QED BY <2>1, <3>1, QuietStep DEF Unwritten
  <2> QED BY <2>2, <2>3
<1>7. CASE Acknowledged
  <2>1. /\ pc = "sent" /\ pc' = "confirm" /\ inflight' = FALSE /\ unconfirmed' = TRUE
        /\ UNCHANGED <<token, confirmed, uncertain, revoked, outcome>>
    BY <1>7 DEF Acknowledged
  <2>2. CounterType'  BY <2>1 DEF IndInv, CounterType, Written
  <2>3. Counted' /\ Doubted'  BY <2>1 DEF IndInv, Counted, Doubted, Unwritten, Written, Flying
  <2>4. OutcomeHonest'  BY <2>1, RunningOpen DEF IndInv, OutcomeHonest
  <2> QED BY <2>1, <2>2, <2>3, <2>4 DEF IndInv
<1>8. CASE Rejected
  <2>1. pc = "sent" /\ Fails("rejected", FALSE)  BY <1>8 DEF Rejected
  <2>2. /\ pc' = "done" /\ how' = "" /\ inflight' = FALSE
        /\ outcome' = Failed("rejected", uncertain \/ FALSE \/ unconfirmed)
        /\ uncertain' = (uncertain \/ FALSE) /\ UNCHANGED <<token, confirmed, unconfirmed, revoked>>
    BY <2>1 DEF Fails
  <2>3. CounterType'  BY <2>2 DEF IndInv, CounterType
  <2>4. Counted' /\ Doubted'  BY <2>2 DEF Counted, Doubted, Unwritten, Written, Flying
  <2>5. outcome'.delivery = "rejected" /\ outcome'.state # "succeeded"  BY <2>2 DEF Failed
  <2>6. token'.write = confirmed' + 1  BY <2>1, <2>2 DEF IndInv, Counted, Written
  <2>7. OutcomeHonest'  BY <2>5, <2>6 DEF OutcomeHonest
  <2> QED BY <2>2, <2>3, <2>4, <2>7 DEF IndInv
<1>9. CASE AnswerLost  BY <1>9, FailsHonest DEF AnswerLost
<1> QED BY <1>1, <1>2, <1>3, <1>4, <1>5, <1>6, <1>7, <1>8, <1>9 DEF Writing

(* confirmReadback: a command is counted in the step that closes the       *)
(* window of its acknowledgement.                                          *)
LEMMA ConfirmingInv ==
  ASSUME IndInv, Confirming
  PROVE  IndInv'
<1> USE DEF world, worker, belief, flags, Goto
<1>1. CASE ScalarReady
  <2>1. pc = "confirm" /\ ~revoked /\ pc' = "settle" /\ UNCHANGED <<token, flags>>
    BY <1>1 DEF ScalarReady, Settle
  <2> QED BY <2>1, ReadbackStep
<1>2. CASE ScalarFallback
  <2>1. pc = "confirm" /\ ~revoked /\ pc' = "settle" /\ UNCHANGED <<token, flags>>
    BY <1>2 DEF ScalarFallback, Settle
  <2> QED BY <2>1, ReadbackStep
<1>3. CASE ConfirmFails  BY <1>3, FailsHonest DEF ConfirmFails
<1>4. CASE confirmReadback
  <2>1. CASE Fails("ownership", TRUE)  BY <1>4, <2>1, FailsHonest DEF confirmReadback
  <2>2. CASE ~Fails("ownership", TRUE)
    <3>1. /\ pc = "confirm" /\ ~revoked /\ pc' \in {"confirm", "settle"}
          /\ UNCHANGED <<token, flags>>
      BY <1>4, <2>2 DEF confirmReadback, Settle
    <3> QED BY <3>1, ReadbackStep
  <2> QED BY <2>1, <2>2
<1>5. CASE Confirm
  <2>1. pc = "settle"  BY <1>5 DEF Confirm
  <2>2. CASE Fails("ownership", FALSE)  BY <2>1, <2>2, FailsHonest
  <2>3. CASE ~Fails("ownership", FALSE)
    <3>1. /\ unconfirmed' = FALSE /\ confirmed' = confirmed + 1
          /\ UNCHANGED <<token, inflight, uncertain, revoked>>
          /\ \/ pc' = "done" /\ how' = "" /\ outcome' = Failed("ownership", uncertain)
             \/ pc' = "idle" /\ outcome' = outcome
      BY <1>5, <2>3 DEF Confirm
    <3>2. confirmed + 1 \in Nat  BY SMTT(30) DEF IndInv, CounterType
    <3>3. ~uncertain /\ ~inflight /\ token.write = confirmed + 1 /\ outcome = Running
      BY <2>1 DEF IndInv, Counted, Doubted, Written, Flying
    <3>4. CounterType'  BY <3>1, <3>2 DEF IndInv, CounterType, Unwritten
    <3>5. Counted' /\ Doubted'  BY <3>1, <3>3 DEF Counted, Doubted, Unwritten, Written, Flying
    <3>6. outcome'.state # "succeeded" /\ outcome'.delivery # "rejected"
      <4>1. CASE outcome' = outcome  BY <3>3, <4>1, RunningOpen
      <4>2. CASE outcome' = Failed("ownership", uncertain)  BY <4>2 DEF Failed
      <4> QED BY <3>1, <4>1, <4>2
    <3>7. OutcomeHonest'  BY <3>1, <3>3, <3>6 DEF OutcomeHonest
    <3> QED BY <3>1, <3>3, <3>4, <3>5, <3>7 DEF IndInv
  <2> QED BY <2>2, <2>3
<1> QED BY <1>1, <1>2, <1>3, <1>4, <1>5 DEF Confirming

(* Success is recorded between two commands, where nothing is in doubt.    *)
LEMMA EndingInv ==
  ASSUME IndInv, Ending
  PROVE  IndInv'
<1> USE DEF world, worker, belief, flags, Goto
<1>1. CASE Register
  <2>1. pc = "admit" /\ pc' = "idle" /\ UNCHANGED <<token, flags>>  BY <1>1 DEF Register, Keeps
  <2>2. inflight' = FALSE  BY <2>1 DEF IndInv, CounterType, Doubted, Flying
  <2> QED BY <2>1, <2>2, QuietStep DEF Unwritten
<1>2. CASE Automate
  <2>1. pc = "idle" /\ pc' = "idle" /\ UNCHANGED <<token, inflight, uncertain, unconfirmed, revoked, confirmed, outcome>>
    BY <1>2 DEF Automate
  <2>2. inflight' = FALSE  BY <2>1 DEF IndInv, CounterType, Doubted, Flying
  <2> QED BY <2>1, <2>2, QuietStep DEF Unwritten
<1>3. CASE Succeed
  <2>1. /\ pc = "idle" /\ pc' = "done" /\ how' = ""
        /\ outcome' = [state |-> "succeeded", delivery |-> "confirmed"]
        /\ UNCHANGED <<token, inflight, uncertain, unconfirmed, revoked, confirmed>>
    BY <1>3 DEF Succeed
  <2>2. ~uncertain /\ ~unconfirmed /\ ~inflight /\ token.write = confirmed
    BY <2>1 DEF IndInv, Counted, Doubted, Unwritten, Flying
  <2>3. CounterType'  BY <2>1 DEF IndInv, CounterType
  <2>4. Counted' /\ Doubted'  BY <2>1, <2>2 DEF Counted, Doubted, Unwritten, Written, Flying
  <2>5. outcome'.delivery # "rejected"  BY <2>1
  <2>6. OutcomeHonest'  BY <2>1, <2>2, <2>5 DEF OutcomeHonest
  <2> QED BY <2>1, <2>3, <2>4, <2>6 DEF IndInv
<1>4. CASE Interrupted  BY <1>4, FailsHonest DEF Interrupted
<1> QED BY <1>1, <1>2, <1>3, <1>4 DEF Ending

(* Every step preserves the invariant.                                     *)
LEMMA NextInv ==
  ASSUME IndInv, [Next]_vars
  PROVE  IndInv'
<1>1. CASE UNCHANGED vars
  <2>1. UNCHANGED <<token, worker, flags>>  BY <1>1 DEF vars, world
  <2>2. token' \in Tokens /\ token'.write = token.write  BY <2>1 DEF IndInv, CounterType
  <2> QED BY <2>1, <2>2, SameStep DEF worker, flags
<1> QED BY <1>1, PlayerInv, ObservingInv, WritingInv, ConfirmingInv, EndingInv DEF Next, Ended
-----------------------------------------------------------------------------
(* The inductive invariant of the worker.                                  *)
THEOREM Invariance == Spec => []IndInv
<1>1. Init => IndInv  BY InitInv
<1>2. IndInv /\ [Next]_vars => IndInv'  BY NextInv
<1> QED BY <1>1, <1>2, PTL DEF Spec

(* The delivery that execute records is honest, whatever the player, other *)
(* controllers and the deadlines do between any two steps.                 *)
THEOREM OutcomeAlwaysHonest == Spec => []OutcomeHonest
<1>1. IndInv => OutcomeHonest  BY DEF IndInv
<1> QED BY <1>1, Invariance, PTL
=============================================================================
