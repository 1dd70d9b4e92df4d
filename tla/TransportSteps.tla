---------------------------- MODULE TransportSteps ----------------------------
(***************************************************************************)
(* Proofs about the HEOS client, for any requests, players, sessions and   *)
(* limits: what a guard authorizes, what NotSent means, what Interrupt     *)
(* fences off.                                                             *)
(***************************************************************************)
EXTENDS Transport, TLAPS

(* Leaves are left to Zenon; those that need arithmetic name SMT.          *)
USE ZenonT(40)

Before == {"idle", "select", "gone"}
Working == {"claimed", "drain", "check", "dial", "recheck", "stamp", "send", "write", "await", "finish"}
Phases == {"new", "observed", "submitting", "queued", "withdrawn", "owned", "done"}
Errors == {"none", "stale", "offline", "failed", "rejected", "uncertain"}

(* Types, as far as the arguments need them.                               *)
Owners == [at : Before \cup Working, req : Requests \cup {None},
           what : {"register", "command"}, err : Errors, cancelled : BOOLEAN,
           drained : Nat, publish : {"nothing", "event", "gap", "progress"}]
OwnerType == owner \in Owners
Views == [connected : BOOLEAN, gen : Nat, rev : Nat, cat : Nat]
TokenType ==
  /\ view \in Views /\ players \in [Players -> Nat \cup {None}] /\ writes \in [Players -> Nat]
  /\ guard \in [Requests -> Tokens \cup {None}] /\ outdated \subseteq Writes
CallerType ==
  /\ phase \in [Requests -> Phases] /\ sent \subseteq Requests \X {"register", "command"}
  /\ answer \in [Requests -> {None, "ok", "rejected", "uncertain", "notsent"}]

(* The owner is connected while it uses the connection.                    *)
Linked == /\ link \in Links \cup {None}
          /\ owner.at \in {"drain", "recheck", "stamp", "send", "write", "await"} => link \in Links

(* Tokens and guards.  A guard is never ahead of its player's token; one   *)
(* that an event or a new connection outdated, or that a command has used, *)
(* is strictly behind it.                                                  *)
Behind(w) == guard[w].rev < view.rev \/ guard[w].player < Token(Target[w]).player
Used(w) == guard[w].rev < view.rev \/ guard[w].write < writes[Target[w]]
Tokenized ==
  /\ \A r \in Requests : phase[r] = "new" => guard[r] = None
  /\ \A r \in Requests : guard[r] # None =>
       /\ Later(Token(Target[r]), guard[r])
       /\ players[Target[r]] = None => guard[r].rev < view.rev
  /\ \A w \in outdated : guard[w] # None /\ Behind(w)

(* The command of w has passed its last look at the guard, or is stamped.  *)
Stamped(w) == owner.req = w /\ owner.at \in {"send", "write"} /\ owner.what = "command"
Loaded(w) == Stamped(w) \/ (owner.req = w /\ owner.at = "stamp")
Quiet == owner.publish # "nothing" => owner.at \notin {"stamp", "send", "write"}
Guarding ==
  /\ GuardSpent
  /\ \A w \in Writes : Loaded(w) => w \notin outdated /\ guard[w] # None
  /\ \A w \in Writes : Stamped(w) \/ <<w, "command">> \in sent => guard[w] # None /\ Used(w)
  /\ \A v, w \in Writes : v # w /\ Target[v] = Target[w] /\ Loaded(w) /\ <<v, "command">> \in sent
                            => guard[v] # guard[w]

(* A request is in one place: with its caller, in one queue, with the      *)
(* owner, or answered.                                                     *)
Queued(q) == /\ \A i \in DOMAIN q : phase[q[i]] \in {"queued", "withdrawn"}
             /\ \A i, j \in DOMAIN q : i # j => q[i] # q[j]
Placed ==
  /\ queue \in Seq(Requests \ Urgent) /\ priority \in Seq(Urgent)
  /\ done <=> owner.at = "gone"
  /\ ~done => Queued(queue) /\ Queued(priority)
  /\ IF owner.at \in Working THEN owner.req \in Requests /\ phase[owner.req] = "owned"
                             ELSE owner.req = None
  /\ \A r \in Requests : phase[r] = "owned" => owner.req = r

(* What a caller was told and what was written.                            *)
Delivered == \/ owner.at = "await" /\ owner.what = "command"
             \/ owner.at = "finish" /\ owner.err \in {"none", "rejected", "uncertain"}
Told ==
  /\ \A r \in Requests : phase[r] \notin {"withdrawn", "done"} => answer[r] # "notsent"
  /\ \A r \in Requests : <<r, "command">> \in sent =>
       \/ phase[r] = "done" /\ answer[r] # "notsent"
       \/ phase[r] = "owned" /\ Delivered

(* Interrupt either finds the work in hand and cancels it or precedes its  *)
(* look at the fence, and closes the connection a write in progress uses.  *)
Victims == [gen : Nat \cup {None}, fence : Nat]
FenceType ==
  /\ fence \in Nat /\ fenced \in 0 .. fence /\ fenceOf \in [Requests -> 0 .. fence]
  /\ session \in [Sessions -> {"new", "raised", "fencing", "held", "released"}]
  /\ victim \in [Sessions -> Victims \cup {None}]
Submitted(r) == phase[r] \in {"submitting", "queued", "withdrawn", "owned"}
Fenced ==
  /\ FenceType
  /\ Processing /\ ~owner.cancelled => fenceOf[owner.req] = fence
  /\ \A s \in Sessions : session[s] \in {"fencing", "held"} =>
       /\ victim[s] \in Victims /\ victim[s].fence =< fence
       /\ \A r \in Requests \ Urgent : Submitted(r) => fenceOf[r] < victim[s].fence
  /\ \A s \in Sessions : session[s] = "held" => victim[s].fence =< fenced
  /\ owner.at = "write" /\ link.open =>
       /\ fenceOf[owner.req] >= fenced
       /\ \A s \in Sessions : session[s] = "fencing" =>
            victim[s].gen = link.gen \/ fenceOf[owner.req] >= victim[s].fence

IndInv == /\ OwnerType /\ TokenType /\ CallerType /\ Quiet /\ Linked
          /\ Tokenized /\ Guarding /\ Placed /\ Told /\ Fenced
-----------------------------------------------------------------------------

(* What a step does to the tokens: nothing, a new revision for all         *)
(* players, an event, a stamp, or an observation.                          *)
Reset ==
  /\ view' \in Views /\ view'.rev = view.rev + 1
  /\ outdated' \in {outdated, outdated \cup Guards} /\ UNCHANGED <<players, writes, guard>>
TokenStep ==
  \/ UNCHANGED <<view, players, writes, guard, outdated>>
  \/ Reset
  \/ \E f \in Frames : IsEvent(f) /\ HandleEvent(f) /\ UNCHANGED guard
  \/ \E p \in Players : /\ writes' = [writes EXCEPT ![p] = @ + 1]
                        /\ UNCHANGED <<view, players, guard, outdated>>
  \/ \E r \in Requests : ObservePlayer(r)

(* How the owner comes to send: a guarded command passes its recheck, is   *)
(* stamped, and is then written.                                           *)
Moves ==
  /\ \A w \in Writes : Loaded(w)' =>
       \/ Loaded(w) /\ UNCHANGED <<outdated, sent>>
       \/ owner.req = w /\ GuardHolds(w) /\ UNCHANGED <<view, players, writes, guard, outdated, sent>>
  /\ \A w \in Writes : Stamped(w)' =>
       \/ Stamped(w)
       \/ /\ owner.req = w /\ Loaded(w) /\ UNCHANGED <<view, guard, sent>>
          /\ writes' = [writes EXCEPT ![Target[w]] = @ + 1]
  /\ sent' # sent => owner.at = "write" /\ link.open /\ sent' = sent \cup {<<owner.req, owner.what>>}
                     /\ (owner.what = "command" => Delivered')
  /\ Delivered => Delivered' \/ (owner.at = "finish" /\ owner'.at = "idle")

(* Who moves a request: only these actions change phases, answers and      *)
(* queues.                                                                 *)
PhaseStep ==
  \/ /\ UNCHANGED <<phase, answer, queue, priority, done>> /\ owner'.req = owner.req
     /\ (owner'.at \in Working <=> owner.at \in Working) /\ (owner'.at = "gone" <=> owner.at = "gone")
  \/ Exit \/ TakePriority \/ TakeRequest \/ Finish
  \/ \E r \in Requests : \/ ObservePlayer(r) \/ Enqueue(r) \/ Withdraw(r)
                         \/ \E late \in BOOLEAN : Submit(r, late)

(* What the step may do to the phases.                                     *)
Phased == /\ phase' \in [Requests -> Phases]
          /\ answer' \in [Requests -> {None, "ok", "rejected", "uncertain", "notsent"}]
          /\ \A r \in Requests : phase'[r] = "new" => phase[r] = "new"
          /\ \A r \in Requests : Submitted(r)' => \/ Submitted(r)
                                                  \/ \E late \in BOOLEAN : Submit(r, late)
-----------------------------------------------------------------------------
(* A step of anyone but submit and the sessions leaves the fence alone,    *)
(* and the owner works only for a request that passed it.                  *)
FenceStep ==
  /\ UNCHANGED <<fence, fenced, fenceOf, session, victim>>
  /\ Processing' /\ ~owner'.cancelled =>
       owner'.req = owner.req /\ ((Processing /\ ~owner.cancelled) \/ fenceOf[owner.req] = fence)
  /\ owner'.at = "write" /\ link'.open =>
       /\ owner'.req = owner.req
       /\ \/ owner.at = "write" /\ link.open /\ link'.gen = link.gen
          \/ Processing /\ ~owner.cancelled
-----------------------------------------------------------------------------
(* The idle owner holds no request.                                        *)
LEMMA IdleType == Idle \in Owners /\ Idle.at = "idle" /\ Idle.publish = "nothing" /\ Idle.req = None
BY DEF Idle, Owners, Before, Working, Errors

(* Taking a request off a queue answers it at once or makes it the         *)
(* owner's.                                                                *)
LEMMA ClaimOwner ==
  ASSUME NEW r \in Requests, Claim(r)
  PROVE  /\ owner' \in Owners /\ owner'.publish = "nothing"
         /\ \/ /\ owner'.at = "claimed" /\ owner'.req = r /\ fenceOf[r] = fence
               /\ phase' = [phase EXCEPT ![r] = "owned"] /\ phase[r] # "withdrawn" /\ UNCHANGED answer
            \/ /\ owner'.at = "idle" /\ owner'.req = None /\ phase' = [phase EXCEPT ![r] = "done"]
               /\ \/ answer' = answer
                  \/ phase[r] # "withdrawn" /\ answer' = [answer EXCEPT ![r] = "notsent"]
<1> DEFINE refused == phase[r] = "withdrawn" \/ fenceOf[r] # fence \/ Blocked(r)
<1>1. CASE refused
  <2>1. owner' = Idle /\ phase' = [phase EXCEPT ![r] = "done"]  BY <1>1 DEF Claim, Answered
  <2>2. answer' = answer \/ (phase[r] # "withdrawn" /\ answer' = [answer EXCEPT ![r] = "notsent"])
    BY <1>1 DEF Claim, Answered
  <2> QED BY <2>1, <2>2, IdleType
<1>2. CASE ~refused
  <2>1. owner' = [Idle EXCEPT !.at = "claimed", !.req = r]  BY <1>2 DEF Claim
  <2>2. /\ owner' \in Owners /\ owner'.publish = "nothing" /\ owner'.at = "claimed" /\ owner'.req = r
    BY <2>1, IdleType DEF Owners, Working
  <2> QED BY <1>2, <2>2 DEF Claim
<1> QED BY <1>1, <1>2
-----------------------------------------------------------------------------
(* Both queues hold requests.                                              *)
LEMMA Waiting ==
  ASSUME Placed
  PROVE  queue \in Seq(Requests) /\ priority \in Seq(Requests)
<1>1. \A S : \A q \in Seq(S) : S \subseteq Requests => q \in Seq(Requests)  BY SMTT(30)
<1> QED BY <1>1, RequestAssumption DEF Placed
-----------------------------------------------------------------------------
(* Every step keeps the owner well formed.                                 *)
LEMMA OwnerTypeStep ==
  ASSUME OwnerType, Placed, [Next]_vars
  PROVE  OwnerType'
<1> USE DEF OwnerType, Owners, Before, Working, Errors, callers, life, mail, stream, sessions
<1>1. CASE Poll  BY <1>1 DEF Poll, At
<1>2. CASE TakePriority
  <2>1. Head(priority) \in Requests  BY <1>2, Waiting, SMTT(30) DEF TakePriority
  <2> QED BY <1>2, <2>1, ClaimOwner DEF TakePriority
<1>3. CASE TakeRequest
  <2>1. Head(queue) \in Requests  BY <1>3, Waiting, SMTT(30) DEF TakeRequest
  <2> QED BY <1>3, <2>1, ClaimOwner DEF TakeRequest
<1>4. CASE IdleFrame
  <2>1. \E k \in {"event", "progress", "gap"} : owner' = [Idle EXCEPT !.publish = k]
    BY <1>4 DEF IdleFrame, Published
  <2> QED BY <2>1, IdleType, SMTT(30)
<1>5. CASE Exit
  <2>1. \E k \in {"nothing", "gap"} : owner' = [Idle EXCEPT !.at = "gone", !.publish = k]
    BY <1>5 DEF Exit
  <2> QED BY <2>1, IdleType
<1>6. CASE Activate  BY <1>6 DEF Activate, At
<1>7. CASE Drain
  <2>1. owner.drained + 1 \in Nat /\ {"stale", owner.err} \subseteq Errors  BY SMTT(30)
  <2>2. CASE IsEvent(Head(link.frames))
    <3>1. PICK k \in {"event", "progress"}, a \in {"check", "drain"}, e \in {"stale", owner.err} :
            owner' = [owner EXCEPT !.publish = k, !.drained = owner.drained + 1, !.at = a, !.err = e]
      BY <1>7, <2>2 DEF Drain, Published
    <3> QED BY <2>1, <3>1
  <2>3. CASE ~IsEvent(Head(link.frames))  BY <1>7, <2>3 DEF Drain
  <2> QED BY <2>2, <2>3
<1>8. CASE DrainEnds  BY <1>8 DEF DrainEnds, At, Goto
<1>9. CASE Dial  BY <1>9 DEF Dial, At
<1>10. CASE DialFails  BY <1>10 DEF DialFails, At, Fail
<1>11. CASE Stamp  BY <1>11 DEF Stamp, At
<1>12. ASSUME NEW late \in BOOLEAN, CheckGuard(late) PROVE OwnerType'
  BY <1>12 DEF CheckGuard, At, Goto, Fail
<1>13. ASSUME NEW late \in BOOLEAN, RecheckGuard(late) PROVE OwnerType'
  BY <1>13 DEF RecheckGuard, At, Goto, Fail
<1>14. CASE LookAtContext  BY <1>14 DEF LookAtContext, At, Goto, Fail
<1>15. CASE WriteAll  BY <1>15 DEF WriteAll, At, Goto, Here
<1>16. ASSUME NEW b \in BOOLEAN, WriteFails(b) PROVE OwnerType'
  BY <1>16 DEF WriteFails, At, Fail, Here, Outcome
<1>17. CASE AwaitCancelled  BY <1>17 DEF AwaitCancelled, At, Fail, Outcome
<1>18. CASE AwaitFrame
  <2>1. \/ owner' = owner
        \/ \E e \in Errors : owner' = [owner EXCEPT !.at = "finish", !.err = e]
        \/ owner' = [owner EXCEPT !.at = "recheck"]
        \/ \E k \in {"event", "progress"} : owner' = [owner EXCEPT !.publish = k]
    BY <1>18 DEF AwaitFrame, Fail, Goto, Outcome, Published
  <2> QED BY <2>1
<1>19. CASE Finish
  <2>1. \E k \in {"nothing", "gap"} : owner' = [Idle EXCEPT !.publish = k]  BY <1>19 DEF Finish
  <2> QED BY <2>1, IdleType, SMTT(30)
<1>20. CASE Publish  BY <1>20 DEF Publish
<1>21. ASSUME NEW r \in Requests, ObservePlayer(r) PROVE OwnerType'  BY <1>21, SMTT(30) DEF ObservePlayer
<1>22. ASSUME NEW r \in Requests, NEW late \in BOOLEAN, Submit(r, late) PROVE OwnerType'
  BY <1>22, SMTT(30) DEF Submit
<1>23. ASSUME NEW r \in Requests, Enqueue(r) PROVE OwnerType'  BY <1>23, SMTT(30) DEF Enqueue
<1>24. ASSUME NEW r \in Requests, Withdraw(r) PROVE OwnerType'  BY <1>24, SMTT(30) DEF Withdraw
<1>25. ASSUME NEW s \in Sessions, RaisePriority(s) PROVE OwnerType'  BY <1>25, SMTT(30) DEF RaisePriority
<1>26. ASSUME NEW s \in Sessions, Interrupt(s) PROVE OwnerType'  BY <1>26 DEF Interrupt
<1>27. ASSUME NEW s \in Sessions, InterruptCloses(s) PROVE OwnerType'  BY <1>27, SMTT(30) DEF InterruptCloses
<1>28. ASSUME NEW s \in Sessions, ReleasePriority(s) PROVE OwnerType'  BY <1>28, SMTT(30) DEF ReleasePriority
<1>29. CASE Receive  BY <1>29, SMTT(30) DEF Receive
<1>30. CASE ContextEnds  BY <1>30 DEF ContextEnds
<1>31. CASE LinkBreaks  BY <1>31, SMTT(30) DEF LinkBreaks
<1>32. CASE Close  BY <1>32 DEF Close
<1>33. ASSUME NEW f \in Notices, DeviceSends(f) PROVE OwnerType'  BY <1>33, SMTT(30) DEF DeviceSends
<1>34. ASSUME NEW f \in Replies, DeviceReplies(f) PROVE OwnerType'  BY <1>34, SMTT(30) DEF DeviceReplies
<1>35. CASE UNCHANGED vars  BY <1>35, SMTT(30) DEF vars
<1> HIDE DEF OwnerType
<1> QED BY <1>1, <1>2, <1>3, <1>4, <1>5, <1>6, <1>7, <1>8, <1>9, <1>10, <1>11, <1>12, <1>13,
  <1>14, <1>15, <1>16, <1>17, <1>18, <1>19, <1>20, <1>21, <1>22, <1>23, <1>24, <1>25, <1>26,
  <1>27, <1>28, <1>29, <1>30, <1>31, <1>32, <1>33, <1>34, <1>35, SMTT(30) DEF Next, Owner, Callers, World
-----------------------------------------------------------------------------
(* Every step moves the owner as Moves says.                               *)
LEMMA OwnerSteps ==
  ASSUME OwnerType, OwnerType', Quiet, Placed, [Next]_vars
  PROVE  Quiet' /\ Moves
<1> USE DEF OwnerType, Owners, Quiet, Moves, Loaded, Stamped, Delivered, client, callers, life,
  mail, stream, sessions
<1>1. CASE Poll  BY <1>1 DEF Poll, At
<1>2. CASE TakePriority
  <2>1. Head(priority) \in Requests  BY <1>2, Waiting, SMTT(30) DEF TakePriority
  <2>2. owner'.at \in {"idle", "claimed"} /\ owner'.publish = "nothing" /\ UNCHANGED sent
        /\ owner.at \in {"idle", "select"}
    BY <1>2, <2>1, ClaimOwner DEF TakePriority, At
  <2> QED BY <2>2
<1>3. CASE TakeRequest
  <2>1. Head(queue) \in Requests  BY <1>3, Waiting, SMTT(30) DEF TakeRequest
  <2>2. owner'.at \in {"idle", "claimed"} /\ owner'.publish = "nothing" /\ UNCHANGED sent
        /\ owner.at \in {"idle", "select"}
    BY <1>3, <2>1, ClaimOwner DEF TakeRequest, At
  <2> QED BY <2>2
<1>4. CASE IdleFrame  BY <1>4 DEF IdleFrame, At, Idle, Published
<1>5. CASE Exit  BY <1>5, SMTT(30) DEF Exit, At, Idle
<1>6. CASE Activate  BY <1>6, SMTT(30) DEF Activate, At
<1>7. CASE Drain  BY <1>7 DEF Drain, At, Published
<1>8. CASE DrainEnds  BY <1>8 DEF DrainEnds, At, Goto
<1>9. CASE Dial  BY <1>9 DEF Dial, At
<1>10. CASE DialFails  BY <1>10 DEF DialFails, At, Fail
<1>11. CASE Stamp  BY <1>11 DEF Stamp, At
<1>12. ASSUME NEW late \in BOOLEAN, CheckGuard(late) PROVE Quiet' /\ Moves
  BY <1>12 DEF CheckGuard, At, Goto, Fail
<1>13. ASSUME NEW late \in BOOLEAN, RecheckGuard(late) PROVE Quiet' /\ Moves
  BY <1>13 DEF RecheckGuard, At, Goto, Fail, Guarded
<1>14. CASE LookAtContext  BY <1>14 DEF LookAtContext, At, Goto, Fail
<1>15. CASE WriteAll  BY <1>15 DEF WriteAll, At, Goto, Here
<1>16. ASSUME NEW b \in BOOLEAN, WriteFails(b) PROVE Quiet' /\ Moves
  BY <1>16, SMTT(30) DEF WriteFails, At, Fail, Here, Outcome
<1>17. CASE AwaitCancelled  BY <1>17 DEF AwaitCancelled, At, Fail, Outcome
<1>18. CASE AwaitFrame  BY <1>18 DEF AwaitFrame, At, Published, Goto, Fail, Outcome
<1>19. CASE Finish  BY <1>19, SMTT(30) DEF Finish, At, Idle
<1>20. CASE Publish  BY <1>20 DEF Publish
<1>21. ASSUME NEW r \in Requests, ObservePlayer(r) PROVE Quiet' /\ Moves
  BY <1>21 DEF ObservePlayer
<1>22. ASSUME NEW r \in Requests, NEW late \in BOOLEAN, Submit(r, late) PROVE Quiet' /\ Moves
  BY <1>22 DEF Submit
<1>23. ASSUME NEW r \in Requests, Enqueue(r) PROVE Quiet' /\ Moves  BY <1>23 DEF Enqueue
<1>24. ASSUME NEW r \in Requests, Withdraw(r) PROVE Quiet' /\ Moves  BY <1>24 DEF Withdraw
<1>25. ASSUME NEW s \in Sessions, RaisePriority(s) PROVE Quiet' /\ Moves
  BY <1>25 DEF RaisePriority
<1>26. ASSUME NEW s \in Sessions, Interrupt(s) PROVE Quiet' /\ Moves  BY <1>26 DEF Interrupt
<1>27. ASSUME NEW s \in Sessions, InterruptCloses(s) PROVE Quiet' /\ Moves
  BY <1>27 DEF InterruptCloses
<1>28. ASSUME NEW s \in Sessions, ReleasePriority(s) PROVE Quiet' /\ Moves
  BY <1>28 DEF ReleasePriority
<1>29. CASE Receive  BY <1>29 DEF Receive
<1>30. CASE ContextEnds  BY <1>30 DEF ContextEnds
<1>31. CASE LinkBreaks  BY <1>31 DEF LinkBreaks
<1>32. CASE Close  BY <1>32 DEF Close
<1>33. ASSUME NEW f \in Notices, DeviceSends(f) PROVE Quiet' /\ Moves  BY <1>33 DEF DeviceSends
<1>34. ASSUME NEW f \in Replies, DeviceReplies(f) PROVE Quiet' /\ Moves  BY <1>34 DEF DeviceReplies
<1>35. CASE UNCHANGED vars  BY <1>35 DEF vars
<1> HIDE DEF Quiet, Moves
<1> QED BY <1>1, <1>2, <1>3, <1>4, <1>5, <1>6, <1>7, <1>8, <1>9, <1>10, <1>11, <1>12, <1>13,
  <1>14, <1>15, <1>16, <1>17, <1>18, <1>19, <1>20, <1>21, <1>22, <1>23, <1>24, <1>25, <1>26,
  <1>27, <1>28, <1>29, <1>30, <1>31, <1>32, <1>33, <1>34, <1>35 DEF Next, Owner, Callers, World
-----------------------------------------------------------------------------
(* Interrupt and drop advance the revision all players share.              *)
LEMMA Advanced ==
  ASSUME TokenType, NEW c \in BOOLEAN, UNCHANGED <<players, writes, guard>>,
         view' = [view EXCEPT !.connected = c, !.rev = @ + 1, !.cat = @ + 1],
         outdated' \in {outdated, outdated \cup Guards}
  PROVE  Reset
<1>1. view.rev + 1 \in Nat /\ view.cat + 1 \in Nat  BY SMTT(30) DEF TokenType, Views
<1> QED BY <1>1 DEF Reset, Views, TokenType

(* Every step is a TokenStep.                                              *)
LEMMA TokenSteps ==
  ASSUME TokenType, Placed, Linked, [Next]_vars
  PROVE  TokenStep
<1> USE DEF TokenStep, client, callers
<1>1. CASE Poll  BY <1>1 DEF Poll
<1>2. CASE TakePriority  BY <1>2 DEF TakePriority, Claim, Answered
<1>3. CASE TakeRequest  BY <1>3 DEF TakeRequest, Claim, Answered
<1>4. CASE IdleFrame
  <2>1. Head(link.frames) \in Frames  BY <1>4, SMTT(30) DEF IdleFrame, At, Linked, Links
  <2>2. CASE Drop  BY <1>4, <2>2, Advanced DEF IdleFrame, Drop
  <2>3. CASE ~Drop  BY <1>4, <2>1, <2>3 DEF IdleFrame
  <2> QED BY <2>2, <2>3
<1>5. CASE Exit
  <2>1. CASE Drop  BY <1>5, <2>1, Advanced DEF Exit, Drop
  <2>2. CASE ~Drop  BY <1>5, <2>2 DEF Exit, Answered
  <2> QED BY <2>1, <2>2
<1>6. CASE Activate  BY <1>6 DEF Activate
<1>7. CASE Drain
  <2>1. Head(link.frames) \in Frames  BY <1>7, SMTT(30) DEF Drain, At, Linked, Links
  <2>2. CASE Drop  BY <1>7, <2>2, Advanced DEF Drain, Drop
  <2>3. CASE ~Drop  BY <1>7, <2>1, <2>3 DEF Drain
  <2> QED BY <2>2, <2>3
<1>8. CASE DrainEnds  BY <1>8 DEF DrainEnds
<1>9. CASE Dial
  <2>1. view.gen + 1 \in Nat /\ view.rev + 1 \in Nat /\ view.cat + 1 \in Nat
    BY SMTT(30) DEF TokenType, Views
  <2> QED BY <1>9, <2>1 DEF Dial, Reset, Views
<1>10. CASE DialFails  BY <1>10 DEF DialFails
<1>11. CASE Stamp  BY <1>11, RequestAssumption DEF Stamp, At, Placed, Working
<1>12. ASSUME NEW late \in BOOLEAN, CheckGuard(late) PROVE TokenStep  BY <1>12 DEF CheckGuard
<1>13. ASSUME NEW late \in BOOLEAN, RecheckGuard(late) PROVE TokenStep  BY <1>13 DEF RecheckGuard
<1>14. CASE LookAtContext  BY <1>14 DEF LookAtContext
<1>15. CASE WriteAll  BY <1>15 DEF WriteAll
<1>16. ASSUME NEW b \in BOOLEAN, WriteFails(b) PROVE TokenStep  BY <1>16 DEF WriteFails
<1>17. CASE AwaitCancelled  BY <1>17 DEF AwaitCancelled
<1>18. CASE AwaitFrame
  <2>1. Head(link.frames) \in Frames  BY <1>18, SMTT(30) DEF AwaitFrame, At, Linked, Links
  <2> QED BY <1>18, <2>1 DEF AwaitFrame
<1>19. CASE Finish
  <2>1. CASE Drop  BY <1>19, <2>1, Advanced DEF Finish, Drop
  <2>2. CASE ~Drop  BY <1>19, <2>2 DEF Finish, Answered
  <2> QED BY <2>1, <2>2
<1>20. CASE Publish
  <2>1. UNCHANGED <<players, writes, guard>>  BY <1>20 DEF Publish
  <2>2. CASE UNCHANGED <<view, outdated>>  BY <2>1, <2>2
  <2>3. CASE ~UNCHANGED <<view, outdated>>
    <3>1. view' = [view EXCEPT !.rev = @ + 1, !.cat = @ + 1] /\ outdated' = outdated \cup Guards
      BY <1>20, <2>3 DEF Publish
    <3>2. view.rev + 1 \in Nat /\ view.cat + 1 \in Nat  BY SMTT(30) DEF TokenType, Views
    <3> QED BY <2>1, <3>1, <3>2 DEF Reset, Views, TokenType
  <2> QED BY <2>2, <2>3
<1>21. ASSUME NEW r \in Requests, ObservePlayer(r) PROVE TokenStep  BY <1>21 DEF ObservePlayer
<1>22. ASSUME NEW r \in Requests, NEW late \in BOOLEAN, Submit(r, late) PROVE TokenStep
  BY <1>22 DEF Submit, Answered
<1>23. ASSUME NEW r \in Requests, Enqueue(r) PROVE TokenStep  BY <1>23 DEF Enqueue, Answered
<1>24. ASSUME NEW r \in Requests, Withdraw(r) PROVE TokenStep  BY <1>24 DEF Withdraw
<1>25. ASSUME NEW s \in Sessions, RaisePriority(s) PROVE TokenStep  BY <1>25 DEF RaisePriority
<1>26. ASSUME NEW s \in Sessions, Interrupt(s) PROVE TokenStep  BY <1>26, Advanced DEF Interrupt
<1>27. ASSUME NEW s \in Sessions, InterruptCloses(s) PROVE TokenStep  BY <1>27 DEF InterruptCloses
<1>28. ASSUME NEW s \in Sessions, ReleasePriority(s) PROVE TokenStep  BY <1>28 DEF ReleasePriority
<1>29. CASE Receive  BY <1>29 DEF Receive
<1>30. CASE ContextEnds  BY <1>30 DEF ContextEnds
<1>31. CASE LinkBreaks  BY <1>31 DEF LinkBreaks
<1>32. CASE Close  BY <1>32 DEF Close
<1>33. ASSUME NEW f \in Notices, DeviceSends(f) PROVE TokenStep  BY <1>33 DEF DeviceSends
<1>34. ASSUME NEW f \in Replies, DeviceReplies(f) PROVE TokenStep  BY <1>34 DEF DeviceReplies
<1>35. CASE UNCHANGED vars  BY <1>35 DEF vars
<1> HIDE DEF TokenStep
<1> QED BY <1>1, <1>2, <1>3, <1>4, <1>5, <1>6, <1>7, <1>8, <1>9, <1>10, <1>11, <1>12, <1>13,
  <1>14, <1>15, <1>16, <1>17, <1>18, <1>19, <1>20, <1>21, <1>22, <1>23, <1>24, <1>25, <1>26,
  <1>27, <1>28, <1>29, <1>30, <1>31, <1>32, <1>33, <1>34, <1>35 DEF Next, Owner, Callers, World
-----------------------------------------------------------------------------
(* None is neither a revision nor a token.                                 *)
LEMMA Numbers == None \notin Nat /\ None \notin Tokens
  BY NoneAssumption, SMTT(30)

(* A token carries its player's revisions.                                 *)
LEMMA TokenFields ==
  ASSUME TokenType, NEW p \in Players
  PROVE  /\ Token(p) \in Tokens /\ Token(p).gen = view.gen /\ Token(p).rev = view.rev
         /\ Token(p).cat = view.cat /\ Token(p).write = writes[p]
         /\ Token(p).player = IF players[p] = None THEN 0 ELSE players[p]
<1>1. (IF players[p] = None THEN 0 ELSE players[p]) \in Nat  BY SMTT(30) DEF TokenType
<1> QED BY <1>1 DEF TokenType, Token, Tokens, Views

(* The same of the next state's token.                                     *)
LEMMA NextTokenFields ==
  ASSUME TokenType', NEW p \in Players
  PROVE  /\ Token(p)' \in Tokens /\ Token(p)'.gen = view'.gen /\ Token(p)'.rev = view'.rev
         /\ Token(p)'.cat = view'.cat /\ Token(p)'.write = writes'[p]
         /\ Token(p)'.player = IF players'[p] = None THEN 0 ELSE players'[p]
<1>1. (IF players'[p] = None THEN 0 ELSE players'[p]) \in Nat  BY SMTT(30) DEF TokenType
<1> QED BY <1>1 DEF TokenType, Token, Tokens, Views

(* Later is transitive.                                                    *)
LEMMA LaterTransitive ==
  ASSUME NEW a \in Tokens, NEW b \in Tokens, NEW c \in Tokens, Later(b, a), Later(c, b)
  PROVE  Later(c, a)
  BY SMTT(30) DEF Tokens, Later

(* A token that moves forward leaves a guard at least as far behind.       *)
LEMMA GuardBehind ==
  ASSUME TokenType, TokenType', Tokenized, NEW r \in Requests, guard[r] # None, guard'[r] = guard[r],
         Later(Token(Target[r])', Token(Target[r])),
         players'[Target[r]] = None => players[Target[r]] = None \/ view'.rev > view.rev
  PROVE  /\ Later(Token(Target[r])', guard'[r])
         /\ players'[Target[r]] = None => guard'[r].rev < view'.rev
         /\ Behind(r) \/ view'.rev > view.rev => Behind(r)'
<1> DEFINE t == Token(Target[r])
           u == Token(Target[r])'
           g == guard[r]
<1>1. Target[r] \in Players /\ g \in Tokens  BY RequestAssumption DEF TokenType
<1>2. t \in Tokens /\ t.rev = view.rev  BY <1>1, TokenFields
<1>3. u \in Tokens /\ u.rev = view'.rev  BY <1>1, NextTokenFields
<1>4. Later(t, g) /\ (players[Target[r]] = None => g.rev < view.rev)  BY DEF Tokenized
<1>5. Later(u, t)  OBVIOUS
<1> HIDE DEF t, u, g
<1>6. Later(u, g)  BY <1>1, <1>2, <1>3, <1>4, <1>5, LaterTransitive
<1>7. g.rev =< t.rev /\ t.rev =< u.rev /\ g.rev \in Nat /\ t.rev \in Nat /\ u.rev \in Nat
  BY <1>1, <1>2, <1>3, <1>4, <1>5, SMTT(30) DEF Later, Tokens
<1>8. players'[Target[r]] = None => g.rev < view'.rev  BY <1>2, <1>3, <1>4, <1>7, SMTT(30)
<1>9. view'.rev > view.rev => g.rev < view'.rev  BY <1>2, <1>3, <1>7, SMTT(30)
<1>10. g.rev < t.rev \/ g.player < t.player => g.rev < u.rev \/ g.player < u.player
  BY <1>1, <1>2, <1>3, <1>5, <1>7, SMTT(30) DEF Later, Tokens
<1> QED BY <1>2, <1>3, <1>6, <1>8, <1>9, <1>10 DEF t, u, g, Behind

(* A new shared revision outdates every guard.                             *)
LEMMA TokenizedReset ==
  ASSUME TokenType, Tokenized, Reset,
         \A r \in Requests : phase'[r] = "new" => phase[r] = "new"
  PROVE  TokenType' /\ Tokenized' /\ \A p \in Players : Later(Token(p)', Token(p))
<1>1. TokenType'  BY DEF Reset, TokenType, Guards
<1>2. view'.rev > view.rev  BY SMTT(30) DEF Reset, TokenType, Views
<1>3. \A p \in Players : Later(Token(p)', Token(p))
  BY <1>1, <1>2, TokenFields, NextTokenFields DEF Later
<1>4. ASSUME NEW r \in Requests, guard[r] # None
      PROVE  /\ Later(Token(Target[r])', guard'[r])
             /\ players'[Target[r]] = None => guard'[r].rev < view'.rev
             /\ Behind(r)'
  BY <1>1, <1>2, <1>3, <1>4, GuardBehind, RequestAssumption DEF Reset
<1>5. \A w \in outdated' : w \in Requests /\ guard[w] # None
  BY DEF Reset, Tokenized, Guards, TokenType, Requests
<1>6. Tokenized'  BY <1>4, <1>5 DEF Tokenized, Reset
<1> QED BY <1>1, <1>3, <1>6

(* An event outdates the guards it concerns, and only moves tokens         *)
(* forward.                                                                *)
LEMMA TokenizedEvent ==
  ASSUME TokenType, Tokenized, NEW f \in Frames, IsEvent(f), HandleEvent(f), UNCHANGED guard,
         \A r \in Requests : phase'[r] = "new" => phase[r] = "new"
  PROVE  TokenType' /\ Tokenized' /\ \A p \in Players : Later(Token(p)', Token(p))
<1>1. view.rev \in Nat /\ view.rev + 1 \in Nat /\ view.cat + 1 \in Nat  BY SMTT(30) DEF TokenType, Views
<1>2. /\ view' \in Views /\ view'.gen = view.gen
      /\ IF f[2] \in {"global", "catalog"} THEN view'.rev = view.rev + 1
                                          ELSE view'.rev = view.rev /\ view'.cat = view.cat
  BY <1>1 DEF HandleEvent, TokenType, Views
<1>3. players' \in [Players -> Nat \cup {None}]  BY Numbers, SMTT(30) DEF HandleEvent, TokenType
<1>4. writes' = writes /\ outdated \subseteq outdated' /\ outdated' \subseteq Writes
  BY DEF HandleEvent, Guards, TokenType
<1>5. TokenType'  BY <1>2, <1>3, <1>4 DEF TokenType
<1>6. \A p \in Players : /\ players[p] = None <=> players'[p] = None
                         /\ players[p] # None => players'[p] >= players[p]
  BY Numbers, SMTT(30) DEF HandleEvent, TokenType
<1>7. ASSUME NEW p \in Players PROVE Later(Token(p)', Token(p))
  <2> DEFINE t == Token(p)
             u == Token(p)'
  <2>1. /\ t \in Tokens /\ t.gen = view.gen /\ t.rev = view.rev /\ t.cat = view.cat /\ t.write = writes[p]
        /\ t.player = IF players[p] = None THEN 0 ELSE players[p]
    BY TokenFields
  <2>2. /\ u \in Tokens /\ u.gen = view'.gen /\ u.rev = view'.rev /\ u.cat = view'.cat /\ u.write = writes'[p]
        /\ u.player = IF players'[p] = None THEN 0 ELSE players'[p]
    BY <1>5, NextTokenFields
  <2> HIDE DEF t, u
  <2>3. u.player >= t.player /\ u.write >= t.write
    BY <2>1, <2>2, <1>4, <1>6, SMTT(30) DEF Tokens
  <2>4. u.rev > t.rev \/ (u.rev = t.rev /\ u.gen = t.gen /\ u.cat = t.cat)
    BY <2>1, <2>2, <1>1, <1>2, SMTT(30)
  <2>5. Later(u, t)  BY <2>3, <2>4 DEF Later
  <2> QED BY <2>5 DEF t, u
<1>8. ASSUME NEW r \in Requests, guard[r] # None
      PROVE  /\ Later(Token(Target[r])', guard'[r])
             /\ players'[Target[r]] = None => guard'[r].rev < view'.rev
             /\ Behind(r) \/ view'.rev > view.rev => Behind(r)'
  BY <1>5, <1>6, <1>7, <1>8, GuardBehind, RequestAssumption
<1>9. ASSUME NEW w \in outdated' PROVE guard'[w] # None /\ Behind(w)'
  <2>1. CASE w \in outdated  BY <2>1, <1>8 DEF Tokenized, TokenType, Requests
  <2>2. CASE w \notin outdated
    <3>1. w \in Requests /\ w \in Writes /\ guard[w] # None /\ w \in Outdates(f) /\ f[2] # "progress"
      BY <2>2, <1>9 DEF HandleEvent, Guards, TokenType, Requests
    <3>2. CASE f[2] = "player"
      <4>1. f = <<Target[w], "player">> /\ Target[w] \in Players
        BY <3>1, <3>2, RequestAssumption, SMTT(30) DEF Frames, Notices, Replies, Broken, Outdates, Requests
      <4>2. CASE players[Target[w]] = None
        <5>1. guard[w].rev < view.rev /\ view'.rev = view.rev
          BY <3>1, <3>2, <4>2, <1>2 DEF Tokenized
        <5> QED BY <3>1, <5>1, <1>8 DEF Behind
      <4>3. CASE players[Target[w]] # None
        <5>1. players'[Target[w]] = players[Target[w]] + 1 /\ players[Target[w]] \in Nat
          BY <4>1, <4>3 DEF HandleEvent, TokenType
        <5>2. Later(Token(Target[w]), guard[w]) /\ guard[w] \in Tokens
          BY <3>1 DEF Tokenized, TokenType
        <5>3. Token(Target[w]).player = players[Target[w]] /\ Token(Target[w]).rev = view.rev
          BY <4>1, <4>3, TokenFields
        <5>4. Token(Target[w])'.player = players'[Target[w]]
          BY <4>1, <4>3, <1>5, <1>6, NextTokenFields
        <5>5. view'.rev = view.rev  BY <3>2, <1>2
        <5>6. guard[w].rev < view.rev \/ guard[w].player < players'[Target[w]]
          BY <5>1, <5>2, <5>3, <1>1, SMTT(30) DEF Later, Tokens
        <5> QED BY <3>1, <5>4, <5>5, <5>6 DEF Behind
      <4> QED BY <4>2, <4>3
    <3>3. CASE f[2] \in {"global", "catalog"}
      <4>1. view'.rev > view.rev  BY <3>3, <1>1, <1>2, SMTT(30)
      <4> QED BY <3>1, <4>1, <1>8
    <3> QED BY <3>1, <3>2, <3>3 DEF IsEvent
  <2> QED BY <2>1, <2>2
<1> QED BY <1>5, <1>7, <1>8, <1>9 DEF Tokenized

(* A stamp moves its player's token forward.                               *)
LEMMA TokenizedWrite ==
  ASSUME TokenType, Tokenized, NEW p \in Players, writes' = [writes EXCEPT ![p] = @ + 1],
         UNCHANGED <<view, players, guard, outdated>>,
         \A r \in Requests : phase'[r] = "new" => phase[r] = "new"
  PROVE  TokenType' /\ Tokenized' /\ \A q \in Players : Later(Token(q)', Token(q))
<1>1. writes' \in [Players -> Nat] /\ \A q \in Players : writes'[q] >= writes[q]  BY SMTT(30) DEF TokenType
<1>2. TokenType'  BY <1>1 DEF TokenType
<1>3. ASSUME NEW q \in Players PROVE Later(Token(q)', Token(q))
  <2>1. /\ Token(q)'.gen = Token(q).gen /\ Token(q)'.rev = Token(q).rev /\ Token(q)'.cat = Token(q).cat
        /\ Token(q)'.player = Token(q).player /\ Token(q)'.write >= Token(q).write
        /\ Token(q).player \in Nat
    BY <1>1, <1>2, TokenFields, NextTokenFields DEF Tokens
  <2>2. Token(q)'.player >= Token(q).player  BY <2>1, SMTT(30)
  <2> QED BY <2>1, <2>2 DEF Later
<1>4. ASSUME NEW r \in Requests, guard[r] # None
      PROVE  /\ Later(Token(Target[r])', guard'[r])
             /\ players'[Target[r]] = None => guard'[r].rev < view'.rev
             /\ Behind(r) => Behind(r)'
  BY <1>2, <1>3, <1>4, GuardBehind, RequestAssumption
<1>5. \A w \in outdated' : w \in Requests  BY DEF TokenType, Requests
<1>6. Tokenized'  BY <1>4, <1>5 DEF Tokenized
<1> QED BY <1>2, <1>3, <1>6

(* An observation takes the current token; clearing the full map of        *)
(* players makes every older token one of an earlier revision.             *)
LEMMA TokenizedObserve ==
  ASSUME TokenType, CallerType, Tokenized, NEW r \in Requests, ObservePlayer(r)
  PROVE  TokenType' /\ Tokenized' /\ \A q \in Players : Later(Token(q)', Token(q))
<1> DEFINE p == Target[r]
           evict == players[p] = None /\ Cardinality(Observed) = MaxPlayers
<1>0. p \in Players /\ view.rev \in Nat /\ view.rev + 1 \in Nat
  BY RequestAssumption, SMTT(30) DEF TokenType, Views
<1>1. /\ view' \in Views /\ view'.gen = view.gen /\ view'.cat = view.cat
      /\ IF evict THEN view'.rev = view.rev + 1 ELSE view'.rev = view.rev
  BY <1>0 DEF ObservePlayer, TokenType, Views
<1>2. /\ players' \in [Players -> Nat \cup {None}] /\ players'[p] # None
      /\ ~evict => \A q \in Players : players'[q] = players[q] \/ (players[q] = None /\ players'[q] = 0)
  BY <1>0, Numbers, SMTT(30) DEF ObservePlayer, TokenType
<1>3. writes' \in [Players -> Nat] /\ (~evict => writes' = writes) /\ outdated' = outdated
  BY SMTT(30) DEF ObservePlayer, TokenType
<1>4. guard' = [guard EXCEPT ![r] = Token(p)'] /\ phase' = [phase EXCEPT ![r] = "observed"] /\ phase[r] = "new"
  BY DEF ObservePlayer
<1> HIDE DEF evict
<1>5. Token(p)' \in Tokens
  <2>1. (IF players'[p] = None THEN 0 ELSE players'[p]) \in Nat  BY <1>0, <1>2, SMTT(30)
  <2> QED BY <2>1, <1>0, <1>1, <1>3 DEF Token, Tokens, Views
<1>6. TokenType'  BY <1>1, <1>2, <1>3, <1>4, <1>5 DEF TokenType
<1>7. ASSUME NEW q \in Players PROVE Later(Token(q)', Token(q))
  <2> DEFINE t == Token(q)
             u == Token(q)'
  <2>1. /\ t \in Tokens /\ t.gen = view.gen /\ t.rev = view.rev /\ t.cat = view.cat /\ t.write = writes[q]
        /\ t.player = IF players[q] = None THEN 0 ELSE players[q]
    BY TokenFields
  <2>2. /\ u \in Tokens /\ u.gen = view'.gen /\ u.rev = view'.rev /\ u.cat = view'.cat /\ u.write = writes'[q]
        /\ u.player = IF players'[q] = None THEN 0 ELSE players'[q]
    BY <1>6, NextTokenFields
  <2> HIDE DEF t, u
  <2>3. CASE evict
    <3>1. u.rev > t.rev  BY <2>1, <2>2, <2>3, <1>0, <1>1, SMTT(30)
    <3>2. Later(u, t)  BY <3>1 DEF Later
    <3> QED BY <3>2 DEF t, u
  <2>4. CASE ~evict
    <3>1. u.player = t.player /\ u.write = t.write  BY <2>1, <2>2, <2>4, <1>2, <1>3, Numbers
    <3>2. u.player >= t.player /\ u.write >= t.write  BY <3>1, <2>1, SMTT(30) DEF Tokens
    <3>3. Later(u, t)  BY <2>1, <2>2, <2>4, <3>2, <1>1 DEF Later
    <3> QED BY <3>3 DEF t, u
  <2> QED BY <2>3, <2>4
<1>8. \A x \in Requests : phase'[x] = "new" => guard'[x] = None
  BY <1>4 DEF Tokenized, CallerType, TokenType
<1>9. guard[r] = None /\ \A x \in Requests : x # r => guard'[x] = guard[x]
  BY <1>4 DEF Tokenized, TokenType
<1>10. ASSUME NEW x \in Requests, x # r, guard[x] # None
       PROVE  /\ Later(Token(Target[x])', guard'[x])
              /\ players'[Target[x]] = None => guard'[x].rev < view'.rev
              /\ Behind(x) => Behind(x)'
  <2>1. Target[x] \in Players  BY RequestAssumption
  <2>2. players'[Target[x]] = None => players[Target[x]] = None \/ view'.rev > view.rev
    <3>1. evict => view'.rev > view.rev  BY <1>0, <1>1, SMTT(30)
    <3> QED BY <3>1, <2>1, <1>2
  <2> QED BY <2>1, <2>2, <1>6, <1>7, <1>9, <1>10, GuardBehind
<1>11. guard'[r] = Token(p)' /\ Later(Token(p)', Token(p)')
  <2>1. \A a \in Tokens : Later(a, a)  BY SMTT(30) DEF Later, Tokens
  <2> QED BY <2>1, <1>4, <1>5 DEF TokenType
<1>12. ASSUME NEW x \in Requests, guard'[x] # None
       PROVE  /\ Later(Token(Target[x])', guard'[x])
              /\ players'[Target[x]] = None => guard'[x].rev < view'.rev
  BY <1>2, <1>9, <1>10, <1>11, <1>12
<1>13. ASSUME NEW w \in outdated' PROVE guard'[w] # None /\ Behind(w)'
  <2>1. w \in Requests /\ w # r /\ guard[w] # None /\ Behind(w)
    BY <1>3, <1>9 DEF TokenType, Tokenized, Requests
  <2> QED BY <2>1, <1>9, <1>10
<1> QED BY <1>6, <1>7, <1>8, <1>12, <1>13 DEF Tokenized

(* Tokens only advance, and guards stay behind them.                       *)
LEMMA TokenizedStep ==
  ASSUME TokenType, CallerType, Tokenized, TokenStep,
         \A r \in Requests : phase'[r] = "new" => phase[r] = "new"
  PROVE  TokenType' /\ Tokenized' /\ \A p \in Players : Later(Token(p)', Token(p))
<1>1. CASE UNCHANGED <<view, players, writes, guard, outdated>>
  <2>1. TokenType' /\ \A p \in Players : Token(p)' = Token(p)  BY <1>1 DEF TokenType, Token
  <2>2. \A a \in Tokens : Later(a, a)  BY SMTT(30) DEF Later, Tokens
  <2>3. \A p \in Players : Later(Token(p)', Token(p))  BY <2>1, <2>2, TokenFields
  <2>4. \A r \in Requests : Target[r] \in Players /\ Token(Target[r])' = Token(Target[r])
    BY <2>1, RequestAssumption
  <2>5. \A w \in outdated : w \in Requests /\ guard[w] # None /\ Behind(w)
    BY DEF Tokenized, TokenType, Requests
  <2>6. \A w \in outdated' : guard'[w] # None /\ Behind(w)'  BY <1>1, <2>4, <2>5 DEF Behind
  <2>7. \A r \in Requests : guard'[r] # None =>
          /\ Later(Token(Target[r])', guard'[r])
          /\ players'[Target[r]] = None => guard'[r].rev < view'.rev
    BY <1>1, <2>4 DEF Tokenized
  <2>8. Tokenized'  BY <1>1, <2>6, <2>7 DEF Tokenized
  <2> QED BY <2>1, <2>3, <2>8
<1> QED BY <1>1, TokenizedReset, TokenizedEvent, TokenizedWrite, TokenizedObserve DEF TokenStep
-----------------------------------------------------------------------------
(* A guard once taken is never replaced.                                   *)
LEMMA GuardStays ==
  ASSUME Tokenized, TokenType, TokenStep, NEW w \in Requests, guard[w] # None
  PROVE  guard'[w] = guard[w]
<1>1. CASE \E r \in Requests : ObservePlayer(r)  BY <1>1 DEF ObservePlayer, Tokenized, TokenType
<1>2. CASE UNCHANGED guard  BY <1>2
<1> QED BY <1>1, <1>2 DEF TokenStep, Reset

(* A guard once used is never current again.                               *)
LEMMA UsedStays ==
  ASSUME Tokenized, TokenType, TokenStep, NEW w \in Requests, guard[w] # None, Used(w)
  PROVE  Used(w)'
<1>1. guard'[w] = guard[w] /\ guard[w] \in Tokens /\ Target[w] \in Players
  BY GuardStays, RequestAssumption DEF TokenType
<1>2. guard[w].rev =< view.rev /\ view \in Views
  <2>1. Later(Token(Target[w]), guard[w]) /\ Token(Target[w]).rev = view.rev /\ view \in Views
    BY <1>1, TokenFields DEF Tokenized, TokenType
  <2> QED BY <1>1, <2>1, SMTT(30) DEF Later, Tokens, Views
<1>3. CASE UNCHANGED <<view, players, writes, guard, outdated>>  BY <1>3 DEF Used
<1>4. ASSUME view'.rev = view.rev + 1 PROVE Used(w)'
  BY <1>1, <1>2, <1>4, SMTT(30) DEF Used, Tokens, Views
<1>5. ASSUME view'.rev = view.rev, writes' = writes PROVE Used(w)'  BY <1>1, <1>5 DEF Used
<1>6. CASE Reset  BY <1>4, <1>6 DEF Reset
<1>7. ASSUME NEW f \in Frames, HandleEvent(f) PROVE Used(w)'
  <2>1. writes' = writes /\ view'.rev \in {view.rev, view.rev + 1}  BY <1>2, <1>7 DEF HandleEvent, Views
  <2> QED BY <2>1, <1>4, <1>5
<1>8. ASSUME NEW p \in Players, writes' = [writes EXCEPT ![p] = @ + 1], UNCHANGED view PROVE Used(w)'
  BY <1>1, <1>2, <1>8, SMTT(30) DEF Used, Tokens, TokenType
<1>9. ASSUME NEW r \in Requests, ObservePlayer(r) PROVE Used(w)'
  <2>1. view'.rev = view.rev + 1 \/ (view'.rev = view.rev /\ \A q \in Players : writes'[q] = writes[q])
    BY <1>2, <1>9 DEF ObservePlayer, Views
  <2> QED BY <2>1, <1>1, <1>4 DEF Used
<1> QED BY <1>3, <1>6, <1>7, <1>8, <1>9 DEF TokenStep

(* No command is written on an outdated guard or on one that was used.     *)
LEMMA GuardingStep ==
  ASSUME TokenType, Tokenized, Guarding, TokenStep, Moves
  PROVE  Guarding' /\ \A w \in Writes : <<w, "command">> \in sent' \ sent => w \notin outdated
<1> USE DEF Requests
<1>1. ASSUME NEW w \in Writes, <<w, "command">> \in sent' \ sent PROVE Stamped(w)
  BY <1>1, SMTT(30) DEF Moves, Stamped
<1>2. \A w \in Writes : Stamped(w) => Loaded(w)  BY DEF Loaded
<1>3. ASSUME NEW w \in Writes, GuardHolds(w)
      PROVE  guard[w] = Token(Target[w]) /\ guard[w] # None /\ w \notin outdated
  <2>1. Target[w] \in Players /\ guard[w] = Token(Target[w])
    BY <1>3, RequestAssumption DEF GuardHolds
  <2>2. /\ guard[w] \in Tokens /\ guard[w].rev = view.rev
        /\ guard[w].player = Token(Target[w]).player /\ guard[w].player \in Nat /\ view.rev \in Nat
    BY <2>1, TokenFields DEF Tokens
  <2>3. ~Behind(w)  BY <2>2, SMTT(30) DEF Behind
  <2> QED BY <2>1, <2>2, <2>3, Numbers DEF Tokenized
<1>4. ASSUME NEW w \in Writes, Loaded(w)' PROVE w \notin outdated' /\ guard[w] # None
  BY <1>3, <1>4 DEF Moves, Guarding
<1>5. ASSUME NEW w \in Writes, Stamped(w)' \/ <<w, "command">> \in sent'
      PROVE  guard[w] # None /\ Used(w)'
  <2>1. CASE Stamped(w) \/ <<w, "command">> \in sent'  BY <2>1, <1>1, UsedStays DEF Guarding
  <2>2. CASE owner.req = w /\ Loaded(w) /\ UNCHANGED <<view, guard, sent>>
             /\ writes' = [writes EXCEPT ![Target[w]] = @ + 1]
    <3>1. guard[w] \in Tokens /\ guard[w] # None /\ Target[w] \in Players
      BY <2>2, RequestAssumption DEF Guarding, TokenType
    <3>2. Later(Token(Target[w]), guard[w]) /\ Token(Target[w]).rev = view.rev
          /\ Token(Target[w]).write = writes[Target[w]] /\ Token(Target[w]) \in Tokens
      BY <3>1, TokenFields DEF Tokenized
    <3>3. writes'[Target[w]] = writes[Target[w]] + 1  BY <2>2, <3>1 DEF TokenType
    <3>4. guard[w].rev < view.rev \/ guard[w].write < writes[Target[w]] + 1
      BY <3>1, <3>2, SMTT(30) DEF Later, Tokens
    <3> QED BY <2>2, <3>1, <3>3, <3>4 DEF Used
  <2> QED BY <1>5, <2>1, <2>2 DEF Moves
<1>6. ASSUME NEW v \in Writes, NEW w \in Writes, v # w, Target[v] = Target[w],
             Loaded(w)', <<v, "command">> \in sent'
      PROVE  guard[v] # guard[w]
  <2>1. CASE Loaded(w) /\ UNCHANGED sent  BY <1>6, <2>1 DEF Guarding
  <2>2. CASE GuardHolds(w) /\ UNCHANGED sent
    <3>1. guard[w] = Token(Target[w]) /\ Target[w] \in Players  BY <2>2, <1>3, RequestAssumption
    <3>2. guard[v].rev < view.rev \/ guard[v].write < writes[Target[w]]  BY <1>6, <2>2 DEF Guarding, Used
    <3>3. /\ guard[w].rev = view.rev /\ guard[w].write = writes[Target[w]]
          /\ guard[w].rev \in Nat /\ guard[w].write \in Nat
      BY <3>1, TokenFields DEF Tokens
    <3> QED BY <3>2, <3>3, SMTT(30)
  <2> QED BY <1>6, <2>1, <2>2 DEF Moves
<1>7. ASSUME NEW v \in Writes, NEW w \in Writes, v # w, Target[v] = Target[w],
             {<<v, "command">>, <<w, "command">>} \subseteq sent'
      PROVE  guard[v] # guard[w]
  <2>1. CASE <<v, "command">> \in sent /\ <<w, "command">> \in sent
    BY <1>7, <2>1 DEF Guarding, GuardSpent
  <2>2. CASE <<v, "command">> \notin sent /\ <<w, "command">> \in sent
    BY <1>1, <1>2, <1>7, <2>2 DEF Guarding
  <2>3. CASE <<w, "command">> \notin sent /\ <<v, "command">> \in sent
    BY <1>1, <1>2, <1>7, <2>3 DEF Guarding
  <2>4. CASE <<w, "command">> \notin sent /\ <<v, "command">> \notin sent
    BY <1>1, <1>7, <2>4 DEF Stamped
  <2> QED BY <2>1, <2>2, <2>3, <2>4
<1>8. \A w \in Writes : guard[w] # None => guard'[w] = guard[w]  BY GuardStays
<1>9. GuardSpent'  BY <1>5, <1>7, <1>8 DEF GuardSpent
<1>10. Guarding'  BY <1>4, <1>5, <1>6, <1>8, <1>9 DEF Guarding
<1> QED BY <1>1, <1>2, <1>10 DEF Guarding
-----------------------------------------------------------------------------
(* Every step is a PhaseStep.                                              *)
LEMMA PhaseSteps ==
  ASSUME OwnerType, Placed, [Next]_vars
  PROVE  PhaseStep
<1> USE DEF PhaseStep, OwnerType, Owners, Before, Working, callers, mail, life
<1>1. CASE Poll  BY <1>1 DEF Poll, At
<1>2. CASE IdleFrame  BY <1>2, SMTT(30) DEF IdleFrame, At, Idle, Placed
<1>3. CASE Activate  BY <1>3 DEF Activate, At
<1>4. CASE Drain  BY <1>4 DEF Drain, At
<1>5. CASE DrainEnds  BY <1>5 DEF DrainEnds, At, Goto
<1>6. CASE Dial  BY <1>6 DEF Dial, At
<1>7. CASE DialFails  BY <1>7 DEF DialFails, At, Fail
<1>8. CASE Stamp  BY <1>8 DEF Stamp, At
<1>9. ASSUME NEW late \in BOOLEAN, CheckGuard(late) PROVE PhaseStep
  BY <1>9 DEF CheckGuard, At, Goto, Fail
<1>10. ASSUME NEW late \in BOOLEAN, RecheckGuard(late) PROVE PhaseStep
  BY <1>10 DEF RecheckGuard, At, Goto, Fail
<1>11. CASE LookAtContext  BY <1>11 DEF LookAtContext, At, Goto, Fail
<1>12. CASE WriteAll  BY <1>12 DEF WriteAll, At, Goto
<1>13. ASSUME NEW b \in BOOLEAN, WriteFails(b) PROVE PhaseStep  BY <1>13 DEF WriteFails, At, Fail
<1>14. CASE AwaitCancelled  BY <1>14 DEF AwaitCancelled, At, Fail
<1>15. CASE AwaitFrame  BY <1>15 DEF AwaitFrame, At, Goto, Fail
<1>16. CASE Publish  BY <1>16 DEF Publish
<1>17. ASSUME NEW s \in Sessions, RaisePriority(s) PROVE PhaseStep  BY <1>17 DEF RaisePriority
<1>18. ASSUME NEW s \in Sessions, Interrupt(s) PROVE PhaseStep  BY <1>18 DEF Interrupt
<1>19. ASSUME NEW s \in Sessions, InterruptCloses(s) PROVE PhaseStep  BY <1>19 DEF InterruptCloses
<1>20. ASSUME NEW s \in Sessions, ReleasePriority(s) PROVE PhaseStep  BY <1>20 DEF ReleasePriority
<1>21. CASE Receive  BY <1>21 DEF Receive
<1>22. CASE ContextEnds  BY <1>22 DEF ContextEnds
<1>23. CASE LinkBreaks  BY <1>23 DEF LinkBreaks
<1>24. CASE Close  BY <1>24 DEF Close
<1>25. ASSUME NEW f \in Notices, DeviceSends(f) PROVE PhaseStep  BY <1>25 DEF DeviceSends
<1>26. ASSUME NEW f \in Replies, DeviceReplies(f) PROVE PhaseStep  BY <1>26 DEF DeviceReplies
<1>27. CASE UNCHANGED vars  BY <1>27 DEF vars
<1>28. CASE \/ Exit \/ TakePriority \/ TakeRequest \/ Finish
           \/ \E r \in Requests : \/ ObservePlayer(r) \/ Enqueue(r) \/ Withdraw(r)
                                  \/ \E late \in BOOLEAN : Submit(r, late)
  BY <1>28
<1> HIDE DEF PhaseStep
<1> QED BY <1>1, <1>2, <1>3, <1>4, <1>5, <1>6, <1>7, <1>8, <1>9, <1>10, <1>11, <1>12, <1>13,
  <1>14, <1>15, <1>16, <1>17, <1>18, <1>19, <1>20, <1>21, <1>22, <1>23, <1>24, <1>25, <1>26,
  <1>27, <1>28, SMTT(30) DEF Next, Owner, Callers, World
-----------------------------------------------------------------------------
(* The head of a queue is a request nobody has taken.                      *)
LEMMA HeadsWaiting ==
  ASSUME Placed, ~done
  PROVE  /\ queue # <<>> => Head(queue) \in Requests \ Urgent /\ phase[Head(queue)] \in {"queued", "withdrawn"}
         /\ priority # <<>> => Head(priority) \in Urgent /\ phase[Head(priority)] \in {"queued", "withdrawn"}
  BY SMTT(30) DEF Placed, Queued

(* Taking the head leaves a queue of waiting requests.                     *)
LEMMA TailQueued ==
  ASSUME NEW S, NEW q \in Seq(S), q # <<>>, Queued(q), S \subseteq Requests,
         CallerType, NEW a, phase' = [phase EXCEPT ![Head(q)] = a]
  PROVE  /\ Tail(q) \in Seq(S)
         /\ \A i \in DOMAIN Tail(q) : phase'[Tail(q)[i]] \in {"queued", "withdrawn"}
         /\ \A i, j \in DOMAIN Tail(q) : i # j => Tail(q)[i] # Tail(q)[j]
<1>1. /\ Tail(q) \in Seq(S) /\ Head(q) = q[1] /\ 1 \in DOMAIN q
      /\ \A i \in DOMAIN Tail(q) : i + 1 \in DOMAIN q /\ i + 1 # 1 /\ Tail(q)[i] = q[i + 1]
      /\ \A i, j \in DOMAIN Tail(q) : i # j => i + 1 # j + 1
  BY SMTT(30)
<1>2. \A i \in DOMAIN q : q[i] \in Requests  BY SMTT(30)
<1> QED BY <1>1, <1>2, SMTT(30) DEF Queued, CallerType

(* A request outside a queue does not disturb it.                          *)
LEMMA OthersQueued ==
  ASSUME NEW S, NEW q \in Seq(S), S \subseteq Requests, NEW r, r \notin S, CallerType, Queued(q),
         NEW a, phase' = [phase EXCEPT ![r] = a]
  PROVE  \A i \in DOMAIN q : phase'[q[i]] \in {"queued", "withdrawn"}
<1>1. \A i \in DOMAIN q : q[i] \in Requests /\ q[i] # r  BY SMTT(30)
<1> QED BY <1>1 DEF Queued, CallerType

(* The owner takes the head of a queue.                                    *)
LEMMA PlacedTake ==
  ASSUME OwnerType, CallerType, Placed, TakePriority \/ TakeRequest
  PROVE  Placed' /\ Phased
<1>1. owner.at \in {"idle", "select"} /\ ~done  BY DEF TakePriority, TakeRequest, At, Placed
<1>2. PICK r \in Requests, a \in {"done", "owned"} :
        /\ phase[r] \in {"queued", "withdrawn"} /\ phase' = [phase EXCEPT ![r] = a]
        /\ UNCHANGED done /\ (answer' = answer \/ answer' = [answer EXCEPT ![r] = "notsent"])
        /\ \/ a = "done" /\ owner'.at = "idle" /\ owner'.req = None
           \/ a = "owned" /\ owner'.at = "claimed" /\ owner'.req = r
        /\ \/ queue # <<>> /\ r = Head(queue) /\ queue' = Tail(queue) /\ UNCHANGED priority
           \/ priority # <<>> /\ r = Head(priority) /\ priority' = Tail(priority) /\ UNCHANGED queue
  <2>1. CASE TakePriority
    <3>1. Head(priority) \in Requests /\ phase[Head(priority)] \in {"queued", "withdrawn"}
      BY <1>1, <2>1, HeadsWaiting, RequestAssumption DEF TakePriority
    <3> QED BY <2>1, <3>1, ClaimOwner DEF TakePriority, life
  <2>2. CASE TakeRequest
    <3>1. Head(queue) \in Requests /\ phase[Head(queue)] \in {"queued", "withdrawn"}
      BY <1>1, <2>2, HeadsWaiting, RequestAssumption DEF TakeRequest
    <3> QED BY <2>2, <3>1, ClaimOwner DEF TakeRequest, life
  <2> QED BY <2>1, <2>2
<1>3. Phased  BY <1>2 DEF Phased, CallerType, Phases, Submitted
<1>4. queue \in Seq(Requests \ Urgent) /\ priority \in Seq(Urgent) /\ Urgent \subseteq Requests
      /\ Queued(queue) /\ Queued(priority)
  BY <1>1, RequestAssumption DEF Placed
<1>5. /\ queue' \in Seq(Requests \ Urgent) /\ priority' \in Seq(Urgent)
      /\ Queued(queue)' /\ Queued(priority)'
  <2>1. CASE queue # <<>> /\ r = Head(queue) /\ queue' = Tail(queue) /\ UNCHANGED priority
    <3>1. r \notin Urgent  BY <1>4, <2>1, SMTT(30)
    <3>2. queue' \in Seq(Requests \ Urgent) /\ Queued(queue)'
      BY <1>2, <1>4, <2>1, TailQueued, SMTT(30) DEF Queued
    <3>3. Queued(priority)'  BY <1>2, <1>4, <2>1, <3>1, OthersQueued, SMTT(30) DEF Queued
    <3> QED BY <1>4, <2>1, <3>2, <3>3
  <2>2. CASE priority # <<>> /\ r = Head(priority) /\ priority' = Tail(priority) /\ UNCHANGED queue
    <3>1. r \in Urgent  BY <1>4, <2>2, SMTT(30)
    <3>2. priority' \in Seq(Urgent) /\ Queued(priority)'
      BY <1>2, <1>4, <2>2, TailQueued, SMTT(30) DEF Queued
    <3>3. Queued(queue)'  BY <1>2, <1>4, <2>2, <3>1, OthersQueued, SMTT(30) DEF Queued
    <3> QED BY <1>4, <2>2, <3>2, <3>3
  <2> QED BY <1>2, <2>1, <2>2
<1>6. \A x \in Requests : phase'[x] = "owned" => owner'.req = x
  BY <1>1, <1>2, RequestAssumption DEF Placed, Working, CallerType
<1> QED BY <1>1, <1>2, <1>3, <1>5, <1>6 DEF Placed, Working, CallerType
-----------------------------------------------------------------------------
(* A request that is not waiting is in no queue.                           *)
LEMMA StillQueued ==
  ASSUME CallerType, NEW r \in Requests, phase[r] \notin {"queued", "withdrawn"}, NEW a,
         phase' = [phase EXCEPT ![r] = a], NEW q \in Seq(Requests), Queued(q)
  PROVE  \A i \in DOMAIN q : phase'[q[i]] \in {"queued", "withdrawn"} /\ q[i] # r
<1>1. \A i \in DOMAIN q : q[i] \in Requests /\ q[i] # r  BY SMTT(30) DEF Queued
<1> QED BY <1>1 DEF Queued, CallerType

(* process answers the request it was given.                               *)
LEMMA PlacedFinish ==
  ASSUME OwnerType, CallerType, Placed, Finish
  PROVE  Placed' /\ Phased
<1>1. owner.req \in Requests /\ phase[owner.req] = "owned" /\ ~done
  BY DEF Finish, At, Placed, Working
<1>2. Delivery(owner.err) \in {"ok", "rejected", "uncertain", "notsent"}
  BY DEF Delivery, OwnerType, Owners, Errors
<1>3. /\ UNCHANGED <<queue, priority, done>> /\ phase' = [phase EXCEPT ![owner.req] = "done"]
      /\ answer' = [answer EXCEPT ![owner.req] = Delivery(owner.err)]
  BY DEF Finish, Answered, mail, life
<1>4. owner'.at = "idle" /\ owner'.req = None  BY IdleType DEF Finish, Owners
<1>5. Phased  BY <1>1, <1>2, <1>3 DEF Phased, CallerType, Phases, Submitted
<1>6. Queued(queue)' /\ Queued(priority)'  BY <1>1, <1>3, Waiting, StillQueued, SMTT(30) DEF Placed, Queued
<1>7. \A x \in Requests : phase'[x] # "owned"  BY <1>1, <1>3 DEF Placed, CallerType
<1> QED BY <1>1, <1>3, <1>4, <1>5, <1>6, <1>7 DEF Placed, Working

(* A caller moves its own request.                                         *)
LEMMA PlacedCaller ==
  ASSUME CallerType, Placed, NEW r \in Requests, NEW late \in BOOLEAN,
         ObservePlayer(r) \/ Submit(r, late) \/ Withdraw(r)
  PROVE  Placed' /\ Phased
<1>1. PICK a \in {"observed", "submitting", "done", "withdrawn"} :
        /\ phase' = [phase EXCEPT ![r] = a] /\ UNCHANGED <<queue, priority, done, owner>>
        /\ (answer' = answer \/ answer' = [answer EXCEPT ![r] = "notsent"])
        /\ \/ phase[r] \in {"new", "observed"} /\ a # "withdrawn"
           \/ phase[r] = "queued" /\ a = IF done THEN "done" ELSE "withdrawn"
        /\ a = "submitting" => Submit(r, late)
  <2>1. CASE ObservePlayer(r)  BY <2>1 DEF ObservePlayer, mail, life
  <2>2. CASE Submit(r, late)  BY <2>2 DEF Submit, Answered, mail, life
  <2>3. CASE Withdraw(r)  BY <2>3 DEF Withdraw, mail, life
  <2> QED BY <2>1, <2>2, <2>3
<1>2. Phased  BY <1>1 DEF Phased, CallerType, Phases, Submitted
<1>3. ASSUME NEW q \in Seq(Requests), Queued(q), ~done
      PROVE  \A i \in DOMAIN q : phase'[q[i]] \in {"queued", "withdrawn"}
  <2>1. CASE phase[r] \in {"new", "observed"}  BY <1>1, <1>3, <2>1, StillQueued
  <2>2. CASE phase[r] = "queued"  BY <1>1, <1>3, <2>2, SMTT(30) DEF Queued, CallerType
  <2> QED BY <1>1, <2>1, <2>2
<1>4. ~done' => Queued(queue)' /\ Queued(priority)'  BY <1>1, <1>3, Waiting DEF Placed, Queued
<1>5. \A x \in Requests : phase'[x] = "owned" <=> phase[x] = "owned"  BY <1>1 DEF CallerType
<1> QED BY <1>1, <1>2, <1>4, <1>5 DEF Placed

(* submit puts a request into the queue its context names.                 *)
LEMMA PlacedEnqueue ==
  ASSUME CallerType, Placed, NEW r \in Requests, Enqueue(r)
  PROVE  Placed' /\ Phased
<1>1. PICK a \in {"queued", "done"} :
        /\ phase' = [phase EXCEPT ![r] = a] /\ UNCHANGED <<done, owner>>
        /\ (answer' = answer \/ answer' = [answer EXCEPT ![r] = "notsent"])
        /\ phase[r] = "submitting"
        /\ \/ UNCHANGED <<queue, priority>>
           \/ /\ a = "queued" /\ r \in Urgent /\ priority' = Append(priority, r) /\ queue' = queue
           \/ /\ a = "queued" /\ r \notin Urgent /\ queue' = Append(queue, r) /\ priority' = priority
  BY DEF Enqueue, Answered, mail, life
<1>2. Phased  BY <1>1 DEF Phased, CallerType, Phases, Submitted
<1>3. \A x \in Requests : phase'[x] = "owned" <=> phase[x] = "owned"  BY <1>1 DEF CallerType
<1>4. ASSUME ~done
      PROVE  /\ \A i \in DOMAIN queue : phase'[queue[i]] \in {"queued", "withdrawn"} /\ queue[i] # r
             /\ \A i \in DOMAIN priority : phase'[priority[i]] \in {"queued", "withdrawn"} /\ priority[i] # r
  BY <1>1, <1>4, Waiting, StillQueued DEF Placed
<1>5. ASSUME NEW q \in Seq(Requests), a = "queued", Queued(q), NEW p, p = Append(q, r),
             \A i \in DOMAIN q : phase'[q[i]] \in {"queued", "withdrawn"} /\ q[i] # r
      PROVE  /\ \A i \in DOMAIN p : phase'[p[i]] \in {"queued", "withdrawn"}
             /\ \A i, j \in DOMAIN p : i # j => p[i] # p[j]
  <2>1. /\ DOMAIN p = DOMAIN q \cup {Len(q) + 1} /\ p[Len(q) + 1] = r
        /\ \A i \in DOMAIN q : p[i] = q[i]
    BY <1>5, SMTT(30)
  <2>2. phase'[r] = "queued"  BY <1>1, <1>5 DEF CallerType
  <2> QED BY <1>5, <2>1, <2>2, SMTT(30) DEF Queued
<1>6. ASSUME queue' \in Seq(Requests \ Urgent), priority' \in Seq(Urgent),
             ~done => Queued(queue)' /\ Queued(priority)'
      PROVE  Placed'
  BY <1>1, <1>3, <1>6 DEF Placed
<1>7. queue \in Seq(Requests \ Urgent) /\ priority \in Seq(Urgent) /\ (~done => Queued(queue) /\ Queued(priority))
  BY DEF Placed
<1>8. ~done /\ queue' = queue => Queued(queue)'  BY <1>4, <1>7 DEF Queued
<1>9. ~done /\ priority' = priority => Queued(priority)'  BY <1>4, <1>7 DEF Queued
<1>10. CASE UNCHANGED <<queue, priority>>  BY <1>2, <1>6, <1>7, <1>8, <1>9, <1>10
<1>11. CASE a = "queued" /\ r \in Urgent /\ priority' = Append(priority, r) /\ queue' = queue
  <2>1. ~done => Queued(priority)'  BY <1>4, <1>5, <1>7, <1>11, Waiting, SMTT(30) DEF Queued
  <2>2. priority' \in Seq(Urgent)  BY <1>7, <1>11, SMTT(30)
  <2> QED BY <1>2, <1>6, <1>7, <1>8, <1>11, <2>1, <2>2
<1>12. CASE a = "queued" /\ r \notin Urgent /\ queue' = Append(queue, r) /\ priority' = priority
  <2>1. ~done => Queued(queue)'  BY <1>4, <1>5, <1>7, <1>12, Waiting, SMTT(30) DEF Queued
  <2>2. r \in Requests \ Urgent  BY <1>12
  <2>3. queue' \in Seq(Requests \ Urgent)  BY <1>7, <1>12, <2>2, SMTT(30)
  <2> QED BY <1>2, <1>6, <1>7, <1>9, <1>12, <2>1, <2>3
<1> QED BY <1>1, <1>10, <1>11, <1>12

(* Every step keeps each request in one place.                             *)
LEMMA PlacedStep ==
  ASSUME OwnerType, CallerType, Placed, PhaseStep
  PROVE  Placed' /\ Phased
<1>1. CASE /\ UNCHANGED <<phase, answer, queue, priority, done>> /\ owner'.req = owner.req
           /\ (owner'.at \in Working <=> owner.at \in Working) /\ (owner'.at = "gone" <=> owner.at = "gone")
  BY <1>1, SMTT(30) DEF Placed, Queued, Phased, CallerType, Submitted
<1>2. CASE Exit
  <2>1. owner'.at = "gone" /\ owner'.req = None /\ done'  BY <1>2, IdleType DEF Exit, Owners
  <2>2. UNCHANGED <<phase, answer, queue, priority>> /\ owner.at \in {"idle", "select"}
    BY <1>2 DEF Exit, At, callers, mail
  <2> QED BY <2>1, <2>2, RequestAssumption DEF Placed, Phased, CallerType, Submitted, Working
<1> QED BY <1>1, <1>2, PlacedTake, PlacedFinish, PlacedCaller, PlacedEnqueue DEF PhaseStep
-----------------------------------------------------------------------------
(* A command of which bytes were written is never answered NotSent.        *)
LEMMA ToldStep ==
  ASSUME OwnerType, CallerType, Placed, Told, PhaseStep, Moves
  PROVE  Told' /\ sent' \subseteq Requests \X {"register", "command"}
<1>1. ASSUME sent' # sent
      PROVE  /\ owner.req \in Requests /\ phase[owner.req] = "owned" /\ owner.at = "write"
             /\ sent' = sent \cup {<<owner.req, owner.what>>}
  BY <1>1 DEF Moves, Placed, Working
<1>2. sent' \subseteq Requests \X {"register", "command"}
  BY <1>1, SMTT(30) DEF CallerType, OwnerType, Owners
<1>3. ASSUME NEW r \in Requests, <<r, "command">> \in sent', <<r, "command">> \notin sent
      PROVE  owner.req = r /\ phase[r] = "owned" /\ Delivered'
  BY <1>1, <1>3, SMTT(30) DEF Moves
<1>4. CASE /\ UNCHANGED <<phase, answer>>
           /\ (owner'.at \in Working <=> owner.at \in Working)
  <2>1. Delivered => Delivered'  BY <1>4 DEF Moves, Working
  <2> QED BY <1>2, <1>3, <1>4, <2>1 DEF Told
<1>5. CASE Exit
  <2>1. UNCHANGED <<phase, answer, sent>> /\ ~Delivered  BY <1>5 DEF Exit, At, Delivered, callers
  <2>2. \A r \in Requests : <<r, "command">> \in sent => phase[r] = "done" /\ answer[r] # "notsent"
    BY <2>1 DEF Told
  <2> QED BY <1>2, <2>1, <2>2 DEF Told
<1>6. CASE TakePriority \/ TakeRequest
  <2>1. ~done /\ UNCHANGED sent  BY <1>6 DEF TakePriority, TakeRequest, At, Placed
  <2>2. PICK r \in Requests, a \in {"done", "owned"} :
          /\ phase[r] \in {"queued", "withdrawn"} /\ phase' = [phase EXCEPT ![r] = a]
          /\ \/ answer' = answer /\ (a = "owned" => phase[r] = "queued")
             \/ answer' = [answer EXCEPT ![r] = "notsent"] /\ a = "done"
    <3>1. CASE TakePriority
      <4>1. Head(priority) \in Requests /\ phase[Head(priority)] \in {"queued", "withdrawn"}
        BY <2>1, <3>1, HeadsWaiting, RequestAssumption DEF TakePriority
      <4> QED BY <3>1, <4>1, ClaimOwner DEF TakePriority
    <3>2. CASE TakeRequest
      <4>1. Head(queue) \in Requests /\ phase[Head(queue)] \in {"queued", "withdrawn"}
        BY <2>1, <3>2, HeadsWaiting, RequestAssumption DEF TakeRequest
      <4> QED BY <3>2, <4>1, ClaimOwner DEF TakeRequest
    <3> QED BY <1>6, <3>1, <3>2
  <2>3. ~Delivered  BY <1>6 DEF TakePriority, TakeRequest, At, Delivered
  <2> QED BY <2>1, <2>2, <2>3 DEF Told, CallerType
<1>7. CASE Finish
  <2>1. owner.req \in Requests /\ phase[owner.req] = "owned" /\ UNCHANGED sent
        /\ \A r \in Requests : phase[r] = "owned" => r = owner.req
    BY <1>7 DEF Finish, At, Placed, Working
  <2>2. Delivered => Delivery(owner.err) \in {"ok", "rejected", "uncertain"}
    BY <1>7 DEF Finish, At, Delivered, Delivery
  <2>3. /\ phase' = [phase EXCEPT ![owner.req] = "done"]
        /\ answer' = [answer EXCEPT ![owner.req] = Delivery(owner.err)]
    BY <1>7 DEF Finish, Answered
  <2> QED BY <2>1, <2>2, <2>3 DEF Told, CallerType
<1>8. ASSUME NEW r \in Requests, NEW late \in BOOLEAN,
             ObservePlayer(r) \/ Enqueue(r) \/ Withdraw(r) \/ Submit(r, late)
      PROVE  Told'
  <2>1. PICK a \in {"observed", "submitting", "queued", "withdrawn", "done"} :
          /\ phase[r] \in {"new", "observed", "submitting", "queued"}
          /\ phase' = [phase EXCEPT ![r] = a] /\ UNCHANGED <<owner, sent>>
          /\ \/ answer' = answer
             \/ answer' = [answer EXCEPT ![r] = "notsent"] /\ a \in {"done", "withdrawn"}
    <3>1. CASE ObservePlayer(r)  BY <3>1 DEF ObservePlayer, callers
    <3>2. CASE Enqueue(r)  BY <3>2 DEF Enqueue, Answered, callers
    <3>3. CASE Withdraw(r)  BY <3>3 DEF Withdraw, callers
    <3>4. CASE Submit(r, late)  BY <3>4 DEF Submit, Answered, callers
    <3> QED BY <1>8, <3>1, <3>2, <3>3, <3>4
  <2> QED BY <2>1, SMTT(30) DEF Told, Delivered, CallerType
<1> QED BY <1>2, <1>4, <1>5, <1>6, <1>7, <1>8 DEF PhaseStep
-----------------------------------------------------------------------------
(* Reading a frame keeps the connection.                                   *)
LEMMA ConsumedType ==
  ASSUME link \in Links, link.frames # <<>>
  PROVE  Consumed \in Links /\ Consumed.open = link.open /\ Consumed.gen = link.gen
<1>1. Tail(link.frames) \in Seq(Frames)  BY SMTT(30) DEF Links
<1> QED BY <1>1 DEF Consumed, Links

(* The owner keeps its connection while it uses it.                        *)
LEMMA LinkedStep ==
  ASSUME OwnerType, OwnerType', TokenType, Placed, Linked, [Next]_vars
  PROVE  Linked'
<1> USE DEF client, callers, life, mail, stream, sessions, OwnerType, Owners, Linked
<1>1. CASE Poll  BY <1>1 DEF Poll, At
<1>2. CASE TakePriority
  <2>1. Head(priority) \in Requests  BY <1>2, Waiting, SMTT(30) DEF TakePriority
  <2> QED BY <1>2, <2>1, ClaimOwner DEF TakePriority
<1>3. CASE TakeRequest
  <2>1. Head(queue) \in Requests  BY <1>3, Waiting, SMTT(30) DEF TakeRequest
  <2> QED BY <1>3, <2>1, ClaimOwner DEF TakeRequest
<1>4. CASE IdleFrame
  <2>1. link \in Links /\ link.frames # <<>>  BY <1>4 DEF IdleFrame, At
  <2>2. link' \in {Consumed, None} /\ (owner'.at = "drain" => link' = Consumed)
    BY <1>4, IdleType DEF IdleFrame, Drop
  <2>3. owner'.at \in {"idle", "drain", "check"}  BY <1>4, IdleType DEF IdleFrame
  <2> QED BY <2>1, <2>2, <2>3, ConsumedType
<1>5. CASE Exit
  <2>1. link' \in {link, None} /\ owner'.at \in {"idle", "gone"}  BY <1>5, IdleType DEF Exit, Drop
  <2> QED BY <2>1
<1>6. CASE Activate  BY <1>6 DEF Activate, At
<1>7. CASE Drain
  <2>1. link \in Links /\ link.frames # <<>>  BY <1>7 DEF Drain, At
  <2>2. link' \in {Consumed, None} /\ (owner'.at = "drain" => link' = Consumed)
    BY <1>7, IdleType DEF Drain, Drop
  <2>3. owner'.at \in {"idle", "drain", "check"}  BY <1>7, IdleType DEF Drain
  <2> QED BY <2>1, <2>2, <2>3, ConsumedType
<1>8. CASE DrainEnds  BY <1>8 DEF DrainEnds, At, Goto
<1>9. CASE Dial
  <2>1. view.gen + 1 \in Nat /\ <<>> \in Seq(Frames)  BY SMTT(30) DEF TokenType, Views
  <2> QED BY <1>9, <2>1 DEF Dial, Links
<1>10. CASE DialFails  BY <1>10 DEF DialFails, At, Fail
<1>11. CASE Stamp  BY <1>11 DEF Stamp, At
<1>12. ASSUME NEW late \in BOOLEAN, CheckGuard(late) PROVE Linked'
  BY <1>12 DEF CheckGuard, At, Goto, Fail
<1>13. ASSUME NEW late \in BOOLEAN, RecheckGuard(late) PROVE Linked'
  BY <1>13 DEF RecheckGuard, At, Goto, Fail
<1>14. CASE LookAtContext  BY <1>14 DEF LookAtContext, At, Goto, Fail
<1>15. CASE WriteAll
  <2>1. link \in Links /\ link' = [link EXCEPT !.due = TRUE]  BY <1>15 DEF WriteAll, At
  <2>2. link' \in Links  BY <2>1 DEF Links
  <2> QED BY <2>2
<1>16. ASSUME NEW b \in BOOLEAN, WriteFails(b) PROVE Linked'  BY <1>16 DEF WriteFails, At, Fail
<1>17. CASE AwaitCancelled  BY <1>17 DEF AwaitCancelled, At, Fail
<1>18. CASE AwaitFrame
  <2>1. link \in Links /\ link.frames # <<>>  BY <1>18 DEF AwaitFrame, At
  <2>2. \/ link' = Consumed
        \/ \E b \in BOOLEAN : link' = [Consumed EXCEPT !.subscribed = b]
    BY <1>18, <2>1 DEF AwaitFrame, Consumed, Links
  <2>3. link' \in Links  BY <2>1, <2>2, ConsumedType DEF Links
  <2> QED BY <2>3
<1>19. CASE Finish
  <2>1. link' \in {link, None} /\ owner'.at \in {"idle", "gone"}
    BY <1>19, IdleType DEF Finish, Drop
  <2> QED BY <2>1
<1>20. CASE Publish  BY <1>20 DEF Publish
<1>21. ASSUME NEW r \in Requests, ObservePlayer(r) PROVE Linked'  BY <1>21 DEF ObservePlayer
<1>22. ASSUME NEW r \in Requests, NEW late \in BOOLEAN, Submit(r, late) PROVE Linked'
  BY <1>22 DEF Submit
<1>23. ASSUME NEW r \in Requests, Enqueue(r) PROVE Linked'  BY <1>23 DEF Enqueue
<1>24. ASSUME NEW r \in Requests, Withdraw(r) PROVE Linked'  BY <1>24 DEF Withdraw
<1>25. ASSUME NEW s \in Sessions, RaisePriority(s) PROVE Linked'  BY <1>25 DEF RaisePriority
<1>26. ASSUME NEW s \in Sessions, Interrupt(s) PROVE Linked'  BY <1>26 DEF Interrupt
<1>27. ASSUME NEW s \in Sessions, InterruptCloses(s) PROVE Linked'
  <2>1. link' = link \/ (link \in Links /\ link' = [link EXCEPT !.open = FALSE])
    BY <1>27 DEF InterruptCloses
  <2>2. link' = link \/ link' \in Links  BY <2>1 DEF Links
  <2> QED BY <1>27, <2>2 DEF InterruptCloses
<1>28. ASSUME NEW s \in Sessions, ReleasePriority(s) PROVE Linked'  BY <1>28 DEF ReleasePriority
<1>29. CASE Receive  BY <1>29 DEF Receive
<1>30. CASE ContextEnds  BY <1>30 DEF ContextEnds
<1>31. CASE LinkBreaks
  <2>1. link \in Links /\ Append(link.frames, Broken) \in Seq(Frames)
    BY <1>31, SMTT(30) DEF LinkBreaks, Links, Frames
  <2> QED BY <1>31, <2>1 DEF LinkBreaks, Links
<1>32. CASE Close  BY <1>32 DEF Close
<1>33. ASSUME NEW f \in Notices, DeviceSends(f) PROVE Linked'
  <2>1. link \in Links /\ f \in Frames /\ Append(link.frames, f) \in Seq(Frames)
    BY <1>33, SMTT(30) DEF DeviceSends, Links, Frames
  <2> QED BY <1>33, <2>1 DEF DeviceSends, Links
<1>34. ASSUME NEW f \in Replies, DeviceReplies(f) PROVE Linked'
  <2>1. link \in Links /\ f \in Frames /\ Append(link.frames, f) \in Seq(Frames)
    BY <1>34, SMTT(30) DEF DeviceReplies, Links, Frames
  <2> QED BY <1>34, <2>1 DEF DeviceReplies, Links
<1>35. CASE UNCHANGED vars  BY <1>35 DEF vars
<1> HIDE DEF Linked
<1> QED BY <1>1, <1>2, <1>3, <1>4, <1>5, <1>6, <1>7, <1>8, <1>9, <1>10, <1>11, <1>12, <1>13,
  <1>14, <1>15, <1>16, <1>17, <1>18, <1>19, <1>20, <1>21, <1>22, <1>23, <1>24, <1>25, <1>26,
  <1>27, <1>28, <1>29, <1>30, <1>31, <1>32, <1>33, <1>34, <1>35 DEF Next, Owner, Callers, World
-----------------------------------------------------------------------------
(* Every step but submit's and the sessions' is a FenceStep.               *)
LEMMA FenceSteps ==
  ASSUME OwnerType, OwnerType', Linked, Placed, [Next]_vars
  PROVE  \/ FenceStep
         \/ \E r \in Requests, late \in BOOLEAN : Submit(r, late)
         \/ \E s \in Sessions : RaisePriority(s) \/ Interrupt(s) \/ InterruptCloses(s) \/ ReleasePriority(s)
<1> USE DEF FenceStep, Processing, OwnerType, Owners, client, callers, sessions
<1>1. CASE Poll  BY <1>1 DEF Poll, At
<1>2. CASE TakePriority
  <2>1. Head(priority) \in Requests  BY <1>2, Waiting, SMTT(30) DEF TakePriority
  <2> QED BY <1>2, <2>1, ClaimOwner DEF TakePriority
<1>3. CASE TakeRequest
  <2>1. Head(queue) \in Requests  BY <1>3, Waiting, SMTT(30) DEF TakeRequest
  <2> QED BY <1>3, <2>1, ClaimOwner DEF TakeRequest
<1>4. CASE IdleFrame
  <2>1. owner'.at \in {"idle", "gone"}  BY <1>4, IdleType DEF IdleFrame
  <2> QED BY <1>4, <2>1 DEF IdleFrame, Drop, HandleEvent
<1>5. CASE Exit
  <2>1. owner'.at \in {"idle", "gone"}  BY <1>5, IdleType DEF Exit
  <2> QED BY <1>5, <2>1 DEF Exit, Drop, HandleEvent
<1>6. CASE Activate  BY <1>6 DEF Activate, At
<1>7. CASE Drain  BY <1>7 DEF Drain, At, HandleEvent, Drop
<1>8. CASE DrainEnds  BY <1>8 DEF DrainEnds, At, Goto
<1>9. CASE Dial  BY <1>9 DEF Dial, At
<1>10. CASE DialFails  BY <1>10 DEF DialFails, At, Fail
<1>11. CASE Stamp  BY <1>11 DEF Stamp, At
<1>12. ASSUME NEW late \in BOOLEAN, CheckGuard(late) PROVE FenceStep
  BY <1>12 DEF CheckGuard, At, Goto, Fail
<1>13. ASSUME NEW late \in BOOLEAN, RecheckGuard(late) PROVE FenceStep
  BY <1>13 DEF RecheckGuard, At, Goto, Fail
<1>14. CASE LookAtContext  BY <1>14 DEF LookAtContext, At, Goto, Fail
<1>15. CASE WriteAll  BY <1>15 DEF WriteAll, At, Goto
<1>16. ASSUME NEW b \in BOOLEAN, WriteFails(b) PROVE FenceStep  BY <1>16 DEF WriteFails, At, Fail
<1>17. CASE AwaitCancelled  BY <1>17 DEF AwaitCancelled, At, Fail
<1>18. CASE AwaitFrame  BY <1>18 DEF AwaitFrame, At, HandleEvent, Goto, Fail
<1>19. CASE Finish
  <2>1. owner'.at \in {"idle", "gone"}  BY <1>19, IdleType DEF Finish
  <2> QED BY <1>19, <2>1 DEF Finish, Drop, HandleEvent
<1>20. CASE Publish  BY <1>20 DEF Publish
<1>21. ASSUME NEW r \in Requests, ObservePlayer(r) PROVE FenceStep  BY <1>21 DEF ObservePlayer
<1>22. ASSUME NEW r \in Requests, Enqueue(r) PROVE FenceStep  BY <1>22 DEF Enqueue
<1>23. ASSUME NEW r \in Requests, Withdraw(r) PROVE FenceStep  BY <1>23 DEF Withdraw
<1>24. CASE Receive  BY <1>24 DEF Receive
<1>25. CASE ContextEnds  BY <1>25 DEF ContextEnds
<1>26. CASE LinkBreaks  BY <1>26, SMTT(30) DEF LinkBreaks
<1>27. CASE Close  BY <1>27 DEF Close
<1>28. ASSUME NEW f \in Notices, DeviceSends(f) PROVE FenceStep  BY <1>28, SMTT(30) DEF DeviceSends
<1>29. ASSUME NEW f \in Replies, DeviceReplies(f) PROVE FenceStep  BY <1>29, SMTT(30) DEF DeviceReplies
<1>30. CASE UNCHANGED vars  BY <1>30 DEF vars
<1> HIDE DEF FenceStep
<1> QED BY <1>1, <1>2, <1>3, <1>4, <1>5, <1>6, <1>7, <1>8, <1>9, <1>10, <1>11, <1>12, <1>13,
  <1>14, <1>15, <1>16, <1>17, <1>18, <1>19, <1>20, <1>21, <1>22, <1>23, <1>24, <1>25, <1>26,
  <1>27, <1>28, <1>29, <1>30 DEF Next, Owner, Callers, World
=============================================================================
