--------------------------- MODULE TransportProofs ---------------------------
(***************************************************************************)
(* Interrupt's fence, and the theorems about the HEOS client.              *)
(***************************************************************************)
EXTENDS TransportSteps, FiniteSetTheorems

USE ZenonT(40)
-----------------------------------------------------------------------------
(* While a session has priority, ordinary requests are refused.            *)
LEMMA SubmitBlocked ==
  ASSUME NEW s \in Sessions, session[s] \in {"raised", "fencing", "held"}, NEW r, r \notin Urgent
  PROVE  Blocked(r)
<1> DEFINE S == {x \in Sessions : session[x] \in {"raised", "fencing", "held"}}
<1>1. IsFiniteSet(S) /\ S # {}  BY SessionAssumption, FS_Subset
<1>2. Cardinality(S) \in Nat /\ Cardinality(S) # 0  BY <1>1, FS_CardinalityType, FS_EmptySet
<1> QED BY <1>2, SMTT(30) DEF Blocked, PriorityMode

(* submit stamps a request with the current fence.                         *)
LEMMA FencedSubmit ==
  ASSUME OwnerType, CallerType, Placed, Fenced, Phased,
         NEW r \in Requests, NEW late \in BOOLEAN, Submit(r, late)
  PROVE  Fenced'
<1>1. UNCHANGED <<fence, fenced, session, victim, owner, link>> /\ phase[r] \in {"new", "observed"}
  BY DEF Submit, client, sessions
<1>2. fenceOf' = fenceOf \/ fenceOf' = [fenceOf EXCEPT ![r] = fence]  BY DEF Submit
<1>3. FenceType'  BY <1>1, <1>2, SMTT(30) DEF Fenced, FenceType
<1>4. owner.at \in Working => owner.req \in Requests /\ owner.req # r  BY <1>1 DEF Placed
<1>5. owner.at \in Working => fenceOf'[owner.req] = fenceOf[owner.req]
  BY <1>2, <1>4 DEF Fenced, FenceType
<1>6. ASSUME NEW s \in Sessions, session[s] \in {"fencing", "held"}, NEW x \in Requests \ Urgent, Submitted(x)'
      PROVE  fenceOf'[x] < victim[s].fence
  <2>1. Blocked(x) /\ (r \in Urgent \/ Blocked(r))  BY <1>6, SubmitBlocked
  <2>2. x # r  BY <1>6, <2>1 DEF Submit, Answered, Submitted, CallerType
  <2>3. phase'[x] = phase[x] /\ fenceOf'[x] = fenceOf[x]
    BY <1>2, <2>2 DEF Submit, Answered, Fenced, FenceType, CallerType
  <2> QED BY <1>6, <2>3 DEF Fenced, Submitted
<1>7. owner.at \in Working <=> owner.at \notin Before  BY DEF OwnerType, Owners, Before, Working
<1> QED BY <1>1, <1>3, <1>5, <1>6, <1>7 DEF Fenced, Processing, Before, Working

(* Interrupt fences off what was submitted and closes the connection in    *)
(* use.                                                                    *)
LEMMA FencedSession ==
  ASSUME OwnerType, CallerType, Placed, Linked, Fenced, NEW s \in Sessions,
         RaisePriority(s) \/ Interrupt(s) \/ InterruptCloses(s) \/ ReleasePriority(s)
  PROVE  Fenced'
<1>1. owner.at \in Working => owner.req \in Requests /\ fenceOf[owner.req] \in 0 .. fence
  BY DEF Placed, Fenced, FenceType
<1>2. CASE RaisePriority(s) \/ ReleasePriority(s)
  <2>1. UNCHANGED <<fence, fenced, fenceOf, victim, phase, owner, link>>
        /\ \E a \in {"raised", "released"} : session' = [session EXCEPT ![s] = a]
    BY <1>2 DEF RaisePriority, ReleasePriority, client, callers
  <2> QED BY <2>1 DEF Fenced, FenceType, Processing, Submitted
<1>3. CASE Interrupt(s)
  <2>1. /\ UNCHANGED <<fenced, fenceOf, phase, link>> /\ fence' = fence + 1
        /\ owner' = [owner EXCEPT !.cancelled = @ \/ Processing]
        /\ session' = [session EXCEPT ![s] = "fencing"]
        /\ victim' = [victim EXCEPT ![s] = [gen |-> IF link = None THEN None ELSE link.gen, fence |-> fence + 1]]
    BY <1>3 DEF Interrupt, callers
  <2>2. fence \in Nat /\ fence + 1 \in Nat /\ \A r \in Requests : fenceOf[r] \in Nat /\ fenceOf[r] =< fence
    BY SMTT(30) DEF Fenced, FenceType
  <2>3. (IF link = None THEN None ELSE link.gen) \in Nat \cup {None}  BY DEF Linked, Links
  <2>4. victim'[s] \in Victims /\ victim'[s].fence = fence + 1
        /\ victim'[s].gen = IF link = None THEN None ELSE link.gen
    BY <2>1, <2>2, <2>3 DEF Victims, Fenced, FenceType
  <2>5. \A x \in Sessions \ {s} : victim'[x] = victim[x] /\ session'[x] = session[x]
    BY <2>1 DEF Fenced, FenceType
  <2>6. session'[s] = "fencing"  BY <2>1 DEF Fenced, FenceType
  <2>7. FenceType'  BY <2>1, <2>2, <2>3, SMTT(30) DEF Fenced, FenceType, Victims
  <2>8. UNCHANGED <<owner.at, owner.req>> /\ (Processing' => owner'.cancelled)
    BY <2>1 DEF OwnerType, Owners, Processing
  <2>9. owner.at = "write" => link # None  BY LinkAssumption DEF Linked
  <2>10. \A x \in Sessions : session'[x] \in {"fencing", "held"} =>
           /\ victim'[x] \in Victims /\ victim'[x].fence =< fence'
           /\ \A r \in Requests \ Urgent : Submitted(r)' => fenceOf'[r] < victim'[x].fence
    BY <2>1, <2>2, <2>4, <2>5, SMTT(30) DEF Fenced, Submitted, Victims
  <2> QED BY <2>1, <2>4, <2>5, <2>6, <2>7, <2>8, <2>9, <2>10, SMTT(30) DEF Fenced
<1>4. CASE InterruptCloses(s)
  <2>1. /\ UNCHANGED <<fence, fenceOf, victim, phase, owner>> /\ session' = [session EXCEPT ![s] = "held"]
        /\ fenced' = IF fenced < victim[s].fence THEN victim[s].fence ELSE fenced
        /\ link' = IF link # None /\ link.gen = victim[s].gen THEN [link EXCEPT !.open = FALSE] ELSE link
        /\ session[s] = "fencing"
    BY <1>4 DEF InterruptCloses, client, callers
  <2>2. victim[s] \in Victims /\ victim[s].fence \in Nat /\ victim[s].fence =< fence
    BY <2>1 DEF Fenced, Victims
  <2>3. FenceType' /\ fenced' >= fenced /\ fenced' >= victim[s].fence /\ fenced' \in {fenced, victim[s].fence}
    BY <2>1, <2>2, SMTT(30) DEF Fenced, FenceType
  <2>4. \A x \in Sessions : session'[x] # session[x] => x = s /\ session'[x] = "held"
    BY <2>1 DEF Fenced, FenceType
  <2>5. ASSUME owner.at = "write", link'.open
        PROVE  link' = link /\ fenceOf[owner.req] >= victim[s].fence /\ fenceOf[owner.req] \in Nat
    <3>1. link \in Links /\ link # None /\ owner.req \in Requests
      BY <2>5, <1>1, LinkAssumption DEF Linked, Working
    <3>2. link' = link /\ link.gen # victim[s].gen  BY <2>1, <2>5, <3>1 DEF Links
    <3> QED BY <2>1, <2>5, <3>1, <3>2, SMTT(30) DEF Fenced, FenceType
  <2>6. owner.at = "write" /\ link'.open =>
          /\ fenceOf[owner.req] >= fenced'
          /\ \A x \in Sessions : session'[x] = "fencing" =>
               victim[x].gen = link'.gen \/ fenceOf[owner.req] >= victim[x].fence
    BY <2>3, <2>4, <2>5 DEF Fenced
  <2>7. \A x \in Sessions : session'[x] = "held" => victim[x].fence =< fenced'
    BY <2>2, <2>3, <2>4, SMTT(30) DEF Fenced, FenceType, Victims
  <2>8. \A x \in Sessions : session'[x] \in {"fencing", "held"} => session[x] \in {"fencing", "held"}
    BY <2>1, <2>4
  <2> QED BY <2>1, <2>3, <2>6, <2>7, <2>8 DEF Fenced, Processing, Submitted
<1> QED BY <1>2, <1>3, <1>4

(* No other step lets fenced work through.                                 *)
LEMMA FencedStep ==
  ASSUME OwnerType, CallerType, Placed, Linked, Fenced, Phased, FenceStep
  PROVE  Fenced'
<1>1. UNCHANGED <<fence, fenced, fenceOf, session, victim>>  BY DEF FenceStep
<1>2. ASSUME NEW s \in Sessions, session[s] \in {"fencing", "held"}, NEW r \in Requests \ Urgent, Submitted(r)'
      PROVE  Submitted(r)
  BY <1>2, SubmitBlocked DEF Phased, Submit, Answered, Submitted, CallerType
<1>3. Processing' /\ ~owner'.cancelled => fenceOf'[owner'.req] = fence'
  BY <1>1 DEF FenceStep, Fenced
<1>4. Processing => owner.req \in Requests
  BY DEF Processing, Placed, OwnerType, Owners, Before, Working
<1>5. owner'.at = "write" /\ link'.open =>
       /\ fenceOf'[owner'.req] >= fenced'
       /\ \A s \in Sessions : session'[s] = "fencing" =>
            victim'[s].gen = link'.gen \/ fenceOf'[owner'.req] >= victim'[s].fence
  BY <1>1, <1>4, SMTT(30) DEF FenceStep, Fenced, FenceType, Victims
<1> QED BY <1>1, <1>2, <1>3, <1>5 DEF Fenced, FenceType

(* What is written has passed every fence whose Interrupt returned.        *)
LEMMA SendsFenced ==
  ASSUME OwnerType, CallerType, Placed, Fenced, Moves,
         NEW r \in Requests, NEW what \in {"register", "command"}, <<r, what>> \in sent' \ sent
  PROVE  fenceOf[r] >= fenced /\ ((\E s \in Sessions : session[s] = "held") => r \in Urgent)
<1>1. owner.at = "write" /\ link.open /\ owner.req = r  BY SMTT(30) DEF Moves
<1>2. phase[r] = "owned" /\ fenceOf[r] >= fenced  BY <1>1 DEF Placed, Working, Fenced
<1>3. \A s \in Sessions : session[s] = "held" => victim[s].fence =< fenced /\ victim[s].fence \in Nat
  BY DEF Fenced, Victims
<1>4. fenceOf[r] \in Nat /\ fenced \in Nat  BY SMTT(30) DEF Fenced, FenceType
<1> QED BY <1>2, <1>3, <1>4, SMTT(30) DEF Fenced, Submitted
-----------------------------------------------------------------------------
(* The client starts in the invariant.                                     *)
LEMMA InitInv ==
  ASSUME Init
  PROVE  IndInv
<1>1. OwnerType /\ owner.at = "idle" /\ owner.publish = "nothing" /\ owner.req = None
  BY IdleType DEF Init, OwnerType
<1>2. ~Processing /\ \A w \in Writes : ~Loaded(w) /\ ~Stamped(w)
  BY <1>1 DEF Processing, Loaded, Stamped
<1>3. TokenType /\ CallerType  BY DEF Init, TokenType, Views, CallerType, Phases, Requests
<1>4. Quiet /\ Linked  BY <1>1 DEF Init, Quiet, Linked
<1>5. Tokenized  BY DEF Init, Tokenized
<1>6. Guarding  BY <1>2 DEF Init, Guarding, GuardSpent
<1>7. Placed  BY <1>1, SMTT(30) DEF Init, Placed, Queued, Working
<1>8. Told  BY NoneAssumption DEF Init, Told
<1>9. Fenced  BY <1>1, <1>2, SMTT(30) DEF Init, Fenced, FenceType
<1> QED BY <1>1, <1>3, <1>4, <1>5, <1>6, <1>7, <1>8, <1>9 DEF IndInv

(* The steps the two action properties allow.                              *)
FreshStep == /\ \A w \in Writes : <<w, "command">> \in sent' \ sent => w \notin outdated
             /\ \A p \in Players : Later(Token(p)', Token(p))
FenceGuards == \A r \in Requests, what \in {"register", "command"} :
                 <<r, what>> \in sent' \ sent =>
                   /\ fenceOf[r] >= fenced
                   /\ (\E s \in Sessions : session[s] = "held") => r \in Urgent

(* Every step preserves the invariant and is one the action properties     *)
(* allow.                                                                  *)
LEMMA NextInv ==
  ASSUME IndInv, [Next]_vars
  PROVE  IndInv' /\ FreshStep /\ FenceGuards
<1> USE DEF IndInv
<1>1. OwnerType'  BY OwnerTypeStep
<1>2. Quiet' /\ Moves  BY <1>1, OwnerSteps
<1>3. Linked'  BY <1>1, LinkedStep
<1>4. Placed' /\ Phased  BY PhaseSteps, PlacedStep
<1>5. Told' /\ CallerType'  BY <1>2, <1>4, PhaseSteps, ToldStep DEF Phased, CallerType
<1>6. TokenStep  BY TokenSteps
<1>7. TokenType' /\ Tokenized' /\ \A p \in Players : Later(Token(p)', Token(p))
  BY <1>4, <1>6, TokenizedStep DEF Phased
<1>8. Guarding' /\ \A w \in Writes : <<w, "command">> \in sent' \ sent => w \notin outdated
  BY <1>2, <1>6, GuardingStep
<1>9. Fenced'  BY <1>1, <1>4, FenceSteps, FencedStep, FencedSubmit, FencedSession
<1>10. FenceGuards  BY <1>2, SendsFenced DEF FenceGuards
<1> QED BY <1>1, <1>2, <1>3, <1>4, <1>5, <1>7, <1>8, <1>9, <1>10 DEF FreshStep

(* The invariant implies honest delivery.                                  *)
LEMMA InvToldHonest ==
  ASSUME IndInv
  PROVE  DeliveryHonest
  BY DEF IndInv, Told, DeliveryHonest

-----------------------------------------------------------------------------
(* The channel of events.  An entry carries the number of the last control *)
(* event or gap published with it: it follows its predecessor, and only a  *)
(* gap may skip numbers.                                                   *)
Entries == [kind : {"event", "gap", "progress"}, number : Nat]
Preceding(i) == IF i = 1 THEN last ELSE channel[i - 1].number
Follows(e, n) == /\ e.kind = "event" => e.number = n + 1
                 /\ e.kind = "gap" => e.number > n
                 /\ e.kind = "progress" => e.number = n
Streamed ==
  /\ channel \in Seq(Entries) /\ numbered \in Nat /\ last \in Nat /\ last <= numbered
  /\ \A i \in 1..Len(channel) : channel[i].number <= numbered /\ Follows(channel[i], Preceding(i))
  /\ Preceding(Len(channel) + 1) = numbered

(* Only publish and the consumer touch the channel.                        *)
LEMMA StreamSteps ==
  ASSUME [Next]_vars
  PROVE  UNCHANGED stream \/ Publish \/ Receive
<1> USE DEF stream
<1>1. CASE Owner
  BY <1>1 DEF Owner, Poll, TakePriority, TakeRequest, IdleFrame, Exit, Activate, Drain, DrainEnds,
     Dial, DialFails, Stamp, CheckGuard, RecheckGuard, LookAtContext, WriteAll, WriteFails,
     AwaitCancelled, AwaitFrame, Finish
<1>2. CASE Callers
  BY <1>2 DEF Callers, ObservePlayer, Submit, Enqueue, Withdraw, RaisePriority, Interrupt,
     InterruptCloses, ReleasePriority
<1>3. CASE World
  BY <1>3 DEF World, ContextEnds, LinkBreaks, Close, DeviceSends, DeviceReplies
<1>4. CASE UNCHANGED vars  BY <1>4 DEF vars
<1> QED BY <1>1, <1>2, <1>3, <1>4 DEF Next

(* An entry appended behind the numbers of the channel.                    *)
LEMMA StreamAppends ==
  ASSUME Streamed, NEW e \in Entries, Follows(e, numbered), e.number >= numbered,
         channel' = Append(channel, e), numbered' = e.number, last' = last
  PROVE  Streamed'
<1>1. channel' \in Seq(Entries) /\ Len(channel') = Len(channel) + 1 /\ Len(channel) \in Nat
  BY SMTT(30) DEF Streamed
<1>2. numbered' \in Nat /\ last' \in Nat /\ last' <= numbered'  BY SMTT(30) DEF Streamed, Entries
<1>3. \A i \in 1..Len(channel) : channel'[i] = channel[i]  BY SMTT(30) DEF Streamed
<1>4. channel'[Len(channel) + 1] = e  BY SMTT(30) DEF Streamed
<1>5. \A i \in 1..(Len(channel) + 1) : Preceding(i)' = Preceding(i)
  BY <1>1, <1>3, SMTT(30) DEF Preceding
<1>6. Preceding(Len(channel) + 1)' = numbered'  BY <1>1, <1>4, SMTT(30) DEF Preceding
<1>7. ASSUME NEW i \in 1..Len(channel')
      PROVE  channel'[i].number <= numbered' /\ Follows(channel'[i], Preceding(i)')
  <2>1. CASE i = Len(channel) + 1
    <3>1. i \in 1..(Len(channel) + 1) /\ e.number <= e.number  BY <1>1, <2>1, SMTT(30) DEF Entries
    <3> QED BY <1>4, <1>5, <2>1, <3>1 DEF Streamed
  <2>2. CASE i # Len(channel) + 1
    <3>1. i \in 1..Len(channel) /\ i \in 1..(Len(channel) + 1)  BY <1>1, <2>2, SMTT(30)
    <3>2. channel[i].number <= numbered /\ Follows(channel[i], Preceding(i))  BY <3>1 DEF Streamed
    <3>3. channel[i] \in Entries /\ numbered \in Nat  BY <3>1, SMTT(30) DEF Streamed
    <3>4. channel[i].number \in Nat /\ e.number \in Nat  BY <3>3 DEF Entries
    <3>5. channel[i].number <= e.number  BY <3>2, <3>3, <3>4, SMTT(30)
    <3> QED BY <1>3, <1>5, <3>1, <3>2, <3>5
  <2> QED BY <2>1, <2>2
<1> QED BY <1>1, <1>2, <1>6, <1>7 DEF Streamed

(* publish: the next number for a control event or a gap, the same one for *)
(* progress, and a gap instead of everything that was lost.                *)
LEMMA StreamPublish ==
  ASSUME Streamed, OwnerType, Publish
  PROVE  Streamed'
<1> DEFINE e == [kind |-> owner.publish, number |-> numbered']
<1>1. last' = last /\ owner.publish \in {"event", "gap", "progress"}
  BY DEF Publish, OwnerType, Owners
<1>2. numbered \in Nat /\ last \in Nat /\ last <= numbered  BY DEF Streamed
<1>3. CASE Len(channel) < EventBuffer
  <2>1. channel' = Append(channel, e)  BY <1>3 DEF Publish
  <2>2. CASE owner.publish = "progress"
    <3>1. numbered' = numbered + 0  BY <1>3, <2>2 DEF Publish
    <3>2. numbered' = numbered /\ numbered <= numbered'  BY <1>2, <3>1, SMTT(30)
    <3>3. e \in Entries /\ Follows(e, numbered) /\ e.number = numbered'
      BY <1>2, <2>2, <3>2 DEF Entries, Follows
    <3>4. e.number >= numbered  BY <1>2, <3>2, <3>3, SMTT(30)
    <3> QED BY <1>1, <2>1, <3>3, <3>4, StreamAppends
  <2>3. CASE owner.publish # "progress"
    <3>1. numbered' = numbered + 1  BY <1>3, <2>3 DEF Publish
    <3>2. numbered' \in Nat /\ numbered' > numbered /\ numbered' >= numbered  BY <1>2, <3>1, SMTT(30)
    <3>3. e \in Entries /\ Follows(e, numbered) /\ e.number = numbered'
      BY <1>1, <2>3, <3>1, <3>2 DEF Entries, Follows
    <3> QED BY <1>1, <2>1, <3>2, <3>3, StreamAppends
  <2> QED BY <2>2, <2>3
<1>4. CASE ~(Len(channel) < EventBuffer) /\ owner.publish = "progress"
  <2>1. channel' = channel /\ numbered' = numbered + 0  BY <1>4 DEF Publish
  <2>2. numbered' = numbered  BY <1>2, <2>1, SMTT(30)
  <2> QED BY <1>1, <2>1, <2>2 DEF Streamed, Preceding
<1>5. CASE ~(Len(channel) < EventBuffer) /\ owner.publish # "progress"
  <2> DEFINE g == [kind |-> "gap", number |-> numbered']
  <2>1. channel' = <<g>> /\ numbered' = numbered + 2  BY <1>5 DEF Publish
  <2>2. numbered' \in Nat /\ last' <= numbered' /\ numbered' > last' /\ numbered' <= numbered'
    BY <1>1, <1>2, <2>1, SMTT(30)
  <2>3. g \in Entries /\ g.number = numbered' /\ Follows(g, last')  BY <2>2 DEF Entries, Follows
  <2> HIDE DEF g
  <2>4. channel' \in Seq(Entries) /\ Len(channel') = 1 /\ channel'[1] = g
    BY <2>1, <2>3, SMTT(30)
  <2>5. Preceding(1)' = last'  BY DEF Preceding
  <2>6. Preceding(Len(channel) + 1)' = g.number  BY <2>4, SMTT(30) DEF Preceding
  <2>7. \A i \in 1..Len(channel') : i = 1  BY <2>4, SMTT(30)
  <2>8. \A i \in 1..Len(channel') : channel'[i].number <= numbered' /\ Follows(channel'[i], Preceding(i)')
    BY <2>2, <2>3, <2>4, <2>5, <2>7
  <2> QED BY <1>1, <1>2, <2>2, <2>3, <2>4, <2>6, <2>8 DEF Streamed
<1> QED BY <1>3, <1>4, <1>5

(* What the consumer sees: the next number, or a gap.                      *)
SkipStep == last' # last => \/ last' = last + 1
                            \/ Head(channel).kind = "gap" /\ last' > last

(* The consumer takes the entry that follows the last number it had.       *)
LEMMA StreamReceive ==
  ASSUME Streamed, Receive
  PROVE  Streamed' /\ SkipStep
<1> DEFINE h == Head(channel)
<1>1. h = channel[1] /\ h \in Entries /\ 1 \in 1..Len(channel) /\ Len(channel) \in Nat
  BY SMTT(30) DEF Streamed, Receive
<1>2. channel' \in Seq(Entries) /\ Len(channel') = Len(channel) - 1
      /\ \A i \in 1..Len(channel') : channel'[i] = channel[i + 1] /\ i + 1 \in 1..Len(channel)
  BY SMTT(30) DEF Streamed, Receive
<1>3. numbered' = numbered /\ last' = IF h.kind = "progress" THEN last ELSE h.number
  BY DEF Receive
<1>4. h.number <= numbered /\ Follows(h, last)  BY <1>1 DEF Streamed, Preceding
<1>5. h.kind \in {"event", "gap", "progress"} /\ h.number \in Nat  BY <1>1 DEF Entries
<1> HIDE DEF h
<1>6. last' = h.number  BY <1>3, <1>4 DEF Follows
<1>7. SkipStep  BY <1>3, <1>4, <1>5, <1>6 DEF SkipStep, Follows, h
<1>8. \A i \in 1..(Len(channel') + 1) : Preceding(i)' = channel[i].number /\ Preceding(i + 1) = channel[i].number
  BY <1>1, <1>2, <1>6, SMTT(30) DEF Preceding
<1>9. Len(channel') + 1 = Len(channel) /\ Len(channel') + 1 \in 1..(Len(channel') + 1)
      /\ \A i \in 1..Len(channel') : i \in 1..(Len(channel') + 1)
  BY <1>1, <1>2, SMTT(30)
<1>10. Preceding(Len(channel) + 1)' = numbered'  BY <1>3, <1>8, <1>9 DEF Streamed
<1>11. ASSUME NEW i \in 1..Len(channel')
       PROVE  channel'[i].number <= numbered' /\ Follows(channel'[i], Preceding(i)')
  <2>1. channel[i + 1].number <= numbered /\ Follows(channel[i + 1], Preceding(i + 1))
    BY <1>2 DEF Streamed
  <2> QED BY <1>2, <1>3, <1>8, <1>9, <2>1
<1> QED BY <1>2, <1>3, <1>4, <1>5, <1>6, <1>7, <1>10, <1>11 DEF Streamed

(* Every step keeps the channel in order, and skips no number silently.    *)
LEMMA StreamStep ==
  ASSUME Streamed, OwnerType, [Next]_vars
  PROVE  Streamed' /\ SkipStep
<1>1. CASE UNCHANGED stream  BY <1>1 DEF stream, Streamed, Preceding, SkipStep
<1>2. CASE Publish  BY <1>2, StreamPublish DEF Publish, SkipStep
<1>3. CASE Receive  BY <1>3, StreamReceive
<1> QED BY <1>1, <1>2, <1>3, StreamSteps
-----------------------------------------------------------------------------
(* The inductive invariant of the client.                                  *)
THEOREM Invariance == Spec => []IndInv
<1>1. Init => IndInv  BY InitInv
<1>2. IndInv /\ [Next]_vars => IndInv'  BY NextInv
<1> QED BY <1>1, <1>2, PTL DEF Spec

(* A guard authorizes one command, whatever is evicted, dropped, dialled   *)
(* again or interrupted in between (process's stamp of Client.writes).     *)
THEOREM GuardSpentHolds == Spec => []GuardSpent
<1>1. IndInv => GuardSpent  BY DEF IndInv, Guarding
<1> QED BY <1>1, Invariance, PTL

(* A caller told NotSent can repeat its command: no byte of it was written *)
(* (submit, process and exchange classify every failure).                  *)
THEOREM DeliveryIsHonest == Spec => []DeliveryHonest
<1>1. IndInv => DeliveryHonest  BY InvToldHonest
<1> QED BY <1>1, Invariance, PTL

(* No guarded command is written once its snapshot is outdated, and every  *)
(* step leaves each player's token where it was or advances it.            *)
THEOREM GuardsAreFresh == Spec => GuardFresh
<1>1. IndInv /\ [Next]_vars => [FreshStep]_vars  BY NextInv
<1> QED BY <1>1, Invariance, PTL DEF Spec, GuardFresh, FreshStep

(* Nothing submitted before an Interrupt is written after it returned, and *)
(* only priority requests are while a caller holds the priority path.      *)
THEOREM FenceAlwaysHolds == Spec => FenceHolds
<1>1. IndInv /\ [Next]_vars => [FenceGuards]_vars  BY NextInv
<1> QED BY <1>1, Invariance, PTL DEF Spec, FenceHolds, FenceGuards

(* The consumer of Events gets every control event in order, or a gap in   *)
(* place of those publish gave up, for every buffer size and every speed   *)
(* of the consumer.                                                        *)
THEOREM NothingSkippedSilently == Spec => NoSilentSkip
<1>1. Init => Streamed
  <2>1. ASSUME Init PROVE channel = <<>> /\ numbered = 0 /\ last = 0  BY <2>1 DEF Init
  <2>2. ASSUME channel = <<>>, numbered = 0, last = 0 PROVE Streamed
    BY <2>2, SMTT(30) DEF Streamed, Preceding
  <2> QED BY <2>1, <2>2
<1>2. IndInv => OwnerType  BY DEF IndInv
<1>3. Streamed /\ OwnerType /\ [Next]_vars => Streamed' /\ [SkipStep]_vars  BY StreamStep
<1> QED BY <1>1, <1>2, <1>3, Invariance, PTL DEF Spec, NoSilentSkip, SkipStep
=============================================================================
