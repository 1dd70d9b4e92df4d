--------------------------- MODULE EventHubProofs ---------------------------
(***************************************************************************)
(* Clients of the event broker skip nothing, for every number of clients,  *)
(* credentials, history and channel length.                                *)
(*                                                                         *)
(* NothingSkipped speaks of what a client has; to preserve it one must     *)
(* know where the rest is.  The inductive invariant says that the history  *)
(* is the end of the log without holes (Window), that no client holds an   *)
(* id from the future (LastOK), and that every event a subscriber may see  *)
(* is known to it, still to be replayed or in its channel, each in order   *)
(* and the replay before the channel (StreamOK).                           *)
(***************************************************************************)
EXTENDS EventHub, SequenceTheorems, TLAPS

(* Leaves are left to Zenon; those that need arithmetic name SMT.          *)
USE ZenonT(40)

Window ==
  /\ Len(log) = seq /\ Len(history) =< seq
  /\ (seq > 0) => (Len(history) > 0)
  /\ \A i \in 1 .. Len(history) :
       /\ history[i].id.epoch = epoch
       /\ history[i].id.seq = seq - Len(history) + i
       /\ history[i].kind = log[history[i].id.seq]

LastOK == \A c \in Clients : (last[c] # None) =>
  /\ last[c].epoch =< epoch
  /\ (last[c].epoch = epoch) => last[c].seq =< seq

(* Both sequences are of this epoch and ascend, the replay before the      *)
(* channel; a marker comes first.                                          *)
Ordered(c) ==
  /\ \A i \in 1 .. Len(replay[c]) :
       /\ replay[c][i].id.epoch = epoch /\ replay[c][i].id.seq =< seq
       /\ (replay[c][i].kind = "snapshot_required") => i = 1
       /\ \A j \in 1 .. Len(replay[c]) : (i < j) => replay[c][i].id.seq < replay[c][j].id.seq
       /\ \A j \in 1 .. Len(channel[c]) : replay[c][i].id.seq < channel[c][j].id.seq
  /\ \A i \in 1 .. Len(channel[c]) :
       /\ channel[c][i].id.epoch = epoch /\ channel[c][i].id.seq =< seq
       /\ \A j \in 1 .. Len(channel[c]) : (i < j) => channel[c][i].id.seq < channel[c][j].id.seq

(* What is still to come is not older than what the client has.            *)
Ahead(c) == (last[c] # None /\ last[c].epoch = epoch) =>
  /\ \A i \in 1 .. Len(replay[c]) : Due(c, replay[c][i]) => replay[c][i].id.seq >= last[c].seq
  /\ \A i \in 1 .. Len(channel[c]) : channel[c][i].id.seq >= last[c].seq

ToReplay(c, n) == \E i \in 1 .. Len(replay[c]) :
  /\ Due(c, replay[c][i])
  /\ \/ replay[c][i].id.seq = n
     \/ replay[c][i].kind = "snapshot_required" /\ n =< replay[c][i].id.seq
InChannel(c, n) == \E i \in 1 .. Len(channel[c]) : channel[c][i].id.seq = n

Covered(c) == \A n \in 1 .. seq :
  (log[n] \in Allow[c]) => (n \in known[c] \/ ToReplay(c, n) \/ InChannel(c, n))

StreamOK(c) == /\ stream[c] # "off"
               /\ (stream[c] = "live") => replay[c] = <<>>
               /\ Ordered(c) /\ Ahead(c) /\ Covered(c)

IInv == TypeOK /\ Window /\ LastOK /\ NothingSkipped /\ \A c \in subs : StreamOK(c)
-----------------------------------------------------------------------------
(* The broker starts with an empty history and no subscriber.              *)
LEMMA InitIInv == Init => IInv
<1> SUFFICES ASSUME Init PROVE IInv OBVIOUS
<1>1. TypeOK
  <2>1. <<>> \in Seq(Events) /\ <<>> \in Seq(Kinds) /\ Len(<<>>) =< Capacity BY SizeAssumption, SMTT(30)
  <2>2. /\ channel \in [Clients -> Seq(Events)] /\ replay \in [Clients -> Seq(Events)]
        /\ last \in [Clients -> Ids \cup {None}] /\ known \in [Clients -> SUBSET Nat]
    BY <2>1 DEF Init
  <2>3. history \in Seq(Events) /\ log \in Seq(Kinds) /\ Len(history) =< Capacity
    BY <2>1 DEF Init
  <2>4. stream \in [Clients -> {"off", "replay", "live"}] /\ since \in [Clients -> Int]
    BY SMTT(30) DEF Init
  <2>5. epoch \in Nat /\ seq \in Nat /\ closed \in BOOLEAN /\ subs \subseteq Clients
    BY DEF Init
  <2> QED BY <2>2, <2>3, <2>4, <2>5 DEF TypeOK
<1>2. Window /\ LastOK BY SMTT(30) DEF Init, Window, LastOK
<1>3. NothingSkipped /\ \A c \in subs : StreamOK(c) BY DEF Init, NothingSkipped
<1> QED BY <1>1, <1>2, <1>3 DEF IInv

(* A numbered event is an event.                                           *)
LEMMA NumberedType ==
  ASSUME TypeOK, NEW n \in Nat, NEW k \in Kinds \cup {"snapshot_required"}
  PROVE  /\ Numbered(n, k) \in Events
         /\ Numbered(n, k).id.seq = n /\ Numbered(n, k).id.epoch = epoch
         /\ Numbered(n, k).kind = k
BY DEF TypeOK, Numbered, Events, Ids

(* What a suffix of a sequence holds.                                      *)
LEMMA Suffix ==
  ASSUME NEW S, NEW s \in Seq(S), NEW i \in 1 .. Len(s)
  PROVE  LET t == SubSeq(s, i + 1, Len(s))
         IN /\ t \in Seq(S) /\ Len(t) = Len(s) - i
            /\ \A j \in 1 .. Len(t) : t[j] = s[i + j]
BY SubSeqProperties, SMTT(30)

(* Every step keeps the types.                                             *)
LEMMA TypeStep ==
  ASSUME TypeOK, [Next]_vars
  PROVE  TypeOK'
<1> USE DEF TypeOK
<1>1. ASSUME NEW k \in Kinds, Publish(k) PROVE TypeOK'
  <2> DEFINE e == Numbered(seq + 1, k)
  <2>1. e \in Events BY NumberedType, SMTT(30)
  <2>2. Kept(e) \in Seq(Events) /\ Len(Kept(e)) =< Capacity
    <3>1. CASE Len(history) = Capacity
      <4>1. history # <<>> BY <3>1, SizeAssumption
      <4>2. Tail(history) \in Seq(Events) /\ Len(Tail(history)) = Len(history) - 1
        BY <4>1, HeadTailProperties
      <4> HIDE DEF e
      <4> QED BY <2>1, <3>1, <4>2, SizeAssumption, SMTT(30) DEF Kept
    <3>2. CASE Len(history) # Capacity
      <4> HIDE DEF e
      <4> QED BY <2>1, <3>2, SizeAssumption, SMTT(30) DEF Kept
    <3> QED BY <3>1, <3>2
  <2>3. history' = Kept(e) /\ log' = Append(log, k) /\ seq' = seq + 1 /\ subs' \subseteq subs
    BY <1>1 DEF Publish
  <2>4. channel' \in [Clients -> Seq(Events)]
    <3> HIDE DEF e
    <3>1. channel' = [c \in Clients |->
             IF c \in Readers(e) /\ Len(channel[c]) < Buffer THEN Append(channel[c], e) ELSE channel[c]]
      BY <1>1 DEF Publish, e
    <3> QED BY <2>1, <3>1, SMTT(30)
  <2>5. log' \in Seq(Kinds) BY <2>3, SMTT(30)
  <2> HIDE DEF e
  <2>6. history' \in Seq(Events) /\ Len(history') =< Capacity BY <2>2, <2>3
  <2>7. UNCHANGED <<epoch, closed, stream, replay, since, last, known>> BY <1>1 DEF Publish
  <2> QED BY <2>3, <2>4, <2>5, <2>6, <2>7, SMTT(30)
<1>2. ASSUME NEW c \in Clients, Subscribe(c) PROVE TypeOK'
  <2>1. replay' \in [Clients -> Seq(Events)]
    <3>1. Numbered(seq, "snapshot_required") \in Events BY NumberedType
    <3>2. <<Numbered(seq, "snapshot_required")>> \in Seq(Events) BY <3>1, SMTT(30)
    <3> QED BY <1>2, <3>2 DEF Subscribe
  <2>2. since' \in [Clients -> Int]
    <3>1. CASE Gap(last[c]) BY <1>2, <3>1, SMTT(30) DEF Subscribe
    <3>2. CASE ~Gap(last[c])
      <4>1. last[c] \in Ids BY <3>2 DEF Gap
      <4>2. last[c].seq \in Int BY <4>1, SMTT(30) DEF Ids
      <4> QED BY <1>2, <3>2, <4>2 DEF Subscribe
    <3> QED BY <3>1, <3>2
  <2>3. channel' \in [Clients -> Seq(Events)] BY <1>2, SMTT(30) DEF Subscribe
  <2>4. stream' \in [Clients -> {"off", "replay", "live"}] /\ subs' \subseteq Clients
    BY <1>2 DEF Subscribe
  <2>5. UNCHANGED <<epoch, seq, history, closed, log, last, known>> BY <1>2 DEF Subscribe, broker
  <2> QED BY <2>1, <2>2, <2>3, <2>4, <2>5
<1>3. ASSUME NEW c \in Clients, NEW e \in Events, Receives(c, e)
      PROVE  last' \in [Clients -> Ids \cup {None}] /\ known' \in [Clients -> SUBSET Nat]
  <2>1. e.id \in Ids /\ e.id.seq \in Nat BY DEF Events, Ids
  <2>2. (IF e.kind = "snapshot_required" THEN 1 .. e.id.seq ELSE {e.id.seq}) \subseteq Nat BY <2>1, SMTT(30)
  <2>3. known' \in [Clients -> SUBSET Nat] BY <1>3, <2>2 DEF Receives
  <2> QED BY <1>3, <2>1, <2>3 DEF Receives
<1>4. ASSUME NEW c \in Clients, WriteReplay(c) PROVE TypeOK'
  <2>1. PICK i \in DOMAIN replay[c] :
          /\ Receives(c, replay[c][i])
          /\ replay' = [replay EXCEPT ![c] = SubSeq(@, i + 1, Len(@))]
    BY <1>4 DEF WriteReplay
  <2>2. i \in 1 .. Len(replay[c]) /\ replay[c][i] \in Events BY SMTT(30)
  <2>3. replay' \in [Clients -> Seq(Events)] BY <2>1, <2>2, Suffix
  <2>4. last' \in [Clients -> Ids \cup {None}] /\ known' \in [Clients -> SUBSET Nat]
    BY <1>3, <2>1, <2>2
  <2>5. UNCHANGED <<epoch, seq, history, closed, log, subs, channel, stream, since>>
    BY <1>4 DEF WriteReplay, broker
  <2> QED BY <2>3, <2>4, <2>5
<1>5. ASSUME NEW c \in Clients, WriteLive(c) PROVE TypeOK'
  <2>1. channel[c] \in Seq(Events) /\ channel[c] # <<>> BY <1>5 DEF WriteLive
  <2>2. Head(channel[c]) \in Events /\ Tail(channel[c]) \in Seq(Events) BY <2>1, HeadTailProperties
  <2>3. last' \in [Clients -> Ids \cup {None}] /\ known' \in [Clients -> SUBSET Nat]
    BY <1>3, <1>5, <2>2 DEF WriteLive
  <2>4. channel' \in [Clients -> Seq(Events)] BY <1>5, <2>2 DEF WriteLive
  <2>5. UNCHANGED <<epoch, seq, history, closed, log, subs, replay, stream, since>>
    BY <1>5 DEF WriteLive, broker
  <2> QED BY <2>3, <2>4, <2>5
<1>6. ASSUME NEW c \in Clients, ReplayDone(c) \/ EndStream(c) \/ Forget(c) PROVE TypeOK'
  <2>1. CASE ReplayDone(c) BY <2>1, SMTT(30) DEF ReplayDone, broker
  <2>2. CASE EndStream(c) BY <2>2, SMTT(30) DEF EndStream, broker
  <2>3. CASE Forget(c) BY <2>3 DEF Forget, broker
  <2> QED BY <1>6, <2>1, <2>2, <2>3
<1>7. CASE Close BY <1>7 DEF Close
<1>8. CASE Restart
  <2>1. history' = <<>> /\ log' = <<>> BY <1>8 DEF Restart
  <2>2. history' \in Seq(Events) /\ log' \in Seq(Kinds) /\ Len(history') =< Capacity
    BY <2>1, SizeAssumption, SMTT(30)
  <2>3. channel' \in [Clients -> Seq(Events)] /\ replay' \in [Clients -> Seq(Events)]
    BY <1>8, SMTT(30) DEF Restart
  <2>4. /\ subs' \subseteq Clients /\ stream' \in [Clients -> {"off", "replay", "live"}]
        /\ since' \in [Clients -> Int] /\ known' \in [Clients -> SUBSET Nat] /\ last' = last
    BY <1>8, SMTT(30) DEF Restart
  <2>5. epoch' \in Nat /\ seq' \in Nat BY <1>8, SMTT(30) DEF Restart
  <2>6. closed' \in BOOLEAN BY <1>8 DEF Restart
  <2> QED BY <2>2, <2>3, <2>4, <2>5, <2>6
<1>9. CASE UNCHANGED vars BY <1>9 DEF vars
<1> QED BY <1>1, <1>2, <1>4, <1>5, <1>6, <1>7, <1>8, <1>9 DEF Next

(* The numbers in a sequence of events are naturals.                       *)
LEMMA EventNumbers ==
  ASSUME NEW s \in Seq(Events), NEW i \in 1 .. Len(s)
  PROVE  s[i] \in Events /\ s[i].id \in Ids /\ s[i].id.seq \in Nat
<1>1. s[i] \in Events BY SMTT(30)
<1> HIDE DEF Events
<1>2. \A e \in Events : e.id \in Ids /\ e.id.seq \in Nat BY DEF Events, Ids
<1> QED BY <1>1, <1>2

(* The ring after an event: the end of what it was, and the event.         *)
LEMMA KeptProperties ==
  ASSUME TypeOK, NEW e \in Events
  PROVE  LET h == Kept(e)
         IN /\ Len(h) > 0 /\ h[Len(h)] = e /\ Len(h) =< Len(history) + 1
            /\ \A i \in 1 .. Len(h) - 1 : /\ Len(history) - Len(h) + 1 + i \in 1 .. Len(history)
                                          /\ h[i] = history[Len(history) - Len(h) + 1 + i]
<1> USE DEF TypeOK
<1>1. CASE Len(history) = Capacity
  <2>1. history # <<>> BY <1>1, SizeAssumption
  <2>2. /\ Tail(history) \in Seq(Events) /\ Len(Tail(history)) = Len(history) - 1
        /\ \A i \in 1 .. Len(Tail(history)) : Tail(history)[i] = history[i + 1]
    BY <2>1, HeadTailProperties
  <2>3. Kept(e) = Append(Tail(history), e) BY <1>1 DEF Kept
  <2> DEFINE t == Tail(history)
  <2> HIDE DEF t
  <2>4. /\ t \in Seq(Events) /\ Len(t) = Len(history) - 1 /\ Kept(e) = Append(t, e)
        /\ \A i \in 1 .. Len(t) : t[i] = history[i + 1]
    BY <2>2, <2>3 DEF t
  <2>5. /\ Len(Append(t, e)) = Len(history) /\ Append(t, e)[Len(history)] = e
        /\ \A i \in 1 .. Len(history) - 1 : Append(t, e)[i] = t[i]
    BY <2>4, SMTT(30)
  <2>6. Len(history) \in Nat /\ Len(history) > 0 BY <1>1, SizeAssumption, SMTT(30)
  <2> QED BY <2>4, <2>5, <2>6, SMTT(30)
<1>2. CASE Len(history) # Capacity
  <2>1. Kept(e) = Append(history, e) BY <1>2 DEF Kept
  <2>2. /\ Len(Append(history, e)) = Len(history) + 1 /\ Append(history, e)[Len(history) + 1] = e
        /\ \A i \in 1 .. Len(history) : Append(history, e)[i] = history[i]
    BY SMTT(30)
  <2>3. Len(history) \in Nat BY SMTT(30)
  <2> QED BY <2>1, <2>2, <2>3, SMTT(30)
<1> QED BY <1>1, <1>2

(* Publish keeps the history whole and reaches every subscriber or drops   *)
(* its subscription.                                                       *)
LEMMA PublishStep ==
  ASSUME IInv, NEW k \in Kinds, Publish(k)
  PROVE  Window' /\ LastOK' /\ NothingSkipped' /\ \A c \in subs' : StreamOK(c)'
<1> DEFINE e == Numbered(seq + 1, k)
<1>t. TypeOK BY DEF IInv
<1>1. e \in Events /\ e.id.seq = seq + 1 /\ e.id.epoch = epoch /\ e.kind = k BY <1>t, NumberedType, SMTT(30) DEF TypeOK
<1>2. /\ seq' = seq + 1 /\ log' = Append(log, k) /\ history' = Kept(e)
      /\ subs' = subs \ Lagging(e)
      /\ channel' = [c \in Clients |->
           IF c \in Readers(e) /\ Len(channel[c]) < Buffer THEN Append(channel[c], e) ELSE channel[c]]
      /\ UNCHANGED <<epoch, closed, stream, replay, since, last, known>>
  BY DEF Publish
<1> HIDE DEF e
<1>3. /\ Len(log) = seq /\ Len(log') = seq + 1 /\ log'[seq + 1] = k
      /\ \A n \in 1 .. seq : log'[n] = log[n]
  BY <1>2, <1>t, SMTT(30) DEF IInv, Window, TypeOK
<1>4. Window'
  <2>1. /\ Len(history') > 0 /\ history'[Len(history')] = e /\ Len(history') =< Len(history) + 1
        /\ \A i \in 1 .. Len(history') - 1 :
             /\ Len(history) - Len(history') + 1 + i \in 1 .. Len(history)
             /\ history'[i] = history[Len(history) - Len(history') + 1 + i]
    BY <1>1, <1>2, <1>t, KeptProperties
  <2>2. Len(history) \in Nat /\ Len(history') \in Nat /\ seq \in Nat
    BY <1>t, TypeStep, SMTT(30) DEF TypeOK, Next
  <2>3. ASSUME NEW i \in 1 .. Len(history')
        PROVE  /\ history'[i].id.epoch = epoch'
               /\ history'[i].id.seq = seq' - Len(history') + i
               /\ history'[i].kind = log'[history'[i].id.seq]
    <3>1. CASE i = Len(history') BY <1>1, <1>2, <1>3, <2>1, <2>2, <3>1, SMTT(30)
    <3>2. CASE i < Len(history')
      <4> DEFINE j == Len(history) - Len(history') + 1 + i
      <4>0. i \in 1 .. Len(history') - 1 BY <2>2, <3>2, SMTT(30)
      <4>1. j \in 1 .. Len(history) /\ history'[i] = history[j] BY <2>1, <4>0
      <4>2. /\ history[j].id.epoch = epoch /\ history[j].id.seq = seq - Len(history) + j
            /\ history[j].kind = log[history[j].id.seq]
        BY <4>1 DEF IInv, Window
      <4>3. seq - Len(history) + j \in 1 .. seq BY <2>2, <4>1, SMTT(30) DEF IInv, Window
      <4>4. seq - Len(history) + j = seq' - Len(history') + i BY <1>2, <2>2, SMTT(30)
      <4> QED BY <1>2, <1>3, <4>1, <4>2, <4>3, <4>4, SMTT(30)
    <3> QED BY <2>2, <3>1, <3>2, SMTT(30)
  <2>4. Len(history') =< seq' BY <1>2, <2>1, <2>2, SMTT(30) DEF IInv, Window
  <2> QED BY <1>2, <1>3, <2>1, <2>3, <2>4 DEF Window
<1>5. LastOK'
  BY <1>2, <1>t, SMTT(30) DEF IInv, LastOK, TypeOK, Ids
<1>6. NothingSkipped'
  <2> SUFFICES ASSUME NEW c \in Clients, last[c] # None, last[c].epoch = epoch,
                      NEW n \in 1 .. last[c].seq, log'[n] \in Allow[c]
               PROVE  n \in known[c]
    BY <1>2 DEF NothingSkipped
  <2>1. last[c].seq \in Nat /\ last[c].seq =< seq BY <1>t DEF IInv, LastOK, TypeOK, Ids
  <2>2. log'[n] = log[n] BY <1>3, <1>t, <2>1, SMTT(30) DEF TypeOK
  <2> QED BY <2>2 DEF IInv, NothingSkipped
<1>7. ASSUME NEW c \in subs' PROVE StreamOK(c)'
  <2>1. c \in subs /\ c \in Clients /\ c \notin Lagging(e) BY <1>2, <1>7, <1>t DEF TypeOK
  <2>2. StreamOK(c) BY <2>1 DEF IInv
  <2>3. /\ channel[c] \in Seq(Events) /\ replay[c] \in Seq(Events) /\ seq \in Nat
        /\ replay'[c] = replay[c] /\ since'[c] = since[c] /\ last'[c] = last[c]
        /\ known'[c] = known[c] /\ stream'[c] = stream[c] /\ epoch' = epoch
    BY <1>2, <1>t, <2>1 DEF TypeOK
  <2>4. ASSUME k \in Allow[c] PROVE channel'[c] = Append(channel[c], e)
    <3>1. c \in Readers(e) BY <1>1, <2>1, <2>4 DEF Readers, Allowed
    <3>2. Len(channel[c]) < Buffer BY <2>1, <2>3, <3>1, SizeAssumption, SMTT(30) DEF Lagging
    <3> QED BY <1>2, <2>1, <3>1, <3>2
  <2>5. channel'[c] = channel[c] \/ channel'[c] = Append(channel[c], e) BY <1>2, <2>1
  <2>6. /\ Len(channel'[c]) \in Nat /\ Len(channel'[c]) >= Len(channel[c])
        /\ \A i \in 1 .. Len(channel[c]) : channel'[c][i] = channel[c][i]
        /\ \A i \in 1 .. Len(channel'[c]) : i > Len(channel[c]) => (i = Len(channel[c]) + 1 /\ channel'[c][i] = e)
    BY <1>1, <2>3, <2>5, SMTT(30)
  <2>7. \A i \in 1 .. Len(channel[c]) : channel[c][i].id.seq \in Nat BY <2>3, EventNumbers
  <2>8. \A i \in 1 .. Len(replay[c]) : replay[c][i].id.seq \in Nat BY <2>3, EventNumbers
  <2>9. Ordered(c)'
    <3>1. \A i \in 1 .. Len(channel'[c]) :
             \/ i \in 1 .. Len(channel[c]) /\ channel'[c][i] = channel[c][i]
             \/ i = Len(channel[c]) + 1 /\ channel'[c][i] = e
      BY <2>3, <2>6, SMTT(30)
    <3>2. ASSUME NEW i \in 1 .. Len(channel'[c])
          PROVE  channel'[c][i].id.epoch = epoch /\ channel'[c][i].id.seq =< seq + 1
      <4>1. CASE channel'[c][i] = e BY <1>1, <2>3, <4>1, SMTT(30)
      <4>2. CASE i \in 1 .. Len(channel[c]) /\ channel'[c][i] = channel[c][i]
        <5>1. channel[c][i].id.epoch = epoch /\ channel[c][i].id.seq =< seq
          BY <2>2, <4>2 DEF StreamOK, Ordered
        <5> QED BY <2>3, <2>7, <4>2, <5>1, SMTT(30)
      <4> QED BY <3>1, <4>1, <4>2
    <3>3. ASSUME NEW i \in 1 .. Len(channel'[c]), NEW j \in 1 .. Len(channel'[c]), i < j
          PROVE  channel'[c][i].id.seq < channel'[c][j].id.seq
      <4>1. i \in 1 .. Len(channel[c]) /\ channel'[c][i] = channel[c][i] /\ channel[c][i].id.seq =< seq
        BY <2>2, <2>3, <3>1, <3>3, SMTT(30) DEF StreamOK, Ordered
      <4>2. CASE channel'[c][j] = e BY <1>1, <2>3, <2>7, <4>1, <4>2, SMTT(30)
      <4>3. CASE j \in 1 .. Len(channel[c]) /\ channel'[c][j] = channel[c][j]
        <5>1. channel[c][i].id.seq < channel[c][j].id.seq
          BY <2>2, <3>3, <4>1, <4>3 DEF StreamOK, Ordered
        <5> QED BY <4>1, <4>3, <5>1
      <4> QED BY <3>1, <4>2, <4>3
    <3>4. ASSUME NEW i \in 1 .. Len(replay[c])
          PROVE  /\ replay[c][i].id.epoch = epoch /\ replay[c][i].id.seq =< seq
                 /\ replay[c][i].id.seq =< seq + 1
                 /\ (replay[c][i].kind = "snapshot_required") => i = 1
                 /\ \A j \in 1 .. Len(replay[c]) : (i < j) => replay[c][i].id.seq < replay[c][j].id.seq
                 /\ \A j \in 1 .. Len(channel[c]) : replay[c][i].id.seq < channel[c][j].id.seq
      <4>1. /\ replay[c][i].id.epoch = epoch /\ replay[c][i].id.seq =< seq
            /\ (replay[c][i].kind = "snapshot_required") => i = 1
            /\ \A j \in 1 .. Len(replay[c]) : (i < j) => replay[c][i].id.seq < replay[c][j].id.seq
            /\ \A j \in 1 .. Len(channel[c]) : replay[c][i].id.seq < channel[c][j].id.seq
        BY <2>2 DEF StreamOK, Ordered
      <4>2. replay[c][i].id.seq =< seq + 1 BY <2>3, <2>8, <4>1, SMTT(30)
      <4> QED BY <4>1, <4>2
    <3>5. ASSUME NEW i \in 1 .. Len(replay[c]), NEW j \in 1 .. Len(channel'[c])
          PROVE  replay[c][i].id.seq < channel'[c][j].id.seq
      <4>1. CASE channel'[c][j] = e
        <5>1. replay[c][i].id.seq \in Nat /\ replay[c][i].id.seq =< seq BY <2>8, <3>4
        <5> QED BY <1>1, <2>3, <4>1, <5>1, SMTT(30)
      <4>2. CASE j \in 1 .. Len(channel[c]) /\ channel'[c][j] = channel[c][j] BY <3>4, <4>2
      <4> QED BY <3>1, <4>1, <4>2
    <3>6. replay'[c] = replay[c] /\ epoch' = epoch /\ seq' = seq + 1 BY <1>2, <2>3
    <3> QED BY <3>2, <3>3, <3>4, <3>5, <3>6 DEF Ordered
  <2>10. Ahead(c)'
    <3> SUFFICES ASSUME last[c] # None, last[c].epoch = epoch
                 PROVE  /\ \A i \in 1 .. Len(replay[c]) : Due(c, replay[c][i]) => replay[c][i].id.seq >= last[c].seq
                        /\ \A i \in 1 .. Len(channel'[c]) : channel'[c][i].id.seq >= last[c].seq
      BY <2>3 DEF Ahead, Due, Allowed
    <3>1. last[c].seq \in Nat /\ last[c].seq =< seq BY <1>t, <2>1 DEF IInv, LastOK, TypeOK, Ids
    <3>2. /\ \A i \in 1 .. Len(replay[c]) : Due(c, replay[c][i]) => replay[c][i].id.seq >= last[c].seq
          /\ \A i \in 1 .. Len(channel[c]) : channel[c][i].id.seq >= last[c].seq
      BY <2>2 DEF StreamOK, Ahead
    <3>3. ASSUME NEW i \in 1 .. Len(channel'[c]) PROVE channel'[c][i].id.seq >= last[c].seq
      <4>1. CASE i \in 1 .. Len(channel[c]) BY <2>6, <3>2, <4>1
      <4>2. CASE i > Len(channel[c])
        <5>1. channel'[c][i] = e BY <2>6, <4>2
        <5> QED BY <1>1, <2>3, <3>1, <5>1, SMTT(30)
      <4> QED BY <2>3, <2>6, <4>1, <4>2, SMTT(30)
    <3> QED BY <3>2, <3>3
  <2>11. Covered(c)'
    <3> SUFFICES ASSUME NEW n \in 1 .. seq + 1, log'[n] \in Allow[c]
                 PROVE  n \in known[c] \/ ToReplay(c, n)' \/ InChannel(c, n)'
      BY <1>2, <2>3 DEF Covered
    <3>1. CASE n = seq + 1 BY <1>1, <1>3, <2>3, <2>4, <3>1, SMTT(30) DEF InChannel
    <3>2. CASE n \in 1 .. seq
      <4>1. n \in known[c] \/ ToReplay(c, n) \/ InChannel(c, n)
        BY <1>3, <2>2, <3>2 DEF StreamOK, Covered
      <4>2. ToReplay(c, n) => ToReplay(c, n)' BY <2>3 DEF ToReplay, Due, Allowed
      <4>3. InChannel(c, n) => InChannel(c, n)' BY <2>3, <2>6, SMTT(30) DEF InChannel
      <4> QED BY <4>1, <4>2, <4>3
    <3> QED BY <2>3, <3>1, <3>2, SMTT(30)
  <2> QED BY <2>2, <2>3, <2>9, <2>10, <2>11 DEF StreamOK
<1> QED BY <1>4, <1>5, <1>6, <1>7

(* A client that an action leaves alone stays as it was.                   *)
LEMMA Untouched ==
  ASSUME NEW c \in Clients, StreamOK(c), UNCHANGED <<epoch, seq, log>>,
         stream'[c] = stream[c], replay'[c] = replay[c], channel'[c] = channel[c],
         since'[c] = since[c], last'[c] = last[c], known'[c] = known[c]
  PROVE  StreamOK(c)'
<1>0. epoch' = epoch /\ seq' = seq /\ log' = log OBVIOUS
<1>1. Ordered(c)' BY <1>0 DEF StreamOK, Ordered
<1>2. \A e : Due(c, e)' <=> Due(c, e) BY DEF Due, Allowed
<1>3. Ahead(c)' BY <1>0, <1>2 DEF StreamOK, Ahead, Due, Allowed
<1>4. Covered(c)' BY <1>2, SMTT(30) DEF StreamOK, Covered, ToReplay, InChannel
<1> QED BY <1>1, <1>3, <1>4 DEF StreamOK

(* Subscribe finds everything after the client's id in the history, or     *)
(* starts with a marker that covers all of it.                             *)
LEMMA SubscribeStep ==
  ASSUME IInv, NEW c \in Clients, Subscribe(c)
  PROVE  Window' /\ LastOK' /\ NothingSkipped' /\ \A d \in subs' : StreamOK(d)'
<1>t. TypeOK BY DEF IInv
<1>1. UNCHANGED <<epoch, seq, history, closed, log, last, known>> BY DEF Subscribe, broker
<1>2. Window' /\ LastOK' /\ NothingSkipped' BY <1>1 DEF IInv, Window, LastOK, NothingSkipped
<1>u. subs' = subs \cup {c} /\ subs \subseteq Clients BY <1>t DEF Subscribe, TypeOK
<1>3. ASSUME NEW d \in subs', d # c PROVE StreamOK(d)'
  <2>1. d \in subs /\ d \in Clients BY <1>3, <1>u
  <2>2. /\ stream'[d] = stream[d] /\ replay'[d] = replay[d] /\ channel'[d] = channel[d]
        /\ since'[d] = since[d]
    BY <1>3, <1>t, <2>1 DEF Subscribe, TypeOK
  <2> QED BY <1>1, <2>1, <2>2, Untouched DEF IInv
<1>4. channel'[c] = <<>> /\ stream'[c] = "replay" BY <1>t DEF Subscribe, TypeOK
<1>5. seq \in Nat /\ epoch \in Nat /\ Len(history) \in Nat BY <1>t, SMTT(30) DEF TypeOK
<1>6. (last[c] # None) => (last[c].seq \in Nat) BY <1>t DEF TypeOK, Ids
<1>7. CASE Gap(last[c])
  <2> DEFINE m == Numbered(seq, "snapshot_required")
  <2>1. m.id.seq = seq /\ m.id.epoch = epoch /\ m.kind = "snapshot_required"
    BY <1>t, <1>5, NumberedType, SMTT(30)
  <2>2. replay'[c] = <<m>> /\ since'[c] = -1 BY <1>7, <1>t DEF Subscribe, TypeOK
  <2> HIDE DEF m
  <2>3. Len(replay'[c]) = 1 /\ replay'[c][1] = m /\ Len(channel'[c]) = 0 BY <1>4, <2>2, SMTT(30)
  <2>4. m.id.seq > since'[c] /\ Allowed(c, m) BY <1>5, <2>1, <2>2, SMTT(30) DEF Allowed
  <2>5. Ordered(c)' BY <1>1, <1>5, <2>1, <2>3, SMTT(30) DEF Ordered
  <2>6. Ahead(c)' BY <1>1, <1>5, <1>6, <2>1, <2>3, SMTT(30) DEF Ahead, IInv, LastOK
  <2>7. ASSUME NEW n \in 1 .. seq' PROVE ToReplay(c, n)'
    <3>1. 1 \in 1 .. Len(replay'[c]) /\ n =< m.id.seq BY <1>1, <1>5, <2>1, <2>3, SMTT(30)
    <3> QED BY <2>1, <2>3, <2>4, <3>1 DEF ToReplay, Due, Allowed
  <2> QED BY <1>2, <1>3, <1>4, <2>5, <2>6, <2>7 DEF StreamOK, Covered
<1>8. CASE ~Gap(last[c])
  <2>1. /\ last[c] # None /\ last[c].epoch = epoch /\ last[c].seq =< seq
        /\ (Len(history) > 0) => (last[c].seq >= seq - Len(history))
    BY <1>5, <1>6, <1>8, SMTT(30) DEF Gap
  <2>2. replay'[c] = history /\ since'[c] = last[c].seq BY <1>8, <1>t DEF Subscribe, TypeOK
  <2>3. Len(channel'[c]) = 0 BY <1>4, SMTT(30)
  <2>4. ASSUME NEW i \in 1 .. Len(history)
        PROVE  /\ history[i].id.epoch = epoch /\ history[i].id.seq = seq - Len(history) + i
               /\ history[i].id.seq \in 1 .. seq
               /\ history[i].kind = log[history[i].id.seq] /\ history[i].kind # "snapshot_required"
    <3>1. /\ history[i].id.epoch = epoch /\ history[i].id.seq = seq - Len(history) + i
          /\ history[i].kind = log[history[i].id.seq]
          /\ Len(log) = seq /\ Len(history) =< seq
      BY DEF IInv, Window
    <3>2. seq - Len(history) + i \in 1 .. seq BY <1>5, <3>1, SMTT(30)
    <3>3. log[history[i].id.seq] \in Kinds BY <1>t, <3>1, <3>2, SMTT(30) DEF TypeOK
    <3> QED BY <3>1, <3>2, <3>3, KindAssumption
  <2>5. Ordered(c)'
    <3>1. ASSUME NEW i \in 1 .. Len(history)
          PROVE  /\ history[i].id.epoch = epoch /\ history[i].id.seq =< seq
                 /\ (history[i].kind = "snapshot_required") => i = 1
                 /\ \A j \in 1 .. Len(history) : (i < j) => history[i].id.seq < history[j].id.seq
      BY <1>5, <2>4, SMTT(30)
    <3> QED BY <1>1, <1>5, <2>2, <2>3, <3>1, SMTT(30) DEF Ordered
  <2>6. Ahead(c)'
    <3>1. \A i \in 1 .. Len(history) : history[i].id.seq > since'[c] => history[i].id.seq >= last[c].seq
      BY <1>5, <1>6, <2>1, <2>2, <2>4, SMTT(30)
    <3> QED BY <1>1, <2>2, <2>3, <3>1, SMTT(30) DEF Ahead, Due
  <2>7. ASSUME NEW n \in 1 .. seq, log[n] \in Allow[c]
        PROVE  n \in known[c] \/ ToReplay(c, n)'
    <3>1. CASE n =< last[c].seq
      <4>1. n \in 1 .. last[c].seq BY <1>6, <2>1, <3>1, SMTT(30)
      <4> QED BY <2>1, <2>7, <4>1 DEF IInv, NothingSkipped
    <3>2. CASE n > last[c].seq
      <4>1. Len(history) > 0 /\ last[c].seq >= seq - Len(history) BY <1>5, <2>1, SMTT(30) DEF IInv, Window
      <4> DEFINE i == n - seq + Len(history)
      <4>2. i \in 1 .. Len(history) BY <1>5, <1>6, <2>1, <3>2, <4>1, SMTT(30)
      <4>3. history[i].id.seq = n BY <1>5, <2>4, <4>2, SMTT(30)
      <4>4. history[i].kind = log[n] BY <2>4, <4>2, <4>3
      <4>5. history[i].id.seq > since'[c] /\ history[i].kind \in Allow[c]
        BY <2>2, <2>7, <3>2, <4>3, <4>4
      <4> HIDE DEF i
      <4> QED BY <2>2, <4>2, <4>3, <4>5 DEF ToReplay, Due, Allowed
    <3> QED BY <1>6, <2>1, <3>1, <3>2, SMTT(30)
  <2>8. Covered(c)' BY <1>1, <2>7 DEF Covered
  <2> QED BY <1>2, <1>3, <1>4, <2>5, <2>6, <2>8 DEF StreamOK
<1> QED BY <1>7, <1>8
-----------------------------------------------------------------------------
(* The deliveries, and what follows for the clients.                       *)

(* A client that receives event e, with everything it may see up to e      *)
(* known or e itself, has skipped nothing.                                 *)
LEMMA ReceiveStep ==
  ASSUME IInv, NEW c \in Clients, NEW e \in Events, Receives(c, e), UNCHANGED broker,
         e.id.epoch = epoch, e.id.seq =< seq,
         \A n \in 1 .. e.id.seq : (log[n] \in Allow[c]) =>
           (n \in known[c] \/ n = e.id.seq \/ e.kind = "snapshot_required")
  PROVE  Window' /\ LastOK' /\ NothingSkipped'
<1>t. TypeOK BY DEF IInv
<1>1. UNCHANGED <<epoch, seq, history, closed, log>> BY DEF broker
<1>2. e.id \in Ids /\ e.id.seq \in Nat BY DEF Events, Ids
<1>3. /\ last'[c] = e.id
      /\ known'[c] = known[c] \cup (IF e.kind = "snapshot_required" THEN 1 .. e.id.seq ELSE {e.id.seq})
      /\ \A d \in Clients : (d # c) => (last'[d] = last[d] /\ known'[d] = known[d])
  BY <1>t DEF Receives, TypeOK
<1>4. Window' BY <1>1 DEF IInv, Window
<1>5. LastOK'
  <2> SUFFICES ASSUME NEW d \in Clients, last'[d] # None
               PROVE  last'[d].epoch =< epoch /\ (last'[d].epoch = epoch => last'[d].seq =< seq)
    BY <1>1 DEF LastOK
  <2>1. CASE d = c BY <1>2, <1>3, <1>t, <2>1, SMTT(30) DEF TypeOK
  <2>2. CASE d # c BY <1>3, <2>2 DEF IInv, LastOK
  <2> QED BY <2>1, <2>2
<1>6. NothingSkipped'
  <2> SUFFICES ASSUME NEW d \in Clients, last'[d] # None, last'[d].epoch = epoch,
                      NEW n \in 1 .. last'[d].seq, log[n] \in Allow[d]
               PROVE  n \in known'[d]
    BY <1>1 DEF NothingSkipped
  <2>1. CASE d = c BY <1>2, <1>3, <2>1
  <2>2. CASE d # c BY <1>3, <2>2 DEF IInv, NothingSkipped
  <2> QED BY <2>1, <2>2
<1> QED BY <1>4, <1>5, <1>6

(* Writing the first due event of the replay.                              *)
LEMMA WriteReplayStep ==
  ASSUME IInv, NEW c \in Clients, WriteReplay(c)
  PROVE  Window' /\ LastOK' /\ NothingSkipped' /\ \A d \in subs' : StreamOK(d)'
<1>t. TypeOK BY DEF IInv
<1>0. DOMAIN replay[c] = 1 .. Len(replay[c]) BY <1>t, SMTT(30) DEF TypeOK
<1>1. PICK i \in 1 .. Len(replay[c]) :
        /\ Due(c, replay[c][i]) /\ \A j \in 1 .. i - 1 : ~Due(c, replay[c][j])
        /\ Receives(c, replay[c][i])
        /\ replay' = [replay EXCEPT ![c] = SubSeq(@, i + 1, Len(@))]
  BY <1>0 DEF WriteReplay
<1>2. /\ c \in subs /\ StreamOK(c) /\ stream[c] = "replay"
      /\ UNCHANGED <<epoch, seq, history, closed, log, subs, channel, stream, since>> /\ UNCHANGED broker
  BY DEF WriteReplay, broker, IInv
<1> DEFINE e == replay[c][i]
           t == SubSeq(replay[c], i + 1, Len(replay[c]))
<1>3. replay[c] \in Seq(Events) /\ channel[c] \in Seq(Events) /\ seq \in Nat BY <1>t DEF TypeOK
<1>4. t \in Seq(Events) /\ Len(t) = Len(replay[c]) - i /\ \A j \in 1 .. Len(t) : t[j] = replay[c][i + j]
  BY <1>3, Suffix
<1>5. e \in Events /\ e.id \in Ids /\ e.id.seq \in Nat /\ e.id.epoch = epoch /\ e.id.seq =< seq
  BY <1>2, <1>3, EventNumbers DEF StreamOK, Ordered
<1>6. replay'[c] = t /\ \A d \in Clients : (d # c) => replay'[d] = replay[d] BY <1>1, <1>t DEF TypeOK
<1>7. /\ last'[c] = e.id
      /\ known'[c] = known[c] \cup (IF e.kind = "snapshot_required" THEN 1 .. e.id.seq ELSE {e.id.seq})
      /\ \A d \in Clients : (d # c) => (last'[d] = last[d] /\ known'[d] = known[d])
  BY <1>1, <1>t DEF Receives, TypeOK
<1>8. /\ Receives(c, e) /\ Due(c, e)
      /\ \A j \in 1 .. Len(replay[c]) : Due(c, replay[c][j]) => j >= i
  BY <1>1, <1>3, SMTT(30)
<1>9. /\ (e.kind = "snapshot_required") => i = 1
      /\ \A j \in 1 .. Len(replay[c]) : (i < j) => e.id.seq < replay[c][j].id.seq
      /\ \A j \in 1 .. Len(channel[c]) : e.id.seq < channel[c][j].id.seq
      /\ \A j \in 1 .. Len(replay[c]) : (replay[c][j].kind = "snapshot_required") => j = 1
  BY <1>2 DEF StreamOK, Ordered
<1>c. \A j \in 1 .. Len(replay[c]) :
        /\ replay[c][j].id.epoch = epoch /\ replay[c][j].id.seq =< seq
        /\ (replay[c][j].kind = "snapshot_required") => j = 1
        /\ \A h \in 1 .. Len(replay[c]) : (j < h) => replay[c][j].id.seq < replay[c][h].id.seq
        /\ \A h \in 1 .. Len(channel[c]) : replay[c][j].id.seq < channel[c][h].id.seq
  BY <1>2 DEF StreamOK, Ordered
<1>a. \A j \in 1 .. Len(replay[c]) : replay[c][j].id.seq \in Nat BY <1>3, EventNumbers
<1>b. \A j \in 1 .. Len(channel[c]) : channel[c][j].id.seq \in Nat BY <1>3, EventNumbers
<1> HIDE DEF e, t
<1>10. ASSUME NEW n \in 1 .. seq, ToReplay(c, n)
       PROVE  \/ n = e.id.seq \/ (e.kind = "snapshot_required" /\ n =< e.id.seq)
              \/ n > e.id.seq /\ \E j \in 1 .. Len(replay[c]) :
                   i < j /\ Due(c, replay[c][j]) /\ replay[c][j].id.seq = n
  <2>1. PICK j \in 1 .. Len(replay[c]) :
          /\ Due(c, replay[c][j])
          /\ \/ replay[c][j].id.seq = n
             \/ replay[c][j].kind = "snapshot_required" /\ n =< replay[c][j].id.seq
    BY <1>10 DEF ToReplay
  <2>2. CASE j = i BY <2>1, <2>2 DEF e
  <2>3. CASE j # i
    <3>1. j > i /\ j # 1 BY <1>8, <2>1, <2>3, SMTT(30)
    <3>2. replay[c][j].id.seq = n BY <1>9, <2>1, <3>1
    <3> QED BY <1>9, <2>1, <3>1, <3>2, <1>a, <1>5
  <2> QED BY <2>2, <2>3
<1>11. ASSUME NEW n \in 1 .. seq, log[n] \in Allow[c]
       PROVE  \/ n \in known[c] \/ n = e.id.seq \/ (e.kind = "snapshot_required" /\ n =< e.id.seq)
              \/ n > e.id.seq /\ InChannel(c, n)
              \/ n > e.id.seq /\ \E j \in 1 .. Len(replay[c]) :
                   i < j /\ Due(c, replay[c][j]) /\ replay[c][j].id.seq = n
  <2>1. n \in known[c] \/ ToReplay(c, n) \/ InChannel(c, n) BY <1>2, <1>11 DEF StreamOK, Covered
  <2>2. InChannel(c, n) => n > e.id.seq BY <1>5, <1>9, <1>b DEF InChannel
  <2> QED BY <1>10, <2>1, <2>2
<1>12. Window' /\ LastOK' /\ NothingSkipped'
  <2>1. \A n \in 1 .. e.id.seq : n \in 1 .. seq /\ ~(n > e.id.seq) BY <1>3, <1>5, SMTT(30)
  <2>2. \A n \in 1 .. e.id.seq : (log[n] \in Allow[c]) =>
          (n \in known[c] \/ n = e.id.seq \/ e.kind = "snapshot_required")
    BY <1>11, <2>1
  <2> QED BY <1>2, <1>5, <1>8, <2>2, ReceiveStep
<1>13. ASSUME NEW d \in subs', d # c PROVE StreamOK(d)'
  <2>1. d \in subs /\ d \in Clients BY <1>2, <1>13, <1>t DEF TypeOK
  <2> QED BY <1>2, <1>6, <1>7, <1>13, <2>1, Untouched DEF IInv
<1>14. StreamOK(c)'
  <2>1. \A j \in 1 .. Len(t) : i + j \in 1 .. Len(replay[c]) /\ i < i + j /\ t[j] = replay[c][i + j]
    BY <1>3, <1>4, SMTT(30)
  <2>2. Ordered(c)'
    <3>1. ASSUME NEW j \in 1 .. Len(t)
          PROVE  /\ t[j].id.epoch = epoch /\ t[j].id.seq =< seq
                 /\ (t[j].kind = "snapshot_required") => j = 1
                 /\ \A h \in 1 .. Len(t) : (j < h) => t[j].id.seq < t[h].id.seq
                 /\ \A h \in 1 .. Len(channel[c]) : t[j].id.seq < channel[c][h].id.seq
      <4>0. j > 0 /\ i > 0 BY <1>4, SMTT(30)
      <4>1. i + j \in 1 .. Len(replay[c]) /\ t[j] = replay[c][i + j] /\ i + j # 1 BY <2>1, <4>0, SMTT(30)
      <4>2. ASSUME NEW h \in 1 .. Len(t), j < h PROVE t[j].id.seq < t[h].id.seq
        <5>1. i + h \in 1 .. Len(replay[c]) /\ t[h] = replay[c][i + h] /\ i + j < i + h BY <2>1, <4>2, SMTT(30)
        <5> QED BY <1>c, <4>1, <5>1
      <4>3. /\ t[j].id.epoch = epoch /\ t[j].id.seq =< seq /\ t[j].kind # "snapshot_required"
            /\ \A h \in 1 .. Len(channel[c]) : t[j].id.seq < channel[c][h].id.seq
        BY <1>c, <4>1
      <4> QED BY <4>2, <4>3
    <3>2. /\ replay'[c] = t /\ channel'[c] = channel[c] /\ epoch' = epoch /\ seq' = seq
          /\ \A j \in 1 .. Len(channel[c]) :
               /\ channel[c][j].id.epoch = epoch /\ channel[c][j].id.seq =< seq
               /\ \A h \in 1 .. Len(channel[c]) : (j < h) => channel[c][j].id.seq < channel[c][h].id.seq
      BY <1>2, <1>6 DEF StreamOK, Ordered
    <3> QED BY <3>1, <3>2 DEF Ordered
  <2>3. Ahead(c)'
    <3>1. ASSUME NEW j \in 1 .. Len(t) PROVE t[j].id.seq >= e.id.seq
      <4>1. i + j \in 1 .. Len(replay[c]) /\ i < i + j /\ t[j] = replay[c][i + j] BY <2>1
      <4>2. e.id.seq < replay[c][i + j].id.seq /\ replay[c][i + j].id.seq \in Nat BY <1>9, <1>a, <4>1
      <4> QED BY <1>5, <4>1, <4>2, SMTT(30)
    <3>2. \A j \in 1 .. Len(channel[c]) : channel[c][j].id.seq >= e.id.seq BY <1>5, <1>9, <1>b, SMTT(30)
    <3> QED BY <1>2, <1>6, <1>7, <3>1, <3>2 DEF Ahead
  <2>4. ASSUME NEW n \in 1 .. seq, log[n] \in Allow[c]
        PROVE  n \in known'[c] \/ ToReplay(c, n)' \/ InChannel(c, n)'
    <3>1. InChannel(c, n) => InChannel(c, n)' BY <1>2 DEF InChannel
    <3>2. (n \in known[c] \/ n = e.id.seq \/ (e.kind = "snapshot_required" /\ n =< e.id.seq)) => n \in known'[c]
      BY <1>5, <1>7, SMTT(30)
    <3>3. ASSUME NEW j \in 1 .. Len(replay[c]), i < j, Due(c, replay[c][j]), replay[c][j].id.seq = n
          PROVE  ToReplay(c, n)'
      <4>1. j - i \in 1 .. Len(t) /\ t[j - i] = replay[c][j] BY <1>3, <1>4, <3>3, SMTT(30)
      <4> QED BY <1>2, <1>6, <3>3, <4>1 DEF ToReplay, Due, Allowed
    <3> QED BY <1>11, <2>4, <3>1, <3>2, <3>3
  <2>5. Covered(c)' BY <1>2, <2>4 DEF Covered
  <2> QED BY <1>2, <2>2, <2>3, <2>5 DEF StreamOK
<1> QED BY <1>12, <1>13, <1>14

(* Writing the head of the channel, once the replay is through.            *)
LEMMA WriteLiveStep ==
  ASSUME IInv, NEW c \in Clients, WriteLive(c)
  PROVE  Window' /\ LastOK' /\ NothingSkipped' /\ \A d \in subs' : StreamOK(d)'
<1>t. TypeOK BY DEF IInv
<1> DEFINE e == Head(channel[c])
           t == Tail(channel[c])
<1>1. /\ c \in subs /\ StreamOK(c) /\ stream[c] = "live" /\ channel[c] # <<>>
      /\ Receives(c, e) /\ channel' = [channel EXCEPT ![c] = t]
      /\ UNCHANGED <<epoch, seq, history, closed, log, subs, stream, replay, since>> /\ UNCHANGED broker
  BY DEF WriteLive, broker, IInv
<1>2. channel[c] \in Seq(Events) /\ seq \in Nat /\ replay[c] = <<>> BY <1>t, <1>1 DEF TypeOK, StreamOK
<1>3. /\ e = channel[c][1] /\ t \in Seq(Events) /\ Len(t) = Len(channel[c]) - 1
      /\ \A j \in 1 .. Len(t) : t[j] = channel[c][j + 1]
  BY <1>1, <1>2, HeadTailProperties, SMTT(30)
<1>4. 1 \in 1 .. Len(channel[c]) /\ Len(channel[c]) \in Nat BY <1>1, <1>2, SMTT(30)
<1>5. /\ e \in Events /\ e.id \in Ids /\ e.id.seq \in Nat /\ e.id.epoch = epoch /\ e.id.seq =< seq
      /\ \A j \in 1 .. Len(channel[c]) : (1 < j) => e.id.seq < channel[c][j].id.seq
  BY <1>1, <1>2, <1>3, <1>4, EventNumbers DEF StreamOK, Ordered
<1>6. channel'[c] = t /\ \A d \in Clients : (d # c) => channel'[d] = channel[d]
  BY <1>1, <1>t DEF TypeOK
<1>7. /\ last'[c] = e.id
      /\ known'[c] = known[c] \cup (IF e.kind = "snapshot_required" THEN 1 .. e.id.seq ELSE {e.id.seq})
      /\ \A d \in Clients : (d # c) => (last'[d] = last[d] /\ known'[d] = known[d])
  BY <1>1, <1>t DEF Receives, TypeOK
<1>a. \A j \in 1 .. Len(channel[c]) : channel[c][j].id.seq \in Nat BY <1>2, EventNumbers
<1> HIDE DEF e, t
<1>8. ASSUME NEW n \in 1 .. seq, log[n] \in Allow[c]
      PROVE  \/ n \in known[c] \/ n = e.id.seq
             \/ n > e.id.seq /\ \E j \in 1 .. Len(t) : t[j].id.seq = n
  <2>1. n \in known[c] \/ ToReplay(c, n) \/ InChannel(c, n) BY <1>1, <1>8 DEF StreamOK, Covered
  <2>2. ~ToReplay(c, n) BY <1>2, SMTT(30) DEF ToReplay
  <2>3. ASSUME InChannel(c, n), n # e.id.seq
        PROVE  n > e.id.seq /\ \E j \in 1 .. Len(t) : t[j].id.seq = n
    <3>1. PICK j \in 1 .. Len(channel[c]) : channel[c][j].id.seq = n BY <2>3 DEF InChannel
    <3>2. 1 < j BY <1>3, <1>4, <2>3, <3>1, SMTT(30)
    <3>3. j - 1 \in 1 .. Len(t) /\ t[j - 1] = channel[c][j] BY <1>3, <1>4, <3>2, SMTT(30)
    <3> QED BY <1>5, <1>a, <3>1, <3>2, <3>3
  <2> QED BY <2>1, <2>2, <2>3
<1>9. Window' /\ LastOK' /\ NothingSkipped'
  <2>1. \A n \in 1 .. e.id.seq : n \in 1 .. seq /\ ~(n > e.id.seq) BY <1>2, <1>5, SMTT(30)
  <2>2. \A n \in 1 .. e.id.seq : (log[n] \in Allow[c]) =>
          (n \in known[c] \/ n = e.id.seq \/ e.kind = "snapshot_required")
    BY <1>8, <2>1
  <2> QED BY <1>1, <1>5, <2>2, ReceiveStep
<1>10. ASSUME NEW d \in subs', d # c PROVE StreamOK(d)'
  <2>1. d \in subs /\ d \in Clients BY <1>1, <1>10, <1>t DEF TypeOK
  <2> QED BY <1>1, <1>6, <1>7, <1>10, <2>1, Untouched DEF IInv
<1>11. StreamOK(c)'
  <2>1. ASSUME NEW j \in 1 .. Len(t)
        PROVE  j + 1 \in 1 .. Len(channel[c]) /\ 1 < j + 1 /\ t[j] = channel[c][j + 1]
    <3>1. t[j] = channel[c][j + 1] BY <1>3
    <3>2. j + 1 \in 1 .. Len(channel[c]) /\ 1 < j + 1 BY <1>3, <1>4, SMTT(30)
    <3> QED BY <3>1, <3>2
  <2>2. Ordered(c)'
    <3>1. ASSUME NEW j \in 1 .. Len(t)
          PROVE  /\ t[j].id.epoch = epoch /\ t[j].id.seq =< seq
                 /\ \A h \in 1 .. Len(t) : (j < h) => t[j].id.seq < t[h].id.seq
      <4>1. j + 1 \in 1 .. Len(channel[c]) /\ t[j] = channel[c][j + 1] BY <2>1
      <4>2. ASSUME NEW h \in 1 .. Len(t), j < h PROVE t[j].id.seq < t[h].id.seq
        <5>1. h + 1 \in 1 .. Len(channel[c]) /\ t[h] = channel[c][h + 1] /\ j + 1 < h + 1 BY <2>1, <4>2, SMTT(30)
        <5> QED BY <1>1, <4>1, <5>1 DEF StreamOK, Ordered
      <4> QED BY <1>1, <4>1, <4>2 DEF StreamOK, Ordered
    <3>2. /\ replay'[c] = <<>> /\ channel'[c] = t /\ epoch' = epoch /\ seq' = seq BY <1>1, <1>2, <1>6
    <3>3. \A j \in 1 .. Len(replay'[c]) : FALSE BY <3>2, SMTT(30)
    <3> QED BY <3>1, <3>2, <3>3 DEF Ordered
  <2>3. Ahead(c)'
    <3>1. ASSUME NEW j \in 1 .. Len(t) PROVE t[j].id.seq >= e.id.seq
      <4>1. e.id.seq < channel[c][j + 1].id.seq /\ channel[c][j + 1].id.seq \in Nat BY <1>5, <1>a, <2>1
      <4> QED BY <1>5, <2>1, <4>1, SMTT(30)
    <3> QED BY <1>1, <1>2, <1>6, <1>7, <3>1, SMTT(30) DEF Ahead
  <2>4. Covered(c)'
    <3> SUFFICES ASSUME NEW n \in 1 .. seq, log[n] \in Allow[c]
                 PROVE  n \in known'[c] \/ InChannel(c, n)'
      BY <1>1 DEF Covered
    <3>1. (n \in known[c] \/ n = e.id.seq) => n \in known'[c] BY <1>5, <1>7, SMTT(30)
    <3> QED BY <1>6, <1>8, <3>1 DEF InChannel
  <2> QED BY <1>1, <1>2, <2>2, <2>3, <2>4 DEF StreamOK
<1> QED BY <1>9, <1>10, <1>11

(* The steps that deliver nothing.                                         *)
LEMMA OtherSteps ==
  ASSUME IInv,
         \/ \E c \in Clients : ReplayDone(c) \/ EndStream(c) \/ Forget(c)
         \/ Close \/ Restart \/ UNCHANGED vars
  PROVE  Window' /\ LastOK' /\ NothingSkipped' /\ \A d \in subs' : StreamOK(d)'
<1>t. TypeOK BY DEF IInv
<1>1. ASSUME NEW c \in Clients, ReplayDone(c)
      PROVE  Window' /\ LastOK' /\ NothingSkipped' /\ \A d \in subs' : StreamOK(d)'
  <2>1. UNCHANGED <<epoch, seq, history, closed, log, subs, channel, last, known>>
    BY <1>1 DEF ReplayDone, broker
  <2>2. Window' /\ LastOK' /\ NothingSkipped' BY <2>1 DEF IInv, Window, LastOK, NothingSkipped
  <2>3. ASSUME NEW d \in subs', d # c PROVE StreamOK(d)'
    <3>1. d \in subs /\ d \in Clients BY <2>1, <2>3, <1>t DEF TypeOK
    <3>2. stream'[d] = stream[d] /\ replay'[d] = replay[d] /\ since'[d] = since[d]
      BY <1>1, <1>t, <2>3, <3>1 DEF ReplayDone, TypeOK
    <3> QED BY <2>1, <3>1, <3>2, Untouched DEF IInv
  <2>4. ASSUME c \in subs PROVE StreamOK(c)'
    <3>1. StreamOK(c) /\ stream'[c] = "live" /\ replay'[c] = <<>>
      BY <1>1, <1>t, <2>4 DEF ReplayDone, IInv, TypeOK
    <3>0. Len(replay'[c]) = 0 /\ channel'[c] = channel[c] /\ last'[c] = last[c] BY <2>1, <3>1
    <3>a. Ordered(c) /\ Ahead(c) /\ Covered(c) /\ epoch' = epoch /\ seq' = seq /\ log' = log
      BY <2>1, <3>1 DEF StreamOK
    <3>b. \A i \in 1 .. Len(replay'[c]) : FALSE BY <3>0, SMTT(30)
    <3>2. Ordered(c)' BY <3>0, <3>a, <3>b DEF Ordered
    <3>3. Ahead(c)' BY <3>0, <3>a, <3>b DEF Ahead
    <3>4. \A n \in 1 .. seq : ~ToReplay(c, n)
      <4>1. DOMAIN replay[c] = 1 .. Len(replay[c]) BY <1>t, SMTT(30) DEF TypeOK
      <4> QED BY <1>1, <4>1 DEF ReplayDone, ToReplay
    <3>5. \A n : InChannel(c, n) <=> InChannel(c, n)' BY <3>0 DEF InChannel
    <3>6. known'[c] = known[c] BY <2>1
    <3>7. Covered(c)' BY <3>a, <3>4, <3>5, <3>6 DEF Covered
    <3> QED BY <3>1, <3>2, <3>3, <3>7 DEF StreamOK
  <2> QED BY <2>1, <2>2, <2>3, <2>4
<1>2. ASSUME NEW c \in Clients, EndStream(c)
      PROVE  Window' /\ LastOK' /\ NothingSkipped' /\ \A d \in subs' : StreamOK(d)'
  <2>1. UNCHANGED <<epoch, seq, history, closed, log, last, known>> BY <1>2 DEF EndStream, broker
  <2>2. Window' /\ LastOK' /\ NothingSkipped' BY <2>1 DEF IInv, Window, LastOK, NothingSkipped
  <2>3. ASSUME NEW d \in subs' PROVE StreamOK(d)'
    <3>1. d \in subs /\ d \in Clients /\ d # c BY <1>2, <1>t, <2>3 DEF EndStream, TypeOK
    <3>2. /\ stream'[d] = stream[d] /\ replay'[d] = replay[d] /\ since'[d] = since[d]
          /\ channel'[d] = channel[d]
      BY <1>2, <1>t, <3>1 DEF EndStream, TypeOK
    <3> QED BY <2>1, <3>1, <3>2, Untouched DEF IInv
  <2> QED BY <2>2, <2>3
<1>3. ASSUME NEW c \in Clients, Forget(c)
      PROVE  Window' /\ LastOK' /\ NothingSkipped' /\ \A d \in subs' : StreamOK(d)'
  <2>1. UNCHANGED <<epoch, seq, history, closed, log, subs, channel, stream, replay, since, known>>
    BY <1>3 DEF Forget, broker
  <2>2. last'[c] = None /\ \A d \in Clients : (d # c) => last'[d] = last[d]
    BY <1>3, <1>t DEF Forget, TypeOK
  <2>3. Window' BY <2>1 DEF IInv, Window
  <2>4. LastOK' BY <2>1, <2>2 DEF IInv, LastOK
  <2>5. NothingSkipped' BY <2>1, <2>2 DEF IInv, NothingSkipped
  <2>6. ASSUME NEW d \in subs' PROVE StreamOK(d)'
    <3>1. d \in subs /\ d \in Clients /\ d # c BY <1>3, <1>t, <2>1, <2>6 DEF Forget, IInv, StreamOK, TypeOK
    <3> QED BY <2>1, <2>2, <3>1, Untouched DEF IInv
  <2> QED BY <2>3, <2>4, <2>5, <2>6
<1>4. CASE Close
  <2>1. UNCHANGED <<epoch, seq, history, log, last, known>> /\ subs' = {} BY <1>4 DEF Close
  <2> QED BY <2>1 DEF IInv, Window, LastOK, NothingSkipped
<1>5. CASE Restart
  <2>1. /\ epoch' = epoch + 1 /\ seq' = 0 /\ history' = <<>> /\ log' = <<>> /\ subs' = {} /\ last' = last
    BY <1>5 DEF Restart
  <2>2. \A c \in Clients : (last[c] # None) =>
           (last[c].epoch \in Nat /\ last[c].epoch =< epoch /\ last[c].epoch # epoch')
    BY <1>t, <2>1, SMTT(30) DEF IInv, LastOK, TypeOK, Ids
  <2>3. Window' BY <2>1, SMTT(30) DEF Window
  <2>4. LastOK' BY <1>t, <2>1, <2>2, SMTT(30) DEF LastOK, TypeOK
  <2>5. NothingSkipped' BY <2>1, <2>2 DEF NothingSkipped
  <2> QED BY <2>1, <2>3, <2>4, <2>5
<1>6. CASE UNCHANGED vars
  <2>1. \A d \in subs : d \in Clients BY <1>t DEF TypeOK
  <2>2. Window' /\ LastOK' /\ NothingSkipped' BY <1>6 DEF vars, IInv, Window, LastOK, NothingSkipped
  <2> QED BY <1>6, <2>1, <2>2, Untouched DEF vars, IInv
<1> QED BY <1>1, <1>2, <1>3, <1>4, <1>5, <1>6

(* The invariant is inductive.                                             *)
LEMMA StepIInv == IInv /\ [Next]_vars => IInv'
<1> SUFFICES ASSUME IInv, [Next]_vars PROVE IInv' OBVIOUS
<1>1. TypeOK' BY TypeStep DEF IInv
<1>2. Window' /\ LastOK' /\ NothingSkipped' /\ \A d \in subs' : StreamOK(d)'
  BY PublishStep, SubscribeStep, WriteReplayStep, WriteLiveStep, OtherSteps DEF Next
<1> QED BY <1>1, <1>2 DEF IInv

(* What holds of every behaviour of the broker and its clients.            *)
LEMMA Inductive == Spec => []IInv
BY InitIInv, StepIInv, PTL DEF Spec

(* The types of the broker's and the clients' state, and the bound on the  *)
(* history.                                                                *)
THEOREM HubTypeCorrect == Spec => []TypeOK
<1>1. IInv => TypeOK BY DEF IInv
<1> QED BY <1>1, Inductive, PTL

(* Through overflow, disconnection, reconnection and restart, a client has *)
(* received or reread every event it may see up to its Last-Event-ID.      *)
THEOREM ClientsSkipNothing == Spec => []NothingSkipped
<1>1. IInv => NothingSkipped BY DEF IInv
<1> QED BY <1>1, Inductive, PTL

(* The ids a client receives in an epoch never go back.                    *)
THEOREM ClientsAscend == Spec => IdsAscend
<1> DEFINE Ascends == \A c \in Clients :
      (/\ last[c] # None /\ last'[c] # None /\ last'[c] # last[c]
       /\ last'[c].epoch = last[c].epoch) => last'[c].seq >= last[c].seq
<1>1. ASSUME IInv, [Next]_vars PROVE [Ascends]_vars
  <2>t. TypeOK BY <1>1 DEF IInv
  <2>1. ASSUME NEW c \in Clients, last[c] # None, last'[c] # None, last'[c] # last[c],
               last'[c].epoch = last[c].epoch
        PROVE  last'[c].seq >= last[c].seq
    <3>1. CASE WriteReplay(c)
      <4>1. PICK i \in DOMAIN replay[c] : Due(c, replay[c][i]) /\ last' = [last EXCEPT ![c] = replay[c][i].id]
        BY <3>1 DEF WriteReplay, Receives
      <4>2. i \in 1 .. Len(replay[c]) /\ StreamOK(c) /\ last'[c] = replay[c][i].id
        BY <1>1, <2>t, <3>1, <4>1, SMTT(30) DEF WriteReplay, IInv, TypeOK
      <4>3. replay[c][i].id.epoch = epoch BY <4>2 DEF StreamOK, Ordered
      <4> QED BY <2>1, <4>1, <4>2, <4>3 DEF StreamOK, Ahead
    <3>2. CASE WriteLive(c)
      <4>1. /\ channel[c] \in Seq(Events) /\ channel[c] # <<>> /\ StreamOK(c)
            /\ last'[c] = Head(channel[c]).id
        BY <1>1, <2>t, <3>2 DEF WriteLive, Receives, IInv, TypeOK
      <4>2. Head(channel[c]) = channel[c][1] /\ 1 \in 1 .. Len(channel[c]) BY <4>1, HeadTailProperties, SMTT(30)
      <4>3. channel[c][1].id.epoch = epoch BY <4>1, <4>2 DEF StreamOK, Ordered
      <4> QED BY <2>1, <4>1, <4>2, <4>3 DEF StreamOK, Ahead
    <3>3. CASE ~WriteReplay(c) /\ ~WriteLive(c)
      <4>1. last'[c] = last[c] \/ last'[c] = None
        <5>1. ASSUME NEW d \in Clients, WriteReplay(d) \/ WriteLive(d) PROVE last'[c] = last[c]
          <6>1. d # c BY <3>3, <5>1
          <6>2. \E id : last' = [last EXCEPT ![d] = id] BY <5>1 DEF WriteReplay, WriteLive, Receives
          <6> QED BY <2>t, <6>1, <6>2 DEF TypeOK
        <5>2. ASSUME NEW d \in Clients, Forget(d) PROVE last'[c] = last[c] \/ last'[c] = None
          BY <2>t, <5>2 DEF Forget, TypeOK
        <5>3. ASSUME NEW d \in Clients, Subscribe(d) \/ ReplayDone(d) \/ EndStream(d) PROVE last' = last
          BY <5>3 DEF Subscribe, ReplayDone, EndStream
        <5>4. ASSUME \/ \E k \in Kinds : Publish(k)
                     \/ Close \/ Restart \/ UNCHANGED vars
              PROVE  last' = last
          BY <5>4 DEF Publish, Close, Restart, vars
        <5> QED BY <1>1, <5>1, <5>2, <5>3, <5>4 DEF Next
      <4> QED BY <2>1, <4>1
    <3> QED BY <3>1, <3>2, <3>3
  <2> QED BY <2>1
<1>2. IInv /\ [Next]_vars => [Ascends]_vars BY <1>1
<1> QED BY <1>2, Inductive, PTL DEF Spec, IdsAscend
=============================================================================
