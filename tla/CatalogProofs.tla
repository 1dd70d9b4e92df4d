---------------------------- MODULE CatalogProofs ----------------------------
(***************************************************************************)
(* A reference that Resolve accepts is honest, for every library and every *)
(* order of pages, announcements, reconnections and expiry.                *)
(***************************************************************************)
EXTENDS Catalog, TLAPS

(* Leaves are left to Zenon; those that need arithmetic name SMT.          *)
USE ZenonT(40)
-----------------------------------------------------------------------------
Records == [item : Items \cup {NoEntry}, cursor : BOOLEAN, list : Names, tok : Nat, expires : Nat,
            start : Nat, limit : Nat, snap : Seq(Items), total : Int]
Pages == [items : Seq(Items), next : Int, tok : Nat, snap : Seq(Items), total : Int]
Reqs == [pc : {"idle", "read", "reply", "finish"}, parent : Nat, cursor : Nat,
         list : Names \cup {""}, start : Nat, limit : Nat, view : Nat, cached : Seq(Records), page : Pages]

EnvType == /\ lib \in 1..Len(Library) /\ seen \in 1..lib
           /\ rev \in Nat /\ now \in Nat /\ given \in Nat

(* The items are in the list now, if all changes are announced.            *)
Present(list, items) ==
  lib = seen /\ list \notin Sources => \A i \in DOMAIN items : items[i] \in Range(Library[lib][list])

(* What a list without ranges contributes is its snapshot.                 *)
Whole(x, list) == x.snap # <<>> => list \in Sources

(* A reference of the present revision was in its list when the revision   *)
(* began, or has been added since.                                         *)
Sound(e) == /\ e \in Records /\ e.tok <= rev /\ Whole(e, e.list)
            /\ ~e.cursor => e.item \in Items
            /\ ~e.cursor /\ e.tok = rev => Present(e.list, <<e.item>>)
Table == DOMAIN refs \subseteq 1..given /\ \A r \in DOMAIN refs : Sound(refs[r])

(* A page asked for in the present revision is of its list: only the root  *)
(* is asked for without a reference.                                       *)
Asked ==
  /\ req \in Reqs /\ req.view <= rev
  /\ req.pc # "idle" =>
       /\ req.list \in Names /\ (req.parent = 0 => req.list = "root")
       /\ req.cached # <<>> => Whole(req.cached[1], req.list) /\ req.cached[1].tok <= rev
  /\ req.pc = "finish" =>
       /\ req.page.tok <= rev /\ Whole(req.page, req.list)
       /\ req.view = rev => Present(req.list, req.page.items)
Wired ==
  wire.for = "browse" =>
    /\ req.pc = "reply" /\ wire.items \in Seq(Items) /\ wire.total \in Nat
    /\ req.view = rev => Present(req.list, wire.items)

IndInv == EnvType /\ Table /\ Asked /\ Wired
-----------------------------------------------------------------------------
(* A part of a list.                                                       *)
LEMMA PartOfList ==
  ASSUME NEW s \in Seq(Items), NEW a \in Nat, NEW b \in Int, b <= Len(s)
  PROVE  /\ SubSeq(s, a + 1, b) \in Seq(Items)
         /\ \A i \in DOMAIN SubSeq(s, a + 1, b) : SubSeq(s, a + 1, b)[i] \in Range(s)
<1>1. Len(s) \in Nat  BY SMTT(30)
<1>2. \A i \in 1..Len(s) : s[i] \in Range(s) /\ s[i] \in Items  BY SMTT(30) DEF Range
<1>3. SubSeq(s, a + 1, b) = [i \in 1..(b - a) |-> s[a + i]]  BY <1>1, SMTT(30)
<1>4. \A i \in 1..(b - a) : a + i \in 1..Len(s)  BY <1>1, SMTT(30)
<1> QED BY <1>1, <1>2, <1>3, <1>4, SMTT(30)

(* The lists of the library.                                               *)
LEMMA ListType ==
  ASSUME NEW v \in 1..Len(Library), NEW list \in Names
  PROVE  Library[v][list] \in Seq(Items)
<1>1. Library[v] \in [Names -> Seq(Items)]  BY LibraryAssumption, SMTT(30)
<1> QED BY <1>1

(* The shorter of two lengths.                                             *)
LEMMA LeastBound ==
  ASSUME NEW a \in Int, NEW b \in Int
  PROVE  Least(a, b) \in Int /\ Least(a, b) <= a /\ Least(a, b) <= b /\ Least(a, b) \in {a, b}
BY SMTT(30) DEF Least

(* No reply is for nobody.                                                 *)
LEMMA NoReplyFor == NoReply.for # "browse"
  BY DEF NoReply

(* No reference is known at the start.                                     *)
LEMMA InitInv ==
  ASSUME Init
  PROVE  IndInv
<1>1. 1 \in 1..Len(Library)
  <2>1. Library \in Seq([Names -> Seq(Items)]) /\ Library # <<>>
    BY LibraryAssumption, CatalogAssumption
  <2> QED BY <2>1, SMTT(30)
<1>2. EnvType  BY <1>1, SMTT(30) DEF Init, EnvType
<1>3. Table  BY DEF Init, Table
<1>4. NoPage \in Pages  BY SMTT(30) DEF NoPage, Pages
<1>5. NoReq \in Reqs /\ NoReq.pc = "idle" /\ NoReq.view = 0
  <2>1. <<>> \in Seq(Records) /\ 0 \in Nat  BY SMTT(30)
  <2> QED BY <1>4, <2>1 DEF NoReq, Reqs
<1>6. Asked
  <2>1. req = NoReq /\ 0 <= rev  BY SMTT(30) DEF Init
  <2> QED BY <1>5, <2>1 DEF Asked
<1>7. Wired  BY DEF Init, Wired, NoReply
<1> QED BY <1>2, <1>3, <1>6, <1>7 DEF IndInv
-----------------------------------------------------------------------------
(* The surroundings move on in one revision, where a change of the library *)
(* is one that nobody announced, or a new revision begins.                 *)
MovesOn == \/ rev' = rev /\ seen' = seen /\ (lib' = lib \/ lib' # seen')
           \/ rev' \in Nat /\ rev < rev'

(* Later is not now.                                                       *)
LEMMA Outlived ==
  ASSUME EnvType, MovesOn, NEW n \in Nat, n <= rev
  PROVE  n <= rev' /\ (rev' # rev => n # rev')
BY SMTT(30) DEF EnvType, MovesOn

(* What was present stays present in its revision.                         *)
LEMMA StaysPresent ==
  ASSUME MovesOn, rev' = rev, EnvType, NEW list, NEW items, Present(list, items)
  PROVE  Present(list, items)'
<1>1. ~(rev < rev')  BY SMTT(30) DEF EnvType
<1> QED BY <1>1 DEF MovesOn, Present

(* A record outlives what happens around it.                               *)
LEMMA SoundStays ==
  ASSUME EnvType, MovesOn, NEW e, Sound(e)
  PROVE  Sound(e)'
<1>1. e \in Records /\ e.tok <= rev  BY DEF Sound
<1>2. e.tok \in Nat  BY <1>1 DEF Records
<1>3. e.tok <= rev' /\ (rev' # rev => e.tok # rev')  BY <1>1, <1>2, Outlived
<1>4. ~e.cursor /\ e.tok = rev' => Present(e.list, <<e.item>>)'
  BY <1>3, StaysPresent DEF Sound
<1>5. Whole(e, e.list)' /\ (~e.cursor => e.item \in Items)  BY DEF Sound, Whole
<1> QED BY <1>1, <1>3, <1>4, <1>5 DEF Sound

(* So does the request.                                                    *)
LEMMA AskedStays ==
  ASSUME EnvType, MovesOn, Asked, req' = req
  PROVE  Asked'
<1>1. req \in Reqs /\ req.view <= rev  BY DEF Asked
<1>2. req.view \in Nat /\ req.page \in Pages /\ req.cached \in Seq(Records)  BY <1>1 DEF Reqs
<1>3. req.view <= rev' /\ (rev' # rev => req.view # rev')  BY <1>1, <1>2, Outlived
<1>4. req.page.tok \in Nat /\ (req.cached # <<>> => req.cached[1].tok \in Nat)
  <2>1. req.cached # <<>> => req.cached[1] \in Records  BY <1>2, SMTT(30)
  <2> QED BY <1>2, <2>1 DEF Pages, Records
<1>5. req.pc # "idle" =>
       /\ req.list \in Names /\ (req.parent = 0 => req.list = "root")
       /\ req.cached # <<>> => Whole(req.cached[1], req.list) /\ req.cached[1].tok <= rev'
  BY <1>4, Outlived DEF Asked
<1>6. req.pc = "finish" =>
       /\ req.page.tok <= rev' /\ Whole(req.page, req.list)
       /\ req.view = rev' => Present(req.list, req.page.items)'
  BY <1>3, <1>4, Outlived, StaysPresent DEF Asked
<1> QED BY <1>1, <1>3, <1>5, <1>6 DEF Asked, Whole

(* So does everything, if a reply on its way stays or is not for Browse.   *)
LEMMA AroundInv ==
  ASSUME IndInv, EnvType', MovesOn, UNCHANGED <<refs, given, req>>,
         wire' = wire \/ wire'.for # "browse"
  PROVE  IndInv'
<1> USE DEF IndInv
<1>1. Table'  BY SoundStays DEF Table
<1>2. Asked'  BY AskedStays
<1>3. Wired'
  <2>1. CASE wire' = wire /\ wire.for = "browse"
    <3>1. req.view \in Nat /\ req.view <= rev  BY DEF Asked, Reqs
    <3>2. rev' # rev => req.view # rev'  BY <3>1, Outlived
    <3>3. req.view = rev' => Present(req.list, wire.items)'
      BY <2>1, <3>2, StaysPresent DEF Wired
    <3> QED BY <2>1, <3>3 DEF Wired
  <2>2. CASE ~(wire' = wire /\ wire.for = "browse")  BY <2>2 DEF Wired
  <2> QED BY <2>1, <2>2
<1> QED BY <1>1, <1>2, <1>3

(* Time, the library and the connection.                                   *)
LEMMA SurroundingsInv ==
  ASSUME IndInv, Tick \/ Change \/ Announce \/ Drop \/ Connect
  PROVE  IndInv'
<1>1. EnvType  BY DEF IndInv
<1>2. ASSUME Tick \/ Change
      PROVE  EnvType' /\ MovesOn /\ UNCHANGED <<refs, given, req, wire>>
  <2>1. UNCHANGED <<refs, given, req, wire, seen, rev>>  BY <1>2 DEF Tick, Change
  <2>2. /\ now' \in {now, now + 1} /\ lib' \in {lib, lib + 1}
        /\ lib' # lib => lib < Len(Library)
    BY <1>2 DEF Tick, Change
  <2>3. EnvType'  BY <1>1, <2>1, <2>2, SMTT(30) DEF EnvType
  <2>4. lib' = lib \/ lib' # seen'  BY <1>1, <2>1, <2>2, SMTT(30) DEF EnvType
  <2> QED BY <2>1, <2>3, <2>4 DEF MovesOn
<1>3. ASSUME Announce \/ Drop \/ Connect
      PROVE  EnvType' /\ MovesOn /\ UNCHANGED <<refs, given, req>> /\ (wire' = wire \/ wire'.for # "browse")
  <2>1. UNCHANGED <<refs, given, req, lib, now>> /\ rev' = rev + 1 /\ seen' = lib
    BY <1>3 DEF Announce, Drop, Connect
  <2>2. wire' = wire \/ wire'.for # "browse"  BY <1>3, NoReplyFor DEF Announce, Drop, Connect
  <2>3. EnvType' /\ rev' \in Nat /\ rev < rev'  BY <1>1, <2>1, SMTT(30) DEF EnvType
  <2> QED BY <2>1, <2>2, <2>3 DEF MovesOn
<1> QED BY <1>2, <1>3, AroundInv

(* A playback request changes neither references nor the browsing request. *)
LEMMA ResolveInv ==
  ASSUME IndInv, Resolve
  PROVE  IndInv'
<1>1. UNCHANGED <<env, refs, given, req>>
  BY DEF Resolve, Plan, resolvePlayback, resolveSource, resolveItem, resolveBufferedPlayback,
     playableMembers, prepareBufferedPart, BrowseAll, PageAsk, PageReply, ReadFails, Collect, Fill,
     Prepared, Accept, Answered
<1>2. wire' = wire \/ wire'.for # "browse"
  <2>1. CASE PageAsk
    <3>1. PICK total, c, items : wire' = [for |-> "plan", total |-> total, counted |-> c, items |-> items]
      BY <2>1 DEF PageAsk, Compose
    <3> QED BY <3>1
  <2>2. CASE PageReply \/ ReadFails  BY <2>2, NoReplyFor DEF PageReply, ReadFails
  <2>3. CASE UNCHANGED wire  BY <2>3
  <2> QED BY <2>1, <2>2, <2>3 DEF Resolve, resolvePlayback, resolveSource, resolveItem,
       resolveBufferedPlayback, playableMembers, prepareBufferedPart, BrowseAll, Collect, Fill,
       Prepared, Accept, Answered
<1>3. EnvType' /\ MovesOn  BY <1>1 DEF env, IndInv, EnvType, MovesOn
<1> QED BY <1>1, <1>2, <1>3, AroundInv
-----------------------------------------------------------------------------
(* A page cut from a list that is kept as a whole.                         *)
LEMMA SourcePageType ==
  ASSUME NEW items, NEW total, NEW tok, NEW start, NEW limit,
         items \in Seq(Items) /\ total \in Int /\ tok \in Nat /\ start \in Nat /\ limit \in Nat
  PROVE  /\ sourcePage(items, total, tok, start, limit) \in Pages
         /\ sourcePage(items, total, tok, start, limit).tok = tok
<1> DEFINE end == Least(start + limit, Len(items))
<1>1. start + limit \in Int /\ Len(items) \in Int /\ -1 \in Int  BY SMTT(30)
<1>2. end \in Int /\ end <= Len(items)  BY <1>1, LeastBound
<1>3. SubSeq(items, start + 1, end) \in Seq(Items)  BY <1>2, PartOfList
<1> HIDE DEF end
<1>4. (IF end < Len(items) THEN end ELSE -1) \in Int  BY <1>1, <1>2
<1>5. sourcePage(items, total, tok, start, limit)
        = [items |-> SubSeq(items, start + 1, end), next |-> IF end < Len(items) THEN end ELSE -1,
           tok |-> tok, snap |-> items, total |-> total]
  BY DEF sourcePage, end
<1>6. ASSUME NEW part \in Seq(Items), NEW next \in Int
      PROVE  LET n == [items |-> part, next |-> next, tok |-> tok, snap |-> items, total |-> total] IN
             n \in Pages /\ n.tok = tok
  BY DEF Pages
<1> QED BY <1>3, <1>4, <1>5, <1>6

(* A step of Browse in which the table stays and no reply is on its way.   *)
LEMMA QuietBrowse ==
  ASSUME IndInv, UNCHANGED <<env, refs, given>>, Asked', wire'.for # "browse"
  PROVE  IndInv'
<1>1. EnvType'  BY DEF IndInv, env, EnvType
<1>2. Table'  BY DEF IndInv, env, Table, Sound, Present, Whole
<1>3. Wired'  BY DEF Wired
<1> QED BY <1>1, <1>2, <1>3 DEF IndInv

(* The request ends.                                                       *)
LEMMA NoReqAsked ==
  ASSUME EnvType, env' = env, req' = NoReq
  PROVE  Asked'
<1>1. NoPage \in Pages  BY SMTT(30) DEF NoPage, Pages
<1>2. <<>> \in Seq(Records) /\ 0 \in Nat /\ rev' = rev /\ 0 <= rev  BY SMTT(30) DEF EnvType, env
<1>3. NoReq \in Reqs /\ NoReq.pc = "idle" /\ NoReq.view = 0  BY <1>1, <1>2 DEF NoReq, Reqs
<1> QED BY <1>2, <1>3 DEF Asked

(* The record of a request.                                                *)
LEMMA ReqType ==
  ASSUME NEW pc \in {"idle", "read", "reply", "finish"}, NEW parent \in Nat, NEW cursor \in Nat,
         NEW list \in Names, NEW start \in Nat, NEW limit \in Nat, NEW view \in Nat,
         NEW cached \in Seq(Records), NEW page \in Pages
  PROVE  [pc |-> pc, parent |-> parent, cursor |-> cursor, list |-> list, start |-> start,
          limit |-> limit, view |-> view, cached |-> cached, page |-> page] \in Reqs
BY DEF Reqs

(* Browse checks what it was asked with, and asks for a page.              *)
LEMMA BeginInv ==
  ASSUME IndInv, BrowseBegin
  PROVE  IndInv'
<1>1. PICK parent \in {0} \cup DOMAIN refs, cursor \in {0} \cup DOMAIN refs, limit \in Limits :
        LET list == IF parent = 0 THEN "root" ELSE refs[parent].item.id IN
        /\ parent # 0 => valid(parent) /\ ~refs[parent].cursor
                         /\ refs[parent].item.kind \in {"source", "container"}
        /\ cursor # 0 => valid(cursor) /\ refs[cursor].cursor /\ refs[cursor].list = list
                         /\ refs[cursor].limit = limit
        /\ req' = [NoReq EXCEPT !.pc = "read", !.parent = parent, !.cursor = cursor, !.list = list,
                     !.limit = limit, !.view = rev,
                     !.start = IF cursor = 0 THEN 0 ELSE refs[cursor].start,
                     !.cached = IF cursor = 0 THEN <<>> ELSE <<refs[cursor]>>]
  BY DEF BrowseBegin
<1> DEFINE list == IF parent = 0 THEN "root" ELSE refs[parent].item.id
           start == IF cursor = 0 THEN 0 ELSE refs[cursor].start
           cached == IF cursor = 0 THEN <<>> ELSE <<refs[cursor]>>
<1>2. /\ req'.pc = "read" /\ req'.parent = parent /\ req'.list = list /\ req'.view = rev
      /\ req'.cached = cached
      /\ req' = [pc |-> "read", parent |-> parent, cursor |-> cursor, list |-> list, start |-> start,
                 limit |-> limit, view |-> rev, cached |-> cached, page |-> NoPage]
  BY <1>1 DEF NoReq
<1>3. /\ EnvType /\ Table /\ rev \in Nat /\ rev <= rev /\ req.pc = "idle"
      /\ UNCHANGED <<env, refs, given, wire>> /\ rev' = rev
  <2>1. EnvType /\ Table  BY DEF IndInv
  <2>2. rev <= rev /\ rev \in Nat  BY <2>1, SMTT(30) DEF EnvType
  <2> QED BY <2>1, <2>2 DEF BrowseBegin, env
<1>4. parent \in Nat /\ cursor \in Nat /\ limit \in Nat
  <2>1. DOMAIN refs \subseteq 1..given /\ given \in Nat  BY <1>3 DEF Table, EnvType
  <2> QED BY <2>1, CatalogAssumption, SMTT(30)
<1>5. list \in Names /\ (parent = 0 => list = "root")
  <2>1. CASE parent = 0  BY <2>1, LibraryAssumption
  <2>2. CASE parent # 0
    <3>1. refs[parent].item \in Items  BY <1>1, <1>3, <2>2 DEF Table, Sound
    <3> QED BY <1>1, <2>2, <3>1 DEF Items
  <2> QED BY <2>1, <2>2
<1>6. ASSUME cursor # 0
      PROVE  Sound(refs[cursor]) /\ refs[cursor] \in Records /\ refs[cursor].list = list
  BY <1>1, <1>3, <1>6 DEF Table, Sound
<1>7. start \in Nat /\ cached \in Seq(Records)
      /\ (cached # <<>> => Whole(cached[1], list) /\ cached[1].tok <= rev)
  <2>1. CASE cursor = 0  BY <2>1, SMTT(30)
  <2>2. CASE cursor # 0
    <3>1. start = refs[cursor].start /\ cached = <<refs[cursor]>>  BY <2>2
    <3>2. cached \in Seq(Records) /\ cached[1] = refs[cursor]  BY <1>6, <2>2, <3>1, SMTT(30)
    <3>3. refs[cursor].start \in Nat  BY <1>6, <2>2 DEF Records
    <3>4. Whole(refs[cursor], list) /\ refs[cursor].tok <= rev  BY <1>6, <2>2 DEF Sound
    <3> QED BY <3>1, <3>2, <3>3, <3>4
  <2> QED BY <2>1, <2>2
<1> HIDE DEF list, start, cached
<1>8. NoPage \in Pages  BY SMTT(30) DEF NoPage, Pages
<1>9. req' \in Reqs
  <2>1. "read" \in {"idle", "read", "reply", "finish"}  OBVIOUS
  <2>2. [pc |-> "read", parent |-> parent, cursor |-> cursor, list |-> list, start |-> start,
         limit |-> limit, view |-> rev, cached |-> cached, page |-> NoPage] \in Reqs
    BY <1>3, <1>4, <1>5, <1>7, <1>8, <2>1, ReqType, SMTT(30)
  <2> QED BY <1>2, <2>2
<1>10. Asked'  BY <1>2, <1>3, <1>5, <1>7, <1>9 DEF Asked, Whole
<1>11. wire'.for # "browse"  BY <1>3 DEF IndInv, Wired
<1> QED BY <1>3, <1>10, <1>11, QuietBrowse
(* The page has been read, or another step of the request is next.         *)
LEMMA ReqMoves ==
  ASSUME Asked, NEW pc \in {"read", "reply", "finish"}, NEW page \in Pages, req.pc # "idle",
         req' = [req EXCEPT !.pc = pc, !.page = page] \/ (page = req.page /\ req' = [req EXCEPT !.pc = pc])
  PROVE  /\ req' \in Reqs /\ req'.pc = pc /\ req'.page = page
         /\ req'.parent = req.parent /\ req'.list = req.list /\ req'.view = req.view
         /\ req'.cached = req.cached
<1>1. /\ req = [pc |-> req.pc, parent |-> req.parent, cursor |-> req.cursor, list |-> req.list,
                start |-> req.start, limit |-> req.limit, view |-> req.view, cached |-> req.cached,
                page |-> req.page]
      /\ req.parent \in Nat /\ req.cursor \in Nat /\ req.list \in Names /\ req.start \in Nat
      /\ req.limit \in Nat /\ req.view \in Nat /\ req.cached \in Seq(Records)
  BY DEF Asked, Reqs
<1>2. req' = [pc |-> pc, parent |-> req.parent, cursor |-> req.cursor, list |-> req.list,
              start |-> req.start, limit |-> req.limit, view |-> req.view, cached |-> req.cached,
              page |-> page]
  BY <1>1
<1>3. req' \in Reqs  BY <1>1, <1>2, ReqType
<1> QED BY <1>2, <1>3

(* The rest of the request is as it was.                                   *)
LEMMA AskedMoves ==
  ASSUME IndInv, env' = env, NEW pc \in {"read", "reply", "finish"}, NEW page \in Pages, req.pc # "idle",
         req' = [req EXCEPT !.pc = pc, !.page = page] \/ (page = req.page /\ req' = [req EXCEPT !.pc = pc]),
         pc = "finish" => /\ page.tok <= rev /\ Whole(page, req.list)
                          /\ req.view = rev => Present(req.list, page.items)
  PROVE  Asked'
<1>1. Asked  BY DEF IndInv
<1>2. /\ req' \in Reqs /\ req'.pc = pc /\ req'.page = page
      /\ req'.parent = req.parent /\ req'.list = req.list /\ req'.view = req.view
      /\ req'.cached = req.cached
  BY <1>1, ReqMoves
<1>3. rev' = rev /\ lib' = lib /\ seen' = seen  BY DEF env
<1> QED BY <1>1, <1>2, <1>3 DEF Asked, Whole, Present

(* The next page of a snapshot.                                            *)
LEMMA CachedInv ==
  ASSUME IndInv, BrowseCached
  PROVE  IndInv'
<1> DEFINE c == req.cached[1]
           page == sourcePage(c.snap, c.total, c.tok, req.start, req.limit)
<1>1. /\ req.pc = "read" /\ req.cached # <<>> /\ c.snap # <<>>
      /\ req' = [req EXCEPT !.pc = "finish", !.page = page]
      /\ UNCHANGED <<env, refs, given, wire>>
  BY DEF BrowseCached
<1>2. req \in Reqs /\ Whole(c, req.list) /\ c.tok <= rev  BY <1>1 DEF IndInv, Asked
<1>3. req.cached \in Seq(Records) /\ req.start \in Nat /\ req.limit \in Nat  BY <1>2 DEF Reqs
<1>4. c \in Records  BY <1>1, <1>3, SMTT(30)
<1>5. c.snap \in Seq(Items) /\ c.total \in Int /\ c.tok \in Nat  BY <1>4 DEF Records
<1>7. req.list \in Sources  BY <1>1, <1>2 DEF Whole
<1> HIDE DEF c
<1>6. page \in Pages /\ page.tok = c.tok
  <2>1. PICK snap, total, tok, start, limit :
          /\ snap = c.snap /\ total = c.total /\ tok = c.tok /\ start = req.start /\ limit = req.limit
          /\ snap \in Seq(Items) /\ total \in Int /\ tok \in Nat /\ start \in Nat /\ limit \in Nat
    BY <1>3, <1>5
  <2>2. page = sourcePage(snap, total, tok, start, limit)  BY <2>1
  <2>3. sourcePage(snap, total, tok, start, limit) \in Pages  BY <2>1, SourcePageType, SMTT(30)
  <2>4. sourcePage(snap, total, tok, start, limit).tok = tok  BY DEF sourcePage
  <2> QED BY <2>1, <2>2, <2>3, <2>4
<1> HIDE DEF page
<1>8. page.tok <= rev /\ Whole(page, req.list) /\ Present(req.list, page.items)
  BY <1>2, <1>6, <1>7 DEF Whole, Present
<1>9. Asked'  BY <1>1, <1>6, <1>8, AskedMoves
<1>10. wire'.for # "browse"  BY <1>1 DEF IndInv, Wired
<1> QED BY <1>1, <1>9, <1>10, QuietBrowse

(* The player composes a page of the list as it is.                        *)
LEMMA AskInv ==
  ASSUME IndInv, BrowseAsk
  PROVE  IndInv'
<1> DEFINE all == Library[lib][req.list]
           first == IF req.list \in Sources THEN 0 ELSE Least(req.start, Len(all))
<1>1. PICK counted \in {"yes", "zero", "no"}, n \in 0..(Len(all) - first) :
        wire' = [for |-> "browse", total |-> Len(all), counted |-> counted,
                 items |-> SubSeq(all, first + 1, first + n)]
  BY DEF BrowseAsk, Compose
<1> DEFINE items == SubSeq(all, first + 1, first + n)
<1>2. /\ req.pc = "read" /\ req' = [req EXCEPT !.pc = "reply"]
      /\ UNCHANGED <<env, refs, given>>
  BY DEF BrowseAsk
<1>3. req \in Reqs /\ req.list \in Names  BY <1>2 DEF IndInv, Asked
<1>4. req.page \in Pages /\ req.start \in Nat /\ req.limit \in Nat  BY <1>3 DEF Reqs
<1>5. lib \in 1..Len(Library)  BY DEF IndInv, EnvType
<1>6. all \in Seq(Items)  BY <1>3, <1>5, ListType
<1>7. items \in Seq(Items) /\ Present(req.list, items)
  <2>1. Len(all) \in Nat  BY <1>6, SMTT(30)
  <2>2. first \in Nat
    <3>1. Least(req.start, Len(all)) \in Nat  BY <1>4, <2>1 DEF Least
    <3> QED BY <3>1, SMTT(30)
  <2>f. n \in 0..(Len(all) - first)  OBVIOUS
  <2> HIDE DEF all, first
  <2>3. first + n \in Int /\ first + n <= Len(all)  BY <2>f, <2>1, <2>2, SMTT(30)
  <2>4. /\ SubSeq(all, first + 1, first + n) \in Seq(Items)
        /\ \A i \in DOMAIN SubSeq(all, first + 1, first + n) :
             SubSeq(all, first + 1, first + n)[i] \in Range(all)
    BY <1>6, <2>2, <2>3, PartOfList
  <2> QED BY <2>4 DEF Present, all
<1>8. Len(all) \in Nat  BY <1>6, SMTT(30)
<1>w. wire' = [for |-> "browse", total |-> Len(all), counted |-> counted, items |-> items]  BY <1>1
<1> HIDE DEF all, first, items
<1>9. wire'.for = "browse" /\ wire'.items = items /\ wire'.total = Len(all)  BY <1>w
<1>10. Asked'  BY <1>2, <1>4, AskedMoves
<1>11. req'.pc = "reply" /\ req'.list = req.list /\ req'.view = req.view
  BY <1>2, <1>4, ReqMoves DEF IndInv
<1>12. Wired'  BY <1>2, <1>7, <1>8, <1>9, <1>11 DEF Wired, Present, env
<1>13. EnvType'  BY <1>2 DEF IndInv, env, EnvType
<1>14. Table'  BY <1>2 DEF IndInv, env, Table, Sound, Present, Whole
<1> QED BY <1>10, <1>12, <1>13, <1>14 DEF IndInv
(* The page of a reply.                                                    *)
LEMMA ReplyPage ==
  ASSUME IndInv, req.pc = "reply", wire.for = "browse",
         NEW page, page = BrowsePage(req.list, req.start, req.limit)
  PROVE  /\ page \in Pages /\ page.tok = rev /\ Whole(page, req.list)
         /\ req.view = rev => Present(req.list, page.items)
<1>1. /\ wire.items \in Seq(Items) /\ wire.total \in Nat /\ rev \in Nat
      /\ req.start \in Nat /\ req.limit \in Nat
      /\ req.view = rev => Present(req.list, wire.items)
  BY DEF IndInv, Wired, EnvType, Asked, Reqs
<1>2. Total \in Int
  <2>1. -1 \in Int /\ wire.total \in Int  BY <1>1, SMTT(30)
  <2> QED BY <2>1 DEF Total
<1>3. CASE req.list \in Sources
  <2>1. page = sourcePage(wire.items, Total, rev, req.start, req.limit)  BY <1>3 DEF BrowsePage
  <2>2. PICK snap, total, tok, start, limit :
          /\ snap = wire.items /\ total = Total /\ tok = rev /\ start = req.start /\ limit = req.limit
          /\ snap \in Seq(Items) /\ total \in Int /\ tok \in Nat /\ start \in Nat /\ limit \in Nat
    BY <1>1, <1>2
  <2>3. page = sourcePage(snap, total, tok, start, limit)  BY <2>1, <2>2
  <2>4. sourcePage(snap, total, tok, start, limit) \in Pages  BY <2>2, SourcePageType, SMTT(30)
  <2>5. sourcePage(snap, total, tok, start, limit).tok = tok  BY DEF sourcePage
  <2> QED BY <1>3, <2>2, <2>3, <2>4, <2>5 DEF Whole, Present
<1>4. CASE req.list \notin Sources
  <2>1. page = [items |-> wire.items, next |-> pageBounds(req.start, req.limit), tok |-> rev, snap |-> <<>>,
                total |-> Total]
    BY <1>4 DEF BrowsePage
  <2>2. pageBounds(req.start, req.limit) \in Int
    <3>1. -1 \in Int /\ req.start + Len(wire.items) \in Int  BY <1>1, SMTT(30)
    <3> QED BY <3>1 DEF pageBounds
  <2>3. <<>> \in Seq(Items)  BY SMTT(30)
  <2>4. ASSUME NEW next \in Int, NEW total \in Int
        PROVE  [items |-> wire.items, next |-> next, tok |-> rev, snap |-> <<>>, total |-> total] \in Pages
    BY <1>1, <2>3 DEF Pages
  <2>5. page \in Pages  BY <1>2, <2>1, <2>2, <2>4
  <2>6. ASSUME NEW next, NEW total,
               page = [items |-> wire.items, next |-> next, tok |-> rev, snap |-> <<>>, total |-> total]
        PROVE  page.tok = rev /\ page.snap = <<>> /\ page.items = wire.items
    BY <2>6, SMTT(30)
  <2> QED BY <1>1, <2>1, <2>5, <2>6 DEF Whole
<1> QED BY <1>3, <1>4

(* The reply arrives, or something fails.                                  *)
LEMMA ReplyInv ==
  ASSUME IndInv, BrowseReply \/ BrowseFails
  PROVE  IndInv'
<1>1. UNCHANGED <<env, refs, given>>  BY DEF BrowseReply, BrowseFails
<1>2. wire'.for # "browse"  BY NoReplyFor DEF BrowseReply, BrowseFails
<1>3. EnvType  BY DEF IndInv
<1>4. CASE req' = NoReq  BY <1>1, <1>2, <1>3, <1>4, NoReqAsked, QuietBrowse
<1>5. CASE req' # NoReq
  <2> DEFINE page == BrowsePage(req.list, req.start, req.limit)
  <2>1. /\ req.pc = "reply" /\ wire.for = "browse"
        /\ req' = [req EXCEPT !.pc = "finish", !.page = page]
    BY <1>5 DEF BrowseReply, BrowseFails
  <2>2. /\ page \in Pages /\ page.tok = rev /\ Whole(page, req.list)
        /\ req.view = rev => Present(req.list, page.items)
    BY <2>1, ReplyPage
  <2> HIDE DEF page
  <2>3. rev <= rev  BY <1>3, SMTT(30) DEF EnvType
  <2>4. Asked'  BY <1>1, <2>1, <2>2, <2>3, AskedMoves
  <2> QED BY <1>1, <1>2, <2>4, QuietBrowse
<1> QED BY <1>4, <1>5

(* A reference to an item of a page that is current.                       *)
LEMMA ItemSound ==
  ASSUME IndInv, req.pc = "finish", PageCurrent, NEW i \in DOMAIN req.page.items, Expires \in Nat
  PROVE  Sound(Reference(req.page.items[i], FALSE, Expires))
<1> DEFINE e == Reference(req.page.items[i], FALSE, Expires)
<1>1. /\ req \in Reqs /\ req.list \in Names /\ (req.parent = 0 => req.list = "root")
      /\ req.page.tok <= rev /\ (req.view = rev => Present(req.list, req.page.items))
  BY DEF IndInv, Asked
<1>2. req.page \in Pages  BY <1>1 DEF Reqs
<1>3. req.page.items \in Seq(Items) /\ req.page.tok \in Nat  BY <1>2 DEF Pages
<1>4. req.page.items[i] \in Items  BY <1>3, SMTT(30)
<1>5. /\ <<>> \in Seq(Items) /\ -1 \in Int /\ 0 \in Nat
      /\ \A x : DOMAIN <<x>> = {1} /\ <<x>>[1] = x
  BY SMTT(30)
<1>6. e = [item |-> req.page.items[i], cursor |-> FALSE, list |-> req.list, tok |-> req.page.tok,
           expires |-> Expires, start |-> 0, limit |-> 0, snap |-> <<>>, total |-> -1]
  BY DEF Reference
<1> HIDE DEF e
<1>7. /\ e.item = req.page.items[i] /\ e.list = req.list /\ e.tok = req.page.tok /\ e.snap = <<>>
      /\ ~e.cursor
  BY <1>6
<1>8. e \in Records  BY <1>1, <1>3, <1>4, <1>5, <1>6 DEF Records
<1>9. Present(req.list, <<req.page.items[i]>>)
  <2>1. CASE req.list \in Sources  BY <2>1 DEF Present
  <2>2. CASE req.list \notin Sources
    <3>1. req.parent # 0  BY <1>1, <2>2, CatalogAssumption
    <3>2. req.view = rev  BY <3>1 DEF PageCurrent
    <3> QED BY <1>1, <1>5, <3>2 DEF Present
  <2> QED BY <2>1, <2>2
<1>10. Sound(e)  BY <1>1, <1>4, <1>7, <1>8, <1>9 DEF Sound, Whole
<1> QED BY <1>10 DEF e

(* A reference to the next page.                                           *)
LEMMA CursorSound ==
  ASSUME IndInv, req.pc = "finish", req.page.next \in Nat, Expires \in Nat
  PROVE  Sound(Reference(NoEntry, TRUE, Expires))
<1> DEFINE e == Reference(NoEntry, TRUE, Expires)
<1>1. req \in Reqs /\ req.list \in Names /\ req.page.tok <= rev /\ Whole(req.page, req.list)
  BY DEF IndInv, Asked
<1>2. req.page \in Pages /\ req.limit \in Nat  BY <1>1 DEF Reqs
<1>3. req.page.snap \in Seq(Items) /\ req.page.tok \in Nat /\ req.page.total \in Int  BY <1>2 DEF Pages
<1>4. e = [item |-> NoEntry, cursor |-> TRUE, list |-> req.list, tok |-> req.page.tok,
           expires |-> Expires, start |-> req.page.next, limit |-> req.limit,
           snap |-> req.page.snap, total |-> req.page.total]
  BY DEF Reference
<1> HIDE DEF e
<1>5. e.list = req.list /\ e.tok = req.page.tok /\ e.snap = req.page.snap /\ e.cursor
  BY <1>4
<1>6. e \in Records  BY <1>1, <1>2, <1>3, <1>4 DEF Records
<1>7. Sound(e)  BY <1>1, <1>5, <1>6 DEF Sound, Whole
<1> QED BY <1>7 DEF e
(* What is left, and what is added.                                        *)
LEMMA FinishInv ==
  ASSUME IndInv, BrowseFinish
  PROVE  IndInv'
<1>1. req.pc = "finish" /\ req' = NoReq /\ UNCHANGED <<env, wire>>  BY DEF BrowseFinish
<1>2. EnvType /\ Table  BY DEF IndInv
<1>3. Asked'  BY <1>1, <1>2, NoReqAsked
<1>4. Wired'  BY <1>1 DEF IndInv, Wired
<1>5. \A e : Sound(e) => Sound(e)'  BY <1>1 DEF env, Sound, Present, Whole
<1>6. DOMAIN Kept \subseteq DOMAIN refs /\ \A r \in DOMAIN Kept : Kept[r] = refs[r]  BY DEF Kept, Restrict
<1>7. CASE UNCHANGED <<refs, given>>
  <2>1. EnvType'  BY <1>1, <1>2, <1>7 DEF env, EnvType
  <2>2. Table'  BY <1>2, <1>5, <1>7 DEF Table
  <2> QED BY <1>3, <1>4, <2>1, <2>2 DEF IndInv
<1>8. CASE refs' = Kept /\ UNCHANGED given
  <2>1. EnvType'  BY <1>1, <1>2, <1>8 DEF env, EnvType
  <2>2. Table'  BY <1>2, <1>5, <1>6, <1>8 DEF Table
  <2> QED BY <1>3, <1>4, <2>1, <2>2 DEF IndInv
<1> DEFINE n == Len(req.page.items)
           New(r) == IF r \in DOMAIN Kept THEN refs[r]
                     ELSE IF r <= given + n THEN Reference(req.page.items[r - given], FALSE, Expires)
                     ELSE Reference(NoEntry, TRUE, Expires)
<1>9. CASE /\ PageCurrent
           /\ given' = given + n + (IF req.page.next < 0 THEN 0 ELSE 1)
           /\ refs' = [r \in DOMAIN Kept \cup (given + 1)..given' |-> New(r)]
  <2>1. req \in Reqs  BY DEF IndInv, Asked
  <2>2. req.page \in Pages /\ req.cached \in Seq(Records)  BY <2>1 DEF Reqs
  <2>3. req.page.items \in Seq(Items) /\ req.page.next \in Int  BY <2>2 DEF Pages
  <2>4. n \in Nat /\ DOMAIN req.page.items = 1..n  BY <2>3, SMTT(30)
  <2>5. Expires \in Nat
    <3>1. now \in Nat /\ TTL \in Nat  BY <1>2, CatalogAssumption DEF EnvType
    <3>2. CASE req.cached # <<>>
      <4>1. req.cached[1] \in Records  BY <2>2, <3>2, SMTT(30)
      <4>2. req.cached[1].expires \in Nat  BY <4>1 DEF Records
      <4>3. now + TTL \in Nat /\ now + TTL \in Int /\ req.cached[1].expires \in Int  BY <3>1, <4>2, SMTT(30)
      <4>4. Least(now + TTL, req.cached[1].expires) \in {now + TTL, req.cached[1].expires}
        BY <4>3, LeastBound
      <4> QED BY <4>2, <4>3, <4>4 DEF Expires
    <3>3. CASE req.cached = <<>>
      <4>1. now + TTL \in Nat  BY <3>1, SMTT(30)
      <4> QED BY <3>3, <4>1 DEF Expires
    <3> QED BY <3>2, <3>3
  <2> HIDE DEF n
  <2>6. given \in Nat /\ DOMAIN Kept \subseteq 1..given  BY <1>2, <1>6 DEF EnvType, Table
  <2>7. given' \in Nat /\ given <= given'  BY <1>9, <2>3, <2>4, <2>6, SMTT(30)
  <2>8. DOMAIN refs' \subseteq 1..given'
    <3>1. DOMAIN refs' = DOMAIN Kept \cup (given + 1)..given'  BY <1>9
    <3> QED BY <2>6, <2>7, <3>1, SMTT(30)
  <2>9. ASSUME NEW r \in DOMAIN refs'  PROVE  Sound(New(r))
    <3>1. CASE r \in DOMAIN Kept  BY <1>2, <1>6, <3>1 DEF Table
    <3>2. CASE r \notin DOMAIN Kept /\ r <= given + n
      <4>1. r \in (given + 1)..given'  BY <1>9, <2>9, <3>2
      <4>2. r - given \in DOMAIN req.page.items  BY <2>4, <2>6, <2>7, <3>2, <4>1, SMTT(30)
      <4> QED BY <1>1, <1>9, <2>5, <3>2, <4>2, ItemSound
    <3>3. CASE r \notin DOMAIN Kept /\ ~(r <= given + n)
      <4>1. r \in (given + 1)..given'  BY <1>9, <2>9, <3>3
      <4>2. req.page.next \in Nat  BY <1>9, <2>3, <2>4, <2>6, <3>3, <4>1, SMTT(30)
      <4> QED BY <1>1, <2>5, <3>3, <4>2, CursorSound
    <3> QED BY <3>1, <3>2, <3>3
  <2>10. \A r \in DOMAIN refs' : refs'[r] = New(r)  BY <1>9
  <2> HIDE DEF New
  <2>11. Table'  BY <1>5, <2>8, <2>9, <2>10 DEF Table
  <2>12. EnvType'  BY <1>1, <1>2, <2>7 DEF env, EnvType
  <2> QED BY <1>3, <1>4, <2>11, <2>12 DEF IndInv
<1> QED BY <1>7, <1>8, <1>9 DEF BrowseFinish
-----------------------------------------------------------------------------
(* Every step of the catalogue keeps the table sound.                      *)
LEMMA NextInv ==
  ASSUME IndInv, [Next]_vars
  PROVE  IndInv'
<1>1. CASE Tick \/ Change \/ Announce \/ Drop \/ Connect  BY <1>1, SurroundingsInv
<1>2. CASE Resolve  BY <1>2, ResolveInv
<1>3. CASE Browse  BY <1>3, BeginInv, CachedInv, AskInv, ReplyInv, FinishInv DEF Browse
<1>4. CASE UNCHANGED vars
  BY <1>4 DEF vars, env, IndInv, EnvType, Table, Asked, Wired, Sound, Present, Whole
<1> QED BY <1>1, <1>2, <1>3, <1>4 DEF Next

(* The references of the table, the page that Browse holds and the reply   *)
(* on its way to it fit the revision they carry, always: the inductive     *)
(* invariant of Browse, which checks before and after reading without the  *)
(* lock.                                                                   *)
THEOREM Invariance == Spec => []IndInv
<1>1. Init => IndInv  BY InitInv
<1>2. IndInv /\ [Next]_vars => IndInv'  BY NextInv
<1> QED BY <1>1, <1>2, PTL DEF Spec

(* A reference that Resolve accepts names an entry that its container has  *)
(* now, as far as changes are announced, for every library, page size,     *)
(* lifetime and capacity.                                                  *)
THEOREM RefsAlwaysHonest == Spec => []RefsHonest
<1>1. ASSUME IndInv, lib = seen, NEW r \in DOMAIN refs, valid(r), ~refs[r].cursor,
             refs[r].list \notin Sources
      PROVE  refs[r].item \in Range(Library[lib][refs[r].list])
  <2>1. Present(refs[r].list, <<refs[r].item>>)  BY <1>1 DEF IndInv, Table, Sound, valid
  <2>2. \A x : 1 \in DOMAIN <<x>> /\ <<x>>[1] = x  BY SMTT(30)
  <2> QED BY <1>1, <2>1, <2>2 DEF Present
<1>2. IndInv => RefsHonest  BY <1>1 DEF RefsHonest
<1> QED BY <1>2, Invariance, PTL
=============================================================================
