------------------------------- MODULE Catalog -------------------------------
(***************************************************************************)
(* The catalogue of internal/heos (Catalog, Client.BrowseAll) and the      *)
(* resolution of a playback request of internal/control against it.        *)
(*                                                                         *)
(* A browsing request hands out opaque references that expire, are bounded *)
(* in number and belong to one catalogue revision; a playback request      *)
(* turns references into an item, its member tracks, or a list of parts;   *)
(* the worker of a buffered playback prepares the later parts itself.      *)
(*                                                                         *)
(* The music server changes (lib) before the player announces it, and a    *)
(* reply may have been composed before an announcement that overtakes it:  *)
(* a reply carries the revision of its arrival.  rev stands for the pair   *)
(* (Generation, Catalog) of the token, which never returns to an earlier   *)
(* value.  There is one configured source per player.                      *)
(***************************************************************************)
EXTENDS Integers, Sequences, FiniteSetsExt, Functions

CONSTANTS
  Library,   \* the contents over time: Library[v][list] is a sequence of entries
  Sources,   \* the lists that are read without a range, "root" among them
  Requests,  \* playback requests: [kind, refs, counts]
  Limits,    \* page sizes of browsing requests
  AllPage,   \* page size of BrowseAll
  Capacity, TTL,
  MaxDepth, MaxPages,                \* traversal limits
  MaxRev, MaxNow, MaxRefs            \* bounds of the instance

Entry == [kind : {"source", "container", "track", "other"}, id : STRING]
Names == DOMAIN Library[1]

(* What can be browsed has contents.                                       *)
Items == {e \in Entry : e.kind \in {"source", "container"} => e.id \in Names}

ASSUME LibraryAssumption ==
  /\ Library \in Seq([Names -> Seq(Items)]) /\ "root" \in Names
  /\ {MaxRev, MaxNow, MaxRefs} \subseteq Nat
ASSUME CatalogAssumption ==
  /\ Library # <<>> /\ "root" \in Sources
  /\ Limits \cup {AllPage, Capacity, TTL, MaxPages} \subseteq Nat \ {0}
  /\ \A r \in Requests : r.kind = "single" => Len(r.refs) = 1

VARIABLES
  lib, seen,        \* the library now, and when the revision last advanced
  rev, up, now,     \* the client's view, and the clock
  refs, given,      \* the reference table, and how many were handed out
  wire,             \* the reply that is on its way
  req,              \* the browsing request
  plan              \* the playback request

env == <<lib, seen, rev, up, now>>
vars == <<env, refs, given, wire, req, plan>>

NoEntry == [kind |-> "", id |-> ""]
NoReply == [for |-> "", items |-> <<>>, total |-> 0, counted |-> "no"]
NoPage == [items |-> <<>>, next |-> -1, tok |-> 0, snap |-> <<>>, total |-> -1]
NoReq == [pc |-> "idle", parent |-> 0, cursor |-> 0, list |-> "", start |-> 0, limit |-> 0,
          view |-> 0, cached |-> <<>>, page |-> NoPage]
NoBrowse == [list |-> "", start |-> 0, tok |-> 0, items |-> <<>>, pages |-> 0, depth |-> 0]
NoPlan == [pc |-> "idle", kind |-> "", refs |-> <<>>, counts |-> <<>>, token |-> 0, parts |-> <<>>,
           browse |-> NoBrowse, todo |-> <<>>, done |-> {}, members |-> {}]

Init ==
  /\ lib = 1 /\ seen = 1 /\ rev = 1 /\ up = TRUE /\ now = 0
  /\ refs = [r \in {} |-> NoEntry] /\ given = 0
  /\ wire = NoReply /\ req = NoReq /\ plan = NoPlan
-----------------------------------------------------------------------------
(* The surroundings.                                                       *)

Tick == now < MaxNow /\ now' = now + 1 /\ UNCHANGED <<lib, seen, rev, up, refs, given, wire, req, plan>>

(* The music server's contents change; the player announces it later, or   *)
(* the connection breaks and is made anew.                                 *)
Change ==
  /\ lib < Len(Library) /\ lib' = lib + 1
  /\ UNCHANGED <<seen, rev, up, now, refs, given, wire, req, plan>>
Announce ==
  /\ up /\ rev < MaxRev /\ rev' = rev + 1 /\ seen' = lib
  /\ UNCHANGED <<lib, up, now, refs, given, wire, req, plan>>
Drop ==
  /\ up /\ rev < MaxRev /\ up' = FALSE /\ rev' = rev + 1 /\ seen' = lib /\ wire' = NoReply
  /\ UNCHANGED <<lib, now, refs, given, req, plan>>
Connect ==
  /\ ~up /\ up' = TRUE /\ rev' = rev + 1 /\ seen' = lib
  /\ UNCHANGED <<lib, now, refs, given, wire, req, plan>>
-----------------------------------------------------------------------------
(* Pages.                                                                  *)

Least(a, b) == IF a < b THEN a ELSE b

(* The player answers one command at a time.  Lists come with their        *)
(* length, with a zero for an unknown one, or without; the reply may hold  *)
(* fewer entries than were asked for, or more.  Without a length a short   *)
(* page is the last one, and one that is not last is never empty.          *)
Compose(who, list, start, limit) ==
  /\ wire = NoReply /\ up
  /\ LET all == Library[lib][list]
         first == IF list \in Sources THEN 0 ELSE Least(start, Len(all))
         asked == IF list \in Sources THEN Len(all) ELSE Least(limit, Len(all) - first)
     IN \E counted \in {"yes", "zero", "no"}, n \in 0..(Len(all) - first) :
          /\ counted = "no" => n >= asked
          /\ counted = "zero" => n >= IF list \in Sources THEN asked ELSE Least(1, asked)
          /\ wire' = [for |-> who, total |-> Len(all), counted |-> counted,
                      items |-> SubSeq(all, first + 1, first + n)]

(* pageBounds: the next start, -1 at the end of the list.  More entries    *)
(* than were asked for or announced, and none before the announced end,    *)
(* are a protocol error.  (So is a reply that contradicts itself: it is    *)
(* one of BrowseFails and ReadFails.)                                      *)
Total == IF wire.counted = "yes" /\ wire.total > 0 THEN wire.total ELSE -1
pageProblem(start, limit) ==
  LET count == Len(wire.items) IN
  \/ count > limit
  \/ Total >= 0 /\ (start + count > Total \/ (count = 0 /\ start < Total))
pageBounds(start, limit) ==
  LET count == Len(wire.items)
      end == start + count
      last == \/ count = 0
              \/ Total >= 0 /\ end >= Total
              \/ wire.counted = "no" /\ count < limit
  IN IF last THEN -1 ELSE end

(* A page of a list that is kept as a whole.                               *)
sourcePage(items, total, tok, start, limit) ==
  LET end == Least(start + limit, Len(items)) IN
  [items |-> SubSeq(items, start + 1, end), next |-> IF end < Len(items) THEN end ELSE -1,
   tok |-> tok, snap |-> items, total |-> total]

(* BrowsePage, for the reply that has arrived.  A list that is read        *)
(* without a range must be complete (ErrIncompleteSource); one of unknown  *)
(* length may have been cut at 50 entries.                                 *)
IncompleteSource == IF Total >= 0 THEN Total # Len(wire.items) ELSE Len(wire.items) >= 50
BrowseProblem(list, start, limit) ==
  IF list \in Sources THEN pageProblem(0, 100) \/ IncompleteSource ELSE pageProblem(start, limit)
BrowsePage(list, start, limit) ==
  IF list \in Sources THEN sourcePage(wire.items, Total, rev, start, limit)
  ELSE [items |-> wire.items, next |-> pageBounds(start, limit), tok |-> rev, snap |-> <<>>,
        total |-> Total]
-----------------------------------------------------------------------------
(* Browse: references are checked under the lock, the page is read without *)
(* it, and everything is checked again before references are handed out.   *)

valid(r) == r \in DOMAIN refs /\ up /\ refs[r].tok = rev /\ now < refs[r].expires

BrowseBegin ==
  /\ req.pc = "idle" /\ given < MaxRefs
  /\ \E parent, cursor \in {0} \cup DOMAIN refs, limit \in Limits :
       LET list == IF parent = 0 THEN "root" ELSE refs[parent].item.id IN
       /\ parent # 0 => valid(parent) /\ ~refs[parent].cursor
                        /\ refs[parent].item.kind \in {"source", "container"}
       /\ cursor # 0 => valid(cursor) /\ refs[cursor].cursor /\ refs[cursor].list = list
                        /\ refs[cursor].limit = limit
       /\ req' = [NoReq EXCEPT !.pc = "read", !.parent = parent, !.cursor = cursor, !.list = list,
                    !.limit = limit, !.view = rev,
                    !.start = IF cursor = 0 THEN 0 ELSE refs[cursor].start,
                    !.cached = IF cursor = 0 THEN <<>> ELSE <<refs[cursor]>>]
  /\ UNCHANGED <<env, refs, given, wire, plan>>

(* A later page of a list read without a range comes from its snapshot.    *)
BrowseCached ==
  /\ req.pc = "read" /\ req.cached # <<>> /\ req.cached[1].snap # <<>>
  /\ LET c == req.cached[1] IN
     req' = [req EXCEPT !.pc = "finish", !.page = sourcePage(c.snap, c.total, c.tok, req.start, req.limit)]
  /\ UNCHANGED <<env, refs, given, wire, plan>>
BrowseAsk ==
  /\ req.pc = "read" /\ (req.cached # <<>> => req.cached[1].snap = <<>>)
  /\ Compose("browse", req.list, req.start, req.limit) /\ req' = [req EXCEPT !.pc = "reply"]
  /\ UNCHANGED <<env, refs, given, plan>>
BrowseReply ==
  /\ req.pc = "reply" /\ wire.for = "browse"
  /\ req' = IF BrowseProblem(req.list, req.start, req.limit) THEN NoReq
            ELSE [req EXCEPT !.pc = "finish", !.page = BrowsePage(req.list, req.start, req.limit)]
  /\ wire' = NoReply
  /\ UNCHANGED <<env, refs, given, plan>>
BrowseFails ==
  /\ req.pc \in {"read", "reply"} /\ req' = NoReq
  /\ wire' = IF wire.for = "browse" THEN NoReply ELSE wire
  /\ UNCHANGED <<env, refs, given, plan>>

(* The page belongs to the present catalogue, and so do the references it  *)
(* was asked with.                                                         *)
PageCurrentOnly == up /\ req.page.tok = rev
PageCurrent ==
  /\ up /\ req.page.tok = rev
  /\ req.parent # 0 \/ req.cursor # 0 => req.view = rev
  /\ \A r \in {req.parent, req.cursor} \ {0} : valid(r)

Kept == Restrict(refs, {r \in DOMAIN refs : valid(r)})
Weight(t) == MapThenSumSet(LAMBDA r : 1 + Len(t[r].snap), DOMAIN t)
NeededItems == Len(req.page.items) + (IF req.page.next >= 0 THEN 1 ELSE 0)
Needed == Len(req.page.items) + (IF req.page.next >= 0 THEN 1 + Len(req.page.snap) ELSE 0)

Reference(item, cursor, expires) ==
  [item |-> item, cursor |-> cursor, list |-> req.list, tok |-> req.page.tok, expires |-> expires,
   start |-> IF cursor THEN req.page.next ELSE 0, limit |-> IF cursor THEN req.limit ELSE 0,
   snap |-> IF cursor THEN req.page.snap ELSE <<>>, total |-> IF cursor THEN req.page.total ELSE -1]

(* Reading a cached page cannot refresh its evidence.                      *)
Expires == IF req.cached # <<>> /\ req.cached[1].snap # <<>>
           THEN Least(now + TTL, req.cached[1].expires) ELSE now + TTL

BrowseFinish ==
  /\ req.pc = "finish" /\ req' = NoReq
  /\ IF ~PageCurrent THEN UNCHANGED <<refs, given>>
     ELSE IF Weight(Kept) + Needed > Capacity THEN refs' = Kept /\ UNCHANGED given
     ELSE LET n == Len(req.page.items) IN
          /\ given' = given + n + (IF req.page.next < 0 THEN 0 ELSE 1)
          /\ refs' = [r \in DOMAIN Kept \cup (given + 1)..given' |->
                        IF r \in DOMAIN Kept THEN refs[r]
                        ELSE IF r <= given + n THEN Reference(req.page.items[r - given], FALSE, Expires)
                        ELSE Reference(NoEntry, TRUE, Expires)]
  /\ UNCHANGED <<env, wire, plan>>
-----------------------------------------------------------------------------
(* resolvePlayback: references become an item and its tracks.              *)

connected(tok) == up
sameCatalog(tok) == up /\ tok = rev

Refused == [plan EXCEPT !.pc = "refused", !.browse = NoBrowse, !.todo = <<>>, !.done = {}, !.members = {}]
Plan == UNCHANGED <<env, refs, given, req>>

(* Several references, and a buffered playback, first note the revision.   *)
resolvePlayback ==
  /\ plan.pc = "idle" /\ given > 0
  /\ \E r \in Requests :
       /\ Range(r.refs) \subseteq 1..given
       /\ plan' = [NoPlan EXCEPT !.pc = "source", !.kind = r.kind, !.refs = r.refs, !.counts = r.counts,
                     !.token = IF r.kind = "single" THEN 0 ELSE rev]
  /\ Plan /\ UNCHANGED wire

(* resolveSource reads the list of the player's servers and finds the      *)
(* configured source, or fails (ReadFails): none or several of its name.   *)
(* A buffered playback asks once, the others for every reference.          *)
resolveSource ==
  /\ plan.pc = "source" /\ up
  /\ plan' = [plan EXCEPT !.pc = "resolve"]
  /\ Plan /\ UNCHANGED wire

(* Catalog.Resolve, for the next reference.                                *)
Next1 == Len(plan.parts) + 1
Resolvable(r) == valid(r) /\ ~refs[r].cursor
Resolved(r, ids) == [item |-> refs[r].item, tok |-> refs[r].tok, ids |-> ids]

(* resolveItem: a container or a playable track.                           *)
resolveItem ==
  /\ plan.pc = "resolve" /\ plan.kind # "buffered"
  /\ LET r == plan.refs[Next1]
         track == refs[r].item.kind = "track"
         many == plan.kind = "parts"
     IN plan' = IF ~Resolvable(r) \/ refs[r].item.kind \notin {"container", "track"} THEN Refused
                ELSE [plan EXCEPT
                        !.parts = Append(@, Resolved(r, IF track THEN <<refs[r].item.id>> ELSE <<>>)),
                        !.members = IF track /\ ~many THEN {refs[r].item.id} ELSE {},
                        !.pc = IF many THEN IF ~track THEN "list"
                                            ELSE IF Next1 < Len(plan.refs) THEN "source" ELSE "final"
                               ELSE IF track THEN "accepted" ELSE "members"]
  /\ Plan /\ UNCHANGED wire

(* resolveBufferedPlayback: every reference, the contents later; a track   *)
(* is a part of one.                                                       *)
resolveBufferedPlayback ==
  /\ plan.pc = "resolve" /\ plan.kind = "buffered"
  /\ LET r == plan.refs[Next1] IN
     plan' = IF \/ ~Resolvable(r) \/ refs[r].item.kind \notin {"container", "track"}
                \/ refs[r].item.kind = "track" /\ plan.counts[Next1] # 1 THEN Refused
             ELSE [plan EXCEPT !.parts = Append(@, Resolved(r, <<>>)),
                     !.pc = IF Next1 < Len(plan.refs) THEN "resolve" ELSE "prepare"]
  /\ Plan /\ UNCHANGED wire

(* playableMembers: the revision, then container after container; a        *)
(* container that is met twice, or too deep, is refused.                   *)
playableMembers ==
  /\ plan.pc = "members"
  /\ plan' = [plan EXCEPT !.token = rev, !.pc = "list", !.todo = <<[list |-> plan.parts[1].item.id, depth |-> 0]>>]
  /\ Plan /\ UNCHANGED wire

(* prepareBufferedPart: the next part without tracks, unless the catalogue *)
(* is another one.                                                         *)
Ready == Cardinality({i \in DOMAIN plan.parts : plan.parts[i].ids # <<>>})
prepareBufferedPart ==
  /\ plan.pc = "prepare" \/ (plan.pc = "accepted" /\ plan.kind = "buffered" /\ Ready < Len(plan.parts))
  /\ LET i == Ready + 1 IN
     plan' = IF ~sameCatalog(plan.token) THEN Refused
             ELSE IF plan.parts[i].item.kind = "track"
             THEN [plan EXCEPT !.parts[i].ids = <<plan.parts[i].item.id>>, !.pc = "prepared"]
             ELSE [plan EXCEPT !.pc = "list"]
  /\ Plan /\ UNCHANGED wire

(* BrowseAll: page after page; the first page's revision binds the others. *)
ListOf == CASE plan.kind = "single" -> plan.todo[1].list
            [] plan.kind = "parts" -> plan.parts[Len(plan.parts)].item.id
            [] plan.kind = "buffered" -> plan.parts[Ready + 1].item.id
Traversable(n) == n.list \notin plan.done /\ n.depth <= MaxDepth /\ Cardinality(plan.done) < MaxPages
BrowseAll ==
  /\ plan.pc = "list"
  /\ plan' = IF plan.kind = "single" /\ ~Traversable(plan.todo[1]) THEN Refused
             ELSE [plan EXCEPT !.pc = "ask",
                     !.browse = [NoBrowse EXCEPT !.list = ListOf,
                                   !.depth = IF plan.kind = "single" THEN plan.todo[1].depth ELSE 0],
                     !.done = IF plan.kind = "single" THEN @ \cup {ListOf} ELSE @,
                     !.todo = IF plan.kind = "single" THEN Tail(@) ELSE @]
  /\ Plan /\ UNCHANGED wire
PageAsk ==
  /\ plan.pc = "ask" /\ Compose("plan", plan.browse.list, plan.browse.start, AllPage)
  /\ plan' = [plan EXCEPT !.pc = "reply"]
  /\ Plan
PageReply ==
  /\ plan.pc = "reply" /\ wire.for = "plan" /\ wire' = NoReply
  /\ LET b == plan.browse
         page == BrowsePage(b.list, b.start, AllPage)
         all == b.items \o page.items
     IN plan' = IF BrowseProblem(b.list, b.start, AllPage) \/ (b.pages > 0 /\ b.tok # page.tok) THEN Refused
                ELSE IF page.next < 0 THEN [plan EXCEPT !.pc = "listed", !.browse = [NoBrowse EXCEPT !.items = all, !.depth = b.depth]]
                ELSE IF b.pages + 1 = MaxPages THEN Refused
                ELSE [plan EXCEPT !.pc = "ask", !.browse.start = page.next, !.browse.items = all,
                        !.browse.tok = page.tok, !.browse.pages = @ + 1]
  /\ Plan
ReadFails ==
  /\ plan.pc \in {"source", "ask", "reply"} /\ plan' = Refused
  /\ wire' = IF wire.for = "plan" THEN NoReply ELSE wire
  /\ Plan

(* What a complete list adds: nested containers and members to a single    *)
(* item, tracks to a part.                                                 *)
IdsOf(items) == [i \in DOMAIN items |-> items[i].id]
AllTracks(items) == items # <<>> /\ \A i \in DOMAIN items : items[i].kind = "track"
Collect ==
  /\ plan.pc = "listed" /\ plan.kind = "single"
  /\ LET items == plan.browse.items
         nested == SelectSeq(items, LAMBDA e : e.kind = "container")
         todo == plan.todo \o [i \in DOMAIN nested |-> [list |-> nested[i].id, depth |-> plan.browse.depth + 1]]
     IN plan' = IF \E i \in DOMAIN items : items[i].kind \notin {"container", "track"} THEN Refused
                ELSE [plan EXCEPT !.todo = todo, !.browse = NoBrowse,
                        !.members = @ \cup {e.id : e \in {f \in Range(items) : f.kind = "track"}},
                        !.pc = IF todo = <<>> THEN "final" ELSE "list"]
  /\ Plan /\ UNCHANGED wire
Fill ==
  /\ plan.pc = "listed" /\ plan.kind # "single"
  /\ LET i == IF plan.kind = "parts" THEN Len(plan.parts) ELSE Ready + 1
         items == plan.browse.items
     IN plan' = IF ~AllTracks(items) \/ (plan.kind = "buffered" /\ Len(items) # plan.counts[i]) THEN Refused
                ELSE [plan EXCEPT !.parts[i].ids = IdsOf(items), !.browse = NoBrowse,
                        !.pc = CASE plan.kind = "buffered" -> "prepared"
                                 [] plan.kind = "parts" /\ Next1 <= Len(plan.refs) -> "source"
                                 [] OTHER -> "final"]
  /\ Plan /\ UNCHANGED wire

(* The catalogue must still be the one of the beginning.                   *)
Prepared ==
  /\ plan.pc = "prepared"
  /\ plan' = IF ~sameCatalog(plan.token) THEN Refused
             ELSE [plan EXCEPT !.pc = IF Ready > 2 THEN "accepted"
                                      ELSE IF Ready < Least(2, Len(plan.parts)) THEN "prepare" ELSE "final"]
  /\ Plan /\ UNCHANGED wire
Accept ==
  /\ plan.pc = "final"
  /\ plan' = IF ~sameCatalog(plan.token) \/ (plan.kind = "single" /\ plan.members = {}) THEN Refused
             ELSE [plan EXCEPT !.pc = "accepted", !.done = {}]
  /\ Plan /\ UNCHANGED wire

(* The answer is given; another request may follow.                        *)
Answered ==
  /\ plan.pc = "refused" \/ (plan.pc = "accepted" /\ (plan.kind = "buffered" => Ready = Len(plan.parts)))
  /\ plan' = NoPlan
  /\ Plan /\ UNCHANGED wire
-----------------------------------------------------------------------------
Browse == BrowseBegin \/ BrowseCached \/ BrowseAsk \/ BrowseReply \/ BrowseFails \/ BrowseFinish
Resolve == \/ resolvePlayback \/ resolveSource \/ resolveItem \/ resolveBufferedPlayback \/ playableMembers
           \/ prepareBufferedPart \/ BrowseAll \/ PageAsk \/ PageReply \/ ReadFails \/ Collect \/ Fill \/ Prepared \/ Accept
           \/ Answered
Next == Tick \/ Change \/ Announce \/ Drop \/ Connect \/ Browse \/ Resolve
Spec == Init /\ [][Next]_vars
-----------------------------------------------------------------------------
(* The table never weighs more than its capacity, snapshots of whole lists *)
(* included, whatever pages are asked for and whenever references expire   *)
(* (Browse purges, then counts).                                           *)
CacheBounded == Weight(refs) <= Capacity

(* A reference that Resolve would accept names an entry that its container *)
(* has now, unless a change of the library is not announced yet: no page   *)
(* composed before an announcement enters the table after it.  (The root   *)
(* of a source is asked without a reference; its revision is not compared  *)
(* with the one before the read.)                                          *)
RefsHonest ==
  lib = seen =>
    \A r \in DOMAIN refs :
      valid(r) /\ ~refs[r].cursor /\ refs[r].list \notin Sources =>
        refs[r].item \in Range(Library[lib][refs[r].list])

(* The tracks below a list, and that no list is met twice on the way.      *)
Lists(e) == {f.id : f \in {g \in Range(e) : g.kind = "container"}}
Tracks(e) == {f.id : f \in {g \in Range(e) : g.kind = "track"}}
Below(list) ==
  LET B[n \in 0..MaxDepth] == IF n = 0 THEN {list}
                              ELSE B[n - 1] \cup UNION {Lists(Library[lib][c]) : c \in B[n - 1]}
  IN B[MaxDepth]

Exact ==
  IF plan.kind = "single"
  THEN LET item == plan.parts[1].item IN
       plan.members = IF item.kind = "track" THEN {item.id}
                      ELSE UNION {Tracks(Library[lib][c]) : c \in Below(item.id)}
  ELSE \A i \in DOMAIN plan.parts :
         LET part == plan.parts[i] IN
         /\ part.tok = rev
         /\ part.ids # <<>> => part.ids = IF part.item.kind = "track" THEN <<part.item.id>>
                                          ELSE IdsOf(Library[lib][part.item.id])

(* An accepted playback is one picture of the library: the members of the  *)
(* item are all the tracks below it, the tracks of every part are those of *)
(* its container in order, and the parts were resolved in the present      *)
(* revision, however the pages, announcements and reconnections interleave *)
(* with the reads; also for the parts that the worker prepares later.      *)
PlanExact ==
  [][plan'.pc = "accepted" /\ plan.pc # "accepted" /\ lib = seen => Exact']_vars
=============================================================================
