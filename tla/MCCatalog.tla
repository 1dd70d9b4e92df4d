----------------------------- MODULE MCCatalog -----------------------------
EXTENDS Catalog

C(id) == [kind |-> "container", id |-> id]
T(id) == [kind |-> "track", id |-> id]

(* The source shows a folder and an album; the folder holds the album and  *)
(* a track.  Later the album has lost a track and the folder holds itself. *)
Version(folder, album) ==
  [root |-> <<C("folder"), C("album")>>, folder |-> folder, album |-> album]
MCLibrary == <<Version(<<C("album"), T("c")>>, <<T("a"), T("b")>>),
               Version(<<C("folder"), C("album")>>, <<T("b")>>)>>

Request(kind, asked, counts) == [kind |-> kind, refs |-> asked, counts |-> counts]
MCRequests == {Request("single", <<1>>, <<>>), Request("single", <<4>>, <<>>), Request("parts", <<2, 4>>, <<>>),
               Request("buffered", <<2, 2, 2>>, <<2, 2, 2>>)}
=============================================================================
