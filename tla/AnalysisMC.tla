-------------------------------- MODULE AnalysisMC --------------------------------
(***************************************************************************)
(* Small instances of Analysis.                                            *)
(***************************************************************************)
EXTENDS Analysis

tile(entity) == [type |-> "tile", entity |-> entity]
titled(entity) == [type |-> "tile", entity |-> entity, title |-> "t"]
heading(title) == [type |-> "heading", title |-> title]
frame(url) == [type |-> "iframe", url |-> url]

Cards0 == {tile("lamp"), heading("a"), titled("fan"), titled("lamp"), frame("x"), heading("b")}
Owns0 == {"plain", "wide"}
Titles0 == {None, "home"}
Paths0 == {"a", "b"}

view(path, layout, cards, badges, sections) ==
  [path |-> path, layout |-> layout, title |-> None, cards |-> cards,
   badges |-> badges, sections |-> sections]

Board(views) == [title |-> None, views |-> views]

Boards0 ==
  {Board(<<view("a", "sections", <<>>, <<>>,
           <<Section("plain", <<tile("lamp"), heading("a")>>),
             Section("plain", <<tile("lamp")>>)>>)>>),
   Board(<<view("a", "sections", <<>>, <<>>,
           <<Section("plain", <<tile("lamp")>>), Section("wide", <<heading("a")>>),
             Section("plain", <<>>)>>)>>),
   Board(<<view("a", "masonry", <<titled("fan"), frame("x"), heading("b")>>, <<tile("lamp")>>, <<>>),
           view(None, "masonry", <<tile("lamp")>>, <<>>, <<>>)>>),
   Board(<<view("a", "masonry", <<tile("lamp")>>, <<>>, <<>>),
           view("b", "masonry", <<>>, <<>>, <<>>)>>)}

\* A view with a path before two without one, told apart by their titles.
Boards1 ==
  {Board(<<view("a", "masonry", <<>>, <<>>, <<>>),
           [view(None, "masonry", <<tile("lamp")>>, <<>>, <<>>) EXCEPT !.title = "home"],
           view(None, "masonry", <<>>, <<>>, <<>>)>>)}
================================================================================
