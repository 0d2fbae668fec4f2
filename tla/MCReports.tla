----------------------------- MODULE MCReports -----------------------------
(***************************************************************************)
(* Two sections of media and one of another type, three items, two         *)
(* collections, two playlists and a history of three views, listed two     *)
(* records a page.                                                         *)
(***************************************************************************)
EXTENDS Reports, TLC

Item(key, title, type, guid, thumb, media) ==
  [key |-> key, title |-> title, type |-> type, guid |-> guid, thumb |-> thumb, media |-> media]

Movie == Item(1, "Up", "movie", TRUE, "poster", << <<[ref |-> "a", size |-> 2]>> >>)
Copy == Item(2, "UP", "movie", FALSE, NoThumb, << <<[ref |-> "a", size |-> 2], [ref |-> "b", size |-> Unknown]>> >>)
Other == Item(3, "Brazil", "movie", TRUE, "poster", <<>>)
Clip == Item(4, "up ", "clip", TRUE, "poster", << <<>>, <<[ref |-> "d", size |-> 4]>> >>)
Folder == Item(5, "Up", "folder", FALSE, NoThumb, << <<[ref |-> "c", size |-> 0]>> >>)
Nameless == Item(NoKey, "Up", "movie", TRUE, "poster", <<>>)

View(key, at, account) ==
  [key |-> key, at |-> at, account |-> account, section |-> "films", duration |-> IF at = 1 THEN Unknown ELSE 1]

MCFoldedTitle == [t \in {"Up", "UP", "up ", "Brazil"} |-> IF t = "Brazil" THEN "brazil" ELSE "up"]

MCSections == <<"films", "more", "news">>
MCCollectionsOf == ("films" :> "films collections") @@ ("more" :> "more collections") @@ ("news" :> "news collections")

Store(views, films, collections, saga) ==
  ("history" :> views) @@ ("films" :> films) @@ ("more" :> <<Clip>>) @@ ("news" :> <<Folder>>)
  @@ ("films collections" :> collections) @@ ("more collections" :> <<>>) @@ ("news collections" :> <<>>)
  @@ ("playlists" :> <<[key |-> "saga"], [key |-> "void"]>>) @@ ("saga" :> saga) @@ ("void" :> <<>>)

Ids(keys) == [i \in DOMAIN keys |-> [key |-> keys[i]]]

MCInitialStores == {
  Store(<<View(1, 1, "ann"), View(2, 2, "ann"), View(1, 3, "bob")>>, <<Movie, Copy, Other>>,
        Ids(<<"void", "saga">>), Ids(<<1, 2, 1>>)),
  Store(<<View(NoKey, 1, "ann"), View(1, 1, "ann")>>, <<Movie, Clip>>, Ids(<<"void", NoKey>>), Ids(<<NoKey>>)),
  Store(<<>>, <<Nameless, Other>>, Ids(<<"void", "void">>), Ids(<<>>))}

MCMayArrive == [key \in {"history", "films", "more", "news", "films collections", "more collections",
                         "news collections", "playlists", "saga", "void"} |->
  CASE key = "history" -> {View(3, 4, "ann"), View(1, 4, "bob")}
    [] key = "films" -> {Movie, Clip}
    [] key = "saga" -> {[key |-> 1], [key |-> 2]}
    [] OTHER -> {}]
=============================================================================
