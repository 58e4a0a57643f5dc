--------------------------------- MODULE MCIPTV ---------------------------------
(* Small instances of IPTV: a playlist with an entry that has no address and an *)
(* orphan, one with an item twice under different titles, one beyond the limit  *)
(* of items.                                                                    *)
EXTENDS IPTV

News == Extinf("news", "News", "", "tv")
Retitled == Extinf("news", "Headlines", "", "tv")
Film == Extinf("", "Film", "Movies", "")
Sport == Extinf("", "Sport", "", "live")

MCServed == {
  <<News, Address("u1"), Film, Address("u2")>>,
  <<Film, News, Address("u3"), Retitled, Address("u1"), Address("u2")>>,
  <<News, Address("u1"), Sport, Address("u2"), News, Address("u3"), Film, Address("u1")>>}

MCGuides == {
  <<Channel("news"), Channel(""), Programme("news", 1, 2)>>,
  <<Channel("news"), Programme("news", 1, 2), Programme("film", 2, 3)>>,
  <<Channel("news"), Programme("news", 2, 2)>>}

MCOptions == [items |-> 3, batch |-> 1]
MCMovies == {"Movies"}
MCPlayable == {"u1", "u2", "u3"}
================================================================================
