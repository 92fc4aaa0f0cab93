---------------------------- MODULE MCStorageApi ----------------------------
(* A build of three files: one in two frames, the second of them sealed; one *)
(* without a frame table, sealed under two keys; one sealed once too often. *)
EXTENDS StorageApi

b(x) == <<"byte", x>>

MCEKey == {"eEnc", "eRoot", "e1", "e2", "e3"}
MCCKey == {"cRoot", "c1", "c2", "c3"}
MCEncoding == [c \in {"cRoot", "c1", "c2"} |->
                 CASE c = "cRoot" -> <<"eRoot">> [] c = "c1" -> <<"e1">> [] OTHER -> <<"e2", "e1">>]

(* What a WoW root knows of its files, and what a TVFS root knows.          *)
WowRoot  == ("n1" :> [ckey |-> "c1", ekey |-> NoKey, id |-> "i1"])
         @@ ("n2" :> [ckey |-> "c2", ekey |-> NoKey, id |-> "i2"])
TvfsRoot == ("n1" :> [ckey |-> NoKey, ekey |-> "e1", id |-> NoKey])
         @@ ("n2" :> [ckey |-> "c3", ekey |-> NoKey, id |-> NoKey])
MCRoots == {WowRoot, TvfsRoot}

MCContent == [e \in MCEKey |-> CASE e = "e1" -> <<b(1), b(1), b(2)>>
                                 [] e = "e2" -> <<b(3), b(4)>>
                                 [] OTHER -> <<b(5)>>]
Zlib == [size |-> 2, mode |-> "Z", single |-> FALSE]
Raw  == [Zlib EXCEPT !.mode = "N"]
Bare == [Zlib EXCEPT !.single = TRUE]
MCPacking ==
  [e \in MCEKey |-> CASE e = "e1" -> [opts |-> Zlib, locks |-> << <<>>, <<"k1">> >>]
                      [] e = "e2" -> [opts |-> Bare, locks |-> << <<"k1", "k2">> >>]
                      [] e = "e3" -> [opts |-> Raw, locks |-> << <<"k1", "k1", "k1", "k1", "k1">> >>]
                      [] OTHER -> [opts |-> Raw, locks |-> << <<>> >>]]

(* At most one span is not as it was written, or all of them are gone.      *)
Intact == [e \in MCEKey |-> "intact"]
MCDisks == {[Intact EXCEPT ![e] = c] : e \in {"e1", "e2"}, c \in Condition}
      \cup {[Intact EXCEPT !["eEnc"] = "missing"], [Intact EXCEPT !["eRoot"] = "cut"]}
MCEmptied == {Intact}

MCAsked == {"n1", "n2", "n3", "i2", "c2", "c3", "e1", "e3"}
MCAdded == {<<"k1", "right">>, <<"k2", "right">>, <<"k2", "wrong">>}
MCWorkload == [p \in Proc |-> IF p = "reader" THEN Op \cup {"cancel"} ELSE {"close", "key"}]
MCSeekTo == {-1, 1}
==============================================================================
