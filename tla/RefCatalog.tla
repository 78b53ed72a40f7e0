----------------------------- MODULE RefCatalog -----------------------------
(***************************************************************************)
(* What the file catalogue promises its users: a file is stored once,      *)
(* however many users list it, and is discarded only when nobody does.     *)
(* FileService is shown to implement this where the requests about one     *)
(* file do not overlap and it has one row of file_info, whatever           *)
(* statements fail and wherever the process crashes.                       *)
(***************************************************************************)
CONSTANTS
  Md5s,        \* file contents, identified by their digest
  Keys,        \* <<user, md5, name>>: one entry of a user's list
  Md5Of(_)

VARIABLES
  listed,      \* the entries users see in their lists
  stored       \* the contents that can be downloaded

cvars == <<listed, stored>>

Init == listed = {} /\ stored = {}

Store(m) ==
  /\ m \notin stored
  /\ stored' = stored \cup {m}
  /\ UNCHANGED listed

List(k) ==
  /\ Md5Of(k) \in stored
  /\ listed' = listed \cup {k}
  /\ UNCHANGED stored

Unlist(k) ==
  /\ listed' = listed \ {k}
  /\ UNCHANGED stored

Discard(m) ==
  /\ \A k \in listed : Md5Of(k) # m
  /\ stored' = stored \ {m}
  /\ UNCHANGED listed

Next ==
  \/ \E m \in Md5s : Store(m) \/ Discard(m)
  \/ \E k \in Keys : List(k) \/ Unlist(k)

Spec == Init /\ [][Next]_cvars
=============================================================================
