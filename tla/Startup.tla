------------------------------ MODULE Startup ------------------------------
(***************************************************************************)
(* main() before the server accepts connections: the configuration file is *)
(* read line by line, then CacheManager::Init and CDBManager::Init open a  *)
(* pool for each instance that the file lists, and between the two         *)
(* ApiUploadInit gets its settings; or the process ends.  A file that      *)
(* cannot be opened is one without lines.  A word of the file is one       *)
(* character; "SP" is a blank.                                             *)
(***************************************************************************)
EXTENDS Integers, Sequences, SequencesExt

CONSTANTS
  Files,       \* configuration files: sequences of entries (see IsEntry)
  Hosts        \* the hosts, as they stand in the file

VARIABLES
  file, lines_read,
  config_map,  \* config_map_
  up,          \* the hosts with a server that answers
  main,        \* where main() is
  instance,    \* the instance of the list that is to be opened next
  handed,      \* what ApiUploadInit was given
  pools        \* dbpool_map_ and m_cache_pool_map

startupVars == <<file, lines_read, config_map, up, main, instance, handed, pools>>

Kinds  == {"cache", "db"}
List   == [cache |-> <<"CacheInstances">>, db |-> <<"DBInstances">>]
Settings ==
  [cache |-> {"_host", "_port", "_db", "_maxconncnt"},
   db    |-> {"_host", "_port", "_dbname", "_username", "_password", "_maxconncnt"}]
Host(name)        == Append(name, "_host")
Needs(kind, name) == {Append(name, s) : s \in Settings[kind]}
UploadSettings    == {<<"dfs_path_client">>, <<"storage_web_server_ip">>, <<"storage_web_server_port">>}

-----------------------------------------------------------------------------
(* The file as it was written: name, value, blanks around them, a comment *)

Blank(e)   == IF e.spaced THEN <<"SP">> ELSE <<>>
Line(e) ==
  (IF e.commented THEN <<"#">> ELSE <<>>) \o Blank(e) \o e.name \o Blank(e) \o <<"=">>
    \o Blank(e) \o e.value \o Blank(e) \o (IF e.remark THEN <<"#", "=">> ELSE <<>>)

\* Blanks are written around names and values only.
Bare(s)   == s = <<>> \/ (s[1] # "SP" /\ s[Len(s)] # "SP")
IsEntry(e) ==
  /\ e.name \in Seq(STRING) /\ e.name # <<>> /\ Bare(e.name)
  /\ \A i \in DOMAIN e.name : e.name[i] \notin {"=", "#"}
  /\ e.value \in Seq(STRING) /\ Bare(e.value) /\ \A i \in DOMAIN e.value : e.value[i] # "#"
  /\ e.spaced \in BOOLEAN /\ e.commented \in BOOLEAN /\ e.remark \in BOOLEAN

ASSUME FilesAssumption == \A f \in Files : f \in Seq(Range(f)) /\ \A i \in DOMAIN f : IsEntry(f[i])

-----------------------------------------------------------------------------
(* CConfigFileReader *)

\* NULL, here the empty text, if there is nothing but blanks.
TrimSpace(s) ==
  LET solid == {i \in DOMAIN s : s[i] # "SP"}
  IN IF solid = {} THEN <<>> ELSE SubSeq(s, Min(solid), Max(solid))

Uncommented(s) ==
  LET hash == SelectInSeq(s, LAMBDA c : c = "#") IN IF hash = 0 THEN s ELSE SubSeq(s, 1, hash - 1)

\* Mutant: a later line with the same name wins.
ParseLine_Last(map, s) ==
  LET eq    == SelectInSeq(s, LAMBDA c : c = "=")
      key   == TrimSpace(SubSeq(s, 1, eq - 1))
      value == TrimSpace(SubSeq(s, eq + 1, Len(s)))
  IN IF eq = 0 \/ <<>> \in {key, value} THEN map ELSE (key :> value) @@ map

\* map::insert keeps the value that is there.
Insert(map, key, value) ==
  [k \in DOMAIN map \cup {key} |-> IF k \in DOMAIN map THEN map[k] ELSE value]

ParseLine(map, s) ==
  LET eq    == SelectInSeq(s, LAMBDA c : c = "=")
      key   == TrimSpace(SubSeq(s, 1, eq - 1))
      value == TrimSpace(SubSeq(s, eq + 1, Len(s)))
  IN IF eq = 0 \/ <<>> \in {key, value} THEN map ELSE Insert(map, key, value)

\* A round of the loop of _LoadFile.
LoadLine ==
  /\ main = "load" /\ lines_read < Len(file)
  /\ lines_read' = lines_read + 1
  /\ config_map' = ParseLine(config_map, Uncommented(Line(file[lines_read + 1])))
  /\ UNCHANGED <<file, up, main, instance, handed, pools>>

Configured(names) == names \subseteq DOMAIN config_map

-----------------------------------------------------------------------------
(* CStrExplode *)

\* Pieces end at each separator that does not begin one; a separator that begins
\* a piece belongs to it.
Cuts(s, sep) ==
  LET cuts[i \in 0..Len(s)] ==
        IF i = 0 THEN <<0>>
        ELSE IF s[i] = sep /\ i # Last(cuts[i - 1]) + 1
             THEN Append(cuts[i - 1], i) ELSE cuts[i - 1]
  IN cuts[Len(s)]

Explode(s, sep) ==
  LET cuts == Cuts(s, sep)
      rest == SubSeq(s, Last(cuts) + 1, Len(s))
  IN [k \in 1..Len(cuts) - 1 |-> SubSeq(s, cuts[k] + 1, cuts[k + 1] - 1)]
       \o IF rest = <<>> THEN <<>> ELSE <<rest>>

\* The items are counted by separators: after empty names there are items that
\* were never stored.
ItemCnt(s, sep) == 1 + Cardinality({i \in DOMAIN s : s[i] = sep})

-----------------------------------------------------------------------------
(* CacheManager::Init, CDBManager::Init, main *)

StartupInit ==
  /\ file \in Files /\ up \in SUBSET Hosts
  /\ lines_read = 0 /\ config_map = <<>>
  /\ main = "load" /\ instance = 1 /\ handed = <<>> /\ pools = {}

Loaded ==
  /\ main = "load" /\ lines_read = Len(file)
  /\ main' = "cache"
  /\ UNCHANGED <<file, lines_read, config_map, up, instance, handed, pools>>

Ends(how) ==
  /\ main' = how
  /\ UNCHANGED <<file, lines_read, config_map, up, instance, handed, pools>>

NoInstances(kind) == main = kind /\ ~Configured({List[kind]}) /\ Ends("exit")

Names(kind)  == Explode(config_map[List[kind]], "COMMA")
Items(kind)  == ItemCnt(config_map[List[kind]], "COMMA")
Stored(kind) == instance \in DOMAIN Names(kind)
Opening(kind) ==
  main = kind /\ Configured({List[kind]}) /\ instance \in 1..Items(kind)

\* What GetItem points at.  An item that was not stored is any text: those that
\* some line is about, and they hold names that are not configured.
Item(kind) ==
  IF Stored(kind) THEN {Names(kind)[instance]} ELSE {Front(key) : key \in DOMAIN config_map}

\* CDBManager logs the settings before it looks for NULLs, which the log prints.
NotConfigured(kind) ==
  /\ Opening(kind) /\ \E name \in Item(kind) : ~Configured(Needs(kind, name))
  /\ Ends("exit")

Unreachable(kind) ==
  /\ Opening(kind)
  /\ \E name \in Item(kind) : Configured(Needs(kind, name)) /\ config_map[Host(name)] \notin up
  /\ Ends("exit")

\* An item that was not stored is a wild pointer: read here, or deleted at the end.
Dies(kind) ==
  /\ main = kind /\ Configured({List[kind]})
  /\ Len(Names(kind)) < instance /\ Len(Names(kind)) < Items(kind)
  /\ Ends("died")

\* map::insert again: the second pool of one name is opened and forgotten.
OpenPool(kind) ==
  /\ Opening(kind)
  /\ \E name \in Item(kind) :
       /\ Configured(Needs(kind, name)) /\ config_map[Host(name)] \in up
       /\ pools' = IF \E p \in pools : p.kind = kind /\ p.name = name
                   THEN pools
                   ELSE pools \cup {[kind |-> kind, name |-> name,
                                     with |-> [s \in Settings[kind] |-> config_map[Append(name, s)]]]}
  /\ instance' = instance + 1
  /\ UNCHANGED <<file, lines_read, config_map, up, main, handed>>

AllOpen(kind) ==
  /\ main = kind /\ Configured({List[kind]}) /\ instance = Items(kind) + 1
  /\ main' = IF kind = "cache" THEN "upload" ELSE "serving"
  /\ instance' = 1
  /\ UNCHANGED <<file, lines_read, config_map, up, handed, pools>>

\* ApiUploadInit assigns its settings to strings, which a NULL does not survive.
UploadInit ==
  /\ main = "upload"
  /\ \/ /\ Configured(UploadSettings)
        /\ handed' = [n \in UploadSettings |-> config_map[n]] /\ main' = "db"
        /\ UNCHANGED <<file, lines_read, config_map, up, instance, pools>>
     \/ ~Configured(UploadSettings) /\ Ends("exit")

StartupNext ==
  \/ LoadLine \/ Loaded \/ UploadInit
  \/ \E kind \in Kinds : \/ NoInstances(kind) \/ NotConfigured(kind) \/ Unreachable(kind)
                         \/ OpenPool(kind) \/ Dies(kind) \/ AllOpen(kind)

StartupSpec == StartupInit /\ [][StartupNext]_startupVars

-----------------------------------------------------------------------------
(* Properties *)

\* What a reader of the file takes the first value of name to be.
Meant(name)  == {i \in DOMAIN file : file[i].name = name /\ ~file[i].commented /\ file[i].value # <<>>}
FirstValue(name) == file[Min(Meant(name))].value
\* The names in a list: the texts between its commas.
NamesIn(s) ==
  {SubSeq(s, q[1], q[2]) : q \in {r \in (DOMAIN s) \X (DOMAIN s) :
     /\ r[1] <= r[2] /\ \A i \in r[1]..r[2] : s[i] # "COMMA"
     /\ r[1] = 1 \/ s[r[1] - 1] = "COMMA"
     /\ r[2] = Len(s) \/ s[r[2] + 1] = "COMMA"}}
Needed(kind) == NamesIn(FirstValue(List[kind]))

\* The list of a kind has a name before and after each comma.
IsList(s) == \A i \in DOMAIN s : s[i] = "COMMA" => i \in 2..Len(s) - 1 /\ s[i + 1] # "COMMA"
ListsWhole == \A kind \in Kinds : Meant(List[kind]) # {} => IsList(FirstValue(List[kind]))

\* The pool that the file asks for.
Pool(kind, n) ==
  [kind |-> kind, name |-> n, with |-> [s \in Settings[kind] |-> FirstValue(Append(n, s))]]

\* Why the server does not start: a line that is missing, a host that does not answer.
Lacks ==
  \/ \E n \in UploadSettings : Meant(n) = {}
  \/ \E kind \in Kinds :
       \/ Meant(List[kind]) = {}
       \/ \E n \in Needed(kind) :
            (\E key \in Needs(kind, n) : Meant(key) = {}) \/ FirstValue(Host(n)) \notin up

\* Whatever is opened, also under a name nobody wrote, has the settings that the
\* file gives for its name, and uploads have theirs.  If no list has an empty name,
\* the server accepts connections with a pool for every listed instance and no
\* other, and does not end without a reason in the file or a host; of a list with
\* an empty name that cannot be said.
ServesAsConfigured ==
  /\ \A p \in pools : p = Pool(p.kind, p.name) /\ \A key \in Needs(p.kind, p.name) : Meant(key) # {}
  /\ main \in {"db", "serving"} => handed = [n \in UploadSettings |-> FirstValue(n)]
  /\ ListsWhole =>
       /\ main = "serving" =>
            pools = UNION {{Pool(kind, n) : n \in Needed(kind)} : kind \in Kinds}
       /\ main = "exit" => Lacks
       /\ main # "died"
=============================================================================
