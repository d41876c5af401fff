----------------------- MODULE ConfigMigrations_proofs -----------------------
(***************************************************************************)
(* Proofs about ConfigMigrations, for files with any fields and any number *)
(* of runs of the tool: what the migrations make of a field, when they     *)
(* refuse, and what the tool leaves in the file and beside it.             *)
(***************************************************************************)
EXTENDS ConfigMigrations, TLAPS

-----------------------------------------------------------------------------
(* Fields *)

\* What a key has after Put.
LEMMA GetPut ==
  ASSUME NEW field, NEW k, NEW v, NEW j, NEW d
  PROVE  /\ Get(Put(field, k, v), j, d) = IF j = k THEN v ELSE Get(field, j, d)
         /\ DOMAIN Put(field, k, v) = DOMAIN field \cup {k}
BY DEF Get, Put

\* What a key has after Without.
LEMMA GetWithout ==
  ASSUME NEW field, NEW keys, NEW j, NEW d
  PROVE  /\ Get(Without(field, keys), j, d) = IF j \in keys THEN d ELSE Get(field, j, d)
         /\ DOMAIN Without(field, keys) = DOMAIN field \ keys
BY DEF Get, Without

\* What does not depend on the format of the destinations is copied.
SameButDests(new, field) ==
  /\ \A d : Get(new, "stream_key", d) = Get(field, "stream_key", d)
  /\ \A d : Get(new, "key", d) = Get(field, "key", d)
  /\ Get(new, "publish_auth_enabled", FALSE) = Get(field, "publish_auth_enabled", FALSE)

\* The keys of a field that the first migration made.
LEMMA V1Gets ==
  ASSUME NEW field
  PROVE  /\ SameButDests(FieldToV1(field), field)
         /\ Destinations(FieldToV1(field)) = Merged(field)
         /\ Get(FieldToV1(field), "restream_url", Null) = Null
         /\ DOMAIN FieldToV1(field)
              = (DOMAIN field \ OldKeys) \cup {"restream_urls", "publish_auth_enabled"}
<1> DEFINE bare == Without(field, OldKeys)
           kept == Put(bare, "restream_urls", Merged(field))
           auth == Get(field, "publish_auth_enabled", FALSE)
<1>1. FieldToV1(field) = Put(kept, "publish_auth_enabled", auth)
  BY DEF FieldToV1
<1>2. {"stream_key", "key", "publish_auth_enabled", "restream_urls"} \cap OldKeys = {}
      /\ "restream_url" \in OldKeys
  BY DEF OldKeys
<1>3. \A j, d : /\ Get(bare, j, d) = IF j \in OldKeys THEN d ELSE Get(field, j, d)
                /\ DOMAIN bare = DOMAIN field \ OldKeys
  BY GetWithout
<1> HIDE DEF bare
<1>4. \A j, d : /\ Get(kept, j, d) = IF j = "restream_urls" THEN Merged(field) ELSE Get(bare, j, d)
                /\ DOMAIN kept = DOMAIN bare \cup {"restream_urls"}
  BY GetPut
<1> HIDE DEF kept
<1> HIDE DEF auth
<1> DEFINE new == Put(kept, "publish_auth_enabled", auth)
<1>5. \A j, d : /\ Get(new, j, d)
                     = IF j = "publish_auth_enabled" THEN auth ELSE Get(kept, j, d)
                /\ DOMAIN new = DOMAIN kept \cup {"publish_auth_enabled"}
  BY GetPut
<1>0. FieldToV1(field) = new
  BY <1>1
<1> HIDE DEF new
<1>6. \A d : /\ Get(FieldToV1(field), "stream_key", d) = Get(field, "stream_key", d)
             /\ Get(FieldToV1(field), "key", d) = Get(field, "key", d)
             /\ Get(FieldToV1(field), "restream_url", d) = d
             /\ Get(FieldToV1(field), "restream_urls", d) = Merged(field)
  BY <1>0, <1>2, <1>3, <1>4, <1>5
<1>7. Get(FieldToV1(field), "publish_auth_enabled", FALSE)
        = Get(field, "publish_auth_enabled", FALSE)
  BY <1>0, <1>5 DEF auth
<1> QED BY <1>0, <1>3, <1>4, <1>5, <1>6, <1>7 DEF SameButDests, Destinations

\* The keys of a field that the second migration made.
LEMMA V2Gets ==
  ASSUME NEW field
  PROVE  /\ SameButDests(FieldToV2(field), field)
         /\ Destinations(FieldToV2(field))
              = [j \in DOMAIN Destinations(field) |->
                   [url |-> Destinations(field)[j], audio_mode |-> "source"]]
         /\ Get(FieldToV2(field), "restream_url", Null) = Get(field, "restream_url", Null)
         /\ DOMAIN FieldToV2(field) = DOMAIN field \cup {"restream_urls"}
<1> DEFINE list == [j \in DOMAIN Destinations(field) |->
                      [url |-> Destinations(field)[j], audio_mode |-> "source"]]
           new == Put(field, "restream_urls", list)
<1>1. FieldToV2(field) = new
  BY DEF FieldToV2
<1> HIDE DEF list
<1>2. \A j, d : /\ Get(new, j, d) = IF j = "restream_urls" THEN list ELSE Get(field, j, d)
                /\ DOMAIN new = DOMAIN field \cup {"restream_urls"}
  BY GetPut
<1> HIDE DEF new
<1>3. Destinations(FieldToV2(field)) = list
  BY <1>1, <1>2 DEF Destinations
<1> QED BY <1>1, <1>2, <1>3 DEF SameButDests, list

\* The single destination of old is merged at the end, once.
LEMMA MergedLists ==
  ASSUME NEW field, JsonField(field),
         \A j \in DOMAIN Destinations(field) : Destinations(field)[j] \in Urls
  PROVE  /\ Merged(field) \in Seq(Urls)
         /\ Len(Destinations(field)) <= MaxDest /\ ~Overfull(field) => Len(Merged(field)) <= MaxDest
<1> DEFINE list == Destinations(field)
           old == Get(field, "restream_url", Null)
<1>1. list \in Seq(Urls) /\ old \in Urls \cup {Null} /\ MaxDest \in Nat
  <2>1. list \in Seq(Urls \cup Dests \cup {Null})
    BY DEF JsonField
  <2> QED BY <2>1, ConfigAssumption DEF JsonField
<1>2. Get(field, "restream_url", Null) = old /\ Destinations(field) = list
  OBVIOUS
<1>3. old # Null => field["restream_url"] = old
  BY DEF Get
<1> HIDE DEF list, old
<1>4. CASE old = Null \/ \E j \in DOMAIN list : list[j] = old
  BY <1>1, <1>2, <1>4 DEF Merged
<1>5. CASE ~(old = Null \/ \E j \in DOMAIN list : list[j] = old)
  <2>1. Merged(field) = Append(list, old)
    BY <1>2, <1>5 DEF Merged
  <2>2. Len(list) = MaxDest => Overfull(field)
    BY <1>1, <1>2, <1>5 DEF Overfull
  <2> QED BY <1>1, <1>2, <1>5, <2>1, <2>2
<1> QED BY <1>4, <1>5

\* A legal field of version 0 becomes one of version 1, unless its list is full.
LEMMA V1Field ==
  ASSUME NEW field, JsonField(field), ValidLegacyField(field)
  PROVE  /\ JsonField(FieldToV1(field))
         /\ ~Overfull(field) => ValidV1Field(FieldToV1(field))
<1> DEFINE new == FieldToV1(field)
<1>1. /\ SameButDests(new, field) /\ Destinations(new) = Merged(field)
      /\ Get(new, "restream_url", Null) = Null
      /\ DOMAIN new = (DOMAIN field \ OldKeys) \cup {"restream_urls", "publish_auth_enabled"}
  BY V1Gets
<1>2. /\ DOMAIN field \subseteq FieldKeys \cup OldKeys
      /\ Get(field, "stream_key", Null) \in Streams \cup {Null}
      /\ Get(field, "key", Null) \in Keys \cup {Null}
      /\ Get(field, "publish_auth_enabled", FALSE) => Get(field, "key", Null) # Null
      /\ Get(field, "publish_auth_enabled", FALSE) \in BOOLEAN
      /\ Len(Destinations(field)) <= MaxDest
      /\ \A j \in DOMAIN Destinations(field) : Destinations(field)[j] \in Urls
  BY DEF ValidLegacyField, ValidShape, JsonField
<1>3. Merged(field) \in Seq(Urls) /\ (~Overfull(field) => Len(Merged(field)) <= MaxDest)
  BY <1>2, MergedLists
<1> HIDE DEF new
<1>4. DOMAIN new \subseteq FieldKeys
  BY <1>1, <1>2 DEF FieldKeys, OldKeys
<1>5. Destinations(new) \in Seq(Urls \cup Dests \cup {Null})
  BY <1>1, <1>3
<1>6. JsonField(new)
  BY <1>1, <1>2, <1>5 DEF JsonField, SameButDests
<1>7. /\ Get(new, "stream_key", Null) \in Streams \cup {Null}
      /\ Get(new, "key", Null) \in Keys \cup {Null}
      /\ Get(new, "publish_auth_enabled", FALSE) => Get(new, "key", Null) # Null
  BY <1>1, <1>2 DEF SameButDests
<1>8. /\ ~Overfull(field) => Len(Destinations(new)) <= MaxDest
      /\ \A j \in DOMAIN Destinations(new) : Destinations(new)[j] \in Urls
  BY <1>1, <1>3
<1>9. ~Overfull(field) => ValidV1Field(new)
  BY <1>4, <1>7, <1>8 DEF ValidV1Field, ValidShape
<1> QED BY <1>6, <1>9 DEF new

\* A legal field of version 1 becomes one of version 2.
LEMMA V2Field ==
  ASSUME NEW field, JsonField(field), ValidV1Field(field)
  PROVE  JsonField(FieldToV2(field)) /\ ValidField(FieldToV2(field))
<1> DEFINE new == FieldToV2(field)
           list == Destinations(field)
<1>1. /\ SameButDests(new, field)
      /\ Destinations(new) = [j \in DOMAIN list |-> [url |-> list[j], audio_mode |-> "source"]]
      /\ Get(new, "restream_url", Null) = Get(field, "restream_url", Null)
      /\ DOMAIN new = DOMAIN field \cup {"restream_urls"}
  BY V2Gets
<1>2. /\ DOMAIN field \subseteq FieldKeys
      /\ Get(field, "stream_key", Null) \in Streams \cup {Null}
      /\ Get(field, "key", Null) \in Keys \cup {Null}
      /\ Get(field, "restream_url", Null) \in Urls \cup {Null}
      /\ Get(field, "publish_auth_enabled", FALSE) => Get(field, "key", Null) # Null
      /\ Get(field, "publish_auth_enabled", FALSE) \in BOOLEAN
      /\ Len(list) <= MaxDest
      /\ \A j \in DOMAIN list : list[j] \in Urls
      /\ list \in Seq(Urls \cup Dests \cup {Null})
  BY DEF ValidV1Field, ValidShape, JsonField
<1> HIDE DEF new, list
<1>3. Destinations(new) \in Seq(Dests) /\ Len(Destinations(new)) = Len(list)
  <2>1. \A j \in 1 .. Len(list) : [url |-> list[j], audio_mode |-> "source"] \in Dests
    BY <1>2 DEF Dests, AudioModes
  <2> QED BY <1>1, <1>2, <2>1
<1>4. DOMAIN new \subseteq FieldKeys
  BY <1>1, <1>2 DEF FieldKeys
<1>5. Destinations(new) \in Seq(Urls \cup Dests \cup {Null})
  BY <1>3
<1>6. JsonField(new)
  BY <1>1, <1>2, <1>5 DEF JsonField, SameButDests
<1>7. /\ Get(new, "stream_key", Null) \in Streams \cup {Null}
      /\ Get(new, "key", Null) \in Keys \cup {Null}
      /\ Get(new, "publish_auth_enabled", FALSE) => Get(new, "key", Null) # Null
  BY <1>1, <1>2 DEF SameButDests
<1>8. /\ Len(Destinations(new)) <= MaxDest
      /\ \A j \in DOMAIN Destinations(new) : Destinations(new)[j] \in Dests
  BY <1>2, <1>3
<1>9. ValidField(new)
  BY <1>4, <1>7, <1>8 DEF ValidField, ValidShape
<1> QED BY <1>6, <1>9 DEF new

-----------------------------------------------------------------------------
(* Files *)

\* What a migration makes of a file, and when it refuses.
LEMMA V1Config ==
  ASSUME NEW c, JsonConfig(c)
  PROVE  /\ ToV1(c) # Refused =>
              /\ JsonConfig(ToV1(c)) /\ ToV1(c).version = 1
              /\ DOMAIN ToV1(c).fields = DOMAIN c.fields
              /\ \A f \in DOMAIN c.fields :
                   ValidLegacyField(c.fields[f]) /\ ToV1(c).fields[f] = FieldToV1(c.fields[f])
         /\ (\A f \in DOMAIN c.fields : f \in Places /\ ValidLegacyField(c.fields[f]))
              => ToV1(c) # Refused
<1> DEFINE Legal == \A f \in DOMAIN c.fields : f \in Places /\ ValidLegacyField(c.fields[f])
           fields == [f \in DOMAIN c.fields |-> FieldToV1(c.fields[f])]
           new == [version |-> 1, fields |-> fields]
<1>1. ToV1(c) = IF Legal THEN new ELSE Refused
  BY DEF ToV1
<1>2. new.version = 1 /\ new.fields = fields /\ Refused.version = -1
      /\ new = [version |-> new.version, fields |-> new.fields]
  BY DEF Refused
<1>3. Legal => \A f \in DOMAIN fields : JsonField(fields[f])
  BY V1Field DEF JsonConfig
<1>4. DOMAIN fields = DOMAIN c.fields
      /\ \A f \in DOMAIN c.fields : fields[f] = FieldToV1(c.fields[f])
  OBVIOUS
<1>5. Legal => \A f \in DOMAIN c.fields : ValidLegacyField(c.fields[f])
  OBVIOUS
<1> HIDE DEF fields, new
<1>6. new # Refused
  BY <1>2
<1>7. Legal => JsonConfig(new)
  BY <1>2, <1>3 DEF JsonConfig
<1> QED BY <1>1, <1>2, <1>4, <1>5, <1>6, <1>7

\* What the second migration makes of a configuration it does not refuse.
LEMMA V2Config ==
  ASSUME NEW c, JsonConfig(c)
  PROVE  /\ ToV2(c) # Refused =>
              /\ JsonConfig(ToV2(c)) /\ ToV2(c).version = 2
              /\ DOMAIN ToV2(c).fields = DOMAIN c.fields
              /\ \A f \in DOMAIN c.fields :
                   ValidV1Field(c.fields[f]) /\ ToV2(c).fields[f] = FieldToV2(c.fields[f])
              /\ ValidConfig(ToV2(c))
         /\ (\A f \in DOMAIN c.fields : f \in Places /\ ValidV1Field(c.fields[f]))
              => ToV2(c) # Refused
<1> DEFINE Legal == \A f \in DOMAIN c.fields : f \in Places /\ ValidV1Field(c.fields[f])
           fields == [f \in DOMAIN c.fields |-> FieldToV2(c.fields[f])]
           new == [version |-> 2, fields |-> fields]
<1>1. ToV2(c) = IF Legal THEN new ELSE Refused
  BY DEF ToV2
<1>2. new.version = 2 /\ new.fields = fields /\ Refused.version = -1
      /\ new = [version |-> new.version, fields |-> new.fields]
  BY DEF Refused
<1>3. Legal => \A f \in DOMAIN fields : JsonField(fields[f]) /\ ValidField(fields[f])
  BY V2Field DEF JsonConfig
<1>4. DOMAIN fields = DOMAIN c.fields
      /\ \A f \in DOMAIN c.fields : fields[f] = FieldToV2(c.fields[f])
  OBVIOUS
<1>5. Legal => DOMAIN c.fields \subseteq Places
               /\ \A f \in DOMAIN c.fields : ValidV1Field(c.fields[f])
  OBVIOUS
<1> HIDE DEF fields, new
<1>6. new # Refused
  BY <1>2
<1>7. Legal => JsonConfig(new)
  BY <1>2, <1>3 DEF JsonConfig
<1>8. Legal => ValidConfig(new)
  BY <1>2, <1>3, <1>4, <1>5 DEF ValidConfig, CurrentVersion
<1> QED BY <1>1, <1>2, <1>4, <1>5, <1>6, <1>7, <1>8

\* A refusal is not a configuration.
LEMMA JsonNotRefused == \A c : JsonConfig(c) => c # Refused
BY DEF JsonConfig, Refused

\* What migrate_config makes of a file it does not refuse: a legal one, by as
\* many migrations as it needs.
LEMMA MigrateMakes ==
  ASSUME NEW c, JsonConfig(c), Migrate(c) # Refused
  PROVE  /\ JsonConfig(Migrate(c)) /\ ValidConfig(Migrate(c))
         /\ c.version = 0 => ToV1(c) # Refused /\ ToV2(ToV1(c)) # Refused
                             /\ Migrate(c) = ToV2(ToV1(c))
         /\ c.version = 1 => ToV2(c) # Refused /\ Migrate(c) = ToV2(c)
         /\ c.version \notin {0, 1} => Migrate(c) = c
<1>0. c # Refused
  BY JsonNotRefused
<1>1. CASE c.version = 0
  <2>1. ToV1(c) # Refused
    BY <1>1 DEF Migrate
  <2>2. JsonConfig(ToV1(c)) /\ ToV1(c).version = 1
    BY <2>1, V1Config
  <2>3. ToV2(ToV1(c)) # Refused /\ Migrate(c) = ToV2(ToV1(c))
    BY <1>1, <2>1, <2>2 DEF Migrate
  <2> QED BY <1>1, <2>1, <2>2, <2>3, V2Config
<1>2. CASE c.version = 1
  <2>1. ToV2(c) # Refused /\ Migrate(c) = ToV2(c)
    BY <1>0, <1>2 DEF Migrate
  <2> QED BY <1>2, <2>1, V2Config
<1>3. CASE c.version \notin {0, 1}
  BY <1>0, <1>3 DEF Migrate
<1> QED BY <1>1, <1>2, <1>3

\* A legal file is refused only for a list that has no room.
LEMMA LegalMigrates ==
  ASSUME NEW c, JsonConfig(c), LegalInItsVersion(c),
         \A f \in DOMAIN c.fields : ~Overfull(c.fields[f])
  PROVE  Migrate(c) # Refused
<1>0. c # Refused /\ c.version \in {0, 1, 2} /\ DOMAIN c.fields \subseteq Places
      /\ \A f \in DOMAIN c.fields : JsonField(c.fields[f])
  BY JsonNotRefused DEF JsonConfig, LegalInItsVersion, CurrentVersion
<1>1. CASE c.version = 0
  <2>1. \A f \in DOMAIN c.fields : f \in Places /\ ValidLegacyField(c.fields[f])
    BY <1>0, <1>1 DEF LegalInItsVersion
  <2> DEFINE d == ToV1(c)
  <2>2. /\ d # Refused /\ JsonConfig(d) /\ d.version = 1 /\ DOMAIN d.fields = DOMAIN c.fields
        /\ \A f \in DOMAIN c.fields : d.fields[f] = FieldToV1(c.fields[f])
    BY <2>1, V1Config
  <2> HIDE DEF d
  <2>3. \A f \in DOMAIN d.fields : f \in Places /\ ValidV1Field(d.fields[f])
    BY <1>0, <2>1, <2>2, V1Field
  <2>4. ToV2(d) # Refused /\ ValidConfig(ToV2(d))
    BY <2>2, <2>3, V2Config
  <2> QED BY <1>1, <2>2, <2>4 DEF Migrate, d
<1>2. CASE c.version = 1
  <2>1. \A f \in DOMAIN c.fields : f \in Places /\ ValidV1Field(c.fields[f])
    BY <1>0, <1>2 DEF LegalInItsVersion
  <2>2. ToV2(c) # Refused /\ ValidConfig(ToV2(c))
    BY <2>1, V2Config
  <2> QED BY <1>0, <1>2, <2>2 DEF Migrate
<1>3. CASE c.version = 2
  <2>1. ValidConfig(c)
    BY <1>0, <1>3 DEF LegalInItsVersion, ValidConfig, CurrentVersion
  <2> QED BY <1>0, <1>3, <2>1 DEF Migrate
<1> QED BY <1>0, <1>1, <1>2, <1>3

-----------------------------------------------------------------------------
(* The tool *)

FileTyped ==
  /\ file = [content |-> file.content, readable |-> file.readable]
  /\ file.readable \in BOOLEAN /\ JsonConfig(file.content)

ToolTyped == tool \in ToolType /\ {cut, up} \subseteq BOOLEAN /\ (up => tool = NoTool)

\* Only a first migration that succeeds changes the file, after its backup.
OriginKept ==
  ~up => /\ JsonConfig(origin)
         /\ \/ file.content = origin
            \/ /\ origin \in backups
               /\ Migrate(origin) # Refused /\ file.content = Migrate(origin)

\* What a run of the tool knows of the file at each of its steps, and after.
ToolStages ==
  /\ tool.pc \in {"backup", "save"} =>
       Migrate(file.content) # Refused /\ file.content.version # CurrentVersion
  /\ tool.pc = "save" => file.content \in backups
  /\ tool.pc = "refused" => Migrate(file.content) = Refused
  /\ tool.pc \in {"chown", "done"} => ValidConfig(file.content)
  /\ ~up /\ ~cut /\ tool.pc # "chown" => file.readable

ToolInv == FileTyped /\ ToolTyped /\ OriginKept /\ ToolStages

\* Before the tool runs, the file is the original one.
LEMMA ToolStarts == ToolInit => ToolInv
<1> SUFFICES ASSUME ToolInit PROVE ToolInv
  OBVIOUS
<1>1. FileTyped
  BY FilesAssumption DEF ToolInit, FileTyped
<1>2. ToolTyped
  <2>1. NoTool \in ToolType
    BY ConfigAssumption DEF NoTool, ToolType
  <2> QED BY <2>1 DEF ToolInit, ToolTyped
<1>3. OriginKept
  BY <1>1 DEF ToolInit, OriginKept, FileTyped
<1>4. ToolStages
  BY DEF ToolInit, ToolStages, NoTool
<1> QED BY <1>1, <1>2, <1>3, <1>4 DEF ToolInv

\* Before its migration the file is what it was at first.
LEMMA FirstUntilMigrated ==
  ASSUME ToolInv, tool.pc \in {"backup", "save"}
  PROVE  ~up /\ file.content = origin
<1>1. ~up
  BY DEF ToolInv, ToolTyped, NoTool
<1>2. file.content.version # CurrentVersion
  BY DEF ToolInv, ToolStages
<1>3. CASE origin \in backups /\ Migrate(origin) # Refused /\ file.content = Migrate(origin)
  <2>1. ValidConfig(file.content)
    BY <1>1, <1>3, MigrateMakes DEF ToolInv, OriginKept
  <2> QED BY <1>2, <2>1 DEF ValidConfig
<1> QED BY <1>1, <1>3 DEF ToolInv, OriginKept

\* Loading and migrating in memory touches no file.
LEMMA ToolLoadKeeps ==
  ASSUME ToolInv, NEW root \in BOOLEAN, ToolLoad(root)
  PROVE  ToolInv'
<1> DEFINE end == IF Migrate(file.content) = Refused THEN "refused"
                  ELSE IF file.content.version = CurrentVersion THEN "done" ELSE "backup"
<1>1. /\ ~up /\ tool.runs < MaxRuns /\ UNCHANGED <<file, backups, cut, up, origin>>
      /\ tool' = [root |-> root, runs |-> tool.runs + 1, pc |-> end]
      /\ tool.pc # "chown"
  BY DEF ToolLoad, Running
<1>2. end \in {"refused", "done", "backup"} /\ tool.runs + 1 \in 0 .. MaxRuns
  BY <1>1, ConfigAssumption DEF ToolInv, ToolTyped, ToolType
<1>3. tool' \in ToolType /\ tool'.pc = end
  BY <1>1, <1>2 DEF ToolType
<1>4. end = "done" => ValidConfig(file.content)
  BY MigrateMakes DEF ToolInv, FileTyped, CurrentVersion
<1>5. ToolStages'
  BY <1>1, <1>2, <1>3, <1>4 DEF ToolInv, ToolStages
<1> HIDE DEF end
<1> QED BY <1>1, <1>3, <1>5 DEF ToolInv, FileTyped, ToolTyped, OriginKept

\* A step that only moves the tool on, or ends it.
LEMMA ToolMoves ==
  ASSUME ToolTyped, ~up, NEW pc \in {"save", "chown", "done", "failed"},
         tool' = [tool EXCEPT !.pc = pc]
  PROVE  tool' \in ToolType /\ tool'.pc = pc
BY DEF ToolTyped, ToolType

\* The backup is taken of the original.
LEMMA ToolBackupKeeps ==
  ASSUME ToolInv, ToolBackup
  PROVE  ToolInv'
<1>1. /\ ToolTyped /\ tool.pc = "backup" /\ ~up /\ UNCHANGED <<file, cut, up, origin>>
      /\ backups' = backups \cup {file.content} /\ tool' = [tool EXCEPT !.pc = "save"]
  BY FirstUntilMigrated DEF ToolInv, ToolBackup
<1>2. tool' \in ToolType /\ tool'.pc = "save"
  BY <1>1, ToolMoves
<1>3. ToolStages'
  BY <1>1, <1>2 DEF ToolInv, ToolStages
<1> QED BY <1>1, <1>2, <1>3 DEF ToolInv, FileTyped, ToolTyped, OriginKept

\* The file is replaced only after the original was backed up.
LEMMA ToolSaveKeeps ==
  ASSUME ToolInv, ToolSave
  PROVE  ToolInv'
<1>1. /\ ToolTyped /\ tool.pc = "save" /\ ~up /\ UNCHANGED <<backups, cut, up, origin>>
      /\ file' = [content |-> Migrate(file.content), readable |-> ~tool.root]
      /\ tool' = [tool EXCEPT !.pc = "chown"]
      /\ file.content = origin /\ origin \in backups /\ JsonConfig(origin)
      /\ Migrate(origin) # Refused
  BY FirstUntilMigrated DEF ToolInv, ToolSave, ToolStages, OriginKept
<1>2. tool' \in ToolType /\ tool'.pc = "chown"
  BY <1>1, ToolMoves
<1>3. file'.content = Migrate(origin) /\ JsonConfig(file'.content) /\ ValidConfig(file'.content)
  BY <1>1, MigrateMakes
<1>4. FileTyped'
  BY <1>1, <1>3 DEF FileTyped
<1>5. OriginKept'
  BY <1>1, <1>3 DEF OriginKept
<1>6. ToolStages'
  BY <1>2, <1>3 DEF ToolStages
<1> QED BY <1>1, <1>2, <1>4, <1>5, <1>6 DEF ToolInv, ToolTyped

\* The owner is restored after the replacement.
LEMMA ToolChownKeeps ==
  ASSUME ToolInv, ToolChown
  PROVE  ToolInv'
<1>1. /\ ToolTyped /\ tool.pc = "chown" /\ ~up /\ UNCHANGED <<backups, cut, up, origin>>
      /\ file' = [file EXCEPT !.readable = TRUE] /\ tool' = [tool EXCEPT !.pc = "done"]
  BY DEF ToolInv, ToolTyped, ToolChown, NoTool
<1>2. tool' \in ToolType /\ tool'.pc = "done"
  BY <1>1, ToolMoves
<1>3. file' = [content |-> file.content, readable |-> TRUE]
  BY <1>1 DEF ToolInv, FileTyped
<1>4. file'.content = file.content /\ file'.readable = TRUE
  BY <1>3
<1>5. FileTyped'
  BY <1>3, <1>4 DEF ToolInv, FileTyped
<1>6. ToolStages'
  BY <1>1, <1>2, <1>4 DEF ToolInv, ToolStages
<1> QED BY <1>1, <1>2, <1>4, <1>5, <1>6 DEF ToolInv, ToolTyped, OriginKept

\* A failure leaves the original in place, or in a backup.
LEMMA ToolFailsKeep ==
  ASSUME ToolInv, ToolFails
  PROVE  ToolInv'
<1>1. /\ ToolTyped /\ ~up /\ UNCHANGED <<file, backups, up, origin>>
      /\ cut' = (cut \/ tool.pc = "chown") /\ tool' = [tool EXCEPT !.pc = "failed"]
  BY DEF ToolInv, ToolTyped, ToolFails, NoTool, Running
<1>2. tool' \in ToolType /\ tool'.pc = "failed"
  BY <1>1, ToolMoves
<1>3. cut' \in BOOLEAN
  BY <1>1
<1>4. ToolStages'
  BY <1>1, <1>2 DEF ToolInv, ToolStages
<1> QED BY <1>1, <1>2, <1>3, <1>4 DEF ToolInv, FileTyped, ToolTyped, OriginKept

\* The services start and end the tool's part.
LEMMA StartServicesKeeps ==
  ASSUME ToolInv, StartServices
  PROVE  ToolInv'
<1>1. NoTool \in ToolType /\ NoTool.pc = "idle"
  BY ConfigAssumption DEF NoTool, ToolType
<1> QED BY <1>1 DEF StartServices, ToolInv, FileTyped, ToolTyped, OriginKept, ToolStages

\* Every step of the tool keeps its invariant.
LEMMA ToolSteps ==
  ASSUME ToolInv, [ToolNext]_toolVars
  PROVE  ToolInv'
<1>1. CASE UNCHANGED toolVars
  BY <1>1 DEF toolVars, ToolInv, FileTyped, ToolTyped, OriginKept, ToolStages
<1> QED BY <1>1, ToolLoadKeeps, ToolBackupKeeps, ToolSaveKeeps, ToolChownKeeps, ToolFailsKeep,
           StartServicesKeeps DEF ToolNext

\* What the invariant says of the runs.
LEMMA ToolShows ==
  ASSUME ToolInv
  PROVE  RefusedOnlyIfOverfull /\ OriginalRecoverable /\ ExitZeroMeansReady
<1>1. RefusedOnlyIfOverfull
  BY LegalMigrates DEF ToolInv, FileTyped, ToolStages, RefusedOnlyIfOverfull
<1>2. OriginalRecoverable
  BY DEF ToolInv, OriginKept, OriginalRecoverable
<1>3. ExitZeroMeansReady
  BY DEF ToolInv, ToolStages, ExitZeroMeansReady
<1> QED BY <1>1, <1>2, <1>3
=============================================================================
