-------------------------- MODULE ConfigMigrations --------------------------
(***************************************************************************)
(* The node configuration file: the schemas it may have                    *)
(* (app/config_store.py), the migrations between them                      *)
(* (app/config_migrations.py) and the command that applies them to the file*)
(* (scripts/migrate_config.py --apply), by hand or from the updater, while *)
(* the services are down.                                                  *)
(*                                                                         *)
(* A field is the JSON object: a function on the keys it has.  A file has  *)
(* schema version 0 (or none), 1 or 2; its destinations are urls up to     *)
(* version 1 and urls with an audio mode in version 2.  name, emoji and    *)
(* enabled are left out: every step copies them.  Null is JSON's null, and *)
(* whatever is not the text a key asks for.                                *)
(***************************************************************************)
EXTENDS Integers, Sequences, FiniteSets

CONSTANTS
  Places,        \* the field ids, 1..16 in the code
  MaxDest,       \* the most destinations of a field, 32 in the code
  Urls,          \* what validate_rtmp_url accepts
  Keys,          \* publish keys
  Streams,       \* stream keys
  DefaultStream, \* place -> the stream it has without a stream_key, "streamN"
  Null, NoPlace,
  FirstFiles,    \* what the file may hold at first
  MaxRuns        \* bound on the runs of migrate_config.py

CurrentVersion == 2
AudioModes == {"source", "silent", "none"}
FieldKeys == {"key", "stream_key", "publish_auth_enabled", "restream_urls"}
OldKeys == {"restream_url", "rtmp_url", "hls_url"}

ASSUME ConfigAssumption ==
  /\ Places \subseteq Nat /\ Places # {}
  /\ MaxDest \in Nat
  /\ DefaultStream \in [Places -> Streams]
  /\ Null \notin Urls \cup Keys \cup Streams
  /\ MaxRuns \in Nat

\* What migrate_config gives instead of a configuration when it raises.
Refused == [version |-> -1, fields |-> <<>>]

Get(field, k, default) == IF k \in DOMAIN field THEN field[k] ELSE default
Put(field, k, v) == [j \in DOMAIN field \cup {k} |-> IF j = k THEN v ELSE field[j]]
Without(field, keys) == [k \in DOMAIN field \ keys |-> field[k]]
Or(v, default) == IF v = Null THEN default ELSE v

-----------------------------------------------------------------------------
(* Validation *)

Destinations(field) == Get(field, "restream_urls", <<>>)

Dests == [url : Urls, audio_mode : AudioModes]

\* What a file may hold at all, legal or not: whatever has the JSON type that
\* its key asks for, or Null.
JsonField(field) ==
  /\ Get(field, "stream_key", Null) \in Streams \cup {Null}
  /\ Get(field, "key", Null) \in Keys \cup {Null}
  /\ Get(field, "publish_auth_enabled", FALSE) \in BOOLEAN
  /\ Get(field, "restream_url", Null) \in Urls \cup {Null}
  /\ Destinations(field) \in Seq(Urls \cup Dests \cup {Null})

JsonConfig(c) ==
  /\ c = [version |-> c.version, fields |-> c.fields]
  /\ c.version \in Nat
  /\ \A f \in DOMAIN c.fields : JsonField(c.fields[f])

ASSUME FilesAssumption == \A c \in FirstFiles : JsonConfig(c)

\* The rules that every version has: known keys only, texts where there must
\* be, a key where publishers are to prove it, a bounded list of ds.
ValidShape(field, keys, ds) ==
  /\ DOMAIN field \subseteq keys
  /\ Get(field, "stream_key", Null) \in Streams \cup {Null}
  /\ Get(field, "key", Null) \in Keys \cup {Null}
  /\ Get(field, "publish_auth_enabled", FALSE) => Get(field, "key", Null) # Null
  /\ Len(Destinations(field)) <= MaxDest
  /\ \A j \in DOMAIN Destinations(field) : Destinations(field)[j] \in ds

ValidField(field) == ValidShape(field, FieldKeys, Dests)
ValidV1Field(field) == ValidShape(field, FieldKeys, Urls)
ValidLegacyField(field) ==
  /\ ValidShape(field, FieldKeys \cup OldKeys, Urls)
  /\ Get(field, "restream_url", CHOOSE u \in Urls : TRUE) \in Urls

ValidConfig(c) ==
  /\ c.version = CurrentVersion
  /\ DOMAIN c.fields \subseteq Places
  /\ \A f \in DOMAIN c.fields : ValidField(c.fields[f])

-----------------------------------------------------------------------------
(* Migrations *)

\* Mutants of Merged: the single destination joins the list even when it is
\* there already, or goes first.
MergedTwice(field) ==
  IF Get(field, "restream_url", Null) = Null THEN Destinations(field)
  ELSE Append(Destinations(field), field["restream_url"])
MergedFirst(field) ==
  IF Get(field, "restream_url", Null) = Null THEN Destinations(field)
  ELSE <<field["restream_url"]>> \o
       SelectSeq(Destinations(field), LAMBDA u : u # field["restream_url"])

\* The single destination of old joins the list unless it is there already.
Merged(field) ==
  LET list == Destinations(field)
      old == Get(field, "restream_url", Null)
  IN  IF old = Null \/ \E j \in DOMAIN list : list[j] = old THEN list
      ELSE Append(list, old)

FieldToV1(field) ==
  LET kept == Put(Without(field, OldKeys), "restream_urls", Merged(field))
  IN  Put(kept, "publish_auth_enabled", Get(field, "publish_auth_enabled", FALSE))

FieldToV2(field) ==
  Put(field, "restream_urls",
      [j \in DOMAIN Destinations(field) |->
         [url |-> Destinations(field)[j], audio_mode |-> "source"]])

\* One migration: refused unless every field is valid in the old version.
ToV1(c) ==
  IF \A f \in DOMAIN c.fields : f \in Places /\ ValidLegacyField(c.fields[f])
  THEN [version |-> 1, fields |-> [f \in DOMAIN c.fields |-> FieldToV1(c.fields[f])]]
  ELSE Refused

ToV2(c) ==
  IF \A f \in DOMAIN c.fields : f \in Places /\ ValidV1Field(c.fields[f])
  THEN [version |-> 2, fields |-> [f \in DOMAIN c.fields |-> FieldToV2(c.fields[f])]]
  ELSE Refused

\* migrate_config: the migrations in order, then the current schema's rules.
Migrate(c) ==
  LET v1 == IF c.version = 0 THEN ToV1(c) ELSE c
      v2 == IF v1 # Refused /\ v1.version = 1 THEN ToV2(v1) ELSE v1
  IN  IF v2 # Refused /\ ValidConfig(v2) THEN v2 ELSE Refused

-----------------------------------------------------------------------------
(* migrate_config.py --apply *)

VARIABLES
  file,      \* restream-config.json and whether the services may read it
  backups,   \* the contents of the protected backups beside it
  tool,      \* the run of migrate_config.py
  cut,       \* a run ended between the replacement of the file and its chown
  up,        \* the services run
  origin     \* history: what the file held at first, until the services run

toolVars == <<file, backups, tool, cut, up, origin>>

\* As root (the updater) the replaced file is root's until it is chowned back.
ToolType ==
  [pc : {"idle", "backup", "save", "chown", "done", "refused", "failed"},
   root : BOOLEAN, runs : 0 .. MaxRuns]

NoTool == [pc |-> "idle", root |-> FALSE, runs |-> 0]
Running == tool.pc \in {"backup", "save", "chown"}

\* The file is loaded, which only root or its owner can, and migrated in
\* memory; the copy is not kept here, as the file cannot change meanwhile.
ToolLoad(root) ==
  /\ ~up /\ ~Running
  /\ tool.runs < MaxRuns
  /\ root \/ file.readable
  /\ tool' = [root |-> root, runs |-> tool.runs + 1,
              pc |-> IF Migrate(file.content) = Refused THEN "refused"
                     ELSE IF file.content.version = CurrentVersion THEN "done"
                     ELSE "backup"]
  /\ UNCHANGED <<file, backups, cut, up, origin>>

ToolBackup ==
  /\ tool.pc = "backup"
  /\ backups' = backups \cup {file.content}
  /\ tool' = [tool EXCEPT !.pc = "save"]
  /\ UNCHANGED <<file, cut, up, origin>>

\* Mutant of ToolFails: a backup that cannot be written is done without.
ToolFailsOnward ==
  /\ Running
  /\ tool' = [tool EXCEPT !.pc = IF @ = "backup" THEN "save" ELSE "failed"]
  /\ cut' = (cut \/ tool.pc = "chown")
  /\ UNCHANGED <<file, backups, up, origin>>

\* Mutant of ToolSave: the file is not chowned afterwards.
ToolSaveOnly ==
  /\ tool.pc = "save"
  /\ file' = [content |-> Migrate(file.content), readable |-> ~tool.root]
  /\ tool' = [tool EXCEPT !.pc = "done"]
  /\ UNCHANGED <<backups, cut, up, origin>>

\* ConfigStore.save replaces the file by one of the user that runs the tool.
ToolSave ==
  /\ tool.pc = "save"
  /\ file' = [content |-> Migrate(file.content), readable |-> ~tool.root]
  /\ tool' = [tool EXCEPT !.pc = "chown"]
  /\ UNCHANGED <<backups, cut, up, origin>>

ToolChown ==
  /\ tool.pc = "chown"
  /\ file' = [file EXCEPT !.readable = TRUE]
  /\ tool' = [tool EXCEPT !.pc = "done"]
  /\ UNCHANGED <<backups, cut, up, origin>>

\* A step fails (a backup of the same second exists, the disk is full, fsync
\* after the replacement) or the tool is killed.
ToolFails ==
  /\ Running
  /\ tool' = [tool EXCEPT !.pc = "failed"]
  /\ cut' = (cut \/ tool.pc = "chown")
  /\ UNCHANGED <<file, backups, up, origin>>

\* The operator, or the updater, starts the services when the tool has ended.
\* None of them looks at the tool or its backups, which are left out from here.
StartServices ==
  /\ ~up /\ ~Running
  /\ up' = TRUE
  /\ backups' = {} /\ tool' = NoTool /\ cut' = FALSE /\ origin' = Null
  /\ UNCHANGED file

ToolInit ==
  /\ file \in [content : FirstFiles, readable : {TRUE}]
  /\ backups = {}
  /\ tool = NoTool
  /\ cut = FALSE
  /\ up = FALSE
  /\ origin = file.content

ToolNext ==
  \/ \E root \in BOOLEAN : ToolLoad(root)
  \/ ToolBackup \/ ToolSave \/ ToolChown \/ ToolFails
  \/ StartServices

ToolSpec == ToolInit /\ [][ToolNext]_toolVars

-----------------------------------------------------------------------------
(* Properties *)

\* A configuration that is legal in its version is refused by the migrations
\* for one reason only: its single destination does not fit into a full list.
LegalInItsVersion(c) ==
  /\ c.version <= CurrentVersion
  /\ DOMAIN c.fields \subseteq Places
  /\ \A f \in DOMAIN c.fields :
       CASE c.version = 0 -> ValidLegacyField(c.fields[f])
         [] c.version = 1 -> ValidV1Field(c.fields[f])
         [] c.version = 2 -> ValidField(c.fields[f])

Overfull(field) ==
  /\ Len(Destinations(field)) = MaxDest
  /\ Get(field, "restream_url", Null) \notin
       {Null} \cup {Destinations(field)[j] : j \in 1 .. MaxDest}

RefusedOnlyIfOverfull ==
  tool.pc = "refused" /\ LegalInItsVersion(file.content) =>
    \E f \in DOMAIN file.content.fields : Overfull(file.content.fields[f])

\* Whatever fails or is killed, and however often the tool runs again: until
\* the services run, the file is what it was at first or a backup of that
\* beside it is.
OriginalRecoverable ==
  ~up => /\ origin \in {file.content} \cup backups
         /\ file.content \in {origin, Migrate(origin)}

\* A run that ends with exit code 0 leaves a file that the services accept and
\* can read, unless an earlier run was cut short before its chown: the next one
\* then finds the schema current and does not look at the owner.
ExitZeroMeansReady ==
  tool.pc = "done" /\ ~cut /\ ~up => file.readable /\ ValidConfig(file.content)
=============================================================================
