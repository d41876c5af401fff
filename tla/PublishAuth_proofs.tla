------------------------- MODULE PublishAuth_proofs -------------------------
(***************************************************************************)
(* Proofs about PublishAuth, for any files, threads and requests: the      *)
(* migrations and their tool lose nothing, revoked keys stay revoked, and  *)
(* manager, auth service and migrations implement PublishGate.             *)
(***************************************************************************)
EXTENDS PublishAuth, ConfigMigrations_proofs, FiniteSetTheorems

-----------------------------------------------------------------------------
(* Policies *)

PolicyOf(field, f, version) ==
  [stream |-> ExpectedStream(field, f),
   auth |-> Get(field, "publish_auth_enabled", FALSE),
   key |-> Get(field, "key", Null),
   dests |-> StatedDests(field, version)]

\* The policy of a configuration is that of its fields.
LEMMA PolicyAt ==
  ASSUME NEW c
  PROVE  Policy(c) = [f \in Places |-> IF f \notin DOMAIN c.fields THEN NoPlace
                                       ELSE PolicyOf(c.fields[f], f, c.version)]
BY DEF Policy, PolicyOf

\* Before version 2 the stated destinations are the merged ones.
LEMMA StatedIsMerged ==
  ASSUME NEW field, JsonField(field), NEW version, version # CurrentVersion
  PROVE  StatedDests(field, version)
           = [j \in DOMAIN Merged(field) |-> [url |-> Merged(field)[j], audio_mode |-> "source"]]
<1> DEFINE list == Destinations(field)
           o == Get(field, "restream_url", Null)
           old == {o} \ ({list[j] : j \in DOMAIN list} \cup {Null})
           FromUrl(u) == [url |-> u, audio_mode |-> "source"]
<1>1. StatedDests(field, version)
        = [j \in 1 .. Len(list) + Cardinality(old) |->
             FromUrl(IF j <= Len(list) THEN list[j] ELSE CHOOSE u \in old : TRUE)]
  BY DEF StatedDests
<1>2. list \in Seq(Urls \cup Dests \cup {Null})
  BY DEF JsonField
<1>3. Merged(field) = IF o = Null \/ \E j \in DOMAIN list : list[j] = o THEN list
                      ELSE Append(list, o)
  BY DEF Merged, Get
<1> HIDE DEF list, o
<1>4. CASE o = Null \/ \E j \in DOMAIN list : list[j] = o
  <2>1. old = {} /\ Cardinality(old) = 0
    BY <1>4, FS_EmptySet
  <2>2. Merged(field) = list /\ DOMAIN list = 1 .. Len(list)
    BY <1>2, <1>3, <1>4
  <2> HIDE DEF old
  <2> QED BY <1>1, <1>2, <2>1, <2>2
<1>5. CASE ~(o = Null \/ \E j \in DOMAIN list : list[j] = o)
  <2>1. old = {o}
    BY <1>5
  <2>2. Cardinality(old) = 1 /\ (CHOOSE u \in old : TRUE) = o
    BY <2>1, FS_Singleton
  <2>3. Merged(field) = Append(list, o) /\ Len(list) \in Nat
    BY <1>2, <1>3, <1>5
  <2>4. DOMAIN Merged(field) = 1 .. Len(list) + 1
        /\ \A j \in 1 .. Len(list) + 1 : Merged(field)[j] = IF j <= Len(list) THEN list[j] ELSE o
    BY <1>2, <2>3
  <2> HIDE DEF old
  <2> QED BY <1>1, <2>2, <2>4
<1> QED BY <1>4, <1>5

\* The first migration keeps the policy of every field.
LEMMA V1KeepsPolicy ==
  ASSUME NEW field, JsonField(field), ValidLegacyField(field), NEW f
  PROVE  PolicyOf(FieldToV1(field), f, 1) = PolicyOf(field, f, 0)
<1> DEFINE new == FieldToV1(field)
<1>1. /\ JsonField(new) /\ SameButDests(new, field) /\ Destinations(new) = Merged(field)
      /\ Get(new, "restream_url", Null) = Null
  BY V1Field, V1Gets
<1> HIDE DEF new
<1>2. Merged(new) = Merged(field)
  BY <1>1 DEF Merged
<1>3. StatedDests(new, 1) = StatedDests(field, 0)
  BY <1>1, <1>2, StatedIsMerged DEF CurrentVersion
<1>4. PolicyOf(new, f, 1) = PolicyOf(field, f, 0)
  BY <1>1, <1>3 DEF PolicyOf, SameButDests, ExpectedStream
<1> QED BY <1>4 DEF new

\* The second migration keeps the policy of every field.
LEMMA V2KeepsPolicy ==
  ASSUME NEW field, JsonField(field), ValidV1Field(field), NEW f
  PROVE  PolicyOf(FieldToV2(field), f, 2) = PolicyOf(field, f, 1)
<1> DEFINE new == FieldToV2(field)
           list == Destinations(field)
<1>1. /\ SameButDests(new, field)
      /\ Destinations(new) = [j \in DOMAIN list |-> [url |-> list[j], audio_mode |-> "source"]]
  BY V2Gets
<1>2. Merged(field) = list
  <2>1. "restream_url" \notin DOMAIN field
    BY DEF ValidV1Field, ValidShape, FieldKeys
  <2>2. Get(field, "restream_url", Null) = Null
    BY <2>1 DEF Get
  <2> QED BY <2>2 DEF Merged
<1> HIDE DEF new, list
<1>3. StatedDests(field, 1) = Destinations(new)
  BY <1>1, <1>2, StatedIsMerged DEF CurrentVersion
<1>4. StatedDests(new, 2) = Destinations(new)
  BY DEF StatedDests, CurrentVersion
<1>5. PolicyOf(new, f, 2) = PolicyOf(field, f, 1)
  BY <1>1, <1>3, <1>4 DEF PolicyOf, SameButDests, ExpectedStream
<1> QED BY <1>5 DEF new

\* No migration changes a policy, nor a key.
LEMMA MigrateKeepsPolicy ==
  ASSUME NEW c, JsonConfig(c), Migrate(c) # Refused
  PROVE  Policy(Migrate(c)) = Policy(c) /\ KeysOf(Migrate(c).fields) = KeysOf(c.fields)
<1> DEFINE new == Migrate(c)
<1>0. \A f \in DOMAIN c.fields : JsonField(c.fields[f])
  BY DEF JsonConfig
<1>1. /\ DOMAIN new.fields = DOMAIN c.fields
      /\ \A f \in DOMAIN c.fields :
           PolicyOf(new.fields[f], f, new.version) = PolicyOf(c.fields[f], f, c.version)
  <2>1. CASE c.version = 0
    <3> DEFINE d == ToV1(c)
    <3>1. new = ToV2(d) /\ d # Refused /\ ToV2(d) # Refused
      BY <2>1, MigrateMakes
    <3>2. /\ JsonConfig(d) /\ d.version = 1 /\ DOMAIN d.fields = DOMAIN c.fields
          /\ \A f \in DOMAIN c.fields :
               ValidLegacyField(c.fields[f]) /\ d.fields[f] = FieldToV1(c.fields[f])
      BY <3>1, V1Config
    <3> HIDE DEF d, new
    <3>3. /\ new.version = 2 /\ DOMAIN new.fields = DOMAIN c.fields
          /\ \A f \in DOMAIN c.fields :
               ValidV1Field(d.fields[f]) /\ new.fields[f] = FieldToV2(d.fields[f])
      BY <3>1, <3>2, V2Config
    <3>4. \A f \in DOMAIN c.fields : JsonField(d.fields[f])
      BY <3>2 DEF JsonConfig
    <3> QED BY <1>0, <2>1, <3>2, <3>3, <3>4, V1KeepsPolicy, V2KeepsPolicy
  <2>2. CASE c.version = 1
    <3>1. new = ToV2(c) /\ ToV2(c) # Refused
      BY <2>2, MigrateMakes
    <3> HIDE DEF new
    <3>2. /\ new.version = 2 /\ DOMAIN new.fields = DOMAIN c.fields
          /\ \A f \in DOMAIN c.fields :
               ValidV1Field(c.fields[f]) /\ new.fields[f] = FieldToV2(c.fields[f])
      BY <3>1, V2Config
    <3> QED BY <1>0, <2>2, <3>2, V2KeepsPolicy
  <2>3. CASE c.version \notin {0, 1}
    BY <2>3, MigrateMakes
  <2> QED BY <2>1, <2>2, <2>3
<1> HIDE DEF new
<1>2. Policy(new) = Policy(c)
  BY <1>1, PolicyAt
<1>3. \A f \in DOMAIN c.fields : Get(new.fields[f], "key", Null) = Get(c.fields[f], "key", Null)
  <2> SUFFICES ASSUME NEW f \in DOMAIN c.fields
               PROVE  Get(new.fields[f], "key", Null) = Get(c.fields[f], "key", Null)
    OBVIOUS
  <2>1. PolicyOf(new.fields[f], f, new.version).key = PolicyOf(c.fields[f], f, c.version).key
    BY <1>1
  <2> QED BY <2>1 DEF PolicyOf
<1>4. KeysOf(new.fields) = KeysOf(c.fields)
  BY <1>1, <1>3 DEF KeysOf
<1> QED BY <1>2, <1>4 DEF new

-----------------------------------------------------------------------------
(* Edits *)

\* What an edit of the field f makes of the fields.
Result(op, f, fields) ==
  LET old == file.content.fields
  IN  /\ DOMAIN fields \ {f} = DOMAIN old \ {f}
      /\ \A g \in DOMAIN fields \ {f} : fields[g] = old[g]
      /\ op \in {"create", "update", "rotate"} => f \in DOMAIN fields
      /\ op = "create" =>
           /\ f \notin DOMAIN old
           /\ \E s \in Streams, k \in AsciiKeys \ spent : fields[f] = NewField(s, k)
      /\ op # "create" => f \in DOMAIN old
      /\ op = "update" =>
           fields[f] = old[f] \/ \E s \in Streams : fields[f] = Put(old[f], "stream_key", s)
      /\ op = "rotate" =>
           \E k \in AsciiKeys \ spent : fields[f] = Put(old[f], "key", k)
      /\ op = "delete" => f \notin DOMAIN fields

\* What a handler makes of a field is what its operation says.
LEMMA EditedGives ==
  ASSUME NEW op \in EditOps, NEW f \in Places, Addresses(op, f), NEW fields \in Edited(op, f)
  PROVE  Result(op, f, fields)
<1> DEFINE old == file.content.fields
<1>1. CASE op = "create"
  <2> DEFINE with(s, k) ==
               [g \in DOMAIN old \cup {f} |-> IF g = f THEN NewField(s, k) ELSE old[g]]
  <2>4. Edited(op, f) = {with(s, k) : s \in Streams, k \in AsciiKeys \ spent}
    BY <1>1 DEF Edited
  <2> HIDE DEF with
  <2>5. \E s \in Streams, k \in AsciiKeys \ spent : fields = with(s, k)
    BY <2>4
  <2> USE DEF with
  <2>1. PICK s \in Streams, k \in AsciiKeys \ spent :
          fields = [g \in DOMAIN old \cup {f} |-> IF g = f THEN NewField(s, k) ELSE old[g]]
    BY <2>5
  <2>2. /\ fields[f] = NewField(s, k) /\ f \in DOMAIN fields
        /\ DOMAIN fields \ {f} = DOMAIN old \ {f}
        /\ \A g \in DOMAIN fields \ {f} : fields[g] = old[g]
    BY <2>1
  <2>3. f \notin DOMAIN old
    BY <1>1 DEF Addresses
  <2> QED BY <1>1, <2>2, <2>3 DEF Result
<1>2. CASE op = "update"
  <2>1. PICK s \in Streams :
          fields = IF s = Get(old[f], "stream_key", DefaultStream[f]) THEN old
                   ELSE [old EXCEPT ![f] = Put(@, "stream_key", s)]
    BY <1>2 DEF Edited
  <2>2. f \in DOMAIN old
    BY <1>2 DEF Addresses
  <2>3. fields = old \/ fields = [old EXCEPT ![f] = Put(old[f], "stream_key", s)]
    BY <2>1
  <2> QED BY <1>2, <2>2, <2>3 DEF Result
<1>3. CASE op = "rotate"
  <2>1. PICK k \in AsciiKeys \ spent : fields = [old EXCEPT ![f] = Put(old[f], "key", k)]
    BY <1>3 DEF Edited
  <2>2. f \in DOMAIN old
    BY <1>3 DEF Addresses
  <2>3. fields[f] = Put(old[f], "key", k)
    BY <2>1, <2>2
  <2> QED BY <1>3, <2>1, <2>2, <2>3 DEF Result
<1>4. CASE op = "delete"
  <2>1. fields = [g \in DOMAIN old \ {f} |-> old[g]]
    BY <1>4 DEF Edited
  <2> QED BY <1>4, <2>1 DEF Result, Addresses
<1> QED BY <1>1, <1>2, <1>3, <1>4 DEF EditOps

\* A created field is legal, open to any publisher, and has no destinations.
LEMMA NewFieldIs ==
  ASSUME NEW s \in Streams, NEW k \in Keys
  PROVE  /\ JsonField(NewField(s, k)) /\ ValidField(NewField(s, k))
         /\ Get(NewField(s, k), "key", Null) = k /\ Get(NewField(s, k), "stream_key", Null) = s
         /\ Get(NewField(s, k), "publish_auth_enabled", FALSE) = FALSE
         /\ Destinations(NewField(s, k)) = <<>>
<1>1. DOMAIN NewField(s, k) = {"stream_key", "key"}
      /\ NewField(s, k)["stream_key"] = s /\ NewField(s, k)["key"] = k
  BY DEF NewField
<1> DEFINE new == NewField(s, k)
<1> HIDE DEF new
<1>2. /\ Get(new, "key", Null) = k /\ Get(new, "stream_key", Null) = s
      /\ Get(new, "publish_auth_enabled", FALSE) = FALSE
      /\ Get(new, "restream_url", Null) = Null /\ Destinations(new) = <<>>
  BY <1>1 DEF Get, Destinations, new
<1>3. <<>> \in Seq(Urls \cup Dests \cup {Null}) /\ Len(<<>>) <= MaxDest /\ DOMAIN <<>> = {}
  BY ConfigAssumption
<1>4. JsonField(new)
  BY <1>2, <1>3 DEF JsonField
<1>5. DOMAIN new \subseteq FieldKeys
  BY <1>1 DEF FieldKeys, new
<1>6. ValidField(new)
  BY <1>2, <1>3, <1>5, ConfigAssumption DEF ValidField, ValidShape
<1> QED BY <1>2, <1>4, <1>6 DEF new

\* The policy of a new field: its key, but nobody is asked for it yet.
LEMMA NewPolicyIs ==
  ASSUME NEW s \in Streams, NEW k \in Keys, NEW f
  PROVE  PolicyOf(NewField(s, k), f, CurrentVersion)
           = [stream |-> s, auth |-> FALSE, key |-> k, dests |-> <<>>]
<1> DEFINE new == NewField(s, k)
<1>1. /\ Get(new, "key", Null) = k /\ Get(new, "stream_key", Null) = s
      /\ Get(new, "publish_auth_enabled", FALSE) = FALSE /\ Destinations(new) = <<>>
  <2>1. DOMAIN new = {"stream_key", "key"} /\ new["stream_key"] = s /\ new["key"] = k
    BY DEF NewField
  <2> HIDE DEF new
  <2> QED BY <2>1 DEF Get, Destinations
<1> HIDE DEF new
<1>2. ExpectedStream(new, f) = s
  BY <1>1, ConfigAssumption DEF ExpectedStream, Or
<1>3. StatedDests(new, CurrentVersion) = <<>>
  BY <1>1 DEF StatedDests
<1>4. PolicyOf(new, f, CurrentVersion)
        = [stream |-> s, auth |-> FALSE, key |-> k, dests |-> <<>>]
  BY <1>1, <1>2, <1>3 DEF PolicyOf
<1> QED BY <1>4 DEF new

\* Renaming the stream, or drawing a key, keeps a field legal and the rest of it.
LEMMA PutIs ==
  ASSUME NEW field, JsonField(field), ValidField(field),
         NEW j \in {"stream_key", "key"}, NEW v, v \in (IF j = "key" THEN Keys ELSE Streams)
  PROVE  /\ JsonField(Put(field, j, v)) /\ ValidField(Put(field, j, v))
         /\ Get(Put(field, j, v), j, Null) = v
         /\ \A i, d : i # j => Get(Put(field, j, v), i, d) = Get(field, i, d)
         /\ Destinations(Put(field, j, v)) = Destinations(field)
<1> DEFINE new == Put(field, j, v)
<1>1. /\ DOMAIN new = DOMAIN field \cup {j}
      /\ \A i, d : Get(new, i, d) = IF i = j THEN v ELSE Get(field, i, d)
  <2>1. DOMAIN new = DOMAIN field \cup {j}
    BY GetPut
  <2>2. ASSUME NEW i, NEW d
        PROVE  Get(new, i, d) = IF i = j THEN v ELSE Get(field, i, d)
    BY DEF Get, Put
  <2> QED BY <2>1, <2>2
<1> HIDE DEF new
<1>2. /\ \A i, d : i # j => Get(new, i, d) = Get(field, i, d)
      /\ Get(new, j, Null) = v /\ v # Null
      /\ Destinations(new) = Destinations(field)
  BY <1>1, ConfigAssumption DEF Destinations
<1>3. /\ Get(new, "stream_key", Null) \in Streams \cup {Null}
      /\ Get(new, "key", Null) \in Keys \cup {Null}
      /\ Get(new, "publish_auth_enabled", FALSE) = Get(field, "publish_auth_enabled", FALSE)
      /\ Get(new, "restream_url", Null) = Get(field, "restream_url", Null)
      /\ Get(field, "key", Null) # Null => Get(new, "key", Null) # Null
  <2>1. CASE j = "key"
    BY <1>2, <2>1 DEF JsonField
  <2>2. CASE j = "stream_key"
    BY <1>2, <2>2 DEF JsonField
  <2> QED BY <2>1, <2>2
<1>4. JsonField(new)
  BY <1>2, <1>3 DEF JsonField
<1>5. DOMAIN new \subseteq FieldKeys
  BY <1>1 DEF ValidField, ValidShape, FieldKeys
<1>6. Get(new, "publish_auth_enabled", FALSE) => Get(new, "key", Null) # Null
  BY <1>3 DEF ValidField, ValidShape
<1>7. ValidField(new)
  BY <1>2, <1>3, <1>5, <1>6 DEF ValidField, ValidShape
<1> QED BY <1>2, <1>4, <1>7 DEF new

\* An edit leaves a legal file, and takes no key but a fresh one.
LEMMA EditedIsLegal ==
  ASSUME FileTyped, Loads, NEW op \in EditOps, NEW f \in Places, NEW fields,
         Result(op, f, fields)
  PROVE  /\ \A g \in DOMAIN fields : JsonField(fields[g]) /\ ValidField(fields[g])
         /\ DOMAIN fields \subseteq Places
         /\ KeysOf(fields) \subseteq KeysOf(file.content.fields) \cup (AsciiKeys \ spent)
         /\ op = "update" =>
              Get(fields[f], "key", Null) = Get(file.content.fields[f], "key", Null)
         /\ op = "rotate" => /\ Get(fields[f], "key", Null) = fields[f]["key"]
                             /\ fields[f]["key"] \in AsciiKeys \ spent
<1> DEFINE old == file.content.fields
<1>1. /\ \A g \in DOMAIN old : JsonField(old[g]) /\ ValidField(old[g])
      /\ DOMAIN old \subseteq Places
  BY DEF FileTyped, JsonConfig, Loads, ValidConfig
<1>2. /\ DOMAIN fields \ {f} = DOMAIN old \ {f}
      /\ \A g \in DOMAIN fields \ {f} : fields[g] = old[g]
  BY DEF Result
<1>3. f \in DOMAIN fields =>
        /\ JsonField(fields[f]) /\ ValidField(fields[f])
        /\ Get(fields[f], "key", Null)
             \in {Null} \cup (AsciiKeys \ spent)
                 \cup (IF f \in DOMAIN old THEN {Get(old[f], "key", Null)} ELSE {})
  <2>1. CASE op = "create"
    <3>1. PICK s \in Streams, k \in AsciiKeys \ spent : fields[f] = NewField(s, k)
      BY <2>1 DEF Result
    <3>2. k \in Keys
      BY AuthAssumption
    <3>3. /\ JsonField(NewField(s, k)) /\ ValidField(NewField(s, k))
          /\ Get(NewField(s, k), "key", Null) = k
      BY <3>2, NewFieldIs
    <3> QED BY <3>1, <3>3
  <2>2. CASE op = "update"
    <3>1. f \in DOMAIN old
      BY <2>2 DEF Result
    <3>2. CASE fields[f] = old[f]
      BY <1>1, <3>1, <3>2
    <3>3. CASE fields[f] # old[f]
      <4>1. PICK s \in Streams : fields[f] = Put(old[f], "stream_key", s)
        BY <2>2, <3>3 DEF Result
      <4>2. /\ JsonField(fields[f]) /\ ValidField(fields[f])
            /\ Get(fields[f], "key", Null) = Get(old[f], "key", Null)
        BY <1>1, <3>1, <4>1, PutIs
      <4> QED BY <3>1, <4>2
    <3> QED BY <3>2, <3>3
  <2>3. CASE op = "rotate"
    <3>1. PICK k \in AsciiKeys \ spent : fields[f] = Put(old[f], "key", k)
      BY <2>3 DEF Result
    <3>2. f \in DOMAIN old /\ k \in Keys
      BY <2>3, AuthAssumption DEF Result
    <3>3. /\ JsonField(fields[f]) /\ ValidField(fields[f])
          /\ Get(fields[f], "key", Null) = k
      BY <1>1, <3>1, <3>2, PutIs
    <3> QED BY <3>3
  <2>4. CASE op = "delete"
    BY <2>4 DEF Result
  <2> QED BY <2>1, <2>2, <2>3, <2>4 DEF EditOps
<1>4. \A g \in DOMAIN fields : JsonField(fields[g]) /\ ValidField(fields[g])
  BY <1>1, <1>2, <1>3
<1>5. KeysOf(fields) \subseteq KeysOf(old) \cup (AsciiKeys \ spent)
  BY <1>2, <1>3 DEF KeysOf
<1>6. op = "update" => Get(fields[f], "key", Null) = Get(old[f], "key", Null)
  <2> SUFFICES ASSUME op = "update", fields[f] # old[f]
               PROVE  Get(fields[f], "key", Null) = Get(old[f], "key", Null)
    OBVIOUS
  <2>1. PICK s \in Streams : fields[f] = Put(old[f], "stream_key", s)
    BY DEF Result
  <2>2. Get(Put(old[f], "stream_key", s), "key", Null) = Get(old[f], "key", Null)
    BY DEF Get, Put
  <2> QED BY <2>1, <2>2
<1>7. op = "rotate" => /\ Get(fields[f], "key", Null) = fields[f]["key"]
                       /\ fields[f]["key"] \in AsciiKeys \ spent
  <2> SUFFICES ASSUME op = "rotate"
               PROVE  /\ Get(fields[f], "key", Null) = fields[f]["key"]
                      /\ fields[f]["key"] \in AsciiKeys \ spent
    OBVIOUS
  <2>1. PICK k \in AsciiKeys \ spent : fields[f] = Put(old[f], "key", k)
    BY DEF Result
  <2>2. fields[f]["key"] = k /\ "key" \in DOMAIN fields[f]
    BY <2>1 DEF Put
  <2> QED BY <2>2 DEF Get
<1> QED BY <1>1, <1>2, <1>4, <1>5, <1>6, <1>7

-----------------------------------------------------------------------------
(* The inductive invariant *)

Results ==
  {"legacy_allowed", "authorized", "auth_error", "unknown_place", "invalid_stream",
   "key_not_configured", "invalid_key"}

RequestType ==
  [pc : {"idle", "asked", "answered"}, f : Places, s : Streams \cup {Null},
   k : Keys \cup {Null}, stale : BOOLEAN, res : Results \cup {"none"}]

\* What the holder of the lock is about to save is an edit of what the file
\* holds now, and of no key that was spent meanwhile.
EditInv ==
  /\ DOMAIN edit = Threads /\ configLock \in Threads \cup {NoThread}
  /\ \A m \in Threads :
       /\ edit[m].pc = "saving" <=> configLock = m
       /\ edit[m].pc = "saving" =>
            /\ up /\ Loads
            /\ edit[m].op \in EditOps /\ edit[m].f \in Places
            /\ Result(edit[m].op, edit[m].f, edit[m].fields)

KeyInv ==
  /\ spent \subseteq Keys /\ KeysOf(file.content.fields) \subseteq spent
  /\ issued \in [Places -> Keys \cup {Null}]
  /\ IssuedKeyIsConfigured
  /\ ~up => \A f \in Places : issued[f] = Null

\* A key that is out stays out, and is not what authorized its publisher.
StaleInv ==
  \A a \in Requests : request[a].stale =>
    request[a].k \in spent \ KeysOf(file.content.fields) /\ request[a].res # "authorized"

RequestInv ==
  /\ request \in [Requests -> RequestType]
  /\ \A a \in Requests :
       /\ request[a].pc = "idle" => ~request[a].stale
       /\ request[a].pc # "idle" => up /\ request[a].s \in Streams
  /\ StaleInv

PublishInv == ToolInv /\ EditInv /\ KeyInv /\ RequestInv

\* Initially no handler, no request and no spent key.
LEMMA PublishStarts == PInit => PublishInv
<1> SUFFICES ASSUME PInit PROVE PublishInv
  OBVIOUS
<1>1. ToolInv /\ ~up
  BY ToolStarts DEF PInit, ToolInit
<1>2. (CHOOSE f \in Places : TRUE) \in Places
  BY ConfigAssumption
<1>3. EditInv
  <2>1. \A m \in Threads : edit[m].pc = "idle"
    BY DEF PInit, NoEdit
  <2> QED BY <2>1, AuthAssumption DEF PInit, EditInv
<1>4. KeyInv
  <2>1. KeysOf(file.content.fields) \subseteq Keys
    BY <1>1 DEF KeysOf, ToolInv, FileTyped, JsonConfig, JsonField
  <2> QED BY <2>1 DEF PInit, KeyInv, IssuedKeyIsConfigured
<1>5. RequestInv
  <2>1. NoRequest \in RequestType /\ NoRequest.pc = "idle" /\ ~NoRequest.stale
    BY <1>2 DEF NoRequest, RequestType
  <2> QED BY <2>1 DEF PInit, RequestInv, StaleInv
<1> QED BY <1>1, <1>3, <1>4, <1>5 DEF PublishInv

-----------------------------------------------------------------------------
(* The tool and the gate *)

\* What the gate allows a step to be.
Simulates == [G!GateNext]_(G!gateVars)

\* While the services run no step is the tool's.
LEMMA ToolNeedsDown ==
  ASSUME ToolInv, ToolNext
  PROVE  ~up /\ \/ UNCHANGED file
                \/ /\ file'.content = file.content
                \/ /\ Migrate(file.content) # Refused
                   /\ file'.content = Migrate(file.content)
<1>1. ~up
  BY DEF ToolNext, ToolLoad, ToolBackup, ToolSave, ToolChown, ToolFails, StartServices,
         Running, ToolInv, ToolTyped, NoTool
<1>2. CASE ToolSave
  BY <1>1, <1>2 DEF ToolSave, ToolInv, ToolStages
<1>3. CASE ToolChown
  <2>1. file = [content |-> file.content, readable |-> file.readable]
        /\ file' = [file EXCEPT !.readable = TRUE]
    BY <1>3 DEF ToolChown, ToolInv, FileTyped
  <2> QED BY <1>1, <2>1
<1>4. CASE ~ToolSave /\ ~ToolChown
  BY <1>1, <1>4 DEF ToolNext, ToolLoad, ToolBackup, ToolFails, StartServices
<1> QED BY <1>1, <1>2, <1>3, <1>4

\* A step of the migrations is a stutter of PublishGate.
LEMMA ToolPublishes ==
  ASSUME PublishInv, ToolNext, UNCHANGED <<editVars, request>>
  PROVE  PublishInv' /\ Simulates
<1>0. /\ ToolInv /\ EditInv /\ KeyInv /\ RequestInv
      /\ UNCHANGED <<configLock, edit, spent, issued, request>>
  BY DEF PublishInv, editVars
<1>1. ToolInv'
  BY <1>0, ToolSteps
<1>2. /\ ~up
      /\ Policy(file'.content) = Policy(file.content)
      /\ KeysOf(file'.content.fields) = KeysOf(file.content.fields)
  BY <1>0, ToolNeedsDown, MigrateKeepsPolicy DEF ToolInv, FileTyped
<1>3. EditInv'
  BY <1>0, <1>2 DEF EditInv
<1>4. KeyInv'
  BY <1>0, <1>2 DEF KeyInv, IssuedKeyIsConfigured
<1>5. RequestInv'
  BY <1>0, <1>2 DEF RequestInv, StaleInv
<1>6. Simulates
  <2>1. CASE (up /\ Loads)'
    BY <1>0, <1>2, <2>1 DEF Simulates, G!GateNext, G!Switch
  <2>2. CASE ~(up /\ Loads)'
    BY <1>0, <1>2, <2>2 DEF Simulates, G!gateVars
  <2> QED BY <2>1, <2>2
<1> QED BY <1>1, <1>3, <1>4, <1>5, <1>6 DEF PublishInv

-----------------------------------------------------------------------------
(* The handlers and the gate *)

\* The policy of a legal field is one of PublishGate's.
LEMMA LegalPolicy ==
  ASSUME NEW field, JsonField(field), ValidField(field), NEW f \in Places
  PROVE  PolicyOf(field, f, CurrentVersion) \in PolicyType
         /\ PolicyOf(field, f, CurrentVersion) # NoPlace
<1>1. Destinations(field) \in Seq(Dests)
  BY DEF JsonField, ValidField, ValidShape
<1>2. StatedDests(field, CurrentVersion) = Destinations(field)
  BY DEF StatedDests
<1>3. ExpectedStream(field, f) \in Streams
  BY ConfigAssumption DEF ExpectedStream, Or, JsonField
<1>4. Get(field, "key", Null) \in Keys \cup {Null}
      /\ Get(field, "publish_auth_enabled", FALSE) \in BOOLEAN
  BY DEF JsonField
<1>5. PolicyOf(field, f, CurrentVersion) \in PolicyType
  BY <1>1, <1>2, <1>3, <1>4 DEF PolicyOf, PolicyType
<1> QED BY <1>5, AuthAssumption

\* A policy with another stream.
LEMMA RenamedPolicy ==
  ASSUME NEW field, NEW f, NEW v
  PROVE  [PolicyOf(field, f, CurrentVersion) EXCEPT !.stream = v]
              = [stream |-> v,
                 auth |-> PolicyOf(field, f, CurrentVersion).auth,
                 key |-> PolicyOf(field, f, CurrentVersion).key,
                 dests |-> PolicyOf(field, f, CurrentVersion).dests]
<1> DEFINE p == PolicyOf(field, f, CurrentVersion)
           a == ExpectedStream(field, f)
           b == Get(field, "publish_auth_enabled", FALSE)
           c == Get(field, "key", Null)
           d == StatedDests(field, CurrentVersion)
<1>1. p = [stream |-> a, auth |-> b, key |-> c, dests |-> d]
  BY DEF PolicyOf
<1> HIDE DEF p, a, b, c, d
<1>2. [p EXCEPT !.stream = v]
        = [stream |-> v, auth |-> p.auth, key |-> p.key, dests |-> p.dests]
  BY <1>1
<1> QED BY <1>2 DEF p

\* A policy with another key.
LEMMA RotatedPolicy ==
  ASSUME NEW field, NEW f, NEW v
  PROVE  [PolicyOf(field, f, CurrentVersion) EXCEPT !.key = v]
              = [stream |-> PolicyOf(field, f, CurrentVersion).stream,
                 auth |-> PolicyOf(field, f, CurrentVersion).auth,
                 key |-> v,
                 dests |-> PolicyOf(field, f, CurrentVersion).dests]
<1> DEFINE p == PolicyOf(field, f, CurrentVersion)
           a == ExpectedStream(field, f)
           b == Get(field, "publish_auth_enabled", FALSE)
           c == Get(field, "key", Null)
           d == StatedDests(field, CurrentVersion)
<1>1. p = [stream |-> a, auth |-> b, key |-> c, dests |-> d]
  BY DEF PolicyOf
<1> HIDE DEF p, a, b, c, d
<1>2. [p EXCEPT !.key = v]
        = [stream |-> p.stream, auth |-> p.auth, key |-> v, dests |-> p.dests]
  BY <1>1
<1> QED BY <1>2 DEF p

\* Replacing the fields changes one thing of one policy, or nothing, and the
\* new key is one that no file had.
LEMMA ResultSimulates ==
  ASSUME ToolInv, KeyInv, up, Loads, NEW op \in EditOps, NEW f \in Places, NEW fields,
         Result(op, f, fields),
         file'.content = [version |-> CurrentVersion, fields |-> fields],
         file'.readable = file.readable, Loads',
         spent' = spent \cup KeysOf(fields), UNCHANGED <<up, request>>
  PROVE  Simulates
<1> DEFINE old == file.content.fields
           p == Policy(file.content)
           q == Policy(file'.content)
<1>0. /\ file.content.version = CurrentVersion /\ DOMAIN old \subseteq Places
      /\ \A g \in DOMAIN old : JsonField(old[g]) /\ ValidField(old[g])
  BY DEF Loads, ValidConfig, ToolInv, FileTyped, JsonConfig
<1>1. /\ p = [g \in Places |-> IF g \notin DOMAIN old THEN NoPlace
                               ELSE PolicyOf(old[g], g, CurrentVersion)]
      /\ q = [g \in Places |-> IF g \notin DOMAIN fields THEN NoPlace
                               ELSE PolicyOf(fields[g], g, CurrentVersion)]
  <2>1. file'.content.fields = fields /\ file'.content.version = CurrentVersion
    OBVIOUS
  <2> QED BY <1>0, <2>1, PolicyAt
<1>2. /\ DOMAIN fields \ {f} = DOMAIN old \ {f}
      /\ \A g \in DOMAIN fields \ {f} : fields[g] = old[g]
  BY DEF Result
<1>3. q = [p EXCEPT ![f] = q[f]]
  BY <1>1, <1>2
<1>4. /\ f \in DOMAIN old => p[f] = PolicyOf(old[f], f, CurrentVersion) /\ p[f] # NoPlace
      /\ f \notin DOMAIN old => p[f] = NoPlace
      /\ f \in DOMAIN fields => q[f] = PolicyOf(fields[f], f, CurrentVersion) /\ q[f] # NoPlace
      /\ f \notin DOMAIN fields => q[f] = NoPlace
  BY <1>0, <1>1, EditedIsLegal, LegalPolicy DEF ToolInv
<1>5. KeysOf(fields) = (KeysOf(fields) \cap KeysOf(old))
                          \cup (IF f \in DOMAIN fields
                                THEN {Get(fields[f], "key", Null)} \ {Null} ELSE {})
  BY <1>2 DEF KeysOf
<1>6. spent' = spent \cup (IF f \in DOMAIN fields
                           THEN {Get(fields[f], "key", Null)} \ {Null} ELSE {})
  BY <1>5 DEF KeyInv
<1>7. Policy(file.content)' = q /\ (up /\ Loads)' = (up /\ Loads)
  OBVIOUS
<1> HIDE DEF p, q, old
<1>8. G!Change(f, q[f])
  <2>1. spent' = spent \cup (IF q[f] = NoPlace THEN {} ELSE {q[f].key} \ {Null})
    BY <1>4, <1>6 DEF PolicyOf
  <2>2. Policy(file.content)' = [Policy(file.content) EXCEPT ![f] = q[f]]
    BY <1>3, <1>7 DEF p
  <2> QED BY <1>7, <2>1, <2>2 DEF G!Change
<1>9. CASE op = "create"
  <2>1. PICK s \in Streams, k \in AsciiKeys \ spent : fields[f] = NewField(s, k)
    BY <1>9 DEF Result
  <2>2. k \in Keys \ spent
    BY AuthAssumption
  <2>3. f \in DOMAIN fields /\ f \notin DOMAIN old
    BY <1>9 DEF Result, old
  <2>4. PolicyOf(NewField(s, k), f, CurrentVersion)
          = [stream |-> s, auth |-> FALSE, key |-> k, dests |-> <<>>]
    <3>1. s \in Streams /\ k \in Keys
      BY <2>2
    <3> QED BY <3>1, NewPolicyIs
  <2>5. Policy(file.content)[f] = NoPlace
        /\ q[f] = [stream |-> s, auth |-> FALSE, key |-> k, dests |-> <<>>]
    BY <1>4, <2>1, <2>3, <2>4 DEF p
  <2>6. G!Create(f)
    BY <1>8, <2>2, <2>5 DEF G!Create
  <2> QED BY <2>6 DEF Simulates, G!GateNext
<1>10. CASE op = "update"
  <2>1. f \in DOMAIN fields /\ f \in DOMAIN old
    BY <1>10 DEF Result, old
  <2>2. CASE fields[f] = old[f]
    <3>1. q = p
      BY <1>1, <1>2, <2>1, <2>2
    <3>2. spent' = spent
      BY <1>6, <2>1, <2>2 DEF KeyInv, KeysOf, old
    <3> QED BY <1>7, <3>1, <3>2 DEF Simulates, G!gateVars, p
  <2>3. CASE fields[f] # old[f]
    <3>1. PICK s \in Streams : fields[f] = Put(old[f], "stream_key", s)
      BY <1>10, <2>3 DEF Result, old
    <3>2. PolicyOf(fields[f], f, CurrentVersion)
            = [PolicyOf(old[f], f, CurrentVersion) EXCEPT !.stream = s]
      <4> DEFINE new == Put(old[f], "stream_key", s)
      <4>1. /\ Get(new, "stream_key", Null) = s /\ Get(new, "key", Null) = Get(old[f], "key", Null)
            /\ Get(new, "publish_auth_enabled", FALSE)
                 = Get(old[f], "publish_auth_enabled", FALSE)
            /\ Destinations(new) = Destinations(old[f])
        BY DEF Get, Put, Destinations
      <4> HIDE DEF new
      <4>2. PolicyOf(new, f, CurrentVersion)
              = [PolicyOf(old[f], f, CurrentVersion) EXCEPT !.stream = s]
        <5>1. ExpectedStream(new, f) = s
          BY <4>1, ConfigAssumption DEF ExpectedStream, Or
        <5>2. StatedDests(new, CurrentVersion) = StatedDests(old[f], CurrentVersion)
          BY <4>1 DEF StatedDests
        <5> DEFINE before == PolicyOf(old[f], f, CurrentVersion)
                   changed == [stream |-> s, auth |-> before.auth, key |-> before.key,
                               dests |-> before.dests]
        <5>3. PolicyOf(new, f, CurrentVersion) = changed
          BY <4>1, <5>1, <5>2 DEF PolicyOf
        <5>4. [before EXCEPT !.stream = s] = changed
          BY RenamedPolicy
        <5> QED BY <5>3, <5>4
      <4> QED BY <3>1, <4>2 DEF new
    <3>3. Policy(file.content)[f] # NoPlace
          /\ q[f] = [Policy(file.content)[f] EXCEPT !.stream = s]
      BY <1>4, <2>1, <3>2 DEF p
    <3>4. G!Rename(f)
      BY <1>8, <3>3 DEF G!Rename
    <3> QED BY <3>4 DEF Simulates, G!GateNext
  <2> QED BY <2>2, <2>3
<1>11. CASE op = "rotate"
  <2>1. PICK k \in AsciiKeys \ spent : fields[f] = Put(old[f], "key", k)
    BY <1>11 DEF Result, old
  <2>2. k \in Keys \ spent
    BY AuthAssumption
  <2>3. f \in DOMAIN fields /\ f \in DOMAIN old
    BY <1>11 DEF Result, old
  <2>4. PolicyOf(fields[f], f, CurrentVersion)
          = [PolicyOf(old[f], f, CurrentVersion) EXCEPT !.key = k]
    <3> DEFINE new == Put(old[f], "key", k)
    <3>1. /\ Get(new, "key", Null) = k
          /\ Get(new, "stream_key", Null) = Get(old[f], "stream_key", Null)
          /\ Get(new, "publish_auth_enabled", FALSE) = Get(old[f], "publish_auth_enabled", FALSE)
          /\ Destinations(new) = Destinations(old[f])
      BY DEF Get, Put, Destinations
    <3> HIDE DEF new
    <3>2. PolicyOf(new, f, CurrentVersion)
            = [PolicyOf(old[f], f, CurrentVersion) EXCEPT !.key = k]
      <4>1. ExpectedStream(new, f) = ExpectedStream(old[f], f)
        BY <3>1 DEF ExpectedStream
      <4>2. StatedDests(new, CurrentVersion) = StatedDests(old[f], CurrentVersion)
        BY <3>1 DEF StatedDests
      <4> DEFINE before == PolicyOf(old[f], f, CurrentVersion)
                 changed == [stream |-> before.stream, auth |-> before.auth, key |-> k,
                             dests |-> before.dests]
      <4>3. PolicyOf(new, f, CurrentVersion) = changed
        BY <3>1, <4>1, <4>2 DEF PolicyOf
      <4>4. [before EXCEPT !.key = k] = changed
        BY RotatedPolicy
      <4> QED BY <4>3, <4>4
    <3> QED BY <2>1, <3>2 DEF new
  <2>5. Policy(file.content)[f] # NoPlace
        /\ q[f] = [Policy(file.content)[f] EXCEPT !.key = k]
    BY <1>4, <2>3, <2>4 DEF p
  <2>6. G!Rotate(f)
    BY <1>8, <2>2, <2>5 DEF G!Rotate
  <2> QED BY <2>6 DEF Simulates, G!GateNext
<1>12. CASE op = "delete"
  <2>1. f \notin DOMAIN fields /\ f \in DOMAIN old
    BY <1>12 DEF Result, old
  <2>2. Policy(file.content)[f] # NoPlace /\ q[f] = NoPlace
    BY <1>4, <2>1 DEF p
  <2>3. G!Remove(f)
    BY <1>8, <2>2 DEF G!Remove
  <2> QED BY <2>3 DEF Simulates, G!GateNext
<1> QED BY <1>9, <1>10, <1>11, <1>12 DEF EditOps

\* Begin, and the loss of the manager, show nothing.
LEMMA HiddenSimulates ==
  ASSUME UNCHANGED <<file, up, spent, request>>
  PROVE  Simulates
<1>1. Loads' = Loads
  BY DEF Loads
<1> QED BY <1>1 DEF Simulates, G!gateVars

\* A handler that loads its copy is not seen from outside.
LEMMA BeginPublishes ==
  ASSUME PublishInv, NEW m \in Threads, NEW op \in EditOps, NEW f \in Places, Begin(m, op, f)
  PROVE  PublishInv' /\ Simulates
<1>0. /\ ToolInv /\ EditInv /\ KeyInv /\ RequestInv /\ up /\ Loads
      /\ configLock = NoThread /\ configLock' = m
      /\ UNCHANGED <<file, backups, tool, cut, up, origin, spent, issued, request>>
  BY DEF PublishInv, Begin, MayEnter, toolVars
<1>1. PICK fields \in Edited(op, f) :
        edit' = [edit EXCEPT ![m] = [pc |-> "saving", op |-> op, f |-> f, fields |-> fields]]
  BY DEF Begin
<1>2. Result(op, f, fields)
  BY EditedGives DEF Begin
<1>3. EditInv'
  <2>1. DOMAIN edit' = Threads /\ configLock' \in Threads
    BY <1>0, <1>1 DEF EditInv
  <2>2. \A n \in Threads : n # m => edit'[n] = edit[n] /\ edit[n].pc # "saving"
    BY <1>0, <1>1, AuthAssumption DEF EditInv
  <2>3. /\ edit'[m].pc = "saving" /\ edit'[m].op = op /\ edit'[m].f = f
        /\ edit'[m].fields = fields
    BY <1>0, <1>1 DEF EditInv
  <2>4. Loads' /\ up' /\ Result(op, f, fields)'
    BY <1>0, <1>2 DEF Loads, Result
  <2> QED BY <1>0, <2>1, <2>2, <2>3, <2>4 DEF EditInv
<1>4. ToolInv'
  BY <1>0 DEF ToolInv, FileTyped, ToolTyped, OriginKept, ToolStages
<1>5. KeyInv' /\ RequestInv'
  BY <1>0 DEF KeyInv, IssuedKeyIsConfigured, RequestInv, StaleInv
<1> QED BY <1>0, <1>3, <1>4, <1>5, HiddenSimulates DEF PublishInv

\* Once the lock is free again nothing is about to be saved.
LEMMA LeaveKeeps ==
  ASSUME EditInv, NEW m \in Threads, edit[m].pc = "saving", Leave(m)
  PROVE  EditInv'
<1>1. configLock = m /\ configLock' = NoThread /\ DOMAIN edit = Threads
      /\ edit' = [edit EXCEPT ![m] = NoEdit]
  BY DEF EditInv, Leave
<1>2. \A n \in Threads : edit'[n].pc # "saving"
  <2> SUFFICES ASSUME NEW n \in Threads PROVE edit'[n].pc # "saving"
    OBVIOUS
  <2>1. CASE n = m
    BY <1>1, <2>1 DEF NoEdit
  <2>2. CASE n # m
    BY <1>1, <2>2 DEF EditInv
  <2> QED BY <2>1, <2>2
<1>3. DOMAIN edit' = Threads
  BY <1>1
<1> QED BY <1>1, <1>2, <1>3, AuthAssumption DEF EditInv

\* What is saved replaces the file by a legal one.
LEMMA ReplaceGives ==
  ASSUME ToolInv, KeyInv, RequestInv, up, Loads, NEW op \in EditOps, NEW f \in Places,
         NEW fields, Result(op, f, fields), ReplaceFields(fields), UNCHANGED request
  PROVE  /\ ToolInv' /\ RequestInv' /\ Simulates /\ up'
         /\ file'.content.fields = fields
         /\ spent' \subseteq Keys /\ KeysOf(fields) \subseteq spent'
<1>1. /\ file = [content |-> file.content, readable |-> file.readable]
      /\ file.content = [version |-> CurrentVersion, fields |-> file.content.fields]
      /\ file.readable = TRUE /\ tool = NoTool
  BY DEF ToolInv, ToolTyped, FileTyped, JsonConfig, Loads, ValidConfig
<1>2. /\ file' = [file EXCEPT !.content.fields = fields] /\ spent' = spent \cup KeysOf(fields)
      /\ UNCHANGED <<backups, tool, cut, up, origin>>
  BY DEF ReplaceFields
<1> DEFINE new == [version |-> CurrentVersion, fields |-> fields]
<1>3. file' = [content |-> new, readable |-> TRUE]
  <2>1. [file.content EXCEPT !.fields = fields] = new
    BY <1>1
  <2>2. file' = [file EXCEPT !.content = [file.content EXCEPT !.fields = fields]]
    BY <1>1, <1>2
  <2>3. file' = [file EXCEPT !.content = new]
    BY <2>1, <2>2
  <2> HIDE DEF new
  <2> QED BY <1>1, <2>3
<1>4. /\ \A g \in DOMAIN fields : JsonField(fields[g]) /\ ValidField(fields[g])
      /\ DOMAIN fields \subseteq Places
      /\ KeysOf(fields) \subseteq KeysOf(file.content.fields) \cup (AsciiKeys \ spent)
  BY EditedIsLegal DEF ToolInv
<1>5. JsonConfig(new) /\ ValidConfig(new) /\ new.fields = fields
  BY <1>4 DEF JsonConfig, ValidConfig, CurrentVersion
<1> HIDE DEF new
<1>6. file'.content = new /\ file'.readable = TRUE
  BY <1>3
<1>7. FileTyped' /\ Loads'
  BY <1>3, <1>5, <1>6 DEF FileTyped, Loads
<1>8. ToolInv'
  BY <1>1, <1>2, <1>7 DEF ToolInv, ToolTyped, OriginKept, ToolStages, NoTool
<1>9. RequestInv'
  <2>1. StaleInv'
    BY <1>2, <1>4, <1>5, <1>6 DEF RequestInv, StaleInv
  <2> QED BY <1>2, <2>1 DEF RequestInv
<1>10. Simulates
  BY <1>1, <1>2, <1>6, <1>7, ResultSimulates DEF new
<1> QED BY <1>2, <1>4, <1>5, <1>6, <1>8, <1>9, <1>10, AuthAssumption DEF KeyInv

\* A save is one change of one place's policy.
LEMMA SavePublishes ==
  ASSUME PublishInv, NEW m \in Threads, Save(m)
  PROVE  PublishInv' /\ Simulates
<1> DEFINE op == edit[m].op
           f == edit[m].f
           fields == edit[m].fields
<1>0. /\ ToolInv /\ EditInv /\ KeyInv /\ RequestInv /\ edit[m].pc = "saving" /\ Leave(m)
      /\ ReplaceFields(fields) /\ UNCHANGED request
      /\ issued' = CASE op = "rotate" -> [issued EXCEPT ![f] = fields[f]["key"]]
                     [] op \in {"create", "delete"} -> [issued EXCEPT ![f] = Null]
                     [] OTHER -> issued
  BY DEF PublishInv, Save
<1>1. op \in EditOps /\ f \in Places /\ Result(op, f, fields) /\ up /\ Loads
  BY <1>0 DEF EditInv
<1> HIDE DEF op, f, fields
<1>2. /\ ToolInv' /\ RequestInv' /\ Simulates /\ up' /\ file'.content.fields = fields
      /\ spent' \subseteq Keys /\ KeysOf(fields) \subseteq spent'
  BY <1>0, <1>1, ReplaceGives
<1>3. EditInv'
  BY <1>0, LeaveKeeps
<1>4. /\ op = "update" =>
           Get(fields[f], "key", Null) = Get(file.content.fields[f], "key", Null)
      /\ op = "rotate" => /\ Get(fields[f], "key", Null) = fields[f]["key"]
                          /\ fields[f]["key"] \in Keys
  BY <1>0, <1>1, EditedIsLegal, AuthAssumption DEF ToolInv
<1>5. /\ DOMAIN fields \ {f} = DOMAIN file.content.fields \ {f}
      /\ \A g \in DOMAIN fields \ {f} : fields[g] = file.content.fields[g]
      /\ op \in {"create", "update", "rotate"} => f \in DOMAIN fields
  BY <1>1 DEF Result
<1>6. /\ issued' \in [Places -> Keys \cup {Null}]
      /\ \A g \in Places \ {f} : issued'[g] = issued[g]
      /\ op = "rotate" => issued'[f] = fields[f]["key"]
      /\ op \in {"create", "delete"} => issued'[f] = Null
      /\ op = "update" => issued' = issued
  BY <1>0, <1>1, <1>4 DEF KeyInv, EditOps
<1>7. IssuedKeyIsConfigured'
  <2> SUFFICES ASSUME NEW g \in Places, issued'[g] # Null
               PROVE  g \in DOMAIN fields /\ Get(fields[g], "key", Null) = issued'[g]
    BY <1>2 DEF IssuedKeyIsConfigured
  <2>1. CASE g # f
    BY <1>5, <1>6, <2>1 DEF KeyInv, IssuedKeyIsConfigured, PublishInv
  <2>2. CASE g = f
    BY <1>1, <1>4, <1>5, <1>6, <2>2 DEF KeyInv, IssuedKeyIsConfigured, PublishInv, EditOps
  <2> QED BY <2>1, <2>2
<1> QED BY <1>2, <1>3, <1>6, <1>7 DEF PublishInv, KeyInv

\* A save that fails may have replaced the file; what it would have answered is
\* forgotten.
LEMMA SaveFailsPublishes ==
  ASSUME PublishInv, NEW m \in Threads, SaveFails(m)
  PROVE  PublishInv' /\ Simulates
<1> DEFINE op == edit[m].op
           f == edit[m].f
           fields == edit[m].fields
           old == file.content.fields
<1>0. /\ ToolInv /\ EditInv /\ KeyInv /\ RequestInv /\ edit[m].pc = "saving" /\ Leave(m)
      /\ issued' = [issued EXCEPT ![f] = Null] /\ UNCHANGED request
  BY DEF PublishInv, SaveFails
<1>1. op \in EditOps /\ f \in Places /\ Result(op, f, fields) /\ up /\ Loads
  BY <1>0 DEF EditInv
<1>2. EditInv'
  BY <1>0, LeaveKeeps
<1>3. UNCHANGED <<toolVars, spent>> \/ ReplaceFields(fields)
  BY DEF SaveFails
<1> HIDE DEF op, f, fields
<1>4. /\ issued' \in [Places -> Keys \cup {Null}] /\ issued'[f] = Null
      /\ \A g \in Places \ {f} : issued'[g] = issued[g]
  BY <1>0, <1>1 DEF KeyInv
<1>5. CASE UNCHANGED <<toolVars, spent>>
  <2>1. ToolInv' /\ UNCHANGED <<file, up, spent, request>>
    BY <1>0, <1>5, ToolSteps DEF toolVars
  <2>2. KeyInv' /\ RequestInv'
    BY <1>0, <1>1, <1>4, <2>1 DEF KeyInv, IssuedKeyIsConfigured, RequestInv, StaleInv
  <2> QED BY <1>2, <2>1, <2>2, HiddenSimulates DEF PublishInv
<1>6. CASE ReplaceFields(fields)
  <2>1. /\ ToolInv' /\ RequestInv' /\ Simulates /\ up' /\ file'.content.fields = fields
        /\ spent' \subseteq Keys /\ KeysOf(fields) \subseteq spent'
    BY <1>0, <1>1, <1>6, ReplaceGives
  <2>2. /\ DOMAIN fields \ {f} = DOMAIN old \ {f}
        /\ \A g \in DOMAIN fields \ {f} : fields[g] = old[g]
    BY <1>1 DEF Result
  <2>3. IssuedKeyIsConfigured'
    BY <1>0, <1>4, <2>1, <2>2 DEF KeyInv, IssuedKeyIsConfigured
  <2> QED BY <1>2, <1>4, <2>1, <2>3 DEF PublishInv, KeyInv
<1> QED BY <1>3, <1>5, <1>6

\* A restart of the manager drops copies and changes no policy.
LEMMA RestartPublishes ==
  ASSUME PublishInv, ManagerRestart
  PROVE  PublishInv' /\ Simulates
<1>0. /\ ToolInv /\ EditInv /\ KeyInv /\ RequestInv
      /\ configLock' = NoThread /\ edit' = [m \in Threads |-> NoEdit]
      /\ UNCHANGED <<file, backups, tool, cut, up, origin, spent, issued, request>>
  BY DEF PublishInv, ManagerRestart, toolVars
<1>1. EditInv'
  <2>1. \A m \in Threads : edit'[m].pc = "idle"
    BY <1>0 DEF NoEdit
  <2> QED BY <1>0, <2>1, AuthAssumption DEF EditInv
<1>2. ToolInv'
  BY <1>0 DEF ToolInv, FileTyped, ToolTyped, OriginKept, ToolStages
<1>3. KeyInv' /\ RequestInv'
  BY <1>0 DEF KeyInv, IssuedKeyIsConfigured, RequestInv, StaleInv
<1> QED BY <1>0, <1>1, <1>2, <1>3, HiddenSimulates DEF PublishInv

-----------------------------------------------------------------------------
(* The auth service and the gate *)

\* A publisher is admitted exactly as the policy of its place permits, and by a
\* key only if that key is configured.
LEMMA VerdictIs ==
  ASSUME FileTyped, NEW f \in Places, NEW s \in Streams, NEW k \in Keys \cup {Null}
  PROVE  LET v == Verdict(f, s, k)
             p == Policy(file.content)[f]
             permits == p # NoPlace /\ s = p.stream /\ (p.auth => p.key # Null /\ k = p.key)
         IN  /\ v \in Results
             /\ v \in Admitting => Loads /\ permits
             /\ v \notin Admitting \cup {"auth_error"} => Loads /\ ~permits
             /\ v = "authorized" => k \in KeysOf(file.content.fields)
<1> DEFINE v == Verdict(f, s, k)
           p == Policy(file.content)[f]
           permits == p # NoPlace /\ s = p.stream /\ (p.auth => p.key # Null /\ k = p.key)
           fields == file.content.fields
<1>1. CASE ~Loads
  BY <1>1 DEF Verdict, Results, Admitting
<1>2. CASE Loads /\ f \notin DOMAIN fields
  <2>1. v = "unknown_place" /\ p = NoPlace
    BY <1>2, PolicyAt DEF Verdict
  <2> HIDE DEF v, p
  <2>2. /\ v \in Results /\ v \notin Admitting /\ ~permits
    BY <2>1 DEF Results, Admitting
  <2> QED BY <1>2, <2>1, <2>2 DEF v, p, Admitting
<1>3. CASE Loads /\ f \in DOMAIN fields
  <2> DEFINE stream == ExpectedStream(fields[f], f)
             auth == Get(fields[f], "publish_auth_enabled", FALSE)
             key == Get(fields[f], "key", Null)
  <2>1. v = IF s # stream THEN "invalid_stream"
            ELSE IF ~auth THEN "legacy_allowed"
            ELSE IF key = Null THEN "key_not_configured"
            ELSE Compare(k, key)
    BY <1>3 DEF Verdict
  <2>2. JsonField(fields[f]) /\ ValidField(fields[f]) /\ file.content.version = CurrentVersion
    BY <1>3 DEF FileTyped, JsonConfig, Loads, ValidConfig
  <2>3. p = PolicyOf(fields[f], f, CurrentVersion) /\ p # NoPlace
    BY <1>3, <2>2, PolicyAt, LegalPolicy
  <2>4. p.stream = stream /\ p.auth = auth /\ p.key = key
    BY <2>3 DEF PolicyOf
  <2>5. key # Null => key \in KeysOf(fields)
    BY <1>3 DEF KeysOf
  <2>6. auth \in BOOLEAN
    BY <2>2 DEF JsonField
  <2> HIDE DEF v, p, stream, auth, key, fields
  <2>7. /\ Compare(k, key) \in {"authorized", "invalid_key", "auth_error"}
        /\ Compare(k, key) = "authorized" => k = key
        /\ Compare(k, key) = "invalid_key" => k # key
    BY DEF Compare
  <2>8. CASE s # stream
    <3>1. v = "invalid_stream" /\ ~permits
      BY <2>1, <2>4, <2>8
    <3> QED BY <1>3, <3>1 DEF v, p, Results, Admitting
  <2>9. CASE s = stream /\ ~auth
    <3>1. v = "legacy_allowed" /\ permits
      BY <2>1, <2>3, <2>4, <2>9
    <3> QED BY <1>3, <3>1 DEF v, p, Results, Admitting
  <2>10. CASE s = stream /\ auth /\ key = Null
    <3>1. v = "key_not_configured" /\ ~permits
      BY <2>1, <2>4, <2>10
    <3> QED BY <1>3, <3>1 DEF v, p, Results, Admitting
  <2>11. CASE s = stream /\ auth /\ key # Null
    <3>1. v = Compare(k, key) /\ (permits <=> k = key)
      BY <2>1, <2>3, <2>4, <2>11
    <3>2. /\ v \in {"authorized", "invalid_key", "auth_error"}
          /\ v = "authorized" => permits /\ k \in KeysOf(fields)
          /\ v = "invalid_key" => ~permits
      BY <2>5, <2>7, <2>11, <3>1
    <3> QED BY <1>3, <3>2 DEF v, p, fields, Results, Admitting
  <2> QED BY <2>6, <2>8, <2>9, <2>10, <2>11
<1> QED BY <1>1, <1>2, <1>3

\* The step of one request is a step of that request for the gate.
Seen == [a \in Requests |-> SeenRequest(request[a])]

\* A request moves, and nothing but it.
LEMMA RequestMoves ==
  ASSUME PublishInv, NEW a \in Requests, NEW r \in RequestType,
         request' = [request EXCEPT ![a] = r], UNCHANGED <<toolVars, editVars>>,
         r.pc = "idle" => ~r.stale,
         r.pc # "idle" => up /\ r.s \in Streams,
         r.stale => r.k \in spent \ KeysOf(file.content.fields) /\ r.res # "authorized"
  PROVE  /\ PublishInv' /\ Seen' = [Seen EXCEPT ![a] = SeenRequest(r)]
         /\ UNCHANGED <<Policy(file.content), spent>> /\ (up /\ Loads)' = (up /\ Loads)
<1>0. /\ ToolInv /\ EditInv /\ KeyInv /\ RequestInv
      /\ UNCHANGED <<file, backups, tool, cut, up, origin, configLock, edit, spent, issued>>
  BY DEF PublishInv, toolVars, editVars
<1>1. request' \in [Requests -> RequestType] /\ request'[a] = r
      /\ \A b \in Requests \ {a} : request'[b] = request[b]
  BY <1>0 DEF RequestInv
<1>2. RequestInv'
  BY <1>0, <1>1 DEF RequestInv, StaleInv
<1>3. ToolInv' /\ Loads' = Loads
  BY <1>0 DEF ToolInv, FileTyped, ToolTyped, OriginKept, ToolStages, Loads
<1>4. EditInv'
  <2>1. \A op, f, fields : Result(op, f, fields)' = Result(op, f, fields)
    BY <1>0 DEF Result
  <2> QED BY <1>0, <1>3, <2>1 DEF EditInv
<1>5. KeyInv'
  BY <1>0 DEF KeyInv, IssuedKeyIsConfigured
<1>6. Seen' = [Seen EXCEPT ![a] = SeenRequest(r)]
  BY <1>1 DEF Seen
<1> QED BY <1>0, <1>2, <1>3, <1>4, <1>5, <1>6 DEF PublishInv

\* A publisher that asks is an arrival in PublishGate.
LEMMA AskPublishes ==
  ASSUME PublishInv, NEW a \in Requests, NEW f \in Places, NEW s \in Streams,
         NEW k \in Keys \cup {Null}, Ask(a, f, s, k)
  PROVE  PublishInv' /\ Simulates
<1> DEFINE stale == k \in spent \ KeysOf(file.content.fields)
           r == [pc |-> "asked", f |-> f, s |-> s, k |-> k, stale |-> stale, res |-> "none"]
<1>1. /\ up /\ request[a].pc = "idle" /\ request' = [request EXCEPT ![a] = r]
      /\ UNCHANGED <<toolVars, editVars>>
  BY DEF Ask
<1>2. r \in RequestType /\ r.pc = "asked" /\ r.s \in Streams /\ r.k = k /\ r.stale = stale
  <2>1. stale \in BOOLEAN
    OBVIOUS
  <2> HIDE DEF stale
  <2> QED BY <2>1 DEF RequestType
<1>3. r.res = "none" /\ SeenRequest(r) = [st |-> "asked", f |-> f, s |-> s, k |-> k]
  BY DEF SeenRequest
<1> HIDE DEF r
<1>4. r.res # "authorized"
  BY <1>3
<1>5. /\ PublishInv' /\ Seen' = [Seen EXCEPT ![a] = SeenRequest(r)]
      /\ UNCHANGED <<Policy(file.content), spent>> /\ (up /\ Loads)' = (up /\ Loads)
  BY <1>1, <1>2, <1>4, RequestMoves
<1>6. Seen[a].st = "idle"
  BY <1>1 DEF Seen, SeenRequest
<1>7. G!Arrive(a)
  <2>1. Seen' = [Seen EXCEPT ![a] = [st |-> "asked", f |-> f, s |-> s, k |-> k]]
    BY <1>3, <1>5
  <2>2. \E g \in Places, t \in Streams, j \in Keys \cup {Null} :
          Seen' = [Seen EXCEPT ![a] = [st |-> "asked", f |-> g, s |-> t, k |-> j]]
    BY <2>1
  <2> QED BY <1>5, <1>6, <2>2 DEF G!Arrive, Seen
<1> QED BY <1>5, <1>7 DEF Simulates, G!GateNext

\* An answer is one that the policy of this moment allows, or a failure.
LEMMA AnswerPublishes ==
  ASSUME PublishInv, NEW a \in Requests, request[a].pc = "asked",
         NEW res \in {Verdict(request[a].f, request[a].s, request[a].k), "auth_error"},
         request' = [request EXCEPT ![a].pc = "answered", ![a].res = res],
         UNCHANGED <<toolVars, editVars>>
  PROVE  PublishInv' /\ Simulates
<1> DEFINE f == request[a].f
           s == request[a].s
           k == request[a].k
           r == [request[a] EXCEPT !.pc = "answered", !.res = res]
           p == Policy(file.content)[f]
           permits == p # NoPlace /\ s = p.stream /\ (p.auth => p.key # Null /\ k = p.key)
<1>0. /\ request \in [Requests -> RequestType] /\ request[a] \in RequestType
      /\ f \in Places /\ s \in Streams /\ k \in Keys \cup {Null} /\ up
      /\ request[a].stale => k \in spent \ KeysOf(file.content.fields)
  BY DEF PublishInv, RequestInv, StaleInv, RequestType
<1>1. FileTyped
  BY DEF PublishInv, ToolInv
<1> DEFINE v == Verdict(f, s, k)
<1>2. /\ v \in Results
      /\ v \in Admitting => Loads /\ permits
      /\ v \notin Admitting \cup {"auth_error"} => Loads /\ ~permits
      /\ v = "authorized" => k \in KeysOf(file.content.fields)
  BY <1>0, <1>1, VerdictIs
<1>3. res \in {v, "auth_error"}
  BY Zenon
<1> HIDE DEF v
<1>4. /\ res \in Results
      /\ Outcome(res) = "admitted" => Loads /\ permits
      /\ Outcome(res) = "refused" => Loads /\ ~permits
      /\ Outcome(res) \in {"admitted", "refused", "failed"}
      /\ res = "authorized" => k \in KeysOf(file.content.fields)
  <2>1. CASE res = "auth_error"
    BY <2>1 DEF Outcome, Admitting, Results
  <2>2. CASE res = v /\ v # "auth_error" /\ v \in Admitting
    BY <1>2, <2>2 DEF Outcome
  <2>3. CASE res = v /\ v # "auth_error" /\ v \notin Admitting
    BY <1>2, <2>3 DEF Outcome
  <2> QED BY <1>3, <2>1, <2>2, <2>3
<1>5. /\ r \in RequestType /\ r.pc = "answered" /\ r.res = res
      /\ r.f = f /\ r.s = s /\ r.k = k /\ r.stale = request[a].stale
  BY <1>0, <1>4 DEF RequestType
<1>6. request' = [request EXCEPT ![a] = r]
  BY <1>0 DEF RequestType
<1>7. SeenRequest(r) = [st |-> Outcome(res), f |-> f, s |-> s, k |-> k]
      /\ SeenRequest(request[a]) = [st |-> "asked", f |-> f, s |-> s, k |-> k]
  BY <1>5 DEF SeenRequest
<1> HIDE DEF r, f, s, k, p
<1>8. r.stale => r.k \in spent \ KeysOf(file.content.fields) /\ r.res # "authorized"
  BY <1>0, <1>4, <1>5
<1>9. /\ PublishInv' /\ Seen' = [Seen EXCEPT ![a] = SeenRequest(r)]
      /\ UNCHANGED <<Policy(file.content), spent>> /\ (up /\ Loads)' = (up /\ Loads)
  BY <1>0, <1>5, <1>6, <1>8, RequestMoves
<1>10. Seen[a] = [st |-> "asked", f |-> f, s |-> s, k |-> k]
  BY <1>7 DEF Seen
<1>11. Seen' = [Seen EXCEPT ![a].st = Outcome(res)]
  <2>1. [Seen[a] EXCEPT !.st = Outcome(res)] = SeenRequest(r)
    BY <1>7, <1>10
  <2> QED BY <1>9, <2>1
<1>12. G!Permits(Seen[a]) <=> permits
  BY <1>10 DEF G!Permits, p
<1>13. G!Decide(a)
  <2>1. CASE Outcome(res) = "admitted"
    BY <1>0, <1>4, <1>9, <1>10, <1>11, <1>12, <2>1 DEF G!Decide, Seen
  <2>2. CASE Outcome(res) = "refused"
    BY <1>0, <1>4, <1>9, <1>10, <1>11, <1>12, <2>2 DEF G!Decide, Seen
  <2>3. CASE Outcome(res) = "failed"
    BY <1>9, <1>10, <1>11, <2>3 DEF G!Decide, Seen
  <2> QED BY <1>4, <2>1, <2>2, <2>3
<1> QED BY <1>9, <1>13 DEF Simulates, G!GateNext

\* A publisher takes its answer and is forgotten.
LEMMA AnsweredPublishes ==
  ASSUME PublishInv, NEW a \in Requests, Answered(a)
  PROVE  PublishInv' /\ Simulates
<1>1. NoRequest \in RequestType /\ NoRequest.pc = "idle" /\ ~NoRequest.stale
  BY ConfigAssumption DEF NoRequest, RequestType
<1>2. SeenRequest(NoRequest) = [st |-> "idle"]
  BY <1>1 DEF SeenRequest
<1>3. request[a].pc = "answered" /\ request' = [request EXCEPT ![a] = NoRequest]
      /\ UNCHANGED <<toolVars, editVars>>
  BY DEF Answered
<1>4. /\ PublishInv' /\ Seen' = [Seen EXCEPT ![a] = [st |-> "idle"]]
      /\ UNCHANGED <<Policy(file.content), spent>> /\ (up /\ Loads)' = (up /\ Loads)
  BY <1>1, <1>2, <1>3, RequestMoves
<1>5. Seen[a].st # "idle"
  BY <1>3 DEF Seen, SeenRequest, Outcome
<1>6. G!Leave(a)
  BY <1>4, <1>5 DEF G!Leave, Seen
<1> QED BY <1>4, <1>6 DEF Simulates, G!GateNext

\* Every step keeps the invariant and is one of PublishGate's, or a stutter.
LEMMA PublishSteps ==
  ASSUME PublishInv, [PNext]_pvars
  PROVE  PublishInv' /\ Simulates
<1>1. CASE ToolNext /\ UNCHANGED <<editVars, request>>
  BY <1>1, ToolPublishes
<1>2. CASE EditStep
  BY <1>2, BeginPublishes, SavePublishes, SaveFailsPublishes, RestartPublishes DEF EditStep
<1>3. ASSUME NEW a \in Requests,
             \/ \E f \in Places, s \in Streams, k \in Keys \cup {Null} : Ask(a, f, s, k)
             \/ Decide(a) \/ AuthLost(a) \/ Answered(a)
      PROVE  PublishInv' /\ Simulates
  <2>1. CASE Decide(a)
    BY <2>1, AnswerPublishes DEF Decide
  <2>2. CASE AuthLost(a)
    BY <2>2, AnswerPublishes DEF AuthLost
  <2> QED BY <1>3, <2>1, <2>2, AskPublishes, AnsweredPublishes
<1>4. CASE UNCHANGED pvars
  <2>1. UNCHANGED <<file, backups, tool, cut, up, origin, configLock, edit, spent, issued,
                    request>>
    BY <1>4 DEF pvars, toolVars, editVars
  <2>2. Loads' = Loads /\ \A op, f, fields : Result(op, f, fields)' = Result(op, f, fields)
    BY <2>1 DEF Loads, Result
  <2>3. ToolInv'
    BY <2>1 DEF PublishInv, ToolInv, FileTyped, ToolTyped, OriginKept, ToolStages
  <2>4. EditInv'
    BY <2>1, <2>2 DEF PublishInv, EditInv
  <2>5. KeyInv' /\ RequestInv'
    BY <2>1 DEF PublishInv, KeyInv, IssuedKeyIsConfigured, RequestInv, StaleInv
  <2> QED BY <2>1, <2>3, <2>4, <2>5, HiddenSimulates DEF PublishInv
<1> QED BY <1>1, <1>2, <1>3, <1>4 DEF PNext, AuthStep

-----------------------------------------------------------------------------
(* The theorems *)

\* The invariant behind the results below: that of the migrations, types, the
\* handlers' edits, the keys and the requests.
THEOREM PublishInductive == PSpec => []PublishInv
<1>1. PublishInv /\ [PNext]_pvars => PublishInv'
  BY PublishSteps
<1> QED BY <1>1, PublishStarts, PTL DEF PSpec

\* The state keeps its type, and exactly the handler that is between its load
\* and its save holds the configuration lock.
THEOREM PublishTyped == PSpec => []PTypeOK
<1>1. PublishInv => PTypeOK
  BY DEF PublishInv, ToolInv, FileTyped, ToolTyped, EditInv, KeyInv, PTypeOK
<1> QED BY <1>1, PublishInductive, PTL

\* Until the services run, the original file is in place or in a backup beside
\* it, whatever fails in the migrations and however often they are run again.
THEOREM MigrationLosesNothing == PSpec => []OriginalRecoverable
<1>1. PublishInv => OriginalRecoverable
  BY ToolShows DEF PublishInv
<1> QED BY <1>1, PublishInductive, PTL

\* Migrations refuse a legal file only for a list of destinations that would be
\* too long.
THEOREM OnlyFullListsRefused == PSpec => []RefusedOnlyIfOverfull
<1>1. PublishInv => RefusedOnlyIfOverfull
  BY ToolShows DEF PublishInv
<1> QED BY <1>1, PublishInductive, PTL

\* Exit code 0 of the migrations means that the services can use the file.
THEOREM ExitCodeHolds == PSpec => []ExitZeroMeansReady
<1>1. PublishInv => ExitZeroMeansReady
  BY ToolShows DEF PublishInv
<1> QED BY <1>1, PublishInductive, PTL

\* A publisher that asks with a key that was taken out before is never
\* authorized by it.
THEOREM RevocationHolds == PSpec => []RevokedKeyIsRefused
<1>1. PublishInv => RevokedKeyIsRefused
  BY DEF PublishInv, KeyInv, RequestInv, StaleInv, RevokedKeyIsRefused
<1> QED BY <1>1, PublishInductive, PTL

\* The key that a rotation answers with is the key in force.
THEOREM IssuedKeyHolds == PSpec => []IssuedKeyIsConfigured
<1>1. PublishInv => IssuedKeyIsConfigured
  BY DEF PublishInv, KeyInv, RequestInv, StaleInv
<1> QED BY <1>1, PublishInductive, PTL

\* Manager and auth service agree on the address of a place: what is shown is
\* admitted by the ingress that serves it.
THEOREM AddressesAgree == PSpec => []ShownUrlIsAdmitted
<1>1. ASSUME PublishInv PROVE ShownUrlIsAdmitted
  <2> SUFFICES ASSUME up, Loads, NEW f \in DOMAIN file.content.fields,
                      ShownStream(f) # Null, ShownKey(f) \in AsciiKeys \cup {Null}
               PROVE  Verdict(f, ShownStream(f), ShownKey(f)) \in Admitting
    BY DEF ShownUrlIsAdmitted, NginxAdmits, MediaMTXAdmits, IngressStream
  <2> DEFINE field == file.content.fields[f]
             key == Get(field, "key", Null)
  <2>1. JsonField(field) /\ ValidField(field)
    BY <1>1 DEF PublishInv, ToolInv, FileTyped, JsonConfig, Loads, ValidConfig
  <2>2. ShownStream(f) = ExpectedStream(field, f)
    BY DEF ShownStream, ExpectedStream, Or, Get
  <2>3. Get(field, "publish_auth_enabled", FALSE) => key # Null
    BY <2>1 DEF ValidField, ValidShape
  <2>4. Compare(key, key) = "authorized"
    BY DEF ShownKey, Compare
  <2>5. ShownKey(f) = key
    BY DEF ShownKey
  <2> HIDE DEF key
  <2>6. Verdict(f, ExpectedStream(field, f), key) \in {"legacy_allowed", "authorized"}
    BY <2>3, <2>4 DEF Verdict, key
  <2> QED BY <2>2, <2>5, <2>6 DEF Admitting
<1> QED BY <1>1, PublishInductive, PTL

\* Manager, auth service and migrations implement PublishGate: a policy changes
\* only by one handler's edit, no key returns, and each request is decided at one
\* moment by the policy of that moment.
THEOREM PublishImplementsGate == PSpec => ImplementsGate
<1>1. PublishInv /\ [PNext]_pvars => [G!GateNext]_(G!gateVars)
  BY PublishSteps DEF Simulates
<1> QED BY <1>1, PublishInductive, PTL DEF PSpec, ImplementsGate, G!Gate
=============================================================================
