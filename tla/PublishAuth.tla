---------------------------- MODULE PublishAuth ----------------------------
(***************************************************************************)
(* Who may publish to the node.  The manager's handlers for fields and keys*)
(* (app/restream_manager.py) edit the configuration file, each under       *)
(* CONFIG_STORE's lock from its load to its save; the auth service         *)
(* (app/rtmp_auth.py), a process of its own with a thread per request, asks*)
(* the file afresh for every publisher that Nginx-RTMP or the MediaMTX     *)
(* compatibility ingress sends it, and shares no lock with the manager.    *)
(*                                                                         *)
(* The ingress is configured apart from the fields: Nginx asks only for the*)
(* auth_places of its profile (scripts/render_nginx.py), MediaMTX knows    *)
(* only the paths placeN/streamN (scripts/render_mediamtx_compat.py).  An  *)
(* established publisher is never asked again.                             *)
(***************************************************************************)
EXTENDS ConfigMigrations

CONSTANTS
  Threads,      \* manager threads
  NoThread,
  Requests,     \* publish requests that can be in flight at a time
  AsciiKeys     \* the keys that hmac.compare_digest compares as text

\* The policy that a legal file states for a place.
PolicyType ==
  [stream : Streams, auth : BOOLEAN, key : Keys \cup {Null}, dests : Seq(Dests)]

ASSUME AuthAssumption ==
  /\ NoThread \notin Threads
  /\ NoPlace \notin PolicyType
  /\ AsciiKeys \subseteq Keys

VARIABLES
  configLock,   \* the manager thread inside CONFIG_STORE.locked()
  edit,         \* manager threads: the handler they run
  request,      \* the publish requests
  spent,        \* history: the keys that the file has held
  issued        \* history: place -> the key its last rotation answered

editVars == <<configLock, edit, spent, issued>>
pvars == <<toolVars, editVars, request>>

EditOps == {"create", "update", "rotate", "delete"}
NoEdit == [pc |-> "idle", op |-> "update", f |-> CHOOSE f \in Places : TRUE, fields |-> <<>>]
NoRequest ==
  [pc |-> "idle", f |-> CHOOSE f \in Places : TRUE, s |-> Null, k |-> Null,
   stale |-> FALSE, res |-> "none"]

KeysOf(fields) == {Get(fields[f], "key", Null) : f \in DOMAIN fields} \ {Null}

-----------------------------------------------------------------------------
(* The field and key handlers *)

\* Services load the file only when they may read it and it is valid.
Loads == file.readable /\ ValidConfig(file.content)

NewField(s, k) == [x \in {"stream_key", "key"} |-> IF x = "key" THEN k ELSE s]

\* What a handler may make of the fields it loaded: a new field takes the
\* lowest free slot and is given a key of its own (secrets.token_urlsafe), an
\* update may set the stream key (which it leaves alone when it is the one in
\* force already), a rotation draws a new key, and a deletion, once the
\* supervisor has stopped the field, takes the field out.
Edited(op, f) ==
  LET fields == file.content.fields
      fresh == AsciiKeys \ spent
  IN  CASE op = "create" ->
             {[g \in DOMAIN fields \cup {f} |-> IF g = f THEN NewField(s, k) ELSE fields[g]] :
                s \in Streams, k \in fresh}
        [] op = "update" ->
             {IF s = Get(fields[f], "stream_key", DefaultStream[f]) THEN fields
              ELSE [fields EXCEPT ![f] = Put(@, "stream_key", s)] : s \in Streams}
        [] op = "rotate" -> {[fields EXCEPT ![f] = Put(@, "key", k)] : k \in fresh}
        [] op = "delete" -> {[g \in DOMAIN fields \ {f} |-> fields[g]]}

Addresses(op, f) ==
  IF op = "create"
  THEN f \notin DOMAIN file.content.fields
       /\ \A g \in Places : g < f => g \in DOMAIN file.content.fields
  ELSE f \in DOMAIN file.content.fields

\* Mutant of MayEnter: updates are not @serialized_config_write.
MayEnterUpdating(op) == configLock = NoThread \/ op = "update"

MayEnter(op) == configLock = NoThread

\* A handler takes the lock, loads the file and edits the loaded copy.
Begin(m, op, f) ==
  /\ up /\ Loads
  /\ edit[m].pc = "idle"
  /\ MayEnter(op)
  /\ Addresses(op, f)
  /\ configLock' = m
  /\ \E fields \in Edited(op, f) :
       edit' = [edit EXCEPT ![m] = [pc |-> "saving", op |-> op, f |-> f, fields |-> fields]]
  /\ UNCHANGED <<toolVars, spent, issued, request>>

Leave(m) ==
  /\ configLock' = IF configLock = m THEN NoThread ELSE configLock
  /\ edit' = [edit EXCEPT ![m] = NoEdit]

ReplaceFields(fields) ==
  /\ file' = [file EXCEPT !.content.fields = fields]
  /\ spent' = spent \cup KeysOf(fields)
  /\ UNCHANGED <<backups, tool, cut, up, origin>>

\* save_config replaces the file; a rotation answers the key that it saved.
Save(m) ==
  /\ edit[m].pc = "saving"
  /\ ReplaceFields(edit[m].fields)
  /\ issued' = CASE edit[m].op = "rotate" ->
                      [issued EXCEPT ![edit[m].f] = edit[m].fields[edit[m].f]["key"]]
                 [] edit[m].op \in {"create", "delete"} ->
                      [issued EXCEPT ![edit[m].f] = Null]
                 [] OTHER -> issued
  /\ Leave(m)
  /\ UNCHANGED request

\* The supervisor does not answer, the copy is refused, or writing it fails,
\* before the file is replaced or (fsync of the directory) after it.
SaveFails(m) ==
  /\ edit[m].pc = "saving"
  /\ \/ UNCHANGED <<toolVars, spent>>
     \/ ReplaceFields(edit[m].fields)
  /\ issued' = [issued EXCEPT ![edit[m].f] = Null]
  /\ Leave(m)
  /\ UNCHANGED request

\* The manager stops or dies with its handlers.
ManagerRestart ==
  /\ configLock' = NoThread
  /\ edit' = [m \in Threads |-> NoEdit]
  /\ UNCHANGED <<toolVars, spent, issued, request>>

-----------------------------------------------------------------------------
(* The auth service *)

Admitting == {"legacy_allowed", "authorized"}

\* Mutant of ExpectedStream: stream_key is disregarded.
ExpectedDefault(field, f) == DefaultStream[f]

ExpectedStream(field, f) == Or(Get(field, "stream_key", Null), DefaultStream[f])

\* Mutant of Compare: a publisher without a key is let in.
CompareProvided(provided, expected) ==
  IF provided \in {Null, expected} THEN "authorized" ELSE "invalid_key"

\* hmac.compare_digest of two texts raises TypeError unless both are ASCII,
\* which do_POST answers like any other exception.
Compare(provided, expected) ==
  IF {provided, expected} \subseteq AsciiKeys \cup {Null}
  THEN IF provided = expected THEN "authorized" ELSE "invalid_key"
  ELSE "auth_error"

\* authorize_publish and the exceptions around it: the publisher of stream s
\* at place f shows the key k, or none.
Verdict(f, s, k) ==
  IF ~Loads THEN "auth_error"
  ELSE IF f \notin DOMAIN file.content.fields THEN "unknown_place"
  ELSE LET field == file.content.fields[f]
           key == Get(field, "key", Null)
       IN  CASE s # ExpectedStream(field, f) -> "invalid_stream"
             [] s = ExpectedStream(field, f) ->
                  IF ~Get(field, "publish_auth_enabled", FALSE) THEN "legacy_allowed"
                  ELSE IF key = Null THEN "key_not_configured"
                  ELSE Compare(k, key)

\* A request reaches the auth service; it is stale when it shows a key that
\* was taken out of the configuration before.
Ask(a, f, s, k) ==
  /\ up
  /\ request[a].pc = "idle"
  /\ k = Null \/ k \in spent
  /\ request' = [request EXCEPT ![a] =
       [pc |-> "asked", f |-> f, s |-> s, k |-> k,
        stale |-> k \in spent \ KeysOf(file.content.fields), res |-> "none"]]
  /\ UNCHANGED <<toolVars, editVars>>

\* One load of the file decides.
Decide(a) ==
  /\ request[a].pc = "asked"
  /\ request' = [request EXCEPT ![a].pc = "answered",
                   ![a].res = Verdict(request[a].f, request[a].s, request[a].k)]
  /\ UNCHANGED <<toolVars, editVars>>

\* The service goes away under the request: the ingress refuses the publisher.
AuthLost(a) ==
  /\ request[a].pc = "asked"
  /\ request' = [request EXCEPT ![a].pc = "answered", ![a].res = "auth_error"]
  /\ UNCHANGED <<toolVars, editVars>>

Answered(a) ==
  /\ request[a].pc = "answered"
  /\ request' = [request EXCEPT ![a] = NoRequest]
  /\ UNCHANGED <<toolVars, editVars>>

-----------------------------------------------------------------------------
PInit ==
  /\ ToolInit
  /\ configLock = NoThread
  /\ edit = [m \in Threads |-> NoEdit]
  /\ request = [a \in Requests |-> NoRequest]
  /\ spent = KeysOf(file.content.fields)
  /\ issued = [f \in Places |-> Null]

EditStep ==
  \/ \E m \in Threads :
       \/ \E op \in EditOps, f \in Places : Begin(m, op, f)
       \/ Save(m) \/ SaveFails(m)
  \/ ManagerRestart

AuthStep ==
  \E a \in Requests :
    \/ \E f \in Places, s \in Streams, k \in Keys \cup {Null} : Ask(a, f, s, k)
    \/ Decide(a) \/ AuthLost(a) \/ Answered(a)

PNext ==
  \/ ToolNext /\ UNCHANGED <<editVars, request>>
  \/ EditStep
  \/ AuthStep

PSpec == PInit /\ [][PNext]_pvars

-----------------------------------------------------------------------------
(* The ingress, and the addresses that the pages show *)

\* Nginx-RTMP asks the auth service for the places of its profile and takes
\* anything at the others.
NginxAdmits(f, s, k, authPlaces) == f \in authPlaces => Verdict(f, s, k) \in Admitting

\* The one path that the compatibility ingress has for a place.
IngressStream(f) == DefaultStream[f]

\* It asks the auth service for every publisher.
MediaMTXAdmits(f, s, k) == s = IngressStream(f) /\ Verdict(f, s, k) \in Admitting

\* camera_publish_url: the stream and the key of the address that the pages
\* show for the camera of place f.
ShownStream(f) == Get(file.content.fields[f], "stream_key", DefaultStream[f])
ShownKey(f) == Get(file.content.fields[f], "key", Null)

-----------------------------------------------------------------------------
(* Properties *)

PTypeOK ==
  /\ file = [content |-> file.content, readable |-> file.readable]
  /\ file.readable \in BOOLEAN /\ JsonConfig(file.content)
  /\ tool \in ToolType /\ {cut, up} \subseteq BOOLEAN
  /\ configLock \in Threads \cup {NoThread}
  /\ \A m \in Threads : edit[m].pc = "saving" <=> configLock = m
  /\ spent \subseteq Keys
  /\ issued \in [Places -> Keys \cup {Null}]

\* "revoke the old key" (api_config_rotate_key): a publisher that asks after a
\* key was replaced or its field deleted is never authorized by that key, not
\* even when other handlers edit the same field at the same time.
RevokedKeyIsRefused ==
  \A a \in Requests : request[a].stale => request[a].res # "authorized"

\* The key that the last successful rotation of a field answered is the
\* configured one, until a later handler reports a failure or the field goes:
\* no other edit, however timed, brings an older key back.
IssuedKeyIsConfigured ==
  \A f \in Places : issued[f] # Null =>
    /\ f \in DOMAIN file.content.fields
    /\ Get(file.content.fields[f], "key", Null) = issued[f]

\* The address shown for a camera is one that the ingress admits.  Three kinds
\* of configuration are exempt, because the code does not promise it there: a
\* stream_key that is null (the pages show "None"), a key that is not ASCII
\* where it is asked for, and behind MediaMTX any stream but streamN.
ShownUrlIsAdmitted ==
  up /\ Loads => \A f \in DOMAIN file.content.fields :
    /\ ShownStream(f) # Null
    /\ ShownKey(f) \in AsciiKeys \cup {Null}
    => /\ \A places \in {{}, {f}} : NginxAdmits(f, ShownStream(f), ShownKey(f), places)
       /\ ShownStream(f) = DefaultStream[f] => MediaMTXAdmits(f, ShownStream(f), ShownKey(f))

\* The destinations that a field of any version states: first those of its
\* list, in order, then the single one of old if the list lacks it.
StatedDests(field, version) ==
  LET list == Destinations(field)
      old == {Get(field, "restream_url", Null)} \ ({list[j] : j \in DOMAIN list} \cup {Null})
      FromUrl(u) == [url |-> u, audio_mode |-> "source"]
  IN  IF version = CurrentVersion THEN list
      ELSE [j \in 1 .. Len(list) + Cardinality(old) |->
              FromUrl(IF j <= Len(list) THEN list[j] ELSE CHOOSE u \in old : TRUE)]

\* The policy that a file of any version states for a place.
Policy(c) ==
  [f \in Places |->
     IF f \notin DOMAIN c.fields THEN NoPlace
     ELSE LET field == c.fields[f]
          IN  [stream |-> ExpectedStream(field, f),
               auth |-> Get(field, "publish_auth_enabled", FALSE),
               key |-> Get(field, "key", Null),
               dests |-> StatedDests(field, c.version)]]

Outcome(res) ==
  CASE res \in Admitting -> "admitted"
    [] res = "auth_error" -> "failed"
    [] OTHER -> "refused"

SeenRequest(r) ==
  IF r.pc = "idle" THEN [st |-> "idle"]
  ELSE [st |-> IF r.pc = "asked" THEN "asked" ELSE Outcome(r.res),
        f |-> r.f, s |-> r.s, k |-> r.k]

G == INSTANCE PublishGate WITH
       policy <- Policy(file.content),
       available <- up /\ Loads,
       request <- [a \in Requests |-> SeenRequest(request[a])]

\* Manager, auth service and migrations together implement the gate.
ImplementsGate == G!Gate
=============================================================================
