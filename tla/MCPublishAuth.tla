---------------------------- MODULE MCPublishAuth ----------------------------
(* One place whose file has any version and any mix of the keys that matter,
   legal or not; two manager threads and one publisher. *)
EXTENDS PublishAuth, TLC

CONSTANTS u1, u2, u3, k1, k2, k3, kx, s1, x

MCPlaces == {1}
MCDefaultStream == [f \in MCPlaces |-> s1]

Opt(k, vs) == {<<>>} \cup {k :> v : v \in vs}
Gates == {a @@ b @@ c : a \in Opt("key", {k1, kx, Null}), b \in Opt("stream_key", {x, Null}),
                        c \in Opt("publish_auth_enabled", BOOLEAN)}
Lists == {<<u1>>, <<u1, u2>>, <<u1, u1, u1>>, <<Null>>}
OldLists == {a @@ b @@ c : a \in Opt("restream_urls", Lists \cup {<<u1, u1>>}),
                           b \in Opt("restream_url", {u1, u3, Null}),
                           c \in {"rtmp_url" :> Null}}
Plain == {"key" :> k1, ("key" :> k1) @@ ("publish_auth_enabled" :> TRUE)}

Record(v, fields) == [version |-> v, fields |-> fields]
MCFirstFiles ==
  {Record(v, 1 :> g) : v \in 0 .. 2, g \in Gates}
  \cup {Record(0, 1 :> (g @@ d)) : g \in Plain, d \in OldLists}
  \cup {Record(1, 1 :> (g @@ ("restream_urls" :> d))) : g \in Plain, d \in Lists}
  \cup {Record(v, <<>>) : v \in {0, 2, 3}}
  \cup {Record(v, h) : v \in 0 .. 2, h \in {2 :> g : g \in Plain} \cup {1 :> ("other" :> k1)}}
  \cup {Record(2, 1 :> ("restream_urls" :> <<[url |-> u1, audio_mode |-> "silent"]>>))}

Symmetric == Permutations(Threads) \cup Permutations({k2, k3})
=============================================================================
