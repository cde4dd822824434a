--------------------------- MODULE MCCacheEngine ---------------------------
\* CacheEngine on a few requests, with policies and origins chosen per run.
EXTENDS CacheEngine, TLC

CONSTANTS r1, r2, r3

TwoRequests == {r1, r2}
ThreeRequests == {r1, r2, r3}

OnlyOrigin == {"Origin"}
OriginAndLang == {"Origin", "Lang"}

\* A request with these values of Origin and Accept-Language.
From(origin, lang) == [h \in Header |-> IF h = "Origin" THEN origin ELSE lang]

\* Two visitors of a site, and a page of another site that embeds the object.
Mixed == (r1 :> From("none", "en")) @@ (r2 :> From("none", "en")) @@ (r3 :> From("app", "en"))
Embedded == (r1 :> From("app", "en")) @@ (r2 :> From("app", "en")) @@ (r3 :> From("none", "en"))
Languages == (r1 :> From("none", "en")) @@ (r2 :> From("none", "de")) @@ (r3 :> From("app", "en"))
Alike == [r \in Req |-> From("none", "en")]

Policy(tag, follow, optimistic, onError) ==
  [tag |-> tag, follow |-> follow, optimistic |-> optimistic, onError |-> onError]

Managed == [r \in Req |-> Policy("A", FALSE, TRUE, TRUE)]
Edited == [r \in Req |-> Policy(IF r = r2 THEN "B" ELSE "A", FALSE, TRUE, TRUE)]
FollowOrigin == [r \in Req |-> Policy("A", TRUE, FALSE, TRUE)]

Answer(kept, V, acao, validators, ttl, window, error) ==
  [store |-> kept, vary |-> V, acao |-> acao, validators |-> validators,
   ttl |-> ttl, window |-> window, error |-> error]

NotStored == Answer(FALSE, {}, FALSE, FALSE, 0, 0, 0)

\* An origin that adds CORS headers now and then and may vary on the language.
Varying ==
  {Answer(TRUE, {}, FALSE, FALSE, 1, 1, 0),
   Answer(TRUE, {}, TRUE, FALSE, 1, 1, 0),
   Answer(TRUE, {"Lang"}, FALSE, FALSE, 1, 0, 1)}

\* Cache-Control: no-cache with an ETag, or a short life.
Revalidated ==
  {Answer(TRUE, {}, FALSE, TRUE, 0, 0, 0),
   Answer(TRUE, {}, FALSE, TRUE, 1, 0, 1),
   NotStored}
NoCache == {Answer(TRUE, {}, FALSE, TRUE, 0, 0, 0)}

\* Requests that are alike can be exchanged.
AllAlike == Permutations(Req)
TwoAlike == Permutations({r1, r2})
=============================================================================
