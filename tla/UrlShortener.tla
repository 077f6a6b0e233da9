----------------------------- MODULE UrlShortener -----------------------------
(***************************************************************************)
(* golang/http/urlshortener/main.go.  Each request is served by a          *)
(* goroutine of its own.  mu guards the two maps; the body of a request is *)
(* decoded into the package variable req, which nothing guards.  A string  *)
(* of Go is two words, its bytes and its length, which a reader may see    *)
(* apart: here it is the pair of the URLs those two words are of.          *)
(***************************************************************************)
EXTENDS Naturals, FiniteSets, Functions

CONSTANTS Procs, URLs, Keys,
          Empty,             \* the value of req before anything is decoded
          Free               \* mu's holder when there is none

\* One key for each request that may need one: collisionCheck finds a free one.
UrlShortenerAssumption == /\ IsFiniteSet(Keys) /\ Cardinality(Procs) <= Cardinality(Keys)
                          /\ Empty \notin URLs /\ Free \notin Procs

VARIABLES pc, asked,           \* of each request: where it is, the URL in its body
          req, mu,             \* the package variables
          urlToKey, keyToURL,  \* the two maps
          key, answer          \* each request's local key, and its response

vars == <<pc, asked, req, mu, urlToKey, keyToURL, key, answer>>
maps == <<urlToKey, keyToURL>>

Whole(u) == <<u, u>>
Strings  == (URLs \cup {Empty}) \X (URLs \cup {Empty})
NoAnswer == [code |-> 0]
NoMap    == [x \in {} |-> x]
Put(f, x, y) == [z \in DOMAIN f \cup {x} |-> IF z = x THEN y ELSE f[z]]

Init ==
  /\ pc = [p \in Procs |-> "idle"] /\ asked = [p \in Procs |-> Empty]
  /\ req = Whole(Empty) /\ mu = Free /\ urlToKey = NoMap /\ keyToURL = NoMap
  /\ key = [p \in Procs |-> Empty] /\ answer = [p \in Procs |-> NoAnswer]

Goto(p, from, to)  == pc[p] = from /\ pc' = [pc EXCEPT ![p] = to]
Respond(p, from, r) == Goto(p, from, "over") /\ answer' = [answer EXCEPT ![p] = r]

\* A body that is no JSON, or whose url is no string: 400.
DecodeFails(p) == Respond(p, "idle", [code |-> 400]) /\ UNCHANGED <<asked, req, mu, maps, key>>

\* A body without url leaves req as an earlier request filled it.
DecodeNothing(p) == Goto(p, "idle", "lock") /\ UNCHANGED <<asked, req, mu, maps, key, answer>>

\* A body with the url u: the two words of req.URL are written one after the other.
Decode(p) ==
  \/ \E u \in URLs : /\ Goto(p, "idle", "decoding") /\ asked' = [asked EXCEPT ![p] = u]
                     /\ req' = [req EXCEPT ![1] = u] /\ UNCHANGED <<mu, maps, key, answer>>
  \/ /\ Goto(p, "decoding", "lock") /\ req' = [req EXCEPT ![2] = asked[p]]
     /\ UNCHANGED <<asked, mu, maps, key, answer>>

\* The critical section: a known URL, then a new key stored in one map and in
\* the other.  req is read each time.
FindKey(p) ==
  /\ mu = Free /\ req \in DOMAIN urlToKey /\ Goto(p, "lock", "reply")
  /\ key' = [key EXCEPT ![p] = urlToKey[req]] /\ UNCHANGED <<asked, req, mu, maps, answer>>

FindsNone(p) ==
  /\ mu = Free /\ req \notin DOMAIN urlToKey /\ Goto(p, "lock", "fresh") /\ mu' = p
  /\ UNCHANGED <<asked, req, maps, key, answer>>

\* Mutant: mu is given back between the two maps.
MutantStoreKey(p) ==
  /\ Goto(p, "fresh", "half") /\ mu' = Free
  /\ \E k \in Keys \ DOMAIN keyToURL : key' = [key EXCEPT ![p] = k] /\ urlToKey' = Put(urlToKey, req, k)
  /\ UNCHANGED <<asked, req, keyToURL, answer>>
StoreKey(p) ==
  /\ Goto(p, "fresh", "half")
  /\ \E k \in Keys \ DOMAIN keyToURL : key' = [key EXCEPT ![p] = k] /\ urlToKey' = Put(urlToKey, req, k)
  /\ UNCHANGED <<asked, req, mu, keyToURL, answer>>

StoreURL(p) ==
  /\ Goto(p, "half", "reply") /\ keyToURL' = Put(keyToURL, key[p], req) /\ mu' = Free
  /\ UNCHANGED <<asked, req, urlToKey, key, answer>>

\* The response reads req once more, after mu was given back.
Reply(p) ==
  /\ Respond(p, "reply", [code |-> 200, url |-> req, key |-> key[p]])
  /\ UNCHANGED <<asked, req, mu, maps, key>>

\* goHandler, for a key of the path.
Go(p, k) ==
  /\ mu = Free /\ UNCHANGED <<asked, req, mu, maps, key>>
  /\ Respond(p, "idle", IF k \in DOMAIN keyToURL THEN [code |-> 302, url |-> keyToURL[k]]
                                                 ELSE [code |-> 404])

Next == \E p \in Procs :
  \/ DecodeFails(p) \/ DecodeNothing(p) \/ Decode(p) \/ FindKey(p) \/ FindsNone(p)
  \/ StoreKey(p) \/ StoreURL(p) \/ Reply(p) \/ \E k \in Keys : Go(p, k)

Spec == Init /\ [][Next]_vars

-----------------------------------------------------------------------------
TypeOK ==
  /\ pc \in [Procs -> {"idle", "decoding", "lock", "fresh", "half", "reply", "over"}]
  /\ req \in Strings /\ mu \in Procs \cup {Free}
  /\ DOMAIN urlToKey \subseteq Strings /\ Range(urlToKey) \subseteq Keys
  /\ DOMAIN keyToURL \subseteq Keys /\ Range(keyToURL) \subseteq Strings

Shortened(p) == answer[p].code = 200

(***************************************************************************)
(* A key that was handed out works from then on, and no later request      *)
(* gives it another target: keys are only ever added to keyToURL, those of *)
(* urlToKey are there whenever mu is free, and so are those of responses.  *)
(***************************************************************************)
KeepsKeys ==
  /\ \A k \in DOMAIN keyToURL : k \in DOMAIN keyToURL' /\ keyToURL'[k] = keyToURL[k]
  /\ mu' = Free => Range(urlToKey') \subseteq DOMAIN keyToURL'
  /\ \A p \in Procs : Shortened(p) => answer[p].key \in DOMAIN keyToURL
KeysAreForGood == [][KeepsKeys]_vars

(***************************************************************************)
(* README.md: the response carries the URL that was sent and the key that  *)
(* redirects to it.  Concurrent requests share req, so this does not hold. *)
(***************************************************************************)
AnswersWhatWasAsked ==
  \A p \in Procs : Shortened(p) /\ asked[p] # Empty =>
    answer[p].url = Whole(asked[p]) /\ keyToURL[answer[p].key] = Whole(asked[p])
=============================================================================
