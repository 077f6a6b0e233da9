------------------------------ MODULE MCServices ------------------------------
(***************************************************************************)
(* The servers of HTTP, the cache and the streams for TLC, side by side.   *)
(* UrlShortener has its own variables, the others those of MCParts.        *)
(***************************************************************************)
EXTENDS MCParts, UrlShortener, Integers, Sequences, SequencesExt, TLC

CONSTANTS Two, Patterns, NoPattern, Codes,             \* of Middleware: Two are its requests
          Configs, Requests, Responses,                \* of Firewall
          None, Unreadable,
          CacheKeys, CacheValues, Capacities,          \* of LRUCache
          Unsorted, Fragments,                         \* of ExternalSort
          Bits, Plains, KeyStreams                     \* of Cipher

allVars == <<part, vars, vs>>

Chain     == INSTANCE Middleware WITH Procs <- Two, pc <- v1, token <- v2, id <- v3, status <- v4, pattern <- v5,
                                      sent <- v6, cnt <- v7, log <- v8, metrics <- v9, shown <- v10
Wall      == INSTANCE Firewall WITH conf <- v1, rules <- v2, pc <- v3, req <- v4, i <- v5, resp <- v6, answer <- v7, asked <- v8
Lru       == INSTANCE LRUCache WITH Keys <- CacheKeys, Values <- CacheValues, capacity <- v1, items <- v2,
                                    list <- v3, entry <- v4, result <- v5
Sorter    == INSTANCE ExternalSort WITH Inputs <- Unsorted, pc <- v1, i <- v2, files <- v3, lines <- v4, written <- v5, pos <- v6,
                                        heap <- v7, out <- v8, origin <- v9, failed <- v10, torn <- v11
Otp       == INSTANCE Cipher WITH Keys <- KeyStreams, plain <- v1, key <- v2, sent <- v3, used <- v4, stream <- v5,
                                  failed <- v6, got <- v7, taken <- v8

ASSUME ServicesAssumption ==
  /\ UrlShortenerAssumption /\ Chain!MiddlewareAssumption /\ Wall!FirewallAssumption
  /\ Lru!LRUCacheAssumption /\ Sorter!ExternalSortAssumption /\ Otp!CipherAssumption

-----------------------------------------------------------------------------
\* UrlShortener: KeysAreForGood and AnswersWhatWasAsked are its own.

\* Middleware: log, gauge and token check of every request, panic or not.  Firewall:
\* nothing passes that a rule of its path forbids, and nothing
\* else is refused while the service answers.
RequestsAreTreatedRight == /\ part = "middleware" => Chain!EveryRequestAccounted
                           /\ part = "firewall" => Wall!OnlyRulesForbid

\* LRUCache: map and list together are the cache that forgets the key used longest ago.
LruImplements == /\ part = "lru" => Lru!Abstract!Init
                 /\ [][part = "lru" => (Lru!Abstract!Next \/ UNCHANGED <<v1, v2, v3, v4, v5>>)]_allVars

\* ExternalSort: every line, in order, and none lost half-way.  Cipher: what is read is
\* what was written, however the calls cut it up.
StreamsAreWhole == /\ part = "sort" => Sorter!SortedAndComplete
                   /\ part = "cipher" => Otp!ReadsWhatWasWritten
=============================================================================
