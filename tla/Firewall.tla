------------------------------- MODULE Firewall -------------------------------
(***************************************************************************)
(* golang/http/firewall: a proxy (cmd/firewall/main.go) that checks a      *)
(* request against the rules of its path, one rule after the other, asks   *)
(* the service (cmd/service/main.go, or another one) and checks what comes *)
(* back against the same rules.  A regular expression is the set of the    *)
(* texts it matches.                                                       *)
(***************************************************************************)
EXTENDS Naturals, Sequences, SequencesExt, FiniteSets

CONSTANTS Configs,    \* contents of the file of rules: sequences of yamlRules
          Requests,   \* what clients send
          Responses,  \* what the service may send
          None,       \* a limit that is not configured, a user agent that is not sent or empty
          Empty,      \* the empty text
          Unreadable  \* a file that is missing or no YAML

Forbidden == [code |-> 403, body |-> "Forbidden"]

\* Every rule has its fields, and every response its length, which sets it apart from Forbidden.
RuleFields == {"endpoint", "forbidUA", "forbidHeaders", "requireHeaders", "maxReqLen", "forbidReqRE",
               "forbidCodes", "maxRespLen", "forbidRespRE"}
FirewallAssumption ==
  /\ \A c \in Configs : c \in Seq(Range(c)) /\ \A k \in DOMAIN c : RuleFields \subseteq DOMAIN c[k]
  /\ \A s \in Responses : "len" \in DOMAIN s
  /\ None # Forbidden

VARIABLES conf, rules,  \* the file; what parseRules made of it
          pc, req,      \* of the handler: where it is, the request it serves
          i,            \* the rule it is at
          resp, answer, \* what the service sent; what the client gets
          asked         \* history: the request has been sent to the service

vars == <<conf, rules, pc, req, i, resp, answer, asked>>

Init == /\ conf \in Configs \cup {Unreadable} /\ rules = <<>> /\ pc = "boot" /\ req = None
        /\ i = 1 /\ resp = None /\ answer = None /\ asked = FALSE

(***************************************************************************)
(* parseRules.  A forbidden header without a colon, like a bad regular     *)
(* expression, makes the program panic: so does an unreadable file.  Codes *)
(* become a set; the rest is taken as it is.                               *)
(***************************************************************************)
Malformed(rr) == \E h \in ToSet(rr.forbidHeaders) : h.texts = None
Compile(rr)   == [rr EXCEPT !.forbidCodes = ToSet(@)]

ParseRules ==
  /\ pc = "boot" /\ UNCHANGED <<conf, req, i, resp, answer, asked>>
  /\ IF conf = Unreadable \/ \E k \in DOMAIN conf : Malformed(conf[k])
     THEN pc' = "panic" /\ UNCHANGED rules
     ELSE pc' = "ready" /\ rules' = [k \in DOMAIN conf |-> Compile(conf[k])]

\* The rules whose endpoint is the path, by their place among all; i passes over the others.
Sub(r) == {k \in DOMAIN rules : rules[k].endpoint = r.path}

\* http.Header: all values of a name, in the order they were sent, and the first,
\* which is the empty text if there is none.
Values(r, name) == SelectSeq(r.headers, LAMBDA h : h.name = name)
Get(r, name)    == IF Values(r, name) = <<>> THEN Empty ELSE Head(Values(r, name)).value
TooLong(limit, n) == limit # None /\ n > limit

\* Checks 1 to 5.  A client without a user agent passes the first one.
RequestBreaks(ru, r) ==
  \/ r.ua # None /\ r.ua \in ru.forbidUA
  \/ \E h \in ToSet(ru.forbidHeaders), x \in ToSet(r.headers) : x.name = h.name /\ x.value \in h.texts
  \/ \E name \in ru.requireHeaders : Get(r, name) = Empty
  \/ TooLong(ru.maxReqLen, r.len)
  \/ r.body \in ru.forbidReqRE

\* Checks 6 to 8.
ResponseBreaks(ru, s) ==
  \/ s.code \in ru.forbidCodes \/ TooLong(ru.maxRespLen, s.len) \/ s.body \in ru.forbidRespRE

Answer(a) == answer' = a /\ pc' = "answered"

Receive(r) ==
  /\ pc \in {"ready", "answered"} /\ pc' = "request" /\ req' = r /\ i' = 1 /\ resp' = None
  /\ answer' = None /\ asked' = FALSE /\ UNCHANGED <<conf, rules>>

CheckRequest ==
  /\ pc = "request" /\ i <= Len(rules) /\ UNCHANGED <<conf, rules, req, resp, asked>>
  /\ IF i \in Sub(req) /\ RequestBreaks(rules[i], req) THEN Answer(Forbidden) /\ UNCHANGED i
                                                      ELSE i' = i + 1 /\ UNCHANGED <<pc, answer>>

\* The service of the tests sends the body back.
Echo(r) == [code |-> 200, len |-> r.len, body |-> r.body]

\* The request is sent on with its method, query, headers and body; the answer is
\* the one after redirects.  An error is answered as Forbidden.
AskService ==
  /\ pc = "request" /\ i > Len(rules) /\ asked' = TRUE /\ UNCHANGED <<conf, rules, req>>
  /\ \/ Answer(Forbidden) /\ UNCHANGED <<i, resp>>
     \/ \E s \in Responses \cup {Echo(req)} :
          resp' = s /\ pc' = "response" /\ i' = 1 /\ UNCHANGED answer

CheckResponse ==
  /\ pc = "response" /\ i <= Len(rules) /\ UNCHANGED <<conf, rules, req, resp, asked>>
  /\ IF i \in Sub(req) /\ ResponseBreaks(rules[i], resp) THEN Answer(Forbidden) /\ UNCHANGED i
                                                        ELSE i' = i + 1 /\ UNCHANGED <<pc, answer>>

Forward ==
  /\ pc = "response" /\ i > Len(rules) /\ Answer(resp) /\ UNCHANGED <<conf, rules, req, i, resp, asked>>

Next == ParseRules \/ CheckRequest \/ AskService \/ CheckResponse \/ Forward
        \/ \E r \in Requests : Receive(r)

Spec == Init /\ [][Next]_vars

-----------------------------------------------------------------------------
(***************************************************************************)
(* README.md: the service sees no request that breaks a rule of the file   *)
(* for its path, the client no response that does, and what breaks none    *)
(* goes through unchanged: 403 is for a request that breaks one, which the *)
(* service never sees, for a response that does, and for a service that    *)
(* was asked and is dead.                                                  *)
(***************************************************************************)
ForPath == {ru \in Range(conf) : ru.endpoint = req.path}
Breaks(ru, s) == s.code \in ToSet(ru.forbidCodes) \/ ResponseBreaks([ru EXCEPT !.forbidCodes = {}], s)

OnlyRulesForbid == pc \notin {"boot", "panic", "ready"} =>
  /\ asked \/ resp # None => \A ru \in ForPath : ~RequestBreaks(ru, req)
  /\ answer = Forbidden /\ ~asked => \E ru \in ForPath : RequestBreaks(ru, req)
  /\ answer # None /\ answer # Forbidden => answer = resp /\ \A ru \in ForPath : ~Breaks(ru, resp)
  /\ answer = Forbidden /\ resp # None => \E ru \in ForPath : Breaks(ru, resp)
=============================================================================
