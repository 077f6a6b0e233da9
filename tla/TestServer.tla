------------------------------ MODULE TestServer ------------------------------
(***************************************************************************)
(* golang/basics/tools/testtool/bincache.go and freeport.go, as the tests  *)
(* of the services use them (startServer): a test gets the binary of its   *)
(* import path, built once and then cached, and a port that was free, it   *)
(* starts the binary on that port and polls the port until somebody        *)
(* listens or a timer fires.  Tests run in parallel and share the cache.   *)
(***************************************************************************)
EXTENDS Naturals, FiniteSets

CONSTANTS Procs,     \* tests
          Paths,     \* import paths
          Ports,
          Nobody,    \* who listens at a free port
          Timeout    \* ticks of WaitForPort's ticker before its timer fires

TestServerAssumption == Nobody \notin Procs /\ "none" \notin Ports /\ Timeout \in Nat

VARIABLES pc, path,   \* each test: where it is, the import path it needs
          ci, cache,  \* is the cache the precompiled one; import path -> binary
          disk,       \* binary -> import path it was built from
          bin, port,  \* of each test: the binary and the port it got
          left, srv,  \* ticks left of its timer, the state of its server
          listener    \* who listens at each port

binaries == <<path, ci, cache, disk, bin>>
servers  == <<left, srv, listener>>
vars     == <<pc, binaries, port, servers>>

\* 64 random bits never collide: a binary is named by the test that built it; the
\* precompiled ones are named by their paths.
RandomBinaryName(p) == p
Put(f, x, y) == [z \in DOMAIN f \cup {x} |-> IF z = x THEN y ELSE f[z]]
All(x) == [p \in Procs |-> x]

\* With the variable of the environment, some paths are precompiled.
Precompiled == {[x \in S |-> x] : S \in SUBSET Paths}

\* NewBinCache.
Init ==
  /\ pc = All("idle") /\ path \in [Procs -> Paths] /\ bin = All("none") /\ left = All(0) /\ srv = All("off")
  /\ port = All("none") /\ listener = [q \in Ports |-> Nobody]
  /\ ci \in BOOLEAN
  /\ cache \in (IF ci THEN Precompiled ELSE {[x \in {} |-> x]}) /\ disk = cache

Goto(p, from, to) == pc[p] = from /\ pc' = [pc EXCEPT ![p] = to]

\* GetBinary: Load of the map.
Hit(p) ==
  /\ path[p] \in DOMAIN cache /\ Goto(p, "idle", "port")
  /\ bin' = [bin EXCEPT ![p] = cache[path[p]]] /\ UNCHANGED <<path, ci, cache, disk, port, servers>>

\* Not there: the precompiled cache returns an error, the local one builds.
Miss(p) ==
  /\ path[p] \notin DOMAIN cache /\ Goto(p, "idle", IF ci THEN "failed" ELSE "build")
  /\ UNCHANGED <<binaries, port, servers>>

\* go build writes the binary; when it fails, log.Fatal ends all the tests.
\* Mutant: the path is stored before the build.
MutantBuild(p) ==
  \/ /\ Goto(p, "build", "building") /\ cache' = Put(cache, path[p], p)
     /\ UNCHANGED <<path, ci, disk, bin, port, servers>>
  \/ /\ Goto(p, "building", "store") /\ disk' = Put(disk, p, path[p])
     /\ UNCHANGED <<path, ci, cache, bin, port, servers>>
Build(p) ==
  /\ Goto(p, "build", "store") /\ disk' = Put(disk, RandomBinaryName(p), path[p])
  /\ UNCHANGED <<path, ci, cache, bin, port, servers>>

BuildFails(p) ==
  /\ pc[p] = "build" /\ pc' = All("dead") /\ UNCHANGED <<binaries, port, servers>>

\* Two tests may both have built; the later Store stays in the map.
StoreBinary(p) ==
  /\ Goto(p, "store", "port") /\ cache' = Put(cache, path[p], RandomBinaryName(p))
  /\ bin' = [bin EXCEPT ![p] = RandomBinaryName(p)]
  /\ UNCHANGED <<path, ci, disk, port, servers>>

\* The listener that found the port is closed at once: the port is free again.
GetFreePort(p) ==
  /\ \E q \in Ports : listener[q] = Nobody /\ port' = [port EXCEPT ![p] = q]
  /\ Goto(p, "port", "start") /\ UNCHANGED <<binaries, servers>>

StartServer(p) ==
  /\ Goto(p, "start", "waiting") /\ left' = [left EXCEPT ![p] = Timeout]
  /\ srv' = [srv EXCEPT ![p] = "booting"] /\ UNCHANGED <<binaries, port, listener>>

\* The server begins to listen some time later, or finds the port taken and dies.
Boot(p) ==
  /\ srv[p] = "booting" /\ UNCHANGED <<pc, binaries, port, left>>
  /\ IF listener[port[p]] = Nobody
     THEN srv' = [srv EXCEPT ![p] = "up"] /\ listener' = [listener EXCEPT ![port[p]] = p]
     ELSE srv' = [srv EXCEPT ![p] = "off"] /\ UNCHANGED listener

\* WaitForPort: a tick and a dial.  With the timer ready too, select may choose
\* either.
Poll(p) ==
  /\ left' = [left EXCEPT ![p] = IF @ = 0 THEN 0 ELSE @ - 1]
  /\ pc[p] = "waiting" /\ pc' = [pc EXCEPT ![p] = IF listener[port[p]] = Nobody THEN @ ELSE "ready"]
  /\ UNCHANGED <<binaries, port, srv, listener>>

Kill(p) == /\ srv' = [srv EXCEPT ![p] = "off"]
           /\ listener' = [q \in Ports |-> IF listener[q] = p THEN Nobody ELSE listener[q]]

\* The timer fires: the test kills its server and fails.
\* Mutant: the loop looks at the timer only while somebody listens.
MutantExpire(p) ==
  /\ Goto(p, "waiting", "failed") /\ left[p] = 0 /\ listener[port[p]] # Nobody /\ Kill(p)
  /\ UNCHANGED <<binaries, port, left>>
Expire(p) ==
  /\ Goto(p, "waiting", "failed") /\ left[p] = 0 /\ Kill(p) /\ UNCHANGED <<binaries, port, left>>

\* The test is over and stops its server.
Stop(p) == Goto(p, "ready", "over") /\ Kill(p) /\ UNCHANGED <<binaries, port, left>>

\* TestMain: when all tests are over, the directory of binaries is removed.
Close ==
  /\ \A p \in Procs : pc[p] \in {"over", "failed"}
  /\ ~ci /\ cache # [x \in {} |-> x] /\ disk' = [x \in {} |-> x] /\ cache' = disk'
  /\ bin' = All("none") /\ UNCHANGED <<pc, path, ci, port, servers>>

Next == Close \/ \E p \in Procs :
  \/ Hit(p) \/ Miss(p) \/ Build(p) \/ BuildFails(p) \/ StoreBinary(p) \/ GetFreePort(p)
  \/ StartServer(p) \/ Boot(p) \/ Poll(p) \/ Expire(p) \/ Stop(p)

Spec == Init /\ [][Next]_vars

\* Fairness: the ticker ticks and a timer that has fired is chosen in the end.
Fairness == \A p \in Procs : WF_vars(Poll(p)) /\ WF_vars(Expire(p))

-----------------------------------------------------------------------------
TypeOK ==
  /\ pc \in [Procs -> {"idle", "build", "building", "store", "port", "start", "waiting", "ready",
                       "over", "failed", "dead"}]
  /\ left \in [Procs -> 0..Timeout] /\ srv \in [Procs -> {"off", "booting", "up"}]
  /\ listener \in [Ports -> Procs \cup {Nobody}]

Running == {p \in Procs : pc[p] \in {"start", "waiting", "ready"}}

(***************************************************************************)
(* What a test runs is a complete binary of its own import path, also when *)
(* another test built it meanwhile; and a test whose wait ended well talks *)
(* to its own server, unless another test was given the same port.         *)
(***************************************************************************)
TestsRunTheirBinary ==
  /\ \A p \in Running : bin[p] \in DOMAIN disk /\ disk[bin[p]] = path[p]
  /\ \A p \in Procs : pc[p] = "ready" => \/ listener[port[p]] = p
                                         \/ \E q \in Procs \ {p} : port[q] = port[p]

\* WaitForPort returns, whatever becomes of the server: the timer ends it.
EveryWaitEnds == \A p \in Procs : pc[p] = "waiting" ~> pc[p] # "waiting"
=============================================================================
