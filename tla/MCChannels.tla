----------------------------- MODULE MCChannels -----------------------------
(***************************************************************************)
(* RWMutex, WaitGroup, Fetch and TestServer for TLC.  They share no state, *)
(* so each behaviour exercises one of them: an initial state gives         *)
(* goroutines to that one, and those of the others are absent for good.    *)
(***************************************************************************)
EXTENDS RWMutex, Sequences

CONSTANTS Deltas, MaxCnt,   \* of WaitGroup
          MaxURLs,          \* of Fetch
          Tests, Free,      \* of TestServer: its tests, and nobody
          Paths, Ports, Timeout

VARIABLES groupPc, delta, lock, zero, cnt,
          getPc, count, printed, next, exit,
          testPc, path, ci, cache, disk, bin, port, left, srv, listener

Group   == INSTANCE WaitGroup WITH pc <- groupPc, done <- zero
Getter  == INSTANCE Fetch WITH pc <- getPc, n <- count
Servers == INSTANCE TestServer WITH pc <- testPc, Procs <- Tests, Nobody <- Free

\* The arguments of Add, for TLC.
SomeDeltas == {-1, 1, 2}

ASSUME ChannelsAssumption == Group!WaitGroupAssumption /\ Servers!TestServerAssumption

groupVars == <<groupPc, delta, lock, zero, cnt>>
getVars   == <<getPc, count, printed, next, exit>>
testVars  == <<testPc, path, ci, cache, disk, bin, port, left, srv, listener>>
allVars   == <<vars, groupVars, getVars, testVars>>

\* A component without goroutines, none of whose steps is possible.
NoRWMutex == pc = [p \in Procs |-> "absent"] /\ semW = 1 /\ semR = 1 /\ cntReaders = 0
NoGroup   == groupPc = [p \in Procs |-> "absent"] /\ delta = [p \in Procs |-> 0] /\ lock = 1 /\ zero = 1 /\ cnt = 0
NoGetter  == getPc = <<>> /\ count = 0 /\ printed = <<>> /\ next = 1 /\ exit = 0
NoServers == /\ testPc = [p \in Tests |-> "absent"] /\ path = [p \in Tests |-> "none"] /\ bin = path
             /\ port = path /\ ci = TRUE /\ cache = <<>> /\ disk = <<>> /\ left = [p \in Tests |-> 0]
             /\ srv = [p \in Tests |-> "off"] /\ listener = [q \in Ports |-> Free]

InitAll == \/ Init /\ NoGroup /\ NoGetter /\ NoServers
           \/ NoRWMutex /\ Group!Init /\ NoGetter /\ NoServers
           \/ NoRWMutex /\ NoGroup /\ Getter!Init /\ NoServers
           \/ NoRWMutex /\ NoGroup /\ NoGetter /\ Servers!Init

NextAll == \/ Next /\ UNCHANGED <<groupVars, getVars, testVars>>
           \/ Group!Next /\ UNCHANGED <<vars, getVars, testVars>>
           \/ Getter!Next /\ UNCHANGED <<vars, groupVars, testVars>>
           \/ Servers!Next /\ UNCHANGED <<vars, groupVars, getVars>>

FairSpec == InitAll /\ [][NextAll]_allVars /\ Fairness /\ Group!Fairness /\ Getter!Fairness /\ Servers!Fairness

-----------------------------------------------------------------------------
\* RWMutex: TokensTellTheTruth, Implements and WaitersEnter are its own.

\* WaitGroup: the one token of done is there, or borrowed, exactly at zero.
DoneTellsZero == Group!DoneTellsZero
\* WaitGroup: nobody stays in Wait while the counter stays zero.
NoWaitAtZero == Group!NoWaitAtZero

\* Fetch: fetchall ends with a line for every URL, however many of them fail.
EveryURLReported == Getter!EveryURLReported

\* TestServer: a test runs a complete binary of its own path and talks to its own server.
TestsRunTheirBinary == Servers!TestsRunTheirBinary
\* TestServer: WaitForPort returns, whatever becomes of the server.
EveryWaitEnds == Servers!EveryWaitEnds
=============================================================================
