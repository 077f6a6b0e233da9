-------------------------------- MODULE Export --------------------------------
(***************************************************************************)
(* testtool export (commands/export.go): the work tree, without its        *)
(* private files, becomes the next commit of branch public, which is then  *)
(* pushed.  Any git command or removal may fail and end the tool with all  *)
(* that was done; the teacher then runs it again as things stand, or after *)
(* going back to master.  A commit is the set of its files.                *)
(***************************************************************************)
EXTENDS Listing

CONSTANTS Repos,    \* contents of master
          MaxRuns   \* bound: runs of the tool

ExportAssumption == MaxRuns \in Nat /\ \A repo \in Repos : WellTagged(repo)

VARIABLES pc, runs,
          master, public, temps, remote,  \* branches; those of every run; the public repository
          head, tree,                     \* the commit HEAD is at, the work tree
          onPublic,                       \* HEAD is the branch public
          doomed,                         \* private files still to be removed
          push, back,                     \* flags of this run
          origin                          \* history: the work tree this run began with

vars     == <<pc, runs, master, public, temps, remote, head, tree, onPublic, doomed, push, back, origin>>
settings == <<master, push, back, origin>>

Init ==
  /\ pc = "idle" /\ runs = 0 /\ master \in Repos /\ public = {} /\ temps = 0 /\ remote = {}
  /\ head = master /\ tree = master /\ onPublic = FALSE /\ doomed = <<>>
  /\ push = FALSE /\ back = FALSE /\ origin = {}

Goto(from, to) == pc = from /\ pc' = to

Start ==
  /\ Goto("idle", "branch") /\ runs < MaxRuns /\ runs' = runs + 1 /\ origin' = tree
  /\ push' \in BOOLEAN /\ back' \in BOOLEAN
  /\ UNCHANGED <<master, public, temps, remote, head, tree, onPublic, doomed>>

\* log.Fatal: whatever command is next may fail.
Fail ==
  /\ pc \notin {"idle", "done"} /\ pc' = "idle"
  /\ UNCHANGED <<runs, public, temps, remote, head, tree, onPublic, doomed, settings>>

\* git checkout -b temp: HEAD leaves public, if it was there.
CheckoutTemp ==
  /\ Goto("branch", "reset") /\ temps' = temps + 1 /\ onPublic' = FALSE
  /\ UNCHANGED <<runs, public, remote, head, tree, doomed, settings>>

\* git reset public: the work tree stays as it is; then the private files are listed.
ResetToPublic ==
  /\ Goto("reset", "remove") /\ head' = public /\ doomed' = ListPrivateFiles(tree)
  /\ UNCHANGED <<runs, public, temps, remote, tree, onPublic, settings>>

\* os.Remove; a file listed twice is not there the second time: log.Fatal.
RemovePrivate ==
  /\ pc = "remove" /\ doomed # <<>> /\ doomed' = Tail(doomed) /\ tree' = tree \ {Head(doomed)}
  /\ pc' = IF Head(doomed) \in tree THEN "remove" ELSE "idle"
  /\ UNCHANGED <<runs, public, temps, remote, head, onPublic, settings>>

\* git checkout public, at the commit HEAD is at: the work tree stays as it is.
CheckoutPublic ==
  /\ Goto("remove", "delete") /\ doomed = <<>> /\ onPublic' = TRUE /\ head' = public
  /\ UNCHANGED <<runs, public, temps, remote, tree, doomed, settings>>

DeleteTemp ==
  /\ Goto("delete", "commit") /\ temps' = temps - 1
  /\ UNCHANGED <<runs, public, remote, head, tree, onPublic, doomed, settings>>

\* git add -A, git commit --allow-empty.
Commit ==
  /\ Goto("commit", IF push THEN "push" ELSE "leave") /\ onPublic /\ public' = tree /\ head' = tree
  /\ UNCHANGED <<runs, temps, remote, tree, onPublic, doomed, settings>>

Push ==
  /\ Goto("push", "leave") /\ remote' = public
  /\ UNCHANGED <<runs, public, temps, head, tree, onPublic, doomed, settings>>

\* git checkout master, unless the flag says to stay.
Leave ==
  /\ Goto("leave", "done")
  /\ IF back THEN head' = master /\ tree' = master /\ onPublic' = FALSE ELSE UNCHANGED <<head, tree, onPublic>>
  /\ UNCHANGED <<runs, public, temps, remote, doomed, settings>>

\* The teacher works on: on the files as they are, or back on master, whose next
\* commit may have other files.
WorkOn ==
  /\ pc \in {"idle", "done"} /\ pc' = "idle" /\ UNCHANGED <<runs, public, temps, remote, doomed, push, back, origin>>
  /\ \/ pc = "done" /\ UNCHANGED <<master, head, tree, onPublic>>
     \/ master' \in Repos /\ head' = master' /\ tree' = master' /\ onPublic' = FALSE

Next == \/ Start \/ Fail \/ CheckoutTemp \/ ResetToPublic \/ RemovePrivate \/ CheckoutPublic \/ DeleteTemp
        \/ Commit \/ Push \/ Leave \/ WorkOn

Spec == Init /\ [][Next]_vars

-----------------------------------------------------------------------------
TypeOK ==
  /\ runs \in 0..MaxRuns /\ temps \in 0..MaxRuns
  /\ pc \in {"idle", "branch", "reset", "remove", "delete", "commit", "push", "leave", "done"}

Private(f) == f.listed \/ "private" \in f.wants \/ "solution" \in f.wants

(***************************************************************************)
(* No private file gets onto public, wherever a run fails and whatever the *)
(* next one finds; and a run that ends well publishes every other file it  *)
(* found, and removes from public what was not there any more.             *)
(***************************************************************************)
OnlyThePublicIsPublished ==
  /\ \A f \in public \cup remote : ~Private(f)
  /\ pc = "done" => public = {f \in origin : ~Private(f)} /\ (push => remote = public)

\* testtool list-private-files shows just the private files, in the order of their names.
PrivateAreShown(repo) ==
  LET shown == RunListPrivateFiles(repo) IN
  /\ ToSet(shown) = {f.name : f \in {g \in repo : Private(g)}}
  /\ \A a, b \in DOMAIN shown : a < b => shown[a] <= shown[b]
=============================================================================
