-------------------------- MODULE MCMergeScenarios --------------------------
(* What has to happen in the end, for two parts side by side in one run: in
   "thread" the merge thread and the life cycle of the program, in "vector" a
   directory that the merges publish again and again (CowVector).  The part
   that is not running keeps still. *)
EXTENDS MergeThread

CONSTANTS Reader, View, Array, Value, Garbage, None, InitCapacity, MaxLen, MaxStored
VARIABLES scenario, views, arrays, readView, writeView, held, current, past, toClean, pc

cowVars == <<views, arrays, readView, writeView, held, current, past, toClean, pc>>
everything == <<vars, cowVars, scenario>>

Cow == INSTANCE CowVector WITH Usage <- "managed", InPlace <- FALSE

CowRest ==
  /\ views = <<>> /\ arrays = <<>> /\ readView = None /\ writeView = None
  /\ held = <<>> /\ current = {} /\ past = {} /\ toClean = {} /\ pc = "destroyed"

MCInit ==
  /\ Init
  /\ \/ scenario = "thread" /\ CowRest
     \/ scenario = "vector" /\ main = "loading" /\ Cow!Init

Thread == scenario = "thread" /\ UNCHANGED <<scenario, cowVars>>
Vector == scenario = "vector" /\ UNCHANGED <<scenario, vars>>

MCNext == (Thread /\ Next) \/ (Vector /\ Cow!Next)

\* The fairness of FairSpec and of Cow!FairSpec.
MCSpec ==
  /\ MCInit
  /\ [][MCNext]_everything
  /\ WF_everything(Thread /\ Main)
  /\ WF_everything(Thread /\ MergeLoop)
  /\ WF_everything(Thread /\ TimedOut)
  /\ WF_everything(Thread /\ SaveStep)
  /\ WF_everything(Vector /\ Cow!Merging)
  /\ \A r \in Reader : WF_everything(Vector /\ Cow!ReleaseReadView(r))

\* An array that cowvector::merge() has replaced is deleted in the end,
\* whatever readers overlap.
Reclaimed == Cow!Reclaimed
=============================================================================
