----------------------------- MODULE MCJournal -----------------------------
(***************************************************************************)
(* The journal for TLC.  Pages do not depend on who makes the partitions,  *)
(* so one run explores the two next to each other instead of their         *)
(* product: in the scenario "months" instances start, crash and maintain   *)
(* partitions over two turns of a month while one entry is written; in     *)
(* "lists" a single instance serves and three entries are written and      *)
(* paged through.                                                          *)
(***************************************************************************)
EXTENDS Journal, TLC

CONSTANT LastListDay   \* bound on days in the scenario "lists"

VARIABLE scenario

MCRanges == {[from |-> 0, to |-> 9], [from |-> 1, to |-> 2]}
InstanceSymmetry == Permutations(Instances)

MonthsOnly ==
  /\ walk' = walk
  /\ DOMAIN transfers' \subseteq {1} /\ (transfers' # transfers => today = 0)
ListsOnly ==
  /\ faults' = 0 /\ today' <= LastListDay
  /\ \E i \in Instances : \A j \in Instances \ {i} : up'[j] = "down"
  /\ \A i \in Instances : up'[i] = "down" => up[i] = "down"
  /\ today' > 0 => DOMAIN transfers' # {}
  /\ (\E i \in Instances : up[i] = "serving") \/ DOMAIN transfers' = {}
  /\ walk' # walk => Cardinality(DOMAIN transfers) > 1

MCInit == JournalInit /\ scenario \in {"months", "lists"}
MCNext ==
  /\ JournalNext
  /\ scenario' = scenario
  /\ scenario = "months" => MonthsOnly
  /\ scenario = "lists" => ListsOnly
MCSpec == MCInit /\ [][MCNext]_<<jvars, scenario>>
=============================================================================
