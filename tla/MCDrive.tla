------------------------------ MODULE MCDrive -------------------------------
EXTENDS Drive, TLC

\* One that loops with an event in it and at its end, and one that ends.
Round == [keys |-> <<0, 1, 2>>, events |-> {1, 2}, loop |-> TRUE]
Once  == [keys |-> <<0, 2>>, events |-> {0, 1, 2}, loop |-> FALSE]

\* Runs and sweeps in some depth; then, in less, everything there is, requests that
\* overlap, and what may go wrong.
Work(kinds, reqs, busy, moves, faults) ==
  [kinds |-> kinds, reqs |-> reqs, busy |-> busy, moves |-> moves, faults |-> faults]
MCWorkloads ==
  {Work({"edit", "play", "scenario"}, 3, 1, 0, 0),
   Work({"sweep", "unsweep"}, 3, 1, 0, 0),
   Work(AllKinds, 2, 1, 0, 0),
   Work({"edit", "play", "sweep"}, 2, 2, 0, 0),
   Work({"edit", "import"}, 2, 1, 0, 1),
   Work({"sweep"}, 1, 1, 1, 1)}
MCAuthored == {Once}
MCLibrary  == {Round, Once}
MCBindings == Devices \cup {Box}
MCGroups   == 1..MaxReqs
Alike      == Permutations(Devices) \cup Permutations(Handlers)
=============================================================================
