------------------------------- MODULE MCFeed -------------------------------
EXTENDS Feed

Work(open, events, changes, breaks, reloads, restarts) ==
  [open |-> open, events |-> events, changes |-> changes, breaks |-> breaks,
   reloads |-> reloads, restarts |-> restarts]

\* Of the log: events beyond what the ring holds, with a break; and a restart.  Of the
\* bridge view: changes that overlap, with a reload; with a break; and a restart.
MCWorkloads ==
  {Work({"events"}, 4, 0, 1, 0, 0), Work({"events"}, 3, 0, 1, 0, 1),
   Work({"bridge"}, 0, 2, 0, 1, 0), Work({"bridge"}, 0, 1, 1, 0, 1)}
=============================================================================
