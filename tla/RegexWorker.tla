----------------------------- MODULE RegexWorker -----------------------------
(***************************************************************************)
(* The child process in which text-tools runs a caller's regular           *)
(* expression (run_regex_worker in                                         *)
(* src/modules/text-tools/operations_developer.py).  The caller waits for  *)
(* an answer for a limited time, and an expression may take for ever.      *)
(*                                                                         *)
(* Every call on the Process is a step, so that the child may end, or be   *)
(* ended by the kernel, between any two of them.  A child that has ended   *)
(* is a zombie until is_alive or join waits for it: "dead", then "reaped". *)
(***************************************************************************)
VARIABLES parent,   \* where the caller is
          child,    \* its child
          pipe      \* what has gone through the pipe between them

vars == <<parent, child, pipe>>

Working == {"matching", "sending", "leaving"}

TypeOK ==
  /\ parent \in {"idle", "polling", "receiving", "timed out", "awaiting", "closing", "checking",
                 "granting", "looking again", "killing", "joining", "returned"}
  /\ child \in Working \cup {"none", "killed", "dead", "reaped"}
  /\ pipe \in {"closed", "empty", "partly", "message", "ended", "broken"}

Init == parent = "idle" /\ child = "none" /\ pipe = "closed"
-----------------------------------------------------------------------------
(* The child.                                                              *)

\* The worker's send: one message, in two parts when it is larger than the
\* pipe's buffer.  A child that holds the reading end too (fork) does not learn
\* that the caller has closed its own: the send blocks for ever, or it fails.
Send ==
  /\ child = "matching"
  /\ \/ child' = "leaving" /\ pipe' = IF pipe = "closed" THEN pipe ELSE "message"
     \/ child' = "sending" /\ pipe' = IF pipe = "closed" THEN pipe ELSE "partly"
  /\ UNCHANGED parent
\* The caller that reads makes room for the rest.
SendRest ==
  /\ child = "sending" /\ pipe = "partly" /\ parent = "receiving"
  /\ child' = "leaving" /\ pipe' = "message"
  /\ UNCHANGED parent
SendFails ==
  /\ child = "sending" /\ pipe = "closed"
  /\ child' = "leaving"
  /\ UNCHANGED <<parent, pipe>>

\* The child ends: it is done, it was killed, or it dies of something else (no
\* memory), perhaps before its message or in the middle of it.
Ends ==
  /\ child \in Working \cup {"killed"}
  /\ child' = "dead"
  /\ pipe' = CASE pipe = "empty" -> "ended" [] pipe = "partly" -> "broken" [] OTHER -> pipe
  /\ UNCHANGED parent
-----------------------------------------------------------------------------
(* The caller.                                                             *)

Spawn ==
  /\ parent = "idle"
  /\ parent' = "polling" /\ child' = "matching" /\ pipe' = "empty"

\* poll returns for a message, for a part of one and for the end of the pipe.
Ready ==
  /\ parent = "polling" /\ pipe # "empty"
  /\ parent' = "receiving"
  /\ UNCHANGED <<child, pipe>>
PollTimesOut ==
  /\ parent = "polling" /\ pipe = "empty"
  /\ parent' = "timed out"
  /\ UNCHANGED <<child, pipe>>

\* recv waits for the whole message; the end of the pipe raises.
Receive ==
  /\ parent = "receiving" /\ pipe # "partly"
  /\ parent' = "closing"
  /\ UNCHANGED <<child, pipe>>

\* process.kill: the signal is on its way; it does nothing to a zombie.
Kill ==
  /\ parent \in {"timed out", "killing"}
  /\ child' = IF child \in Working THEN "killed" ELSE child
  /\ parent' = IF parent = "timed out" THEN "awaiting" ELSE "joining"
  /\ UNCHANGED pipe

\* process.join without a limit, after the kill of a child whose time was up
\* and at the very end.
Gone == child \in {"dead", "reaped"}
Join ==
  /\ parent \in {"awaiting", "joining"} /\ Gone
  /\ child' = "reaped"
  /\ parent' = IF parent = "awaiting" THEN "closing" ELSE "returned"
  /\ UNCHANGED pipe

\* finally: the caller closes its end of the pipe.
Close ==
  /\ parent = "closing"
  /\ pipe' = "closed" /\ parent' = "checking"
  /\ UNCHANGED child

\* is_alive waits for a zombie, too.
IsAlive ==
  /\ parent \in {"checking", "looking again"}
  /\ IF Gone THEN child' = "reaped" /\ parent' = "joining"
     ELSE UNCHANGED child /\ parent' = IF parent = "checking" THEN "granting" ELSE "killing"
  /\ UNCHANGED pipe

\* join(0.1): the child ends in this time, or it does not.
Grant_Trusting ==
  /\ parent = "granting"
  /\ child' = IF Gone THEN "reaped" ELSE child
  /\ parent' = "joining"
  /\ UNCHANGED pipe
Grant ==
  /\ parent = "granting"
  /\ child' = IF Gone THEN "reaped" ELSE child
  /\ parent' = "looking again"
  /\ UNCHANGED pipe

Next ==
  \/ Send \/ SendRest \/ SendFails \/ Ends
  \/ Spawn \/ Ready \/ PollTimesOut \/ Receive \/ Kill \/ Join \/ Close \/ IsAlive \/ Grant
Spec == Init /\ [][Next]_vars
-----------------------------------------------------------------------------
\* When a regular-expression call has returned, its child is gone, not even a
\* zombie is left, and the pipe is closed, whatever the child was doing when the
\* time was up and wherever it died.  And the joins that have no limit are
\* reached only when the child has ended or cannot but end: an expression that
\* takes for ever never holds the caller (run_regex_worker, regex_extract).
WorkerIsReaped ==
  /\ parent = "returned" => child = "reaped" /\ pipe = "closed"
  /\ parent \in {"awaiting", "joining"} => child \in {"killed", "dead", "reaped"}
=============================================================================
