-------------------------- MODULE SandboxExecutor --------------------------
(***************************************************************************)
(* SandboxExecutor.run (sandbox/executor.py): calls that overlap, each a   *)
(* subprocess.run of the command, or of a docker client whose container is *)
(* run by a daemon.  subprocess.run reads the output to its end, so it     *)
(* also waits for whatever else holds it; when the time is up it kills its *)
(* child, and nothing else.                                                *)
(***************************************************************************)
CONSTANTS
  Calls,
  Docker,        \* the calls made with IsolationLevel.DOCKER
  AuditMayFail   \* log_event may raise

ASSUME ExecutorAssumption == Docker \subseteq Calls /\ AuditMayFail \in BOOLEAN

VARIABLES
  pc,       \* where each call of run() is
  child,    \* the child process: "none", "running", or how it ended: "zero", "nonzero"
  rest,     \* the container runs; or a descendant of the child holds its output
  reason    \* reason of the result; "none" before there is one

vars == <<pc, child, rest, reason>>

Init ==
  /\ pc = [c \in Calls |-> "idle"]
  /\ child = [c \in Calls |-> "none"]
  /\ rest = [c \in Calls |-> FALSE]
  /\ reason = [c \in Calls |-> "none"]

-----------------------------------------------------------------------------
(* run() *)

At(c, from, to) == pc[c] = from /\ pc' = [pc EXCEPT ![c] = to]

Result(c, r) ==
  /\ pc' = [pc EXCEPT ![c] = "auditing"]
  /\ reason' = [reason EXCEPT ![c] = r]

Called(c) == At(c, "idle", "starting") /\ UNCHANGED <<child, rest, reason>>

\* The command is empty or cannot be split, or its process does not start.
NotStarted(c) ==
  /\ pc[c] = "starting"
  /\ \E r \in {"execution_error"} \cup
              IF c \in Docker THEN {"docker_not_found"} ELSE {"empty_command", "invalid_command"} :
       Result(c, r)
  /\ UNCHANGED <<child, rest>>

Starts(c) ==
  /\ At(c, "starting", "communicating")
  /\ child' = [child EXCEPT ![c] = "running"]
  /\ UNCHANGED <<rest, reason>>

\* Mutant: the output is not captured.
AwaitedMutant(c) == child[c] = "running"
\* capture_output: communicate() waits for the child and for the end of its output,
\* which the client holds alone and the command with its descendants.
Awaited(c) == child[c] = "running" \/ (c \notin Docker /\ rest[c])

\* UnicodeDecodeError, of an output that is no text, is a ValueError.
Undecodable(c) == IF c \in Docker THEN "execution_error" ELSE "invalid_command"

Completes(c) ==
  /\ pc[c] = "communicating"
  /\ ~Awaited(c)
  /\ \E r \in {IF child[c] = "zero" THEN "ok" ELSE "non_zero_exit", Undecodable(c)} : Result(c, r)
  /\ UNCHANGED <<child, rest>>

\* Mutant: the timeout is not passed on.
TimedMutant == FALSE
\* timeout=timeout, or timeout + 5 with Docker.
Timed == TRUE

\* The time is up: the child is killed and waited for.
TimesOut(c) ==
  /\ Timed
  /\ pc[c] = "communicating"
  /\ child' = [child EXCEPT ![c] = IF @ = "running" THEN "nonzero" ELSE @]
  /\ Result(c, "timeout")
  /\ UNCHANGED rest

\* A record that raises leaves the caller without the result.
Audit(c) ==
  /\ \/ At(c, "auditing", "returned")
     \/ AuditMayFail /\ At(c, "auditing", "raised")
  /\ UNCHANGED <<child, rest, reason>>

Run(c) == NotStarted(c) \/ Starts(c) \/ Completes(c) \/ TimesOut(c) \/ Audit(c)

-----------------------------------------------------------------------------
(* The command *)

\* The child starts another process; or the daemon the container, which it may
\* do after the client has gone.
Spawns(c) ==
  /\ child[c] = "running" \/ (c \in Docker /\ child[c] = "nonzero")
  /\ rest' = [rest EXCEPT ![c] = TRUE]
  /\ UNCHANGED <<pc, child, reason>>

RestEnds(c) ==
  /\ rest[c]
  /\ rest' = [rest EXCEPT ![c] = FALSE]
  /\ UNCHANGED <<pc, child, reason>>

\* A client ends with the code of the container, or earlier with one of its own.
ChildEnds(c) ==
  /\ child[c] = "running"
  /\ \E e \in {"zero", "nonzero"} :
       /\ c \in Docker /\ e = "zero" => ~rest[c]
       /\ child' = [child EXCEPT ![c] = e]
  /\ UNCHANGED <<pc, rest, reason>>

Command(c) == Spawns(c) \/ RestEnds(c) \/ ChildEnds(c)

Next == \E c \in Calls : Called(c) \/ Run(c) \/ Command(c)

\* run() goes on, and time with it; a command need not end.
Spec == Init /\ [][Next]_vars /\ \A c \in Calls : WF_vars(Run(c))
-----------------------------------------------------------------------------
(* Properties *)

Reasons == {"ok", "non_zero_exit", "timeout", "execution_error",
            "docker_not_found", "empty_command", "invalid_command"}

\* The calls, their children and their results have their types.
TypeOK ==
  /\ pc \in [Calls -> {"idle", "starting", "communicating", "auditing", "returned", "raised"}]
  /\ child \in [Calls -> {"none", "running", "zero", "nonzero"}]
  /\ rest \in [Calls -> BOOLEAN]
  /\ reason \in [Calls -> Reasons \cup {"none"}]

\* When run() has returned, no process it started goes on, and nothing goes on
\* that could still write to the output that was read, nor does the container,
\* except where the reason is the timeout, or a docker client that failed; and
\* "ok" is said only of a command that ended, with 0.
OnlyTimeoutsLeave ==
  \A c \in Calls :
    pc[c] = "returned" =>
      /\ child[c] # "running"
      /\ rest[c] => reason[c] = "timeout" \/ (c \in Docker /\ child[c] = "nonzero")
      /\ reason[c] = "ok" => child[c] = "zero"
      /\ reason[c] \in {"empty_command", "docker_not_found"} => child[c] = "none"

\* Every run() comes back, whatever the command does, and whatever it leaves
\* holding the output that run() reads.
Returns ==
  \A c \in Calls : pc[c] = "starting" ~> pc[c] \in {"returned", "raised"}
=============================================================================
