------------------------------- MODULE Process -------------------------------
(***************************************************************************)
(* test_util::Process: an object that runs a program as a child of the     *)
(* test, for the life of the object.  The state is what the kernel knows   *)
(* of the child, and the object; a number of a process that was reaped is  *)
(* free and may be given to a stranger, or to a sibling: a child of the    *)
(* same test that another object runs.  QemuProcess is a Process whose     *)
(* program is the emulator.                                                *)
(***************************************************************************)
EXTENDS Naturals

CONSTANT
  MaxReuses     \* bound: times the child's number is given away

ASSUME ProcessAssumption == MaxReuses \in Nat

VARIABLES
  object,       \* "none", "made", "killing", "waiting" (the destructor), "destroyed"
  child,        \* "none", "forked", "running" (after exec), "zombie", "reaped"
  death_signal, \* PR_SET_PDEATHSIG is in force
  stubborn,     \* the program does not end on SIGTERM
  pid_,         \* who has the child's number, see Holders
  alive,        \* the test runs
  reuses,       \* times the child's number was given away
  checked,      \* history: Check has returned false
  stray,        \* history: the functions that reached a stranger, not the child
  mistaken,     \* history: those that reached a sibling
  orphaned,     \* history: the test died before the child had asked for a signal
  interrupted   \* history: the destructor's waitpid failed with EINTR

historyVars == <<checked, stray, mistaken, orphaned, interrupted>>

processVars ==
  <<object, child, death_signal, stubborn, pid_, alive, reuses, historyVars>>

Living == {"forked", "running"}

Functions == {"Check", "SendSignal", "~Process"}

Holders == {"child", "nobody", "stranger", "sibling", "ended sibling"}

ProcessTypeOK ==
  /\ object \in {"none", "made", "killing", "waiting", "destroyed"}
  /\ child \in Living \cup {"none", "zombie", "reaped"}
  /\ pid_ \in Holders
  /\ stray \subseteq Functions /\ mistaken \subseteq Functions
  /\ {death_signal, stubborn, alive, checked, orphaned, interrupted} \subseteq BOOLEAN
  /\ reuses \in 0..MaxReuses
  /\ child = "none" <=> object = "none"
  /\ pid_ = "child" <=> child \in Living \cup {"zombie"}

ProcessInit ==
  /\ object = "none" /\ child = "none" /\ pid_ = "nobody"
  /\ death_signal = FALSE /\ stubborn = FALSE
  /\ alive = TRUE /\ reuses = 0
  /\ checked = FALSE /\ orphaned = FALSE /\ interrupted = FALSE
  /\ stray = {} /\ mistaken = {}
-----------------------------------------------------------------------------
(* The constructor.  When fork fails there is no object. *)
Construct ==
  /\ alive /\ object = "none"
  /\ object' = "made"
  /\ child' = "forked" /\ pid_' = "child"
  /\ UNCHANGED <<death_signal, stubborn, alive, reuses, historyVars>>

(* A process that ends is a zombie of the test, or nobody's. *)
Ends ==
  IF alive THEN child' = "zombie" /\ pid_' = pid_
           ELSE child' = "reaped" /\ pid_' = "nobody"

(* The child, between fork and exec: prctl. *)
SetDeathSignal ==
  /\ child = "forked" /\ ~death_signal
  /\ death_signal' = TRUE
  /\ UNCHANGED <<object, child, stubborn, pid_, alive, reuses, historyVars>>

(* mutant: exec comes before prctl *)
AnyTime == TRUE

Prepared == death_signal

(* execvp *)
Exec ==
  /\ child = "forked" /\ Prepared
  /\ child' = "running"
  /\ stubborn' \in BOOLEAN
  /\ UNCHANGED <<object, death_signal, pid_, alive, reuses, historyVars>>

(* A call of the child before exec fails, exec fails, or the program ends. *)
Exit ==
  /\ child \in Living
  /\ Ends
  /\ UNCHANGED <<object, death_signal, stubborn, alive, reuses, historyVars>>

(* An object of a living test holds the number: whose it is matters.       *)
Held == alive /\ object \notin {"none", "destroyed"}

PidReused ==
  /\ Held /\ child = "reaped" /\ pid_ = "nobody" /\ reuses < MaxReuses
  /\ reuses' = reuses + 1
  /\ pid_' \in {"stranger", "sibling"}
  /\ UNCHANGED <<object, child, death_signal, stubborn, alive, historyVars>>

SiblingEnds ==
  /\ Held /\ pid_ = "sibling"
  /\ pid_' = "ended sibling"
  /\ UNCHANGED <<object, child, death_signal, stubborn, alive, reuses, historyVars>>

(* The stranger ends, or the sibling's own object reaps it: not while the  *)
(* thread of the test is in the destructor of this one.                    *)
NumberFreed ==
  /\ Held
  /\ \/ pid_ = "stranger"
     \/ pid_ = "ended sibling" /\ object \notin {"killing", "waiting"}
  /\ pid_' = "nobody"
  /\ UNCHANGED <<object, child, death_signal, stubborn, alive, reuses, historyVars>>

(* waitpid finds a child of the test under the number, and it runs. *)
Runs == child \in Living \/ pid_ = "sibling"

(* waitpid, called by the named function, reaps the one it finds if it has *)
(* ended; under a free number, or a stranger's, it gives ECHILD.           *)
Reaps(function) ==
  /\ child' = IF child = "zombie" THEN "reaped" ELSE child
  /\ pid_' = IF child = "zombie" \/ pid_ = "ended sibling" THEN "nobody" ELSE pid_
  /\ mistaken' = IF pid_ = "ended sibling" THEN mistaken \cup {function} ELSE mistaken

(* With WNOHANG, 0 is the only result that counts as running. *)
Check ==
  /\ alive /\ object = "made"
  /\ Reaps("Check")
  /\ checked' = (checked \/ ~Runs)
  /\ UNCHANGED <<object, death_signal, stubborn, alive, reuses, stray, orphaned, interrupted>>

(* kill(pid_, SIGTERM) by the named function *)
Signal(function) ==
  /\ IF child = "forked" \/ (child = "running" /\ ~stubborn)
       THEN Ends ELSE UNCHANGED <<child, pid_>>
  /\ stray' = IF pid_ = "stranger" THEN stray \cup {function} ELSE stray
  /\ mistaken' = IF pid_ = "sibling" THEN mistaken \cup {function} ELSE mistaken

SendSignal ==
  /\ alive /\ object = "made"
  /\ Signal("SendSignal")
  /\ UNCHANGED <<object, death_signal, stubborn, alive, reuses, checked, orphaned, interrupted>>

(* mutant: kill, whatever Check says *)
AlwaysKills == "killing"

AfterCheck == IF Runs THEN "killing" ELSE "destroyed"

(* The destructor calls Check, *)
Destroy ==
  /\ alive /\ object = "made"
  /\ Reaps("~Process")
  /\ object' = AfterCheck
  /\ UNCHANGED <<death_signal, stubborn, alive, reuses, checked, stray, orphaned, interrupted>>

(* mutant: no signal is sent *)
NoSignal == UNCHANGED <<child, pid_, stray, mistaken>>

Terminate == Signal("~Process")

(* mutant: kill and be gone *)
Gone == "destroyed"

AfterKill == "waiting"

(* kill, *)
Kill ==
  /\ alive /\ object = "killing"
  /\ object' = AfterKill
  /\ Terminate
  /\ UNCHANGED <<death_signal, stubborn, alive, reuses, checked, orphaned, interrupted>>

(* and waitpid, for as long as it takes, *)
Wait ==
  /\ alive /\ object = "waiting" /\ ~Runs
  /\ object' = "destroyed"
  /\ Reaps("~Process")
  /\ UNCHANGED <<death_signal, stubborn, alive, reuses, checked, stray, orphaned, interrupted>>

(* or until a signal to the test ends it with EINTR, which is not looked   *)
(* at; the child may be about to end.                                      *)
WaitInterrupted ==
  /\ alive /\ object = "waiting"
  /\ Runs \/ child = "zombie" \/ pid_ = "ended sibling"
  /\ object' = "destroyed"
  /\ interrupted' = TRUE
  /\ UNCHANGED <<child, pid_, death_signal, stubborn, alive, reuses, checked, stray, mistaken,
                 orphaned>>

(* The test is killed, or the thread that made the object ends. *)
TestDies ==
  /\ alive
  /\ alive' = FALSE
  /\ orphaned' = (child = "forked" /\ ~death_signal)
  /\ IF child = "zombie" \/ (child \in Living /\ death_signal)
       THEN child' = "reaped" /\ pid_' = "nobody"
       ELSE UNCHANGED <<child, pid_>>
  /\ UNCHANGED <<object, death_signal, stubborn, reuses, checked, stray, mistaken, interrupted>>
=============================================================================
