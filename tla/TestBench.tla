------------------------------ MODULE TestBench ------------------------------
(***************************************************************************)
(* A test of the library's kind: it runs a program as a Process and waits  *)
(* with WatchFile for the file the program writes.  The program is started *)
(* or signalled in the subroutine of WatchFile, or between two calls; the  *)
(* file that a program has open when it ends is closed by the kernel.      *)
(***************************************************************************)
EXTENDS Process, WatchFile

vars == <<processVars, watchVars>>

TypeOK == ProcessTypeOK /\ WatchTypeOK

Init == ProcessInit /\ WatchInit
-----------------------------------------------------------------------------
(* The program ends, and its files are closed. *)
FilesFollow ==
  IF child = "running" /\ child' # "running" /\ session # "none"
    THEN Close ELSE UNCHANGED watchVars

(* The thread of the test, outside WaitFor. *)
TestCalls ==
  /\ pc \in {"idle", "subroutine"}
  /\ Construct \/ Check \/ SendSignal \/ Destroy \/ Kill \/ Wait \/ WaitInterrupted
  /\ FilesFollow

(* The program, and the rest of the system. *)
ChildSteps ==
  /\ \/ SetDeathSignal \/ Exec \/ Exit \/ TestDies
     \/ PidReused \/ SiblingEnds \/ NumberFreed
  /\ FilesFollow

ProgramWrites ==
  /\ child = "running"
  /\ Open \/ Write \/ Close \/ Move \/ Delete
  /\ UNCHANGED processVars

OthersWrite == Neighbour /\ UNCHANGED processVars

(* The thread of the test in WatchFile.  It is one thread: the destructor  *)
(* is not under way while WatchFile is called, except in a subroutine.     *)
Waiting ==
  /\ alive
  /\ object \notin {"killing", "waiting"}
  /\ Call \/ StartWaiting \/ Throws \/ Read \/ PollTimesOut \/ Loop
  /\ UNCHANGED processVars

TimePasses == Tick /\ UNCHANGED processVars

Next ==
  \/ TestCalls \/ ChildSteps \/ ProgramWrites \/ OthersWrite \/ Waiting \/ TimePasses

Spec == Init /\ [][Next]_vars

(* Time passes; the thread of the test is scheduled inside the library.    *)
(* Nothing makes the program end, or the test call anything.               *)
FairSpec ==
  /\ Spec
  /\ WF_vars(TimePasses)
  /\ WF_vars(alive /\ (StartWaiting \/ Read \/ PollTimesOut \/ Loop) /\ UNCHANGED processVars)
  /\ WF_vars(Kill /\ FilesFollow)
  /\ WF_vars(Wait /\ FilesFollow)
-----------------------------------------------------------------------------
(* A destroyed Process has left no child behind, running or zombie, in     *)
(* whatever state the destructor met it and whatever was called before,    *)
(* unless a signal to the test interrupted the destructor's waitpid.       *)
NothingLeft == object = "destroyed" => child = "reaped" \/ interrupted

(* The pid_ of a Process may be another's once the child is reaped.  It    *)
(* then reaches another process only if Check has returned false before;   *)
(* and only SendSignal reaches one that is no child of the test: Check and *)
(* the destructor stop at what waitpid tells them, though they may reap,   *)
(* and the destructor kill, a child that another object runs.              *)
StrayNeedsCheck ==
  /\ stray # {} \/ mistaken # {} => checked
  /\ stray \subseteq {"SendSignal"}

(* A program does not outlive the test that ran it, however the test ends, *)
(* unless the test died before the child had called prctl.                 *)
DiesWithTest == ~alive /\ child \in Living => orphaned

(* What a Process promises of the program it runs: none left behind by an  *)
(* undisturbed destructor, none that outlives the test, and no other       *)
(* process reached unawares.                                               *)
ProcessSafe == NothingLeft /\ StrayNeedsCheck /\ DiesWithTest

(* The destructor ends, unless the program does not end on SIGTERM, or     *)
(* another child of the test is waited for in its place: waitpid has no    *)
(* time limit.                                                             *)
DestructorReturns ==
  object = "killing" ~>
    object = "destroyed" \/ stubborn \/ "~Process" \in mistaken \/ ~alive

(* A change of the file has been completed. *)
Completed(history) ==
  \E j \in DOMAIN history :
    \/ history[j] \in {"IN_MOVE", "IN_DELETE"}
    \/ history[j] = "IN_CLOSE_WRITE" /\ \E i \in 1..j : history[i] \in Changes

(* WatchFile returns true only for a file that was changed and then        *)
(* closed, or was moved or deleted, since the call.  A writer that had it  *)
(* open before the call, or closes it unchanged, spoils that: its close    *)
(* and the first change of another, read together, look the same.          *)
TrueIsEarned == result = "true" /\ ~blurred => Completed(happened)

(* WatchFile misses nothing: if it returns false, no change was completed, *)
(* from the beginning of the subroutine on, but such as it has not read in *)
(* time.                                                                   *)
NoMiss == [][result # "false" /\ result' = "false" => queue # <<>> \/ ~Completed(happened)]_vars

(* WatchFile returns, however busy the directory is. *)
WatchEnds == pc = "poll" ~> pc = "idle" \/ ~alive
=============================================================================
