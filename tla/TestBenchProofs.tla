--------------------------- MODULE TestBenchProofs ---------------------------
(***************************************************************************)
(* Theorems of TestBench, for every timeout, buffer and number of events.  *)
(* A step of the bench is a step of the Process or leaves it alone, and    *)
(* the same for WatchFile (Split); each part has its own invariant.        *)
(***************************************************************************)
EXTENDS TestBench, TLAPS

ProcessNext ==
  \/ Construct \/ SetDeathSignal \/ Exec \/ Exit \/ PidReused \/ Check \/ SendSignal
  \/ Destroy \/ Kill \/ Wait \/ WaitInterrupted \/ TestDies \/ SiblingEnds \/ NumberFreed

WatchNext ==
  \/ Open \/ Write \/ Close \/ Move \/ Delete \/ Neighbour
  \/ Call \/ StartWaiting \/ Throws \/ Tick \/ PollTimesOut \/ Read \/ Loop

(* A step of the bench is a step of each component or leaves it alone. *)
LEMMA Split ==
  ASSUME Next
  PROVE  /\ ProcessNext \/ UNCHANGED processVars
         /\ WatchNext \/ UNCHANGED watchVars
<1>1. CASE TestCalls
  BY <1>1, Zenon DEF TestCalls, FilesFollow, ProcessNext, WatchNext
<1>2. CASE ChildSteps
  BY <1>2, Zenon DEF ChildSteps, FilesFollow, ProcessNext, WatchNext
<1>3. CASE ProgramWrites
  BY <1>3, Zenon DEF ProgramWrites, WatchNext
<1>4. CASE OthersWrite
  BY <1>4, Zenon DEF OthersWrite, WatchNext
<1>5. CASE Waiting
  BY <1>5, Zenon DEF Waiting, WatchNext
<1>6. CASE TimePasses
  BY <1>6, Zenon DEF TimePasses, WatchNext
<1>7. QED
  BY <1>1, <1>2, <1>3, <1>4, <1>5, <1>6 DEF Next
-----------------------------------------------------------------------------
(* What makes the three properties of the Process inductive: while the     *)
(* test lives, only Check reaps the child of an object in use, and a       *)
(* program that runs has asked for its signal; a number is another's only  *)
(* once the child is reaped, and one that the destructor's Check found     *)
(* running stays a child of the test until the destructor has waited.      *)
ProcessInv ==
  /\ ProcessTypeOK
  /\ NothingLeft
  /\ StrayNeedsCheck
  /\ DiesWithTest
  /\ pid_ \in {"stranger", "sibling", "ended sibling"} => child = "reaped"
  /\ alive /\ object \in {"made", "killing", "waiting"} /\ child = "reaped" => checked
  /\ alive /\ object = "killing" => pid_ \notin {"nobody", "stranger"}
  /\ child = "running" /\ alive => death_signal

(* Every step of the process keeps its invariant. *)
LEMMA ProcessStep ==
  ASSUME ProcessInv, ProcessNext
  PROVE  ProcessInv'
<1> USE ProcessAssumption
        DEF ProcessInv, ProcessTypeOK, NothingLeft, StrayNeedsCheck, DiesWithTest, Living,
            Holders, Functions, historyVars
<1>1. CASE Construct
  BY <1>1 DEF Construct
<1>2. CASE SetDeathSignal
  BY <1>2 DEF SetDeathSignal
<1>3. CASE Exec
  BY <1>3 DEF Exec, Prepared
<1>4. CASE Exit
  BY <1>4 DEF Exit, Ends
<1>5. CASE PidReused
  <2>1. reuses' \in 0..MaxReuses
    BY <1>5 DEF PidReused
  <2>2. QED
    BY <1>5, <2>1 DEF PidReused
<1>6. CASE Check
  BY <1>6 DEF Check, Reaps, Runs
<1>7. CASE SendSignal
  BY <1>7 DEF SendSignal, Signal, Ends
<1>8. CASE Destroy
  BY <1>8 DEF Destroy, AfterCheck, Reaps, Runs
<1>9. CASE Kill
  BY <1>9 DEF Kill, AfterKill, Terminate, Signal, Ends
<1>10. CASE Wait
  BY <1>10 DEF Wait, Reaps, Runs
<1>11. CASE WaitInterrupted
  BY <1>11 DEF WaitInterrupted
<1>12. CASE TestDies
  BY <1>12 DEF TestDies
<1>13. CASE SiblingEnds
  BY <1>13 DEF SiblingEnds
<1>14. CASE NumberFreed
  BY <1>14 DEF NumberFreed
<1>15. QED
  BY <1>1, <1>2, <1>3, <1>4, <1>5, <1>6, <1>7, <1>8, <1>9, <1>10, <1>11, <1>12, <1>13,
     <1>14 DEF ProcessNext

(* The invariant of the process holds always. *)
LEMMA ProcessAlways == Spec => []ProcessInv
<1>1. Init => ProcessInv
  <2> SUFFICES ASSUME ProcessInit PROVE ProcessInv
    BY DEF Init
  <2>1. ProcessTypeOK
    <3>1. reuses \in 0..MaxReuses
      BY ProcessAssumption DEF ProcessInit
    <3>2. QED
      BY <3>1 DEF ProcessInit, ProcessTypeOK, Living, Holders
  <2>2. NothingLeft /\ StrayNeedsCheck /\ DiesWithTest
    BY DEF ProcessInit, NothingLeft, StrayNeedsCheck, DiesWithTest, Living
  <2>3. QED
    BY <2>1, <2>2 DEF ProcessInit, ProcessInv
<1>2. ProcessInv /\ [Next]_vars => ProcessInv'
  <2> SUFFICES ASSUME ProcessInv, [Next]_vars PROVE ProcessInv'
    OBVIOUS
  <2>1. CASE ProcessNext
    BY <2>1, ProcessStep
  <2>2. CASE UNCHANGED processVars
    BY <2>2 DEF processVars, historyVars, ProcessInv, ProcessTypeOK, NothingLeft,
                StrayNeedsCheck, DiesWithTest, Holders, Functions
  <2>3. QED
    BY <2>1, <2>2, Split DEF vars
<1>3. QED
  BY <1>1, <1>2, PTL DEF Spec

(* In every run a destroyed Process leaves no child behind unless its       *)
(* waitpid was interrupted; its number reaches another process only after a *)
(* Check that returned false, and one that is no child of the test only by  *)
(* SendSignal; and no program outlives a test that died after the prctl.    *)
THEOREM ProcessSafety == Spec => []ProcessSafe
<1>1. ProcessInv => ProcessSafe
  BY DEF ProcessInv, ProcessSafe
<1>2. QED
  BY <1>1, ProcessAlways, PTL
-----------------------------------------------------------------------------
(* Histories and queues are sequences of events. *)
HasChange(s) == \E i \in 1..Len(s) : s[i] \in Changes

(* What a queue still has to tell a reader that holds the changes in mask. *)
Pending(s, mask) ==
  \E j \in 1..Len(s) :
    \/ s[j] \in {"IN_MOVE", "IN_DELETE"}
    \/ s[j] = "IN_CLOSE_WRITE"
       /\ (mask \cap Changes # {} \/ \E i \in 1..j : s[i] \in Changes)

Occurs(event, s) == \E j \in 1..Len(s) : s[j] = event

(* Append by its places. *)
LEMMA Appended ==
  ASSUME NEW S, NEW s \in Seq(S), NEW e \in S
  PROVE  /\ Append(s, e) \in Seq(S)
         /\ Len(Append(s, e)) = Len(s) + 1
         /\ \A i \in 1..Len(s) : Append(s, e)[i] = s[i]
         /\ Append(s, e)[Len(s) + 1] = e
         /\ Len(s) \in Nat
  OBVIOUS

(* What is left behind a place of a sequence. *)
LEMMA Suffix ==
  ASSUME NEW S, NEW s \in Seq(S), NEW n \in 1..Len(s)
  PROVE  LET t == SubSeq(s, n + 1, Len(s)) IN
           /\ t \in Seq(S)
           /\ Len(t) = Len(s) - n
           /\ Len(s) \in Nat
           /\ \A i \in 1..Len(t) : t[i] = s[n + i]
  OBVIOUS

(* A history with one event more: what it has to tell. *)
LEMMA AppendedEvent ==
  ASSUME NEW S, NEW s \in Seq(S), NEW e \in S, NEW mask
  PROVE  /\ HasChange(Append(s, e)) <=> HasChange(s) \/ e \in Changes
         /\ Pending(Append(s, e), mask) <=>
              \/ Pending(s, mask)
              \/ e \in {"IN_MOVE", "IN_DELETE"}
              \/ e = "IN_CLOSE_WRITE" /\ (mask \cap Changes # {} \/ HasChange(s))
         /\ \A d : Occurs(d, Append(s, e)) <=> Occurs(d, s) \/ d = e
<1> DEFINE t == Append(s, e)
<1>1. /\ Len(t) = Len(s) + 1 /\ Len(s) \in Nat
      /\ \A i \in 1..Len(s) : t[i] = s[i]
      /\ t[Len(s) + 1] = e
  BY Appended
<1> HIDE DEF t
<1>2. 1..Len(t) = 1..Len(s) \cup {Len(s) + 1}
  BY <1>1
<1>3. HasChange(t) <=> HasChange(s) \/ e \in Changes
  BY <1>1, <1>2 DEF HasChange
<1>4. \A d : Occurs(d, t) <=> Occurs(d, s) \/ d = e
  BY <1>1, <1>2 DEF Occurs
<1>5. \A j \in 1..Len(s) : (\E i \in 1..j : t[i] \in Changes) <=> \E i \in 1..j : s[i] \in Changes
  BY <1>1
<1>6. (\E i \in 1..Len(s) + 1 : t[i] \in Changes) <=> HasChange(s) \/ e \in Changes
  BY <1>1 DEF HasChange
<1>7. e = "IN_CLOSE_WRITE" => e \notin Changes
  BY DEF Changes
<1>8. Pending(t, mask) <=>
        \/ Pending(s, mask)
        \/ e \in {"IN_MOVE", "IN_DELETE"}
        \/ e = "IN_CLOSE_WRITE" /\ (mask \cap Changes # {} \/ HasChange(s))
  <2> DEFINE tells(u, j) ==
         \/ u[j] \in {"IN_MOVE", "IN_DELETE"}
         \/ u[j] = "IN_CLOSE_WRITE"
            /\ (mask \cap Changes # {} \/ \E i \in 1..j : u[i] \in Changes)
  <2>1. \A j \in 1..Len(s) : tells(t, j) <=> tells(s, j)
    BY <1>1, <1>5
  <2>2. tells(t, Len(s) + 1) <=>
          \/ e \in {"IN_MOVE", "IN_DELETE"}
          \/ e = "IN_CLOSE_WRITE" /\ (mask \cap Changes # {} \/ HasChange(s))
    BY <1>1, <1>6, <1>7
  <2>3. /\ Pending(t, mask) <=> \E j \in 1..Len(t) : tells(t, j)
        /\ Pending(s, mask) <=> \E j \in 1..Len(s) : tells(s, j)
    BY DEF Pending
  <2> HIDE DEF tells
  <2>4. QED
    BY <1>2, <2>1, <2>2, <2>3
<1>9. QED
  BY <1>3, <1>4, <1>8 DEF t
-----------------------------------------------------------------------------
Events == FileEvents \cup {"neighbour"}

(* What has been read and counts: the subroutine starts with nothing. *)
ReadMask == IF pc = "subroutine" THEN {} ELSE combined_mask

(* What NoMiss needs, while the call lasts: a change is in the mask or in  *)
(* the queue, and what completes one is still in the queue, behind it.     *)
Unmissed ==
  pc # "idle" =>
    /\ HasChange(happened) => ReadMask \cap Changes # {} \/ HasChange(queue)
    /\ Pending(happened, {}) => Pending(queue, ReadMask)

(* What TrueIsEarned needs: what is read has happened, *)
Honest ==
  pc # "idle" =>
    /\ \A e \in FileEvents : Occurs(e, queue) \/ e \in ReadMask => Occurs(e, happened)

(* and without a blur, whoever closes the file has changed it. *)
Sharp ==
  ~blurred =>
    /\ pc # "idle" /\ session = "changed" => HasChange(happened)
    /\ Occurs("IN_CLOSE_WRITE", happened) => Pending(happened, {})

Bounded == session # "none" => events <= MaxEvents

WatchInv == WatchTypeOK /\ Bounded /\ Unmissed /\ Honest /\ Sharp /\ TrueIsEarned

(* A completed change is what a reader who holds nothing is still to be    *)
(* told of.                                                                *)
LEMMA CompletedIsPending == ASSUME NEW h \in Seq(FileEvents) PROVE Completed(h) <=> Pending(h, {})
BY DEF Completed, Pending

(* An event of the file, seen by a call or not. *)
LEMMA EmitStep ==
  ASSUME WatchInv, NEW e \in FileEvents, Emit(e), events <= MaxEvents
  PROVE  /\ queue' \in Seq(Events) /\ happened' \in Seq(FileEvents)
         /\ events' \in 0..MaxEvents + 1
         /\ Unmissed' /\ Honest'
         /\ pc # "idle" =>
              /\ HasChange(happened') <=> HasChange(happened) \/ e \in Changes
              /\ Pending(happened', {}) <=>
                   \/ Pending(happened, {})
                   \/ e \in {"IN_MOVE", "IN_DELETE"}
                   \/ e = "IN_CLOSE_WRITE" /\ HasChange(happened)
              /\ Occurs("IN_CLOSE_WRITE", happened') <=>
                   Occurs("IN_CLOSE_WRITE", happened) \/ e = "IN_CLOSE_WRITE"
         /\ pc = "idle" => happened' = happened
<1>1. /\ queue \in Seq(Events) /\ happened \in Seq(FileEvents) /\ e \in Events
      /\ watch <=> pc # "idle"
      /\ events \in Nat /\ MaxEvents \in Nat
      /\ Unmissed /\ Honest
  BY WatchAssumption DEF WatchInv, WatchTypeOK, Events
<1>2. /\ events' = events + 1
      /\ happened' = IF pc = "idle" THEN happened ELSE Append(happened, e)
      /\ queue' = IF watch /\ (queue = <<>> \/ queue[Len(queue)] # e)
                    THEN Append(queue, e) ELSE queue
      /\ pc' = pc /\ combined_mask' = combined_mask
  BY DEF Emit, Queued
<1>3. queue' \in Seq(Events) /\ happened' \in Seq(FileEvents) /\ events' \in 0..MaxEvents + 1
  BY <1>1, <1>2
<1>4. pc = "idle" => Unmissed' /\ Honest' /\ happened' = happened
  BY <1>2 DEF Unmissed, Honest
<1>5. ASSUME pc # "idle"
      PROVE  /\ Unmissed' /\ Honest'
             /\ HasChange(happened') <=> HasChange(happened) \/ e \in Changes
             /\ Pending(happened', {}) <=>
                  \/ Pending(happened, {})
                  \/ e \in {"IN_MOVE", "IN_DELETE"}
                  \/ e = "IN_CLOSE_WRITE" /\ HasChange(happened)
             /\ Occurs("IN_CLOSE_WRITE", happened') <=>
                  Occurs("IN_CLOSE_WRITE", happened) \/ e = "IN_CLOSE_WRITE"
  <2>1. /\ HasChange(happened') <=> HasChange(happened) \/ e \in Changes
        /\ Pending(happened', {}) <=>
             \/ Pending(happened, {})
             \/ e \in {"IN_MOVE", "IN_DELETE"}
             \/ e = "IN_CLOSE_WRITE" /\ ({} \cap Changes # {} \/ HasChange(happened))
        /\ \A d : Occurs(d, happened') <=> Occurs(d, happened) \/ d = e
    BY <1>1, <1>2, <1>5, AppendedEvent
  <2>2. /\ HasChange(happened) => ReadMask \cap Changes # {} \/ HasChange(queue)
        /\ Pending(happened, {}) => Pending(queue, ReadMask)
        /\ \A d \in FileEvents : Occurs(d, queue) \/ d \in ReadMask => Occurs(d, happened)
    BY <1>1, <1>5 DEF Unmissed, Honest
  <2>3. ReadMask' = ReadMask
    BY <1>2 DEF ReadMask
  <2>4. CASE queue' = Append(queue, e)
    <3>1. /\ HasChange(queue') <=> HasChange(queue) \/ e \in Changes
          /\ Pending(queue', ReadMask) <=>
               \/ Pending(queue, ReadMask)
               \/ e \in {"IN_MOVE", "IN_DELETE"}
               \/ e = "IN_CLOSE_WRITE" /\ (ReadMask \cap Changes # {} \/ HasChange(queue))
          /\ \A d : Occurs(d, queue') <=> Occurs(d, queue) \/ d = e
      BY <1>1, <2>4, AppendedEvent
    <3>2. Unmissed'
      BY <2>1, <2>2, <2>3, <3>1 DEF Unmissed
    <3>3. Honest'
      BY <2>1, <2>2, <2>3, <3>1 DEF Honest
    <3>4. QED
      BY <2>1, <3>2, <3>3
  <2>5. CASE queue' = queue /\ queue # <<>> /\ queue[Len(queue)] = e
    <3>1. Len(queue) \in 1..Len(queue)
      BY <1>1, <2>5
    <3>2. e \in Changes => HasChange(queue)
      BY <2>5, <3>1 DEF HasChange
    <3>3. e \in {"IN_MOVE", "IN_DELETE"} => Pending(queue, ReadMask)
      BY <2>5, <3>1 DEF Pending
    <3>4. e = "IN_CLOSE_WRITE" /\ (ReadMask \cap Changes # {} \/ HasChange(queue))
            => Pending(queue, ReadMask)
      BY <2>5, <3>1 DEF Pending, HasChange
    <3>5. Unmissed'
      BY <2>1, <2>2, <2>3, <2>5, <3>2, <3>3, <3>4 DEF Unmissed
    <3>6. Honest'
      BY <2>1, <2>2, <2>3, <2>5 DEF Honest
    <3>7. QED
      BY <2>1, <3>5, <3>6
  <2>6. QED
    BY <1>1, <1>2, <1>5, <2>4, <2>5
<1>6. QED
  BY <1>3, <1>4, <1>5
-----------------------------------------------------------------------------
(* One read that does not make the call return. *)
LEMMA ReadStep ==
  ASSUME WatchInv, pc = "poll", NEW n \in 1..Len(queue),
         LET mask == combined_mask \cup OfFile(n)
             completed == mask \cap Completions # {}
             changed == mask \cap Changes # {}
         IN /\ ~(completed /\ changed)
            /\ combined_mask' = IF completed THEN {} ELSE mask,
         pc' = "loop", queue' = SubSeq(queue, n + 1, Len(queue)), happened' = happened
  PROVE  /\ queue' \in Seq(Events) /\ combined_mask' \subseteq FileEvents
         /\ Unmissed' /\ Honest'
<1> DEFINE mask == combined_mask \cup OfFile(n)
           completed == mask \cap Completions # {}
           changed == mask \cap Changes # {}
<1>1. /\ queue \in Seq(Events) /\ happened \in Seq(FileEvents)
      /\ combined_mask \subseteq FileEvents
      /\ ReadMask = combined_mask /\ ReadMask' = combined_mask'
      /\ HasChange(happened) => combined_mask \cap Changes # {} \/ HasChange(queue)
      /\ Pending(happened, {}) => Pending(queue, combined_mask)
      /\ \A d \in FileEvents : Occurs(d, queue) \/ d \in combined_mask => Occurs(d, happened)
  <2>1. ReadMask = combined_mask /\ ReadMask' = combined_mask' /\ pc # "idle"
    BY DEF ReadMask
  <2>2. WatchTypeOK /\ Unmissed /\ Honest
    BY DEF WatchInv
  <2>3. /\ HasChange(happened) => ReadMask \cap Changes # {} \/ HasChange(queue)
        /\ Pending(happened, {}) => Pending(queue, ReadMask)
        /\ \A d \in FileEvents : Occurs(d, queue) \/ d \in ReadMask => Occurs(d, happened)
    BY <2>1, <2>2 DEF Unmissed, Honest
  <2>4. QED
    BY <2>1, <2>2, <2>3 DEF WatchTypeOK, Events
<1>2. /\ queue' \in Seq(Events)
      /\ Len(queue) \in Nat /\ Len(queue') = Len(queue) - n
      /\ \A i \in 1..Len(queue') : queue'[i] = queue[n + i]
  BY <1>1, Suffix
<1>3. \A i \in 1..Len(queue) : i > n => i - n \in 1..Len(queue') /\ queue'[i - n] = queue[i]
  BY <1>2
<1>4. /\ \A i \in 1..n : queue[i] \in FileEvents => queue[i] \in mask
      /\ \A d \in mask : d \in combined_mask \/ \E i \in 1..n : queue[i] = d /\ d # "neighbour"
  BY DEF OfFile, FileEvents, Changes, Completions
<1>5. \A i \in 1..Len(queue) : queue[i] # "neighbour" => queue[i] \in FileEvents
  BY <1>1 DEF Events
<1>6. mask \subseteq FileEvents
  BY <1>1, <1>2, <1>4, <1>5
<1>7. ~(completed /\ changed) /\ combined_mask' = IF completed THEN {} ELSE mask
  OBVIOUS
<1> HIDE DEF mask
<1>8. \A d \in FileEvents : Occurs(d, queue') \/ d \in combined_mask' => Occurs(d, happened)
  <2>1. \A d : Occurs(d, queue') => Occurs(d, queue)
    BY <1>2 DEF Occurs
  <2>2. \A d \in mask : d \in combined_mask \/ Occurs(d, queue)
    BY <1>2, <1>4 DEF Occurs
  <2>3. QED
    BY <1>1, <1>7, <2>1, <2>2
<1>9. changed => combined_mask' \cap Changes # {}
  BY <1>7
<1>10. combined_mask \subseteq mask
  BY DEF mask
<1>11. \A i \in 1..n : queue[i] \in Changes => changed
  BY <1>4 DEF FileEvents
<1>12. HasChange(queue) => changed \/ HasChange(queue')
  <2>1. SUFFICES ASSUME HasChange(queue), ~changed PROVE HasChange(queue')
    OBVIOUS
  <2>2. PICK i \in 1..Len(queue) : queue[i] \in Changes
    BY <2>1 DEF HasChange
  <2>3. i > n
    BY <1>2, <1>11, <2>1, <2>2
  <2>4. i - n \in 1..Len(queue') /\ queue'[i - n] \in Changes
    BY <1>3, <2>2, <2>3
  <2>5. QED
    BY <2>4 DEF HasChange
<1>13. HasChange(happened) => combined_mask' \cap Changes # {} \/ HasChange(queue')
  BY <1>1, <1>9, <1>10, <1>12
<1>14. ASSUME Pending(queue, combined_mask) PROVE Pending(queue', combined_mask')
  <2>1. PICK j \in 1..Len(queue) :
          \/ queue[j] \in {"IN_MOVE", "IN_DELETE"}
          \/ queue[j] = "IN_CLOSE_WRITE"
             /\ (combined_mask \cap Changes # {} \/ \E i \in 1..j : queue[i] \in Changes)
    BY <1>14 DEF Pending
  <2>2. j > n
    <3>1. SUFFICES ASSUME j \in 1..n PROVE FALSE
      BY <1>2
    <3>2. queue[j] \in FileEvents /\ queue[j] \in Completions
      BY <2>1 DEF FileEvents, Completions
    <3>3. completed
      BY <1>4, <3>1, <3>2
    <3>4. queue[j] \in {"IN_MOVE", "IN_DELETE"} => changed
      BY <1>11, <3>1 DEF Changes
    <3>5. combined_mask \cap Changes # {} => changed
      BY <1>10
    <3>6. (\E i \in 1..j : queue[i] \in Changes) => changed
      BY <1>11, <3>1
    <3>7. QED
      BY <1>7, <2>1, <3>3, <3>4, <3>5, <3>6
  <2>3. j - n \in 1..Len(queue') /\ queue'[j - n] = queue[j]
    BY <1>3, <2>2
  <2>4. CASE queue[j] \in {"IN_MOVE", "IN_DELETE"}
    BY <2>3, <2>4 DEF Pending
  <2>5. CASE changed /\ queue[j] = "IN_CLOSE_WRITE"
    BY <1>9, <2>3, <2>5 DEF Pending
  <2>6. CASE queue[j] = "IN_CLOSE_WRITE" /\ ~changed
    <3>1. PICK i \in 1..j : queue[i] \in Changes
      BY <1>10, <2>1, <2>6
    <3>2. i > n
      BY <1>11, <2>6, <3>1
    <3>3. i - n \in 1..(j - n) /\ queue'[i - n] \in Changes
      BY <1>2, <1>3, <3>1, <3>2
    <3>4. QED
      BY <2>3, <2>6, <3>3 DEF Pending
  <2>7. QED
    BY <2>1, <2>4, <2>5, <2>6
<1>15. combined_mask' \subseteq FileEvents
  BY <1>6, <1>7
<1>16. QED
  BY <1>1, <1>2, <1>8, <1>13, <1>14, <1>15 DEF Unmissed, Honest
-----------------------------------------------------------------------------
(* Nothing occurs in an empty queue. *)
LEMMA EmptyQueue ==
  ASSUME NEW mask
  PROVE  /\ ~HasChange(<<>>) /\ ~Pending(<<>>, mask)
         /\ \A d : ~Occurs(d, <<>>)
BY DEF HasChange, Pending, Occurs

(* The steps of the file system keep the invariant. *)
LEMMA FileStep ==
  ASSUME WatchInv, Open \/ Write \/ Close \/ Move \/ Delete \/ Neighbour
  PROVE  WatchInv'
<1>1. /\ WatchTypeOK /\ Bounded /\ Unmissed /\ Honest /\ Sharp /\ TrueIsEarned
      /\ MaxEvents \in Nat
  BY WatchAssumption DEF WatchInv
<1>2. ASSUME NEW e \in FileEvents, Emit(e), events <= MaxEvents,
             exists' \in BOOLEAN, blurred' \in BOOLEAN, blurred => blurred',
             session' \in {"none", "clean", "changed"},
             session' # "none" => events < MaxEvents,
             session' = "changed" => e \in Changes,
             e = "IN_CLOSE_WRITE" /\ ~blurred' => session = "changed"
      PROVE  WatchInv'
  <2>1. /\ queue' \in Seq(Events) /\ happened' \in Seq(FileEvents)
        /\ events' \in 0..MaxEvents + 1
        /\ Unmissed' /\ Honest'
        /\ pc # "idle" =>
             /\ HasChange(happened') <=> HasChange(happened) \/ e \in Changes
             /\ Pending(happened', {}) <=>
                  \/ Pending(happened, {})
                  \/ e \in {"IN_MOVE", "IN_DELETE"}
                  \/ e = "IN_CLOSE_WRITE" /\ HasChange(happened)
             /\ Occurs("IN_CLOSE_WRITE", happened') <=>
                  Occurs("IN_CLOSE_WRITE", happened) \/ e = "IN_CLOSE_WRITE"
        /\ pc = "idle" => happened' = happened
    BY <1>2, EmitStep
  <2>2. /\ events' = events + 1
        /\ UNCHANGED <<watch, pc, result, combined_mask, clock, watches>>
    BY <1>2 DEF Emit
  <2>3. WatchTypeOK' /\ Bounded'
    BY <1>1, <1>2, <2>1, <2>2 DEF WatchTypeOK, Bounded, Events
  <2>4. Sharp'
    <3>1. CASE pc = "idle"
      BY <1>1, <1>2, <2>1, <2>2, <3>1 DEF Sharp
    <3>2. CASE pc # "idle"
      BY <1>1, <1>2, <2>1, <2>2, <3>2 DEF Sharp
    <3>3. QED
      BY <3>1, <3>2
  <2>5. TrueIsEarned'
    <3>1. happened \in Seq(FileEvents)
      BY <1>1 DEF WatchTypeOK
    <3>2. Completed(happened) <=> Pending(happened, {})
      BY <3>1, CompletedIsPending
    <3>3. Completed(happened') <=> Pending(happened', {})
      BY <2>1, CompletedIsPending
    <3>4. Pending(happened, {}) => Pending(happened', {})
      BY <2>1, <2>2 DEF WatchTypeOK
    <3>5. QED
      BY <1>1, <1>2, <2>2, <3>2, <3>3, <3>4 DEF TrueIsEarned
  <2>6. QED
    BY <2>1, <2>3, <2>4, <2>5 DEF WatchInv
<1>3. {"IN_CREATE", "IN_MODIFY", "IN_MOVE", "IN_DELETE", "IN_CLOSE_WRITE"} \subseteq FileEvents
      /\ {"IN_CREATE", "IN_MODIFY", "IN_MOVE", "IN_DELETE"} \subseteq Changes
  BY DEF FileEvents, Changes, Completions
<1>4. session # "none" => events <= MaxEvents
  BY <1>1 DEF Bounded
<1>5. exists \in BOOLEAN /\ blurred \in BOOLEAN /\ events \in Nat
      /\ session \in {"none", "clean", "changed"}
  BY <1>1 DEF WatchTypeOK
<1>6. CASE Open
  <2>1. CASE exists
    BY <1>1, <1>6, <2>1 DEF Open, WatchInv, WatchTypeOK, Bounded, Unmissed, Honest, Sharp,
                            TrueIsEarned, ReadMask
  <2>2. CASE ~exists
    <3>1. /\ Emit("IN_CREATE") /\ events <= MaxEvents /\ events < MaxEvents
          /\ exists' \in BOOLEAN /\ blurred' = blurred
          /\ session' \in {"none", "clean", "changed"}
      BY <1>1, <1>5, <1>6, <2>2 DEF Open
    <3>2. QED
      BY <1>2, <1>3, <1>5, <3>1
  <2>3. QED
    BY <2>1, <2>2
<1>7. CASE Write
  <2>1. /\ Emit("IN_MODIFY") /\ events <= MaxEvents /\ events < MaxEvents
        /\ exists' \in BOOLEAN /\ blurred' = blurred
        /\ session' \in {"none", "clean", "changed"}
    BY <1>1, <1>5, <1>7 DEF Write
  <2>2. QED
    BY <1>2, <1>3, <1>5, <2>1
<1>8. CASE Close
  BY <1>2, <1>3, <1>4, <1>5, <1>8 DEF Close
<1>9. CASE Move
  <2>1. /\ Emit("IN_MOVE") /\ events <= MaxEvents /\ events < MaxEvents
        /\ exists' \in BOOLEAN /\ blurred' = blurred
        /\ session' \in {"none", "clean", "changed"}
    BY <1>1, <1>5, <1>9 DEF Move
  <2>2. QED
    BY <1>2, <1>3, <1>5, <2>1
<1>10. CASE Delete
  <2>1. /\ Emit("IN_DELETE") /\ events <= MaxEvents /\ events < MaxEvents
        /\ exists' \in BOOLEAN /\ blurred' = blurred
        /\ session' \in {"none", "clean", "changed"}
    <3>1. /\ events < MaxEvents /\ Emit("IN_DELETE")
          /\ exists' \in BOOLEAN /\ blurred' = blurred /\ session' = "none"
      BY <1>10, Zenon DEF Delete
    <3>2. QED
      BY <1>1, <1>5, <3>1
  <2>2. QED
    BY <1>2, <1>3, <1>5, <2>1
<1>11. CASE Neighbour
  <2>1. /\ events < MaxEvents /\ events' = events + 1
        /\ queue' = queue \/ queue' = Append(queue, "neighbour")
        /\ UNCHANGED <<exists, session, watch, pc, result, combined_mask, clock, watches,
                       happened, blurred>>
    BY <1>11 DEF Neighbour, Queued
  <2>2. queue \in Seq(Events) /\ "neighbour" \in Events /\ "neighbour" \notin FileEvents
    BY <1>1 DEF WatchTypeOK, Events, FileEvents, Changes, Completions
  <2>3. /\ HasChange(queue) => HasChange(queue')
        /\ Pending(queue, ReadMask) => Pending(queue', ReadMask)
        /\ \A d \in FileEvents : Occurs(d, queue') => Occurs(d, queue)
        /\ queue' \in Seq(Events)
    <3>1. CASE queue' = queue
      BY <2>2, <3>1
    <3>2. CASE queue' = Append(queue, "neighbour")
      <4>1. /\ HasChange(queue) => HasChange(Append(queue, "neighbour"))
            /\ Pending(queue, ReadMask) => Pending(Append(queue, "neighbour"), ReadMask)
            /\ \A d : Occurs(d, Append(queue, "neighbour")) => Occurs(d, queue) \/ d = "neighbour"
        BY <2>2, AppendedEvent
      <4>2. Append(queue, "neighbour") \in Seq(Events)
        BY <2>2
      <4>3. QED
        BY <2>2, <3>2, <4>1, <4>2
    <3>3. QED
      BY <2>1, <3>1, <3>2
  <2>4. ReadMask' = ReadMask
    BY <2>1 DEF ReadMask
  <2>5. WatchTypeOK' /\ Bounded'
    BY <1>1, <1>5, <2>1, <2>3 DEF WatchTypeOK, Bounded, Events
  <2>6. Unmissed' /\ Honest'
    BY <1>1, <2>1, <2>3, <2>4 DEF Unmissed, Honest
  <2>7. Sharp' /\ TrueIsEarned'
    BY <1>1, <2>1 DEF Sharp, TrueIsEarned
  <2>8. QED
    BY <2>5, <2>6, <2>7 DEF WatchInv
<1>12. QED
  BY <1>6, <1>7, <1>8, <1>9, <1>10, <1>11
-----------------------------------------------------------------------------
(* A call that returns leaves everything of its type. *)
LEMMA Closed ==
  ASSUME WatchTypeOK, Bounded,
         pc' = "idle", watch' = FALSE, queue' = <<>>, result' \in {"true", "false", "threw"},
         combined_mask' \subseteq FileEvents,
         UNCHANGED <<exists, session, clock, watches, happened, events, blurred>>
  PROVE  WatchTypeOK' /\ Bounded'
<1>1. {exists', watch', blurred'} \subseteq BOOLEAN
  <2>1. exists' \in BOOLEAN /\ blurred' \in BOOLEAN
    BY DEF WatchTypeOK
  <2>2. watch' \in BOOLEAN
    OBVIOUS
  <2>3. QED
    BY <2>1, <2>2
<1>2. queue' \in Seq(FileEvents \cup {"neighbour"})
  OBVIOUS
<1>3. watch' <=> pc' # "idle"
  OBVIOUS
<1>4. QED
  BY <1>1, <1>2, <1>3 DEF WatchTypeOK, Bounded

(* The steps of WatchFile itself keep it too. *)
LEMMA WaitStep ==
  ASSUME WatchInv, Call \/ StartWaiting \/ Throws \/ Tick \/ PollTimesOut \/ Read \/ Loop
  PROVE  WatchInv'
<1>1. /\ WatchTypeOK /\ Bounded /\ Unmissed /\ Honest /\ Sharp /\ TrueIsEarned
      /\ MaxEvents \in Nat /\ Timeout \in Nat /\ MaxWatches \in Nat
  BY WatchAssumption DEF WatchInv
<1>2. CASE Call
  <2>1. WatchTypeOK' /\ Bounded'
    BY <1>1, <1>2 DEF Call, WatchTypeOK, Bounded
  <2>2. /\ pc' = "subroutine" /\ result' = "none"
        /\ happened' = <<>> /\ queue' = <<>> /\ session' = session
        /\ blurred' = (session # "none")
    BY <1>2 DEF Call
  <2>3. Unmissed' /\ Honest'
    BY <2>2, EmptyQueue DEF Unmissed, Honest, ReadMask
  <2>4. Sharp' /\ TrueIsEarned'
    BY <2>2, EmptyQueue DEF Sharp, TrueIsEarned
  <2>5. QED
    BY <2>1, <2>3, <2>4 DEF WatchInv
<1>3. CASE StartWaiting
  <2>1. WatchTypeOK' /\ Bounded'
    BY <1>1, <1>3 DEF StartWaiting, WatchTypeOK, Bounded
  <2>2. /\ ReadMask' = ReadMask /\ pc # "idle"
        /\ UNCHANGED <<happened, queue, session, blurred, result>>
    BY <1>3 DEF StartWaiting, ReadMask
  <2>3. Unmissed' /\ Honest'
    BY <1>1, <2>2 DEF Unmissed, Honest
  <2>4. Sharp' /\ TrueIsEarned'
    BY <1>1, <2>2 DEF Sharp, TrueIsEarned
  <2>5. QED
    BY <2>1, <2>3, <2>4 DEF WatchInv
<1>4. CASE Tick
  <2>1. WatchTypeOK' /\ Bounded'
    BY <1>1, <1>4 DEF Tick, WatchTypeOK, Bounded
  <2>2. /\ ReadMask' = ReadMask /\ pc' = pc
        /\ UNCHANGED <<happened, queue, session, blurred, result>>
    BY <1>4 DEF Tick, ReadMask
  <2>3. Unmissed' /\ Honest' /\ Sharp' /\ TrueIsEarned'
    BY <1>1, <2>2 DEF Unmissed, Honest, Sharp, TrueIsEarned
  <2>4. QED
    BY <2>1, <2>3 DEF WatchInv
<1>5. CASE PollTimesOut
  <2>1. WatchTypeOK' /\ Bounded'
    BY <1>1, <1>5 DEF PollTimesOut, WatchTypeOK, Bounded
  <2>2. /\ ReadMask' = ReadMask /\ pc # "idle"
        /\ UNCHANGED <<happened, queue, session, blurred, result>>
    BY <1>5 DEF PollTimesOut, ReadMask
  <2>3. Unmissed' /\ Honest' /\ Sharp' /\ TrueIsEarned'
    BY <1>1, <2>2 DEF Unmissed, Honest, Sharp, TrueIsEarned
  <2>4. QED
    BY <2>1, <2>3 DEF WatchInv
<1>6. CASE Loop
  <2>1. CASE pc' = "poll" /\ UNCHANGED <<queue, watch, result>>
    <3>1. WatchTypeOK' /\ Bounded'
      BY <1>1, <1>6, <2>1 DEF Loop, TimeRemains, WatchTypeOK, Bounded
    <3>2. /\ ReadMask' = ReadMask /\ pc # "idle"
          /\ UNCHANGED <<happened, queue, session, blurred, result>>
      BY <1>6, <2>1 DEF Loop, TimeRemains, ReadMask
    <3>3. Unmissed' /\ Honest' /\ Sharp' /\ TrueIsEarned'
      BY <1>1, <3>2 DEF Unmissed, Honest, Sharp, TrueIsEarned
    <3>4. QED
      BY <3>1, <3>3 DEF WatchInv
  <2>2. CASE Returns("false")
    <3>1. WatchTypeOK' /\ Bounded'
      <4>1. pc' = "idle" /\ watch' = FALSE /\ queue' = <<>> /\ result' = "false"
        BY <2>2 DEF Returns
      <4>2. UNCHANGED <<exists, session, combined_mask, clock, watches, happened, events, blurred>>
        BY <1>6 DEF Loop, TimeRemains
      <4>3. combined_mask' \subseteq FileEvents
        BY <1>1, <4>2 DEF WatchTypeOK
      <4>4. result' \in {"true", "false", "threw"}
        BY <4>1
      <4>5. QED
        BY <1>1, <4>1, <4>2, <4>3, <4>4, Closed
    <3>2. /\ pc' = "idle" /\ pc # "idle" /\ result' = "false"
          /\ UNCHANGED <<happened, session, blurred>>
      BY <1>6, <2>2 DEF Loop, TimeRemains, Returns
    <3>3. Unmissed' /\ Honest' /\ Sharp' /\ TrueIsEarned'
      BY <1>1, <3>2 DEF Unmissed, Honest, Sharp, TrueIsEarned
    <3>4. QED
      BY <3>1, <3>3 DEF WatchInv
  <2>3. QED
    BY <1>6, <2>1, <2>2 DEF Loop, TimeRemains
<1>7. CASE Read
  <2> USE DEF Combined, Completes
  <2> DEFINE mask(n) == Combined(n)
             completed(n) == Completes(mask(n))
             changed(n) == mask(n) \cap Changes # {}
  <2>1. PICK n \in DOMAIN queue \cap (1..Capacity) :
          IF completed(n) /\ changed(n)
            THEN Returns("true") /\ combined_mask' = mask(n)
            ELSE /\ pc' = "loop"
                 /\ queue' = SubSeq(queue, n + 1, Len(queue))
                 /\ combined_mask' = IF completed(n) THEN {} ELSE mask(n)
                 /\ UNCHANGED <<result, watch>>
    BY <1>7 DEF Read
  <2>2. /\ pc = "poll"
        /\ UNCHANGED <<exists, session, clock, watches, happened, events, blurred>>
    BY <1>7 DEF Read
  <2>3. queue \in Seq(Events) /\ happened \in Seq(FileEvents) /\ n \in 1..Len(queue)
    BY <1>1 DEF WatchTypeOK, Events
  <2>4. CASE completed(n) /\ changed(n)
    <3>1. /\ pc' = "idle" /\ result' = "true" /\ watch' = FALSE /\ queue' = <<>>
          /\ combined_mask' = mask(n)
      BY <2>1, <2>4 DEF Returns
    <3>2. \A d \in mask(n) : d \in combined_mask \/ (Occurs(d, queue) /\ d \in FileEvents)
      BY <2>3 DEF OfFile, Occurs, Events
    <3>3. \A d \in mask(n) : d \in FileEvents /\ Occurs(d, happened)
      BY <1>1, <2>2, <3>2 DEF WatchTypeOK, Honest, ReadMask
    <3>4. PICK d \in Completions : Occurs(d, happened)
      BY <2>4, <3>3
    <3>5. d \in {"IN_MOVE", "IN_DELETE"} => Pending(happened, {})
      BY <3>4 DEF Occurs, Pending
    <3>6. ~blurred => Pending(happened, {})
      BY <1>1, <3>4, <3>5 DEF Sharp, Completions
    <3>7. TrueIsEarned'
      BY <2>2, <2>3, <3>6, CompletedIsPending DEF TrueIsEarned
    <3>8. Unmissed' /\ Honest' /\ Sharp'
      BY <1>1, <2>2, <3>1 DEF Unmissed, Honest, Sharp
    <3>9. WatchTypeOK' /\ Bounded'
      <4>1. combined_mask' \subseteq FileEvents
        BY <3>1, <3>3
      <4> HIDE DEF mask
      <4>2. QED
        BY <1>1, <2>2, <3>1, <4>1, Closed
    <3>10. QED
      BY <3>7, <3>8, <3>9 DEF WatchInv
  <2>5. CASE ~(completed(n) /\ changed(n))
    <3>1. /\ pc' = "loop"
          /\ queue' = SubSeq(queue, n + 1, Len(queue))
          /\ combined_mask' = IF completed(n) THEN {} ELSE mask(n)
          /\ UNCHANGED <<result, watch>>
      BY <2>1, <2>5
    <3>2. /\ queue' \in Seq(Events) /\ combined_mask' \subseteq FileEvents
          /\ Unmissed' /\ Honest'
      BY <2>2, <2>3, <2>5, <3>1, ReadStep
    <3>3. WatchTypeOK' /\ Bounded'
      <4>1. UNCHANGED <<result, watch>> /\ pc' = "loop"
        BY <3>1
      <4>2. QED
        BY <1>1, <2>2, <3>2, <4>1 DEF WatchTypeOK, Bounded, Events
    <3>4. Sharp' /\ TrueIsEarned'
      <4>1. UNCHANGED <<result, session, blurred, happened>> /\ pc # "idle"
        BY <2>2, <3>1
      <4>2. QED
        BY <1>1, <4>1 DEF Sharp, TrueIsEarned
    <3>5. QED
      BY <3>2, <3>3, <3>4 DEF WatchInv
  <2>6. QED
    BY <2>4, <2>5
<1>8. CASE Throws
  <2>1. /\ pc' = "idle" /\ watch' = FALSE /\ queue' = <<>> /\ result' = "threw"
        /\ UNCHANGED <<exists, session, combined_mask, clock, watches, happened, events, blurred>>
    BY <1>8 DEF Throws, Returns
  <2>2. combined_mask' \subseteq FileEvents
    BY <1>1, <2>1 DEF WatchTypeOK
  <2>3. WatchTypeOK' /\ Bounded'
    BY <1>1, <2>1, <2>2, Closed
  <2>4. pc # "idle"
    BY <1>8 DEF Throws
  <2>5. Unmissed' /\ Honest' /\ Sharp' /\ TrueIsEarned'
    BY <1>1, <2>1, <2>4 DEF Unmissed, Honest, Sharp, TrueIsEarned
  <2>6. QED
    BY <2>3, <2>5 DEF WatchInv
<1>9. QED
  BY <1>2, <1>3, <1>4, <1>5, <1>6, <1>7, <1>8

(* The invariant of the watch holds always. *)
LEMMA WatchAlways == Spec => []WatchInv
<1>1. Init => WatchInv
  <2> SUFFICES ASSUME WatchInit PROVE WatchInv
    BY DEF Init
  <2>1. WatchTypeOK /\ Bounded
    <3>1. exists \in BOOLEAN /\ watch \in BOOLEAN /\ blurred \in BOOLEAN
      BY DEF WatchInit
    <3>2. /\ session = "none" /\ queue = <<>> /\ happened = <<>> /\ combined_mask = {}
          /\ pc = "idle" /\ result = "none" /\ clock = 0 /\ watches = 0 /\ events = 0
          /\ (watch <=> pc # "idle")
      BY DEF WatchInit
    <3>3. clock \in 0..Timeout + 1 /\ watches \in 0..MaxWatches /\ events \in 0..MaxEvents + 1
      BY <3>2, WatchAssumption
    <3>4. queue \in Seq(FileEvents \cup {"neighbour"}) /\ happened \in Seq(FileEvents)
      BY <3>2
    <3>5. {exists, watch, blurred} \subseteq BOOLEAN
      BY <3>1
    <3>6. QED
      BY <3>2, <3>3, <3>4, <3>5 DEF WatchTypeOK, Bounded
  <2>2. Unmissed /\ Honest /\ Sharp /\ TrueIsEarned
    BY EmptyQueue DEF WatchInit, Unmissed, Honest, Sharp, TrueIsEarned
  <2>3. QED
    BY <2>1, <2>2 DEF WatchInv
<1>2. WatchInv /\ [Next]_vars => WatchInv'
  <2> SUFFICES ASSUME WatchInv, [Next]_vars PROVE WatchInv'
    OBVIOUS
  <2>1. CASE WatchNext
    BY <2>1, FileStep, WaitStep DEF WatchNext
  <2>2. CASE UNCHANGED watchVars
    BY <2>2 DEF watchVars, WatchInv, WatchTypeOK, Bounded, Unmissed, Honest, Sharp,
                TrueIsEarned, ReadMask
  <2>3. QED
    BY <2>1, <2>2, Split DEF vars
<1>3. QED
  BY <1>1, <1>2, PTL DEF Spec

(* Type correctness of the bench. *)
THEOREM Typing == Spec => []TypeOK
<1>1. ProcessInv /\ WatchInv => TypeOK
  BY DEF ProcessInv, WatchInv, TypeOK
<1>2. QED
  BY <1>1, ProcessAlways, WatchAlways, PTL

(* WatchFile returns true only for a change that was completed since the   *)
(* call, for any timeout, any number of events and any size of the buffer. *)
THEOREM Earned == Spec => []TrueIsEarned
<1>1. WatchInv => TrueIsEarned
  BY DEF WatchInv
<1>2. QED
  BY <1>1, WatchAlways, PTL

(* And it returns false only if no change was completed that it had read,  *)
(* in however many pieces. *)
THEOREM MissesNothing == Spec => NoMiss
<1>1. WatchInv /\ [Next]_vars =>
        [result # "false" /\ result' = "false" => queue # <<>> \/ ~Completed(happened)]_vars
  <2> SUFFICES ASSUME WatchInv, Next, result # "false", result' = "false", queue = <<>>
               PROVE  ~Completed(happened)
    BY DEF vars
  <2>1. WatchTypeOK /\ Unmissed
    BY DEF WatchInv
  <2>2. Loop
    <3>1. WatchNext \/ UNCHANGED watchVars
      BY Split
    <3>2. ~Read
      BY DEF Read
    <3>3. QED
      BY <3>1, <3>2 DEF watchVars, WatchNext, Open, Write, Close, Move, Delete, Emit, Neighbour,
                        Call, StartWaiting, Throws, Returns, Tick, PollTimesOut, Loop
  <2>3. pc # "idle"
    BY <2>2 DEF Loop, TimeRemains
  <2>4. ~Pending(happened, {})
    BY <2>1, <2>3, EmptyQueue DEF Unmissed
  <2>5. QED
    BY <2>1, <2>4, CompletedIsPending DEF WatchTypeOK
<1>2. QED
  BY <1>1, WatchAlways, PTL DEF Spec, NoMiss
=============================================================================
